--------------------------- MODULE PartData_proofs ---------------------------
(***************************************************************************)
(* Proofs about PartData, for every file and any number of clients.        *)
(*                                                                         *)
(* First what holds through any number of faults, rehashes and commands:   *)
(* locks exclude each other, the counts of jobs under way are exact, and   *)
(* every variable keeps its type; in particular every entry of the buffer  *)
(* begins in the file and what a flush writes comes from the buffer or the *)
(* disk.                                                                   *)
(*                                                                         *)
(* Then the data: no byte is lost between a write and the disk, what is    *)
(* verified is good, a completed file is kept, a lock is completed by its  *)
(* own client only, and the chunk map agrees with the range lists.  Most   *)
(* of this is so only while the disk has not failed and nobody asked for a *)
(* rehash ("Undisturbed"): a flush that throws leaves its data in the      *)
(* buffer behind a hash job that has been posted, and a rehash hashes      *)
(* chunks that are not complete.                                           *)
(***************************************************************************)
EXTENDS PartData, FiniteSetTheorems, SequenceTheorems, WellFoundedInduction, TLAPS

-----------------------------------------------------------------------------
(* Counting the jobs of one kind in a sequence.                              *)

\* The positions of a sequence that hold a job of this kind.
Where(kind, q) == {i \in DOMAIN q : q[i].kind = kind}

\* A count is a natural number.
LEMMA JobsOfType ==
  ASSUME NEW S, NEW q \in Seq(S), NEW kind
  PROVE  /\ IsFiniteSet(Where(kind, q))
         /\ JobsOf(kind, q) = Cardinality(Where(kind, q))
         /\ JobsOf(kind, q) \in Nat
<1>1. DOMAIN q = 1..Len(q) /\ Len(q) \in Nat
  OBVIOUS
<1>2. IsFiniteSet(1..Len(q))
  BY <1>1, FS_Interval
<1>3. Where(kind, q) \subseteq 1..Len(q)
  BY <1>1 DEF Where
<1>4. QED
  BY <1>2, <1>3, FS_Subset, FS_CardinalityType DEF Where, JobsOf

\* The count of a sequence put together of two is the sum of their counts.
LEMMA JobsOfConcat ==
  ASSUME NEW S, NEW q \in Seq(S), NEW r \in Seq(S), NEW kind
  PROVE  JobsOf(kind, q \o r) = JobsOf(kind, q) + JobsOf(kind, r)
<1> DEFINE n == Len(q)
           A == Where(kind, q)
           B == {i \in Nat : i - n \in Where(kind, r)}
           f == [i \in Where(kind, r) |-> i + n]
<1>1. /\ q \o r \in Seq(S) /\ n \in Nat /\ Len(r) \in Nat
      /\ DOMAIN q = 1..n /\ DOMAIN r = 1..Len(r) /\ DOMAIN (q \o r) = 1..(n + Len(r))
      /\ \A i \in 1..(n + Len(r)) : (q \o r)[i] = IF i <= n THEN q[i] ELSE r[i - n]
  BY ConcatProperties
<1>2. Where(kind, q \o r) = A \cup B
  BY <1>1 DEF Where
<1>3. A \cap B = {}
  BY <1>1 DEF Where
<1>4. f \in Bijection(Where(kind, r), B)
  <2>1. \A i \in Where(kind, r) : i \in Nat /\ f[i] = i + n /\ f[i] \in B
    BY <1>1 DEF Where
  <2>2. \A i \in B : i - n \in Where(kind, r) /\ f[i - n] = i
    BY <1>1 DEF Where
  <2>3. QED BY <2>1, <2>2, <1>1 DEF Bijection, Injection, Surjection, IsInjective
<1>5. IsFiniteSet(B) /\ Cardinality(B) = Cardinality(Where(kind, r))
  <2>1. IsFiniteSet(Where(kind, r))
    BY JobsOfType
  <2>2. ExistsBijection(Where(kind, r), B)
    BY <1>4, Zenon DEF ExistsBijection
  <2> HIDE DEF B
  <2>3. QED BY <2>1, <2>2, FS_Bijection
<1>6. Cardinality(A \cup B) = Cardinality(A) + Cardinality(B)
  <2>1. Cardinality(A \cap B) = 0
    BY <1>3, FS_EmptySet
  <2>2. IsFiniteSet(A) /\ Cardinality(A) \in Nat /\ Cardinality(B) \in Nat
    BY JobsOfType, <1>5, FS_CardinalityType
  <2>3. Cardinality(A \cup B) = Cardinality(A) + Cardinality(B) - Cardinality(A \cap B)
    BY <1>5, <2>2, FS_Union
  <2>4. QED BY <2>1, <2>2, <2>3
<1>7. QED
  BY <1>1, <1>2, <1>5, <1>6, JobsOfType

\* A sequence of one job.
LEMMA JobsOfOne ==
  ASSUME NEW j, NEW kind
  PROVE  JobsOf(kind, <<j>>) = Count(j.kind = kind)
<1>1. DOMAIN <<j>> = {1} /\ <<j>>[1] = j
  OBVIOUS
<1>2. Where(kind, <<j>>) = IF j.kind = kind THEN {1} ELSE {}
  BY <1>1 DEF Where
<1>3. Cardinality({1}) = 1 /\ Cardinality({}) = 0
  BY FS_Singleton, FS_EmptySet
<1>4. QED
  BY <1>2, <1>3 DEF Where, JobsOf, Count

\* Where all are of one kind, all are counted for it, and none for another.
LEMMA JobsOfAll ==
  ASSUME NEW S, NEW q \in Seq(S), NEW kind, NEW other, other # kind,
         \A i \in DOMAIN q : q[i].kind = kind
  PROVE  JobsOf(kind, q) = Len(q) /\ JobsOf(other, q) = 0
<1>1. Where(kind, q) = 1..Len(q) /\ Where(other, q) = {} /\ Len(q) \in Nat
  BY DEF Where
<1>2. Cardinality(1..Len(q)) = Len(q)
  BY <1>1, FS_Interval
<1>3. QED BY <1>1, <1>2, FS_EmptySet DEF Where, JobsOf

\* The first job of a queue is counted apart from the others.
LEMMA JobsOfTail ==
  ASSUME NEW S, NEW q \in Seq(S), q # <<>>, NEW kind
  PROVE  /\ Tail(q) \in Seq(S)
         /\ JobsOf(kind, q) = Count(Head(q).kind = kind) + JobsOf(kind, Tail(q))
<1>1. q = <<Head(q)>> \o Tail(q) /\ Tail(q) \in Seq(S) /\ <<Head(q)>> \in Seq(S)
  BY HeadTailProperties
<1>2. JobsOf(kind, <<Head(q)>> \o Tail(q)) = JobsOf(kind, <<Head(q)>>) + JobsOf(kind, Tail(q))
  BY <1>1, JobsOfConcat
<1>3. QED BY <1>1, <1>2, JobsOfOne

\* Appending one or more jobs of one kind leaves the jobs in front where they are.
LEMMA ConcatOrder ==
  ASSUME NEW S, NEW q \in Seq(S), NEW r \in Seq(S), NEW kind,
         \A i \in DOMAIN r : r[i].kind = kind
  PROVE  \A i \in DOMAIN (q \o r) :
            \/ i \in DOMAIN q /\ (q \o r)[i] = q[i]
            \/ i \notin DOMAIN q /\ (q \o r)[i].kind = kind
<1>1. /\ Len(q) \in Nat /\ Len(r) \in Nat /\ DOMAIN q = 1..Len(q) /\ DOMAIN r = 1..Len(r)
      /\ DOMAIN (q \o r) = 1..(Len(q) + Len(r))
      /\ \A i \in 1..(Len(q) + Len(r)) : (q \o r)[i] = IF i <= Len(q) THEN q[i] ELSE r[i - Len(q)]
  BY ConcatProperties
<1>2. ASSUME NEW i \in 1..(Len(q) + Len(r)), ~(i <= Len(q))
      PROVE  i - Len(q) \in DOMAIN r
  BY <1>1, <1>2
<1>3. QED BY <1>1, <1>2

\* A kind that is not counted is not there.
LEMMA JobsOfNone ==
  ASSUME NEW S, NEW q \in Seq(S), NEW kind, JobsOf(kind, q) = 0
  PROVE  \A i \in DOMAIN q : q[i].kind # kind
<1>1. Where(kind, q) = {}
  BY JobsOfType, FS_EmptySet
<1>2. QED BY <1>1 DEF Where

\* A kind that is there is counted.
LEMMA JobsOfSome ==
  ASSUME NEW S, NEW q \in Seq(S), NEW kind, \A i \in DOMAIN q : q[i].kind # kind
  PROVE  JobsOf(kind, q) = 0
<1>1. Where(kind, q) = {}
  BY DEF Where
<1>2. QED BY <1>1, JobsOfType, FS_EmptySet

\* The empty queue.
LEMMA JobsOfEmpty == ASSUME NEW kind PROVE JobsOf(kind, <<>>) = 0
<1>1. <<>> \in Seq({}) /\ DOMAIN <<>> = {}
  OBVIOUS
<1>2. QED BY <1>1, JobsOfSome

-----------------------------------------------------------------------------
(* Locks.                                                                    *)

LockInv == lock \in [Clients -> SUBSET Pos] /\ LocksExclusive

\* A lock is made of bytes of the file that are not locked.
LEMMA FreeRunFree ==
  ASSUME NEW k, NEW size
  PROVE  FreeRun(k, size) \subseteq Pos /\ FreeRun(k, size) \cap locked = {}
BY DEF FreeRun, Blocked, Points

\* The locks change only when a client takes or gives up one.
LEMMA StepLockInv == LockInv /\ [Next]_vars => LockInv'
<1> SUFFICES ASSUME LockInv, [Next]_vars PROVE LockInv'
  OBVIOUS
<1> USE DEF LockInv, LocksExclusive
<1>1. ASSUME NEW c \in Clients, GetLock(c) PROVE LockInv'
  <2>1. PICK size \in 1..Size :
          /\ lock' = [lock EXCEPT ![c] = FreeRun(used[c], size)]
          /\ locked' = locked \cup FreeRun(used[c], size)
    BY <1>1 DEF GetLock
  <2>2. lock[c] = {}
    BY <1>1 DEF GetLock
  <2>3. /\ lock' \in [Clients -> SUBSET Pos]
        /\ lock'[c] = FreeRun(used[c], size)
        /\ \A d \in Clients \ {c} : lock'[d] = lock[d] /\ lock[d] \subseteq locked
    BY <2>1, FreeRunFree
  <2>4. lock'[c] \cap locked = {}
    BY <2>3, FreeRunFree
  <2>5. locked' = UNION {lock'[d] : d \in Clients}
    BY <2>1, <2>2, <2>3
  <2>6. QED BY <2>3, <2>4, <2>5
<1>2. ASSUME NEW c \in Clients, Unlock(c) PROVE LockInv'
  <2>1. lock' = [lock EXCEPT ![c] = {}] /\ locked' = locked \ lock[c]
    BY <1>2 DEF Unlock
  <2>2. /\ lock' \in [Clients -> SUBSET Pos] /\ lock'[c] = {}
        /\ \A d \in Clients \ {c} : lock'[d] = lock[d] /\ lock[d] \cap lock[c] = {}
    BY <2>1
  <2>3. locked' = UNION {lock'[d] : d \in Clients}
    BY <2>1, <2>2
  <2>4. QED BY <2>2, <2>3
<1>3. ASSUME UNCHANGED <<lock, locked>> PROVE LockInv'
  BY <1>3
<1>4. ASSUME NEW c \in Clients, GetRange(c) \/ Write(c) \/ Unuse(c)
      PROVE  UNCHANGED <<lock, locked>>
  BY <1>4 DEF GetRange, Write, Unuse
<1>5. ASSUME \/ SafeWrite \/ RunJob \/ HandleAlloc \/ HandleHash \/ Command \/ SaveTimer
             \/ Rehash \/ Skip \/ Finished \/ UNCHANGED vars
      PROVE  UNCHANGED <<lock, locked>>
  <2>1. CASE SafeWrite \/ RunJob \/ HandleAlloc \/ HandleHash
    BY <2>1 DEF SafeWrite, RunJob, HandleAlloc, HandleHash, locks
  <2>2. CASE Command \/ SaveTimer \/ Rehash \/ Skip
    BY <2>2 DEF Command, SaveTimer, Rehash, Skip, locks
  <2>3. CASE Finished \/ UNCHANGED vars
    BY <2>3 DEF Finished, vars, locks
  <2>4. QED BY <1>5, <2>1, <2>2, <2>3
<1>6. QED
  BY <1>1, <1>2, <1>3, <1>4, <1>5 DEF Next, Step

\* No two clients hold locks on one byte, and m_locked is what they hold.
THEOREM Exclusive == Spec => []LocksExclusive
<1>1. Init => LockInv
  BY DEF Init, LockInv, LocksExclusive
<1>2. LockInv => LocksExclusive
  BY DEF LockInv
<1>3. QED BY <1>1, <1>2, StepLockInv, PTL DEF Spec

-----------------------------------------------------------------------------
(* Jobs under way.                                                           *)

\* The fields of a store that the counts are about have their types.
IsStore(s) ==
    s \in [buffer : {s.buffer}, toFlush : {s.toFlush}, disk : {s.disk},
          allocJob : BOOLEAN, checks : Seq(Jobs), pending : Nat, fullJob : BOOLEAN,
          mode : {s.mode}, autoPaused : {s.autoPaused}, io : Seq(Jobs)]

\* No chunk hash is in front of a final rehash in a queue.
FullFirst(q) ==
    \A i, j \in DOMAIN q : i < j /\ q[j].kind = "full" => q[i].kind # "chunk"

\* The counts of store s while the results ae and he wait: chunk hashes wait in
\* three queues, and the final rehash is in front of the chunk hashes that were
\* asked for after it, so none fails before it is over.
Sound(s, ae, he) ==
    /\ IsStore(s)
    /\ ae \in Seq(BOOLEAN) /\ he \in Seq(HashResults)
    /\ s.pending = JobsOf("chunk", s.checks) + JobsOf("chunk", s.io) + JobsOf("chunk", he)
    /\ JobsOf("alloc", s.io) + Len(ae) = Count(s.allocJob)
    /\ JobsOf("full", s.io) + JobsOf("full", he) = Count(s.fullJob)
    /\ \A i \in DOMAIN s.checks : s.checks[i].kind = "chunk"
    /\ FullFirst(s.io) /\ FullFirst(he)
    /\ JobsOf("full", s.io) = 0 \/ JobsOf("chunk", he) = 0

\* The counts depend on five fields only.
LEMMA SoundSame ==
  ASSUME NEW s, NEW t, NEW ae, NEW he, Sound(s, ae, he), IsStore(t),
         t.allocJob = s.allocJob, t.checks = s.checks, t.pending = s.pending,
         t.fullJob = s.fullJob, t.io = s.io
  PROVE  Sound(t, ae, he)
BY DEF Sound

\* Counting and order when a job goes to the end of the IO thread's queue.
LEMMA AppendJob ==
  ASSUME NEW q \in Seq(Jobs), NEW j \in Jobs
  PROVE  /\ Append(q, j) \in Seq(Jobs)
         /\ \A kind : JobsOf(kind, Append(q, j)) = JobsOf(kind, q) + Count(j.kind = kind)
         /\ FullFirst(q) /\ (j.kind = "full" => JobsOf("chunk", q) = 0) => FullFirst(Append(q, j))
<1>1. Append(q, j) = q \o <<j>> /\ <<j>> \in Seq(Jobs) /\ Append(q, j) \in Seq(Jobs)
  BY AppendIsConcat
<1>2. ASSUME NEW kind PROVE JobsOf(kind, Append(q, j)) = JobsOf(kind, q) + Count(j.kind = kind)
  <2>1. JobsOf(kind, q \o <<j>>) = JobsOf(kind, q) + JobsOf(kind, <<j>>)
    BY <1>1, JobsOfConcat
  <2>2. JobsOf(kind, <<j>>) = Count(j.kind = kind)
    BY JobsOfOne
  <2>3. QED BY <1>1, <2>1, <2>2
<1>3. ASSUME FullFirst(q), j.kind = "full" => JobsOf("chunk", q) = 0
      PROVE  FullFirst(Append(q, j))
  <2>1. /\ DOMAIN q = 1..Len(q) /\ Len(q) \in Nat
        /\ DOMAIN Append(q, j) = 1..(Len(q) + 1)
        /\ \A i \in 1..Len(q) : Append(q, j)[i] = q[i]
        /\ Append(q, j)[Len(q) + 1] = j
    BY AppendProperties
  <2>2. j.kind = "full" => \A i \in DOMAIN q : q[i].kind # "chunk"
    BY <1>3, JobsOfNone
  <2>3. SUFFICES ASSUME NEW i \in DOMAIN Append(q, j), NEW k \in DOMAIN Append(q, j),
                        i < k, Append(q, j)[k].kind = "full"
                 PROVE  Append(q, j)[i].kind # "chunk"
    BY DEF FullFirst
  <2>4. i \in DOMAIN q /\ Append(q, j)[i] = q[i]
    BY <2>1, <2>3
  <2>5. CASE k = Len(q) + 1
    BY <2>1, <2>2, <2>3, <2>4, <2>5
  <2>6. CASE k # Len(q) + 1
    BY <1>3, <2>1, <2>3, <2>4, <2>6 DEF FullFirst
  <2>7. QED BY <2>5, <2>6
<1>4. QED BY <1>1, <1>2, <1>3

\* The three kinds of jobs.
LEMMA KindsOfJobs ==
  /\ AllocJob \in Jobs /\ AllocJob.kind = "alloc"
  /\ FullJob \in Jobs /\ FullJob.kind = "full"
  /\ \A k \in Chunks : ChunkJob(k) \in Jobs /\ ChunkJob(k).kind = "chunk"
BY DEF AllocJob, FullJob, ChunkJob, Jobs

\* flushBuffer() asks for one allocation at most.
LEMMA FlushSound ==
  ASSUME NEW s, NEW ae, NEW he, Sound(s, ae, he), NEW fault
  PROVE  /\ Sound(Flush(s, fault), ae, he)
         /\ Flush(s, fault).pending = s.pending /\ Flush(s, fault).fullJob = s.fullJob
         /\ Flush(s, fault).checks = s.checks
<1>1. CASE s.allocJob
  BY <1>1 DEF Flush
<1>2. CASE ~s.allocJob /\ MustAllocate(s)
  <2> DEFINE t == [s EXCEPT !.allocJob = TRUE, !.io = Append(@, AllocJob)]
  <2>1. s.io \in Seq(Jobs) /\ FullFirst(s.io)
    BY DEF Sound, IsStore
  <2>2. /\ Append(s.io, AllocJob) \in Seq(Jobs)
        /\ JobsOf("alloc", Append(s.io, AllocJob)) = JobsOf("alloc", s.io) + 1
        /\ JobsOf("chunk", Append(s.io, AllocJob)) = JobsOf("chunk", s.io) + 0
        /\ JobsOf("full", Append(s.io, AllocJob)) = JobsOf("full", s.io) + 0
        /\ FullFirst(Append(s.io, AllocJob))
    BY <2>1, AppendJob, KindsOfJobs DEF Count
  <2>3. /\ IsStore(t) /\ t.allocJob = TRUE /\ t.checks = s.checks /\ t.pending = s.pending
        /\ t.fullJob = s.fullJob /\ t.io = Append(s.io, AllocJob)
    BY <2>2 DEF Sound, IsStore
  <2>4. JobsOf("chunk", s.io) \in Nat /\ JobsOf("full", s.io) \in Nat
        /\ JobsOf("alloc", s.io) \in Nat /\ Len(ae) \in Nat
    BY <2>1, JobsOfType DEF Sound
  <2> HIDE DEF t
  <2>5. JobsOf("alloc", t.io) + Len(ae) = Count(t.allocJob)
    BY <1>2, <2>2, <2>3, <2>4 DEF Sound, Count
  <2>6. Sound(t, ae, he)
    BY <2>2, <2>3, <2>4, <2>5 DEF Sound
  <2>7. Flush(s, fault) = t
    BY <1>2 DEF Flush, t
  <2>8. QED BY <2>3, <2>6, <2>7
<1>3. CASE ~s.allocJob /\ ~MustAllocate(s) /\ fault = "flush"
  BY <1>3 DEF Flush
<1>4. CASE ~s.allocJob /\ ~MustAllocate(s) /\ fault # "flush"
  <2> DEFINE t == [s EXCEPT !.disk = Written(s.buffer, @), !.buffer = <<>>, !.toFlush = 0]
  <2>1. /\ IsStore(t) /\ t.allocJob = s.allocJob /\ t.checks = s.checks
        /\ t.pending = s.pending /\ t.fullJob = s.fullJob /\ t.io = s.io
    BY DEF Sound, IsStore
  <2>2. Flush(s, fault) = t
    BY <1>4 DEF Flush
  <2>3. QED BY <2>1, <2>2, SoundSame
<1>5. QED BY <1>1, <1>2, <1>3, <1>4

\* So does save(), which changes nothing else of the jobs.
LEMMA SaveSound ==
  ASSUME NEW s, NEW ae, NEW he, Sound(s, ae, he), NEW fault
  PROVE  /\ Sound(Save(s, fault), ae, he)
         /\ Save(s, fault).pending = s.pending /\ Save(s, fault).fullJob = s.fullJob
         /\ Save(s, fault).checks = s.checks
<1> DEFINE f == Flush(s, fault)
<1>1. /\ Sound(f, ae, he) /\ f.pending = s.pending /\ f.fullJob = s.fullJob
      /\ f.checks = s.checks
  BY FlushSound
<1> HIDE DEF f
<1>2. ASSUME NEW t, t = AutoPaused(f) \/ t = Resumed(f)
      PROVE  /\ Sound(t, ae, he) /\ t.pending = f.pending /\ t.fullJob = f.fullJob
             /\ t.checks = f.checks
  <2>1. /\ IsStore(t) /\ t.allocJob = f.allocJob /\ t.checks = f.checks
        /\ t.pending = f.pending /\ t.fullJob = f.fullJob /\ t.io = f.io
    BY <1>1, <1>2 DEF Sound, IsStore, AutoPaused, Resumed
  <2>2. QED BY <1>1, <2>1, SoundSame
<1>3. Save(s, fault) \in {f, AutoPaused(f), Resumed(f)}
  BY DEF Save, f
<1>4. QED BY <1>1, <1>2, <1>3

\* Chunk hashes at the end of a queue.
LEMMA ConcatChunks ==
  ASSUME NEW q \in Seq(Jobs), NEW r \in Seq(Jobs), \A i \in DOMAIN r : r[i].kind = "chunk"
  PROVE  /\ q \o r \in Seq(Jobs)
         /\ JobsOf("chunk", q \o r) = JobsOf("chunk", q) + Len(r)
         /\ JobsOf("alloc", q \o r) = JobsOf("alloc", q)
         /\ JobsOf("full", q \o r) = JobsOf("full", q)
         /\ FullFirst(q) => FullFirst(q \o r)
         /\ (\A i \in DOMAIN q : q[i].kind = "chunk")
               => \A i \in DOMAIN (q \o r) : (q \o r)[i].kind = "chunk"
<1>1. q \o r \in Seq(Jobs)
  BY ConcatProperties
<1>2. /\ JobsOf("chunk", r) = Len(r) /\ JobsOf("alloc", r) = 0 /\ JobsOf("full", r) = 0
  BY JobsOfAll
<1>3. /\ JobsOf("chunk", q \o r) = JobsOf("chunk", q) + JobsOf("chunk", r)
      /\ JobsOf("alloc", q \o r) = JobsOf("alloc", q) + JobsOf("alloc", r)
      /\ JobsOf("full", q \o r) = JobsOf("full", q) + JobsOf("full", r)
  BY JobsOfConcat
<1>4. JobsOf("alloc", q) \in Nat /\ JobsOf("full", q) \in Nat
  BY JobsOfType
<1>5. /\ DOMAIN q = 1..Len(q) /\ Len(q) \in Nat
      /\ DOMAIN (q \o r) = 1..Len(q \o r) /\ Len(q \o r) \in Nat
  BY <1>1
<1>6. \A i \in DOMAIN (q \o r) :
          \/ i \in DOMAIN q /\ (q \o r)[i] = q[i]
          \/ i \notin DOMAIN q /\ (q \o r)[i].kind = "chunk"
  BY ConcatOrder
<1> DEFINE t == q \o r
<1> HIDE DEF t
<1>7. ASSUME FullFirst(q) PROVE FullFirst(t)
  <2>1. SUFFICES ASSUME NEW i \in DOMAIN t, NEW j \in DOMAIN t, i < j, t[j].kind = "full"
                 PROVE  t[i].kind # "chunk"
    BY DEF FullFirst
  <2>2. j \in DOMAIN q /\ t[j] = q[j]
    BY <1>6, <2>1 DEF t
  <2>3. i \in DOMAIN q
    BY <1>5, <2>1, <2>2 DEF t
  <2>4. t[i] = q[i]
    BY <1>6, <2>3, <2>1 DEF t
  <2>5. QED BY <1>7, <2>1, <2>2, <2>3, <2>4 DEF FullFirst
<1>8. QED BY <1>1, <1>2, <1>3, <1>4, <1>6, <1>7 DEF t

\* verifyRange() counts every job it posts or parks.
LEMMA VerifySound ==
  ASSUME NEW s, NEW ae, NEW he, Sound(s, ae, he), NEW ks \in Seq(Chunks)
  PROVE  Sound(Verify(s, ks), ae, he)
<1> DEFINE work == [i \in DOMAIN ks |-> ChunkJob(ks[i])]
<1>1. /\ work \in Seq(Jobs) /\ Len(work) = Len(ks) /\ Len(ks) \in Nat
      /\ \A i \in DOMAIN work : work[i].kind = "chunk"
  <2>1. Len(ks) \in Nat /\ DOMAIN ks = 1..Len(ks) /\ \A i \in DOMAIN ks : ks[i] \in Chunks
    OBVIOUS
  <2>2. \A i \in DOMAIN ks : ChunkJob(ks[i]) \in Jobs /\ ChunkJob(ks[i]).kind = "chunk"
    BY <2>1, KindsOfJobs
  <2>3. QED BY <2>1, <2>2
<1> HIDE DEF work
<1>2. /\ s.io \in Seq(Jobs) /\ s.checks \in Seq(Jobs) /\ s.pending \in Nat
  BY DEF Sound, IsStore
<1>3. /\ JobsOf("chunk", s.io) \in Nat /\ JobsOf("chunk", s.checks) \in Nat
      /\ JobsOf("chunk", he) \in Nat
  BY <1>2, JobsOfType DEF Sound
<1>4. CASE s.allocJob
  <2> DEFINE p == s.pending + Len(ks)
             c == s.checks \o work
             t == [s EXCEPT !.checks = c, !.pending = p]
  <2>1. /\ s.checks \o work \in Seq(Jobs)
        /\ JobsOf("chunk", s.checks \o work) = JobsOf("chunk", s.checks) + Len(ks)
        /\ \A i \in DOMAIN (s.checks \o work) : (s.checks \o work)[i].kind = "chunk"
    BY SMTT(20), <1>1, <1>2, ConcatChunks DEF Sound
  <2>2. /\ IsStore(t) /\ t.allocJob = s.allocJob /\ t.checks = s.checks \o work
        /\ t.pending = s.pending + Len(ks) /\ t.fullJob = s.fullJob /\ t.io = s.io
    <3>1. c \in Seq(Jobs) /\ p \in Nat
      BY <1>1, <1>2, <2>1
    <3> HIDE DEF c, p
    <3>2. /\ IsStore(t) /\ t.allocJob = s.allocJob /\ t.checks = c
          /\ t.pending = p /\ t.fullJob = s.fullJob /\ t.io = s.io
      BY <3>1 DEF Sound, IsStore
    <3>3. QED BY <3>2 DEF c, p
  <2>3. Verify(s, ks) = t
    BY <1>4 DEF Verify, work
  <2> HIDE DEF t
  <2>4. t.pending = JobsOf("chunk", t.checks) + JobsOf("chunk", t.io) + JobsOf("chunk", he)
    BY <1>1, <1>2, <1>3, <2>1, <2>2 DEF Sound
  <2>5. QED BY <2>1, <2>2, <2>3, <2>4 DEF Sound
<1>5. CASE ~s.allocJob
  <2> DEFINE p == s.pending + Len(ks)
             c == s.io \o work
             t == [s EXCEPT !.io = c, !.pending = p]
  <2>1. /\ s.io \o work \in Seq(Jobs)
        /\ JobsOf("chunk", s.io \o work) = JobsOf("chunk", s.io) + Len(ks)
        /\ JobsOf("alloc", s.io \o work) = JobsOf("alloc", s.io)
        /\ JobsOf("full", s.io \o work) = JobsOf("full", s.io)
        /\ FullFirst(s.io \o work)
    BY <1>1, <1>2, ConcatChunks DEF Sound
  <2>2. /\ IsStore(t) /\ t.allocJob = s.allocJob /\ t.checks = s.checks
        /\ t.pending = s.pending + Len(ks) /\ t.fullJob = s.fullJob /\ t.io = s.io \o work
    <3>1. c \in Seq(Jobs) /\ p \in Nat
      BY <1>1, <1>2, <2>1
    <3> HIDE DEF c, p
    <3>2. /\ IsStore(t) /\ t.allocJob = s.allocJob /\ t.checks = s.checks
          /\ t.pending = p /\ t.fullJob = s.fullJob /\ t.io = c
      BY <3>1 DEF Sound, IsStore
    <3>3. QED BY <3>2 DEF c, p
  <2>3. Verify(s, ks) = t
    BY <1>5 DEF Verify, work
  <2> HIDE DEF t
  <2>4. t.pending = JobsOf("chunk", t.checks) + JobsOf("chunk", t.io) + JobsOf("chunk", he)
    BY <1>1, <1>2, <1>3, <2>1, <2>2 DEF Sound
  <2>5. QED BY <2>1, <2>2, <2>3, <2>4 DEF Sound
<1>6. QED BY <1>4, <1>5

\* The final rehash is posted when no chunk hash is under way.
LEMMA TryCompleteSound ==
  ASSUME NEW s, NEW ae, NEW he, Sound(s, ae, he), NEW comp, NEW fault
  PROVE  Sound(TryComplete(s, comp, fault), ae, he)
<1>1. CASE ~(comp = Pos /\ ~s.fullJob /\ s.pending = 0)
  BY <1>1 DEF TryComplete
<1>2. CASE comp = Pos /\ ~s.fullJob /\ s.pending = 0
  <2> DEFINE t == Save(s, fault)
             u == [t EXCEPT !.io = Append(@, FullJob), !.fullJob = TRUE]
  <2>1. Sound(t, ae, he) /\ t.pending = 0 /\ t.fullJob = s.fullJob
    BY <1>2, SaveSound
  <2>2. TryComplete(s, comp, fault) = u
    BY <1>2 DEF TryComplete
  <2> HIDE DEF t
  <2>3. t.io \in Seq(Jobs) /\ t.checks \in Seq(Jobs) /\ he \in Seq(HashResults)
    BY <2>1 DEF Sound, IsStore
  <2>4. /\ JobsOf("chunk", t.io) \in Nat /\ JobsOf("chunk", t.checks) \in Nat
        /\ JobsOf("chunk", he) \in Nat /\ JobsOf("full", t.io) \in Nat
        /\ JobsOf("full", he) \in Nat /\ JobsOf("alloc", t.io) \in Nat
    BY <2>3, JobsOfType
  <2>5. JobsOf("chunk", t.io) = 0 /\ JobsOf("chunk", he) = 0
    BY <2>1, <2>4 DEF Sound
  <2>6. JobsOf("full", t.io) + JobsOf("full", he) = 0
    BY <1>2, <2>1 DEF Sound, Count
  <2>7. /\ Append(t.io, FullJob) \in Seq(Jobs)
        /\ JobsOf("alloc", Append(t.io, FullJob)) = JobsOf("alloc", t.io) + 0
        /\ JobsOf("chunk", Append(t.io, FullJob)) = JobsOf("chunk", t.io) + 0
        /\ JobsOf("full", Append(t.io, FullJob)) = JobsOf("full", t.io) + 1
        /\ FullFirst(Append(t.io, FullJob))
    BY <2>1, <2>3, <2>5, AppendJob, KindsOfJobs DEF Count, Sound
  <2>8. /\ IsStore(u) /\ u.allocJob = t.allocJob /\ u.checks = t.checks
        /\ u.pending = t.pending /\ u.fullJob = TRUE /\ u.io = Append(t.io, FullJob)
    BY <2>1, <2>7 DEF Sound, IsStore
  <2> HIDE DEF u
  <2>9. JobsOf("full", u.io) + JobsOf("full", he) = Count(u.fullJob)
    BY <2>4, <2>6, <2>7, <2>8 DEF Count
  <2>10. Sound(u, ae, he)
    <3>1. u.pending = JobsOf("chunk", u.checks) + JobsOf("chunk", u.io) + JobsOf("chunk", he)
      BY <2>1, <2>4, <2>7, <2>8 DEF Sound
    <3>2. JobsOf("alloc", u.io) + Len(ae) = Count(u.allocJob)
      BY <2>1, <2>4, <2>7, <2>8 DEF Sound
    <3>3. QED BY <2>1, <2>5, <2>7, <2>8, <2>9, <3>1, <3>2 DEF Sound
  <2>11. QED BY <2>2, <2>10
<1>3. QED BY <1>1, <1>2

\* Chunk::verify(), called for several chunks in a row, keeps the counts.
LEMMA VerifyChunksSound ==
  ASSUME NEW s, NEW ae, NEW he, Sound(s, ae, he), NEW ks \in Seq(Chunks), NEW comp, NEW fault
  PROVE  Sound(VerifyChunks(s, ks, comp, fault), ae, he)
<1>1. Sound(Save(s, fault), ae, he)
  BY SaveSound
<1>2. Sound(Verify(Save(s, fault), ks), ae, he)
  BY <1>1, VerifySound
<1>3. Sound(TryComplete(s, comp, fault), ae, he)
  BY TryCompleteSound
<1>4. QED BY <1>2, <1>3 DEF VerifyChunks

\* The order of the chunks is a sequence of chunks.
LEMMA InOrderSeq ==
  ASSUME NEW ks, ks \subseteq Chunks, NEW q \in InOrder(ks)
  PROVE  q \in Seq(Chunks)
<1>1. ((Size - 1) \div ChunkSize) \in Int
  BY PartDataAssumption
<1>2. IsFiniteSet(Chunks)
  BY <1>1, FS_Interval DEF Chunks
<1>3. Cardinality(ks) \in Nat
  BY <1>2, FS_Subset, FS_CardinalityType
<1>4. q \in [1..Cardinality(ks) -> ks]
  BY DEF InOrder
<1>5. QED BY <1>3, <1>4

\* A handler that ends with a sound store commits a sound one.
LEMMA CommitSound ==
  ASSUME NEW s, NEW ae, NEW he, Sound(s, ae, he), Commit(s)
  PROVE  Sound(Store', ae, he)
<1>1. /\ IsStore(Store') /\ Store'.allocJob = s.allocJob /\ Store'.checks = s.checks
      /\ Store'.pending = s.pending /\ Store'.fullJob = s.fullJob /\ Store'.io = s.io
  BY DEF Commit, Store, Sound, IsStore
<1>2. QED BY <1>1, SoundSame

IInv == Sound(Store, allocEvents, hashEvents)

\* No job is under way at first.
LEMMA InitIInv == Init => IInv
<1> SUFFICES ASSUME Init PROVE IInv
  OBVIOUS
<1>0. <<>> \in Seq(Jobs) /\ 0 \in Nat
  OBVIOUS
<1>1. /\ IsStore(Store) /\ Store.allocJob = FALSE /\ Store.checks = <<>>
      /\ Store.pending = 0 /\ Store.fullJob = FALSE /\ Store.io = <<>>
      /\ allocEvents = <<>> /\ hashEvents = <<>>
  <2>1. /\ allocJob = FALSE /\ checks = <<>> /\ pending = 0 /\ fullJob = FALSE /\ io = <<>>
        /\ allocEvents = <<>> /\ hashEvents = <<>>
    BY DEF Init
  <2>2. QED BY <1>0, <2>1 DEF Store, IsStore
<1>2. DOMAIN <<>> = {} /\ Len(<<>>) = 0 /\ <<>> \in Seq(BOOLEAN) /\ <<>> \in Seq(HashResults)
  OBVIOUS
<1>3. QED BY <1>1, <1>2, JobsOfEmpty DEF IInv, Sound, FullFirst, Count

\* A step that leaves the jobs alone.
LEMMA SameJobs ==
  ASSUME IInv, UNCHANGED <<allocJob, checks, pending, fullJob, io, allocEvents, hashEvents>>
  PROVE  IInv'
<1>1. IsStore(Store')
  BY DEF IInv, Sound, IsStore, Store
<1>2. /\ Store'.allocJob = Store.allocJob /\ Store'.checks = Store.checks
      /\ Store'.pending = Store.pending /\ Store'.fullJob = Store.fullJob
      /\ Store'.io = Store.io
  BY DEF Store
<1>3. QED BY <1>1, <1>2, SoundSame DEF IInv

\* A write may ask for an allocation, for chunk hashes or the final rehash.
LEMMA DoWriteIInv ==
  ASSUME IInv, NEW range, NEW data, NEW fault, NEW whole \in BOOLEAN,
         DoWrite(range, data, fault, whole), UNCHANGED events
  PROVE  IInv'
<1> DEFINE comp     == complete \cup range
           After(t) == [t EXCEPT !.toFlush = @ + Len(data)]
           Full(t)  == IF t.toFlush >= BufLimit THEN Save(t, fault) ELSE t
           Ended(t) == IF whole THEN TryComplete(t, comp, fault) ELSE t
           ae == allocEvents
           he == hashEvents
<1>1. PICK ks \in InOrder(ToVerify(Touched(range), comp, verified)) :
        Commit(Ended(Full(After(
            VerifyChunks(Buffered(Store, Min(range), data), ks, comp, fault)))))
  BY DEF DoWrite
<1> DEFINE s0 == Buffered(Store, Min(range), data)
           s1 == VerifyChunks(s0, ks, comp, fault)
           s2 == After(s1)
           s3 == Full(s2)
           s4 == Ended(s3)
<1>2. ks \in Seq(Chunks)
  <2>1. ToVerify(Touched(range), comp, verified) \subseteq Chunks
    BY DEF ToVerify, Touched
  <2>2. QED BY <1>1, <2>1, InOrderSeq
<1>3. Sound(s0, ae, he)
  <2>1. /\ IsStore(s0) /\ s0.allocJob = Store.allocJob /\ s0.checks = Store.checks
        /\ s0.pending = Store.pending /\ s0.fullJob = Store.fullJob /\ s0.io = Store.io
    BY DEF Buffered, IInv, Sound, IsStore, Store
  <2> HIDE DEF s0
  <2>2. QED BY <2>1, SoundSame DEF IInv
<1> HIDE DEF s0
<1>4. Sound(s1, ae, he)
  BY <1>2, <1>3, VerifyChunksSound
<1> HIDE DEF s1
<1>5. Sound(s2, ae, he)
  <2>1. /\ IsStore(s2) /\ s2.allocJob = s1.allocJob /\ s2.checks = s1.checks
        /\ s2.pending = s1.pending /\ s2.fullJob = s1.fullJob /\ s2.io = s1.io
    BY <1>4 DEF Sound, IsStore
  <2> HIDE DEF s2
  <2>2. QED BY <1>4, <2>1, SoundSame
<1>6. ASSUME NEW s, Sound(s, ae, he) PROVE Sound(Full(s), ae, he)
  BY <1>6, SaveSound
<1>7. ASSUME NEW s, Sound(s, ae, he) PROVE Sound(Ended(s), ae, he)
  BY <1>7, TryCompleteSound
<1>8. Sound(s4, ae, he) /\ Commit(s4)
  <2>1. Commit(s4)
    BY <1>1 DEF s0, s1
  <2> HIDE DEF s2
  <2>2. Sound(s3, ae, he)
    BY <1>5, <1>6
  <2> HIDE DEF s3
  <2>3. Sound(s4, ae, he)
    BY <2>2, <1>7
  <2>4. QED BY <2>1, <2>3 DEF s3, s2
<1> HIDE DEF s4
<1>9. Sound(Store', ae, he)
  BY <1>8, CommitSound
<1>10. QED BY <1>9 DEF IInv, events

\* Counting when a result is posted.
LEMMA AppendResult ==
  ASSUME NEW q \in Seq(HashResults), NEW e \in HashResults
  PROVE  /\ Append(q, e) \in Seq(HashResults)
         /\ \A kind : JobsOf(kind, Append(q, e)) = JobsOf(kind, q) + Count(e.kind = kind)
         /\ FullFirst(q) /\ (e.kind = "full" => JobsOf("chunk", q) = 0) => FullFirst(Append(q, e))
<1>1. Append(q, e) = q \o <<e>> /\ <<e>> \in Seq(HashResults) /\ Append(q, e) \in Seq(HashResults)
  BY AppendIsConcat
<1>2. ASSUME NEW kind PROVE JobsOf(kind, Append(q, e)) = JobsOf(kind, q) + Count(e.kind = kind)
  <2>1. JobsOf(kind, q \o <<e>>) = JobsOf(kind, q) + JobsOf(kind, <<e>>)
    BY <1>1, JobsOfConcat
  <2>2. JobsOf(kind, <<e>>) = Count(e.kind = kind)
    BY JobsOfOne
  <2>3. QED BY <1>1, <2>1, <2>2
<1>3. ASSUME FullFirst(q), e.kind = "full" => JobsOf("chunk", q) = 0
      PROVE  FullFirst(Append(q, e))
  <2>1. /\ DOMAIN q = 1..Len(q) /\ Len(q) \in Nat
        /\ DOMAIN Append(q, e) = 1..(Len(q) + 1)
        /\ \A i \in 1..Len(q) : Append(q, e)[i] = q[i]
        /\ Append(q, e)[Len(q) + 1] = e
    BY AppendProperties
  <2>2. e.kind = "full" => \A i \in DOMAIN q : q[i].kind # "chunk"
    BY <1>3, JobsOfNone
  <2>3. SUFFICES ASSUME NEW i \in DOMAIN Append(q, e), NEW k \in DOMAIN Append(q, e),
                        i < k, Append(q, e)[k].kind = "full"
                 PROVE  Append(q, e)[i].kind # "chunk"
    BY DEF FullFirst
  <2>4. i \in DOMAIN q /\ Append(q, e)[i] = q[i]
    BY <2>1, <2>3
  <2>5. CASE k = Len(q) + 1
    BY <2>1, <2>2, <2>3, <2>4, <2>5
  <2>6. CASE k # Len(q) + 1
    BY <1>3, <2>1, <2>3, <2>4, <2>6 DEF FullFirst
  <2>7. QED BY <2>5, <2>6
<1>4. QED BY <1>1, <1>2, <1>3

\* The rest of a queue keeps the order, and behind a chunk hash there is no
\* final rehash.
LEMMA TailOrder ==
  ASSUME NEW S, NEW q \in Seq(S), q # <<>>, FullFirst(q)
  PROVE  /\ FullFirst(Tail(q))
         /\ Head(q).kind = "chunk" => JobsOf("full", q) = 0
<1>1. /\ Len(q) \in Nat /\ Len(q) > 0 /\ DOMAIN q = 1..Len(q) /\ q[1] = Head(q)
      /\ Len(Tail(q)) = Len(q) - 1 /\ DOMAIN Tail(q) = 1..(Len(q) - 1)
      /\ \A i \in 1..(Len(q) - 1) : Tail(q)[i] = q[i + 1]
  BY HeadTailProperties, EmptySeq
<1>2. FullFirst(Tail(q))
  <2>1. SUFFICES ASSUME NEW i \in 1..(Len(q) - 1), NEW j \in 1..(Len(q) - 1),
                        i < j, Tail(q)[j].kind = "full"
                 PROVE  Tail(q)[i].kind # "chunk"
    BY <1>1 DEF FullFirst
  <2>2. i + 1 \in DOMAIN q /\ j + 1 \in DOMAIN q /\ i + 1 < j + 1
    BY <1>1, <2>1
  <2>3. Tail(q)[i] = q[i + 1] /\ Tail(q)[j] = q[j + 1]
    BY <1>1
  <2>4. QED BY <2>1, <2>2, <2>3 DEF FullFirst
<1>3. ASSUME Head(q).kind = "chunk" PROVE JobsOf("full", q) = 0
  <2>1. \A j \in DOMAIN q : q[j].kind # "full"
    BY <1>1, <1>3 DEF FullFirst
  <2>2. QED BY <2>1, JobsOfSome
<1>4. QED BY <1>2, <1>3

\* A set of positions that is not empty has a largest element: among the sets
\* of what is not less than one of its elements one is the smallest.
LEMMA MaxIn ==
  ASSUME NEW S, S \subseteq Pos, S # {}
  PROVE  Max(S) \in S /\ \A y \in S : Max(S) >= y
<1> DEFINE Above(x) == {y \in S : y >= x}
           T == {Above(x) : x \in S}
           R == StrictSubsetOrdering(S)
<1>1. Size - 1 \in Int /\ S \subseteq 0..(Size - 1)
  BY PartDataAssumption DEF Pos
<1>0. \A y \in S : y \in Int
  BY <1>1
<1>2. IsFiniteSet(S)
  <2>1. IsFiniteSet(0..(Size - 1))
    BY <1>1, FS_Interval
  <2>2. QED BY <1>1, <2>1, FS_Subset
<1>3. T \subseteq FiniteSubsetsOf(S) /\ T # {}
  <2>1. ASSUME NEW x \in S PROVE Above(x) \in FiniteSubsetsOf(S)
    <3>1. Above(x) \in SUBSET S
      OBVIOUS
    <3> HIDE DEF Above
    <3>2. QED BY <1>2, <3>1, FS_Subset DEF FiniteSubsetsOf
  <2> HIDE DEF Above
  <2>2. QED BY <2>1
<1>4. IsWellFoundedOn(R, FiniteSubsetsOf(S))
  BY FS_StrictSubsetOrderingWellFounded
<1>5. PICK t \in T : \A u \in T : ~(<<u, t>> \in R)
  <2> HIDE DEF T, R
  <2>1. QED BY <1>3, <1>4, WFMin
<1>6. PICK x \in S : t = Above(x)
  BY <1>5
<1>7. \A y \in S : x >= y
  <2>1. SUFFICES ASSUME NEW y \in S, ~(x >= y) PROVE FALSE
    OBVIOUS
  <2>2. Above(y) \subseteq Above(x) /\ x \in Above(x) /\ x \notin Above(y)
    BY <1>0, <2>1
  <2>3. <<Above(y), Above(x)>> \in R
    BY <2>2 DEF StrictSubsetOrdering
  <2>4. QED BY <1>5, <1>6, <2>3
<1>8. QED BY <1>7, Zenon DEF Max

\* A size that is read from the disk is at most m_size.
LEMMA FileSizeType == \A d : FileSize(d) \in 0..Size
<1> SUFFICES ASSUME NEW d PROVE FileSize(d) \in 0..Size
  OBVIOUS
<1> DEFINE taken == {p \in Pos : d[p] # None}
<1>1. CASE taken = {}
  BY <1>1, PartDataAssumption DEF FileSize
<1>2. CASE taken # {}
  <2>1. taken \subseteq Pos /\ Pos \subseteq Nat /\ \A p \in Pos : p < Size
    BY PartDataAssumption DEF Pos
  <2>2. Max(taken) \in taken
    BY <1>2, <2>1, MaxIn
  <2>3. FileSize(d) = Max(taken) + 1
    BY <1>2 DEF FileSize
  <2> DEFINE m == Max(taken)
  <2>4. m \in Nat /\ m < Size /\ FileSize(d) = m + 1
    BY <2>1, <2>2, <2>3
  <2> HIDE DEF m
  <2>5. QED BY <2>4, PartDataAssumption
<1>3. QED BY <1>1, <1>2

\* The IO thread takes a job from its queue and posts the result.
LEMMA RunIInv == IInv /\ RunJob => IInv'
<1> SUFFICES ASSUME IInv, RunJob PROVE IInv'
  OBVIOUS
<1>1. /\ io \in Seq(Jobs) /\ io # <<>> /\ FullFirst(io)
      /\ allocEvents \in Seq(BOOLEAN) /\ hashEvents \in Seq(HashResults) /\ FullFirst(hashEvents)
      /\ checks \in Seq(Jobs) /\ pending \in Nat /\ allocJob \in BOOLEAN /\ fullJob \in BOOLEAN
      /\ pending = JobsOf("chunk", checks) + JobsOf("chunk", io) + JobsOf("chunk", hashEvents)
      /\ JobsOf("alloc", io) + Len(allocEvents) = Count(allocJob)
      /\ JobsOf("full", io) + JobsOf("full", hashEvents) = Count(fullJob)
      /\ \A i \in DOMAIN checks : checks[i].kind = "chunk"
      /\ JobsOf("full", io) = 0 \/ JobsOf("chunk", hashEvents) = 0
  BY DEF IInv, Sound, IsStore, Store, RunJob
<1>2. /\ io' = Tail(io) /\ Tail(io) \in Seq(Jobs) /\ FullFirst(Tail(io)) /\ Head(io) \in Jobs
      /\ Head(io).kind = "chunk" => JobsOf("full", io) = 0
  BY <1>1, HeadTailProperties, TailOrder DEF RunJob
<1>3. /\ JobsOf("chunk", io) = Count(Head(io).kind = "chunk") + JobsOf("chunk", Tail(io))
      /\ JobsOf("alloc", io) = Count(Head(io).kind = "alloc") + JobsOf("alloc", Tail(io))
      /\ JobsOf("full", io) = Count(Head(io).kind = "full") + JobsOf("full", Tail(io))
  BY <1>1, JobsOfTail
<1>4. /\ JobsOf("chunk", Tail(io)) \in Nat /\ JobsOf("alloc", Tail(io)) \in Nat
      /\ JobsOf("full", Tail(io)) \in Nat /\ JobsOf("chunk", hashEvents) \in Nat
      /\ JobsOf("full", hashEvents) \in Nat /\ JobsOf("chunk", checks) \in Nat
      /\ Len(allocEvents) \in Nat
  <2>1. Len(allocEvents) \in Nat
    BY <1>1, LenProperties
  <2>2. QED BY <1>1, <1>2, <2>1, JobsOfType
<1>5. UNCHANGED <<checks, pending, allocJob, fullJob>>
  BY DEF RunJob
<1>6. /\ IsStore(Store') /\ Store'.io = Tail(io) /\ Store'.checks = checks
      /\ Store'.pending = pending /\ Store'.allocJob = allocJob /\ Store'.fullJob = fullJob
  BY <1>1, <1>2, <1>5 DEF IsStore, Store
<1> DEFINE c == JobsOf("chunk", checks)
           all == Count(allocJob)
           full == Count(fullJob)
<1> HIDE DEF c, all, full
<1>0. /\ c \in Nat
      /\ pending = c + JobsOf("chunk", io) + JobsOf("chunk", hashEvents)
      /\ JobsOf("alloc", io) + Len(allocEvents) = all
      /\ JobsOf("full", io) + JobsOf("full", hashEvents) = full
      /\ JobsOf("full", io) = 0 \/ JobsOf("chunk", hashEvents) = 0
  BY <1>1, <1>4 DEF c, all, full
\* What is left to show of the three counts.
<1>10. ASSUME /\ allocEvents' \in Seq(BOOLEAN) /\ hashEvents' \in Seq(HashResults)
              /\ FullFirst(hashEvents')
              /\ pending = c + JobsOf("chunk", Tail(io)) + JobsOf("chunk", hashEvents')
              /\ JobsOf("alloc", Tail(io)) + Len(allocEvents') = all
              /\ JobsOf("full", Tail(io)) + JobsOf("full", hashEvents') = full
              /\ JobsOf("full", Tail(io)) = 0 \/ JobsOf("chunk", hashEvents') = 0
       PROVE  IInv'
  BY <1>1, <1>2, <1>6, <1>10 DEF IInv, Sound, c, all, full
<1>7. CASE RunAlloc
  <2>1. Head(io).kind = "alloc" /\ hashEvents' = hashEvents
    BY <1>7, KindsOfJobs DEF RunAlloc
  <2>2. PICK b \in BOOLEAN : allocEvents' = Append(allocEvents, b)
    BY <1>7 DEF RunAlloc
  <2>3. allocEvents' \in Seq(BOOLEAN) /\ Len(allocEvents') = Len(allocEvents) + 1
    BY <1>1, <2>2, AppendProperties
  <2>4. /\ JobsOf("alloc", io) = 1 + JobsOf("alloc", Tail(io))
        /\ JobsOf("chunk", io) = JobsOf("chunk", Tail(io))
        /\ JobsOf("full", io) = JobsOf("full", Tail(io))
    BY <1>3, <1>4, <2>1 DEF Count
  <2>5. /\ pending = c + JobsOf("chunk", Tail(io)) + JobsOf("chunk", hashEvents')
        /\ JobsOf("alloc", Tail(io)) + Len(allocEvents') = all
        /\ JobsOf("full", Tail(io)) + JobsOf("full", hashEvents') = full
        /\ JobsOf("full", Tail(io)) = 0 \/ JobsOf("chunk", hashEvents') = 0
    <3>1. pending = c + JobsOf("chunk", Tail(io)) + JobsOf("chunk", hashEvents')
      BY <1>0, <2>1, <2>4
    <3>2. JobsOf("alloc", Tail(io)) + Len(allocEvents') = all
      BY <1>0, <1>4, <2>3, <2>4
    <3>3. /\ JobsOf("full", Tail(io)) + JobsOf("full", hashEvents') = full
          /\ JobsOf("full", Tail(io)) = 0 \/ JobsOf("chunk", hashEvents') = 0
      BY <1>0, <2>1, <2>4
    <3>4. QED BY <3>1, <3>2, <3>3
  <2>6. QED BY <1>1, <2>1, <2>3, <2>5, <1>10
<1>8. CASE RunChunk \/ RunFull
  <2>1. PICK e \in HashResults : /\ hashEvents' = Append(hashEvents, e)
                                 /\ e.kind = Head(io).kind
                                 /\ e.kind \in {"chunk", "full"}
    <3>1. CASE RunChunk
      <4>1. Head(io).kind = "chunk" /\ Head(io).chunk \in Chunks
        BY <1>2, <3>1 DEF RunChunk, Jobs, AllocJob, FullJob, ChunkJob
      <4>2. PICK r \in {"verified", "failed", "fatal"} :
              hashEvents' = Append(hashEvents,
                [kind |-> "chunk", chunk |-> Head(io).chunk, result |-> r])
        BY <3>1 DEF RunChunk
      <4>3. [kind |-> "chunk", chunk |-> Head(io).chunk, result |-> r] \in HashResults
        BY <4>1 DEF HashResults
      <4>4. QED BY <4>1, <4>2, <4>3
    <3>2. CASE RunFull
      <4>1. Head(io).kind = "full"
        BY <3>2, KindsOfJobs DEF RunFull
      <4>2. PICK r \in {"complete", "fatal"} :
              hashEvents' = Append(hashEvents,
                [kind |-> "full", size |-> FileSize(disk), good |-> GoodOnDisk, result |-> r])
        BY <3>2 DEF RunFull
      <4>3. [kind |-> "full", size |-> FileSize(disk), good |-> GoodOnDisk, result |-> r]
               \in HashResults
        BY FileSizeType DEF HashResults, GoodOnDisk
      <4>4. QED BY <4>1, <4>2, <4>3
    <3>3. QED BY <1>8, <3>1, <3>2
  <2>2. allocEvents' = allocEvents
    BY <1>8 DEF RunChunk, RunFull
  <2>3. e.kind = "full" => JobsOf("chunk", hashEvents) = 0
    BY SMTT(20), <1>1, <1>3, <1>4, <2>1 DEF Count
  <2>4. /\ hashEvents' \in Seq(HashResults) /\ FullFirst(hashEvents')
        /\ JobsOf("chunk", hashEvents') = JobsOf("chunk", hashEvents) + Count(e.kind = "chunk")
        /\ JobsOf("full", hashEvents') = JobsOf("full", hashEvents) + Count(e.kind = "full")
    BY <1>1, <2>1, <2>3, AppendResult
  <2>5. CASE e.kind = "chunk"
    <3>1. /\ JobsOf("alloc", io) = JobsOf("alloc", Tail(io))
          /\ JobsOf("chunk", io) = 1 + JobsOf("chunk", Tail(io))
          /\ JobsOf("full", io) = JobsOf("full", Tail(io)) /\ JobsOf("full", io) = 0
          /\ JobsOf("chunk", hashEvents') = JobsOf("chunk", hashEvents) + 1
          /\ JobsOf("full", hashEvents') = JobsOf("full", hashEvents)
      BY <1>2, <1>3, <1>4, <2>1, <2>4, <2>5 DEF Count
    <3>2. /\ pending = c + JobsOf("chunk", Tail(io)) + JobsOf("chunk", hashEvents')
          /\ JobsOf("alloc", Tail(io)) + Len(allocEvents') = all
          /\ JobsOf("full", Tail(io)) + JobsOf("full", hashEvents') = full
          /\ JobsOf("full", Tail(io)) = 0 \/ JobsOf("chunk", hashEvents') = 0
      <4>1. pending = c + JobsOf("chunk", Tail(io)) + JobsOf("chunk", hashEvents')
        BY <1>0, <1>4, <3>1
      <4>2. JobsOf("alloc", Tail(io)) + Len(allocEvents') = all
        BY <1>0, <2>2, <3>1
      <4>3. /\ JobsOf("full", Tail(io)) + JobsOf("full", hashEvents') = full
            /\ JobsOf("full", Tail(io)) = 0
        BY <1>0, <3>1
      <4>4. QED BY <4>1, <4>2, <4>3
    <3>3. QED BY <1>1, <2>2, <2>4, <3>2, <1>10
  <2>6. CASE e.kind = "full"
    <3>1. /\ JobsOf("alloc", io) = JobsOf("alloc", Tail(io))
          /\ JobsOf("chunk", io) = JobsOf("chunk", Tail(io))
          /\ JobsOf("full", io) = 1 + JobsOf("full", Tail(io))
          /\ JobsOf("chunk", hashEvents') = 0 /\ JobsOf("chunk", hashEvents) = 0
          /\ JobsOf("full", hashEvents') = JobsOf("full", hashEvents) + 1
      BY <1>3, <1>4, <2>1, <2>3, <2>4, <2>6 DEF Count
    <3>2. /\ pending = c + JobsOf("chunk", Tail(io)) + JobsOf("chunk", hashEvents')
          /\ JobsOf("alloc", Tail(io)) + Len(allocEvents') = all
          /\ JobsOf("full", Tail(io)) + JobsOf("full", hashEvents') = full
          /\ JobsOf("full", Tail(io)) = 0 \/ JobsOf("chunk", hashEvents') = 0
      <4>1. /\ pending = c + JobsOf("chunk", Tail(io)) + JobsOf("chunk", hashEvents')
            /\ JobsOf("chunk", hashEvents') = 0
        BY <1>0, <3>1
      <4>2. JobsOf("alloc", Tail(io)) + Len(allocEvents') = all
        BY <1>0, <2>2, <3>1
      <4>3. JobsOf("full", Tail(io)) + JobsOf("full", hashEvents') = full
        BY <1>0, <1>4, <3>1
      <4>4. QED BY <4>1, <4>2, <4>3
    <3>3. QED BY <1>1, <2>2, <2>4, <3>2, <1>10
  <2>7. QED BY <2>1, <2>5, <2>6
<1>9. QED BY <1>7, <1>8 DEF RunJob

\* Parked chunk hashes are posted after the allocation.
LEMMA UnparkSound ==
  ASSUME NEW s, NEW ae, NEW he, Sound(s, ae, he)
  PROVE  Sound([s EXCEPT !.io = @ \o s.checks, !.checks = <<>>], ae, he)
<1> DEFINE q == s.io \o s.checks
           none == <<>>
           t == [s EXCEPT !.io = q, !.checks = none]
<1>1. /\ s.io \in Seq(Jobs) /\ s.checks \in Seq(Jobs) /\ none \in Seq(Jobs)
      /\ he \in Seq(HashResults) /\ \A i \in DOMAIN s.checks : s.checks[i].kind = "chunk"
  BY DEF Sound, IsStore
<1>2. /\ q \in Seq(Jobs)
      /\ FullFirst(s.io) => FullFirst(q)
      /\ JobsOf("chunk", q) = JobsOf("chunk", s.io) + Len(s.checks)
      /\ JobsOf("alloc", q) = JobsOf("alloc", s.io)
      /\ JobsOf("full", q) = JobsOf("full", s.io)
  BY <1>1, ConcatChunks
<1>3. JobsOf("chunk", s.checks) = Len(s.checks) /\ JobsOf("full", s.checks) = 0
  BY <1>1, JobsOfAll
<1>4. JobsOf("chunk", s.io) \in Nat /\ JobsOf("chunk", s.checks) \in Nat
      /\ JobsOf("chunk", he) \in Nat
  BY <1>1, JobsOfType
<1> HIDE DEF q, none
<1>5. /\ IsStore(t) /\ t.allocJob = s.allocJob /\ t.checks = none /\ t.pending = s.pending
      /\ t.fullJob = s.fullJob /\ t.io = q
  <2>1. q \in Seq(Jobs) /\ none \in Seq(Jobs) /\ IsStore(s)
    BY <1>1, <1>2 DEF Sound
  <2>2. QED BY <2>1 DEF IsStore
<1> HIDE DEF t
<1>6. JobsOf("chunk", t.checks) = 0 /\ DOMAIN t.checks = {}
  <2>1. JobsOf("chunk", none) = 0 /\ DOMAIN none = {}
    BY JobsOfEmpty DEF none
  <2>2. QED BY <1>5, <2>1
<1>7. t.pending = JobsOf("chunk", t.checks) + JobsOf("chunk", t.io) + JobsOf("chunk", he)
  BY <1>2, <1>3, <1>4, <1>5, <1>6 DEF Sound
<1>8. FullFirst(t.io) /\ \A i \in DOMAIN t.checks : t.checks[i].kind = "chunk"
  <2>1. FullFirst(s.io)
    BY DEF Sound
  <2>2. FullFirst(q) /\ t.io = q /\ DOMAIN t.checks = {}
    BY <1>2, <1>5, <1>6, <2>1
  <2>3. FullFirst(t.io)
    BY <2>2
  <2>4. QED BY <2>2, <2>3
<1>9. Sound(t, ae, he)
  BY <1>2, <1>5, <1>7, <1>8 DEF Sound
<1>10. QED BY <1>9 DEF t, q, none

\* The three queues and the store, for the handlers.
LEMMA Facts ==
  ASSUME IInv
  PROVE  /\ IsStore(Store) /\ Store.io = io /\ Store.checks = checks /\ Store.pending = pending
         /\ Store.allocJob = allocJob /\ Store.fullJob = fullJob
         /\ io \in Seq(Jobs) /\ FullFirst(io) /\ checks \in Seq(Jobs) /\ pending \in Nat
         /\ allocJob \in BOOLEAN /\ fullJob \in BOOLEAN
         /\ allocEvents \in Seq(BOOLEAN)
         /\ hashEvents \in Seq(HashResults) /\ FullFirst(hashEvents)
         /\ pending = JobsOf("chunk", checks) + JobsOf("chunk", io) + JobsOf("chunk", hashEvents)
         /\ JobsOf("alloc", io) + Len(allocEvents) = Count(allocJob)
         /\ JobsOf("full", io) + JobsOf("full", hashEvents) = Count(fullJob)
         /\ \A i \in DOMAIN checks : checks[i].kind = "chunk"
         /\ JobsOf("full", io) = 0 \/ JobsOf("chunk", hashEvents) = 0
         /\ JobsOf("chunk", checks) \in Nat /\ JobsOf("chunk", io) \in Nat
         /\ JobsOf("alloc", io) \in Nat /\ JobsOf("full", io) \in Nat
         /\ JobsOf("chunk", hashEvents) \in Nat /\ JobsOf("full", hashEvents) \in Nat
<1>1. /\ io \in Seq(Jobs) /\ checks \in Seq(Jobs) /\ hashEvents \in Seq(HashResults)
  BY DEF IInv, Sound, IsStore, Store
<1>2. /\ JobsOf("chunk", checks) \in Nat /\ JobsOf("chunk", io) \in Nat
      /\ JobsOf("alloc", io) \in Nat /\ JobsOf("full", io) \in Nat
      /\ JobsOf("chunk", hashEvents) \in Nat /\ JobsOf("full", hashEvents) \in Nat
  BY <1>1, JobsOfType
<1>3. /\ Store.io = io /\ Store.checks = checks /\ Store.pending = pending
      /\ Store.allocJob = allocJob /\ Store.fullJob = fullJob
  BY DEF Store
<1>4. pending \in Nat /\ allocJob \in BOOLEAN /\ fullJob \in BOOLEAN
  BY DEF IInv, Sound, IsStore, Store
<1>5. QED BY <1>1, <1>2, <1>3, <1>4 DEF IInv, Sound

\* When the result of an allocation is handled no allocation is under way.
LEMMA AllocOver ==
  ASSUME IInv, allocEvents # <<>>
  PROVE  Sound([Store EXCEPT !.allocJob = FALSE], Tail(allocEvents), hashEvents)
<1> DEFINE t == [Store EXCEPT !.allocJob = FALSE]
<1>1. /\ IsStore(t) /\ t.allocJob = FALSE /\ t.checks = checks /\ t.pending = pending
      /\ t.fullJob = fullJob /\ t.io = io
  BY Facts DEF IsStore
<1> HIDE DEF t
<1>2. /\ Tail(allocEvents) \in Seq(BOOLEAN) /\ Len(Tail(allocEvents)) = Len(allocEvents) - 1
      /\ Len(allocEvents) \in Nat /\ Len(allocEvents) > 0
  BY Facts, HeadTailProperties, EmptySeq, LenProperties
<1>3. JobsOf("alloc", io) = 0 /\ Len(Tail(allocEvents)) = 0
  BY SMTT(20), Facts, <1>2 DEF Count
<1>4. JobsOf("alloc", t.io) + Len(Tail(allocEvents)) = Count(t.allocJob)
  <2>1. Count(t.allocJob) = 0
    BY <1>1, Zenon DEF Count
  <2>2. t.io = io
    BY <1>1
  <2>3. JobsOf("alloc", t.io) = 0
    BY <1>3, <2>2
  <2> DEFINE a == JobsOf("alloc", t.io)
             n == Len(Tail(allocEvents))
  <2>4. a = 0 /\ n = 0
    BY <1>3, <2>3
  <2> HIDE DEF a, n
  <2>5. a + n = 0
    BY <2>4
  <2>6. QED BY <2>1, <2>5, Zenon DEF a, n
<1>5. Sound(t, Tail(allocEvents), hashEvents)
  BY Facts, <1>1, <1>2, <1>4 DEF Sound
<1>6. QED BY <1>5 DEF t

\* allocDone()
LEMMA HandleAllocIInv == IInv /\ HandleAlloc => IInv'
<1> SUFFICES ASSUME IInv, HandleAlloc PROVE IInv'
  OBVIOUS
<1> DEFINE ae == Tail(allocEvents)
           he == hashEvents
           s0 == [Store EXCEPT !.allocJob = FALSE]
           s1 == IF mode = "paused" /\ autoPaused THEN Resumed(s0) ELSE s0
<1>1. allocEvents' = ae /\ hashEvents' = he
  BY DEF HandleAlloc
<1>2. Sound(s0, ae, he) /\ s0.checks = checks
  BY AllocOver, Facts DEF HandleAlloc, IsStore
<1>3. PICK fault \in Faults :
        Commit(IF Head(allocEvents)
               THEN [Save(s1, fault) EXCEPT !.io = @ \o checks, !.checks = <<>>]
               ELSE AutoPaused(s0))
  BY DEF HandleAlloc, OnAlloc
<1> HIDE DEF s0
<1>4. ASSUME NEW t, t = Resumed(s0) \/ t = AutoPaused(s0)
      PROVE  Sound(t, ae, he) /\ t.checks = checks
  <2>1. /\ IsStore(t) /\ t.allocJob = s0.allocJob /\ t.checks = s0.checks
        /\ t.pending = s0.pending /\ t.fullJob = s0.fullJob /\ t.io = s0.io
    BY <1>2, <1>4 DEF Sound, IsStore, AutoPaused, Resumed
  <2>2. QED BY <1>2, <2>1, SoundSame
<1>5. Sound(s1, ae, he) /\ s1.checks = checks
  BY <1>2, <1>4
<1> HIDE DEF s1
<1> DEFINE s2 == Save(s1, fault)
           s3 == [s2 EXCEPT !.io = @ \o checks, !.checks = <<>>]
<1>6. Sound(s2, ae, he) /\ s2.checks = checks
  BY <1>5, SaveSound
<1> HIDE DEF s2
<1>7. Sound(s3, ae, he)
  BY <1>6, UnparkSound
<1> HIDE DEF s3
<1>8. Commit(s3) \/ Commit(AutoPaused(s0))
  BY <1>3 DEF s3, s2
<1>9. Sound(Store', ae, he)
  BY <1>4, <1>7, <1>8, CommitSound
<1>10. QED BY <1>1, <1>9 DEF IInv

\* While a chunk hash waits to be handled no final rehash is under way, so the
\* corruption of a chunk never has one to cancel.
LEMMA ChunkOver ==
  ASSUME IInv, hashEvents # <<>>, Head(hashEvents).kind = "chunk"
  PROVE  /\ fullJob = FALSE
         /\ \A s : s = Store \/ s = CancelFull(Store) =>
              Sound([s EXCEPT !.pending = @ - 1], allocEvents, Tail(hashEvents))
<1> DEFINE he == Tail(hashEvents)
<1>1. /\ he \in Seq(HashResults) /\ FullFirst(he) /\ JobsOf("full", hashEvents) = 0
      /\ JobsOf("chunk", hashEvents) = Count(TRUE) + JobsOf("chunk", he)
      /\ JobsOf("full", hashEvents) = Count(FALSE) + JobsOf("full", he)
  <2>1. /\ JobsOf("chunk", hashEvents) = Count(Head(hashEvents).kind = "chunk") + JobsOf("chunk", he)
        /\ JobsOf("full", hashEvents) = Count(Head(hashEvents).kind = "full") + JobsOf("full", he)
        /\ he \in Seq(HashResults)
    BY Facts, JobsOfTail
  <2>2. FullFirst(he) /\ JobsOf("full", hashEvents) = 0
    BY Facts, TailOrder
  <2>3. (Head(hashEvents).kind = "chunk") = TRUE /\ (Head(hashEvents).kind = "full") = FALSE
    OBVIOUS
  <2>4. QED BY <2>1, <2>2, <2>3
<1>2. JobsOf("chunk", he) \in Nat /\ JobsOf("full", he) \in Nat
  BY <1>1, JobsOfType
<1>3. JobsOf("chunk", hashEvents) = 1 + JobsOf("chunk", he) /\ JobsOf("full", he) = 0
  BY <1>1, <1>2 DEF Count
<1>4. JobsOf("full", io) = 0
  BY Facts, <1>2, <1>3
<1>5. fullJob = FALSE
  BY Facts, <1>1, <1>4 DEF Count
<1>6. ASSUME NEW s, s = Store \/ s = CancelFull(Store)
      PROVE  Sound([s EXCEPT !.pending = @ - 1], allocEvents, he)
  <2> DEFINE p == pending - 1
             t == [s EXCEPT !.pending = p]
  <2>1. /\ IsStore(s) /\ s.allocJob = allocJob /\ s.checks = checks /\ s.pending = pending
        /\ s.fullJob = FALSE /\ s.io = io
    BY Facts, <1>5, <1>6 DEF IsStore, CancelFull
  <2>2. p \in Nat /\ p = JobsOf("chunk", checks) + JobsOf("chunk", io) + JobsOf("chunk", he)
    <3> DEFINE a == JobsOf("chunk", checks)
               b == JobsOf("chunk", io)
               d == JobsOf("chunk", he)
    <3>1. a \in Nat /\ b \in Nat /\ pending = a + b + JobsOf("chunk", hashEvents)
      BY Facts
    <3>2. d \in Nat /\ JobsOf("chunk", hashEvents) = 1 + d
      BY <1>2, <1>3
    <3> HIDE DEF a, b, d
    <3>3. pending = a + b + (1 + d)
      BY <3>1, <3>2
    <3>4. p \in Nat /\ p = a + b + d
      BY <3>1, <3>2, <3>3
    <3>5. QED BY <3>4 DEF a, b, d
  <2>3. [s EXCEPT !.pending = @ - 1] = t
    BY <2>1 DEF IsStore
  <2> HIDE DEF p
  <2>4. /\ IsStore(t) /\ t.allocJob = allocJob /\ t.checks = checks /\ t.pending = p
        /\ t.fullJob = FALSE /\ t.io = io
    BY <2>1, <2>2 DEF IsStore
  <2> HIDE DEF t
  <2>5. JobsOf("full", t.io) + JobsOf("full", he) = Count(t.fullJob)
    BY <1>3, <1>4, <2>4 DEF Count
  <2>6. Sound(t, allocEvents, he)
    BY Facts, <1>1, <1>4, <2>2, <2>4, <2>5 DEF Sound
  <2>7. QED BY <2>3, <2>6
<1>7. QED BY <1>5, <1>6

\* Chunk::onHashEvent()
LEMMA HandleChunkIInv ==
  ASSUME IInv, hashEvents # <<>>, OnChunk(Head(hashEvents)),
         hashEvents' = Tail(hashEvents), UNCHANGED allocEvents
  PROVE  IInv'
<1> DEFINE e  == Head(hashEvents)
           ae == allocEvents
           he == Tail(hashEvents)
           s0 == IF e.result = "failed" THEN CancelFull(Store) ELSE Store
           s1 == [s0 EXCEPT !.pending = @ - 1]
<1>1. e.kind = "chunk" /\ \E comp, fault : Commit(TryComplete(s1, comp, fault))
  BY DEF OnChunk
<1>2. Sound(s1, ae, he)
  BY <1>1, ChunkOver
<1> HIDE DEF s1
<1>3. PICK comp, fault : Commit(TryComplete(s1, comp, fault))
  BY <1>1
<1>4. Sound(Store', ae, he)
  BY <1>2, <1>3, TryCompleteSound, CommitSound
<1>5. QED BY <1>4 DEF IInv

\* When the result of a final rehash is handled none is under way.
LEMMA FullOver ==
  ASSUME IInv, hashEvents # <<>>, Head(hashEvents).kind = "full"
  PROVE  Sound([Store EXCEPT !.fullJob = FALSE], allocEvents, Tail(hashEvents))
<1> DEFINE he == Tail(hashEvents)
           t == [Store EXCEPT !.fullJob = FALSE]
<1>1. /\ he \in Seq(HashResults) /\ FullFirst(he)
      /\ JobsOf("chunk", hashEvents) = Count(FALSE) + JobsOf("chunk", he)
      /\ JobsOf("full", hashEvents) = Count(TRUE) + JobsOf("full", he)
  <2>1. /\ JobsOf("chunk", hashEvents) = Count(Head(hashEvents).kind = "chunk") + JobsOf("chunk", he)
        /\ JobsOf("full", hashEvents) = Count(Head(hashEvents).kind = "full") + JobsOf("full", he)
        /\ he \in Seq(HashResults)
    BY Facts, JobsOfTail
  <2>2. FullFirst(he)
    BY Facts, TailOrder
  <2>3. (Head(hashEvents).kind = "chunk") = FALSE /\ (Head(hashEvents).kind = "full") = TRUE
    OBVIOUS
  <2>4. QED BY <2>1, <2>2, <2>3
<1>2. JobsOf("chunk", he) \in Nat /\ JobsOf("full", he) \in Nat
  BY <1>1, JobsOfType
<1>3. /\ JobsOf("chunk", hashEvents) = JobsOf("chunk", he)
      /\ JobsOf("full", hashEvents) = 1 + JobsOf("full", he)
  BY <1>1, <1>2 DEF Count
<1>4. JobsOf("full", io) = 0 /\ JobsOf("full", he) = 0
  <2>1. Count(fullJob) \in {0, 1}
    BY DEF Count
  <2>2. JobsOf("full", io) + (1 + JobsOf("full", he)) = Count(fullJob) /\ JobsOf("full", io) \in Nat
    BY Facts, <1>3
  <2>3. QED BY <1>2, <2>1, <2>2
<1>5. /\ IsStore(t) /\ t.allocJob = allocJob /\ t.checks = checks /\ t.pending = pending
      /\ t.fullJob = FALSE /\ t.io = io
  BY Facts DEF IsStore
<1> HIDE DEF t
<1>6. JobsOf("full", t.io) + JobsOf("full", he) = Count(t.fullJob)
  BY <1>4, <1>5 DEF Count
<1>7. Sound(t, allocEvents, he)
  BY Facts, <1>1, <1>3, <1>4, <1>5, <1>6 DEF Sound
<1>8. QED BY <1>7 DEF t

\* onHashEvent() of the whole file.
LEMMA HandleFullIInv ==
  ASSUME IInv, hashEvents # <<>>, OnFull(Head(hashEvents)),
         hashEvents' = Tail(hashEvents), UNCHANGED allocEvents
  PROVE  IInv'
<1> DEFINE e  == Head(hashEvents)
           ae == allocEvents
           he == Tail(hashEvents)
           s0 == [Store EXCEPT !.fullJob = FALSE]
<1>1. e.kind = "full"
  BY DEF OnFull
<1>2. Sound(s0, ae, he)
  BY <1>1, FullOver
<1>3. \/ Commit(s0)
      \/ \E fault \in Faults : Judge(e.good, fault)
  BY DEF OnFull
<1> HIDE DEF s0
<1>4. CASE Commit(s0)
  BY <1>2, <1>4, CommitSound DEF IInv
<1>5. ASSUME NEW fault \in Faults, Judge(e.good, fault) PROVE IInv'
  <2> DEFINE ok == UNION {Points(k) : k \in e.good}
  <2>1. PICK ks \in InOrder(ReachedEarly(e.good)) : Commit(VerifyChunks(s0, ks, ok, fault))
    BY <1>5 DEF Judge, s0
  <2>2. ReachedEarly(e.good) \subseteq Chunks
    BY DEF ReachedEarly, ToVerify
  <2>3. ks \in Seq(Chunks)
    BY <2>1, <2>2, InOrderSeq
  <2>4. Sound(VerifyChunks(s0, ks, ok, fault), ae, he)
    BY <1>2, <2>3, VerifyChunksSound
  <2>5. QED BY <2>1, <2>4, CommitSound DEF IInv
<1>6. QED BY <1>3, <1>4, <1>5

\* Every step keeps the counts.
LEMMA StepIInv == IInv /\ [Next]_vars => IInv'
<1> SUFFICES ASSUME IInv, [Next]_vars PROVE IInv'
  OBVIOUS
<1>1. ASSUME NEW c \in Clients, GetRange(c) \/ GetLock(c) \/ Unlock(c) \/ Unuse(c)
      PROVE  IInv'
  BY <1>1, SameJobs DEF GetRange, GetLock, Unlock, Unuse, store, events
<1>2. ASSUME NEW c \in Clients, Write(c) PROVE IInv'
  <2>1. PICK range, data, fault : DoWrite(range, data, fault, FALSE) /\ UNCHANGED events
    BY <1>2 DEF Write
  <2>2. QED BY <2>1, DoWriteIInv
<1>3. CASE SafeWrite
  <2>1. PICK range, data, fault : DoWrite(range, data, fault, TRUE) /\ UNCHANGED events
    BY <1>3 DEF SafeWrite
  <2>2. QED BY <2>1, DoWriteIInv
<1>4. CASE RunJob
  BY <1>4, RunIInv
<1>5. CASE HandleAlloc
  BY <1>5, HandleAllocIInv
<1>6. CASE HandleHash
  BY <1>6, HandleChunkIInv, HandleFullIInv DEF HandleHash
<1>7. CASE Command
  BY <1>7, SameJobs DEF Command, events
<1>8. CASE SaveTimer
  <2>1. PICK fault \in Faults : Commit(Save(Store, fault))
    BY <1>8 DEF SaveTimer
  <2>2. Sound(Save(Store, fault), allocEvents, hashEvents)
    BY SaveSound DEF IInv
  <2>3. UNCHANGED <<allocEvents, hashEvents>>
    BY <1>8 DEF SaveTimer, events
  <2>4. QED BY <2>1, <2>2, <2>3, CommitSound DEF IInv
<1>9. CASE Rehash
  <2>1. PICK ks \in InOrder(Chunks) : Commit(Verify(Store, ks))
    BY <1>9 DEF Rehash
  <2>2. ks \in Seq(Chunks)
    BY <2>1, InOrderSeq
  <2>3. Sound(Verify(Store, ks), allocEvents, hashEvents)
    BY <2>2, VerifySound DEF IInv
  <2>4. UNCHANGED <<allocEvents, hashEvents>>
    BY <1>9 DEF Rehash, events
  <2>5. QED BY <2>1, <2>3, <2>4, CommitSound DEF IInv
<1>10. CASE Skip
  BY <1>10, SameJobs DEF Skip, store, events
<1>11. CASE Finished \/ UNCHANGED vars
  BY <1>11, SameJobs DEF Finished, vars, store, events
<1>12. QED
  BY <1>1, <1>2, <1>3, <1>4, <1>5, <1>6, <1>7, <1>8, <1>9, <1>10, <1>11 DEF Next, Step

\* m_pendingHashes counts the chunk hashes under way, m_allocJob the allocation
\* and m_fullJob the final rehash, whatever is written, lost, rehashed or
\* paused, and in whatever order the results are handled.
THEOREM Counted == Spec => []WorkCounted
<1>1. IInv => WorkCounted
  BY Facts DEF WorkCounted, PendingExact, AllocExact, FullJobExact
<1>2. QED BY <1>1, InitIInv, StepIInv, PTL DEF Spec

-----------------------------------------------------------------------------
(* Types.  Those of the queues of jobs and of their results are part of      *)
(* IInv, those of the locks part of LockInv.                                 *)

Modes == {"running", "paused", "stopped"}
Bytes == Data \cup {None}

\* The fields of a store that IsStore() does not say anything of.
Kept(s) ==
    /\ DOMAIN s.buffer \subseteq Pos /\ \A b \in DOMAIN s.buffer : s.buffer[b] \in Seq(Data)
    /\ s.toFlush \in Nat
    /\ s.disk \in [Pos -> Bytes]
    /\ s.mode \in Modes /\ s.autoPaused \in BOOLEAN

Typed(s) == IsStore(s) /\ Kept(s)

\* The variables that are not in the store.
Rest ==
    /\ hashed \in BOOLEAN
    /\ complete \subseteq Pos /\ verified \subseteq Pos
    /\ corrupt \subseteq Pos /\ dontDownload \subseteq Pos
    /\ flags \in [Chunks -> [complete : BOOLEAN, partial : BOOLEAN, verified : BOOLEAN]]
    /\ partStatus \subseteq Chunks
    /\ used \in [Clients -> Chunks \cup {NoChunk}]
    /\ wrote \in [Clients -> SUBSET Pos]
    /\ latest \in [Pos -> Bytes]
    /\ held \in BOOLEAN
    /\ completions \in Nat /\ bads \in Nat /\ faults \in Nat
    /\ commands \in Nat /\ rehashes \in Nat

TInv == IInv /\ LockInv /\ Kept(Store) /\ Rest

-----------------------------------------------------------------------------
(* The store.                                                                *)

\* What the IO thread will find after a flush is made of bytes.
LEMMA WrittenType ==
  ASSUME NEW b, NEW d \in [Pos -> Bytes], DOMAIN b \subseteq Pos,
         \A i \in DOMAIN b : b[i] \in Seq(Data)
  PROVE  Written(b, d) \in [Pos -> Bytes]
<1>1. ASSUME NEW p \in Pos, Covering(b, p) # {}
      PROVE  b[Max(Covering(b, p))][p - Max(Covering(b, p)) + 1] \in Data
  <2> DEFINE i == Max(Covering(b, p))
  <2>1. Covering(b, p) \subseteq Pos
    BY DEF Covering
  <2>2. i \in Covering(b, p)
    BY <1>1, <2>1, MaxIn
  <2>3. i \in DOMAIN b /\ i <= p /\ p < i + Len(b[i]) /\ i \in Int /\ p \in Int
    BY <2>1, <2>2, PartDataAssumption DEF Covering, Pos
  <2> HIDE DEF i
  <2>4. b[i] \in Seq(Data) /\ Len(b[i]) \in Nat
    BY <2>3
  <2>5. p - i + 1 \in 1..Len(b[i])
    BY <2>3, <2>4
  <2>6. b[i][p - i + 1] \in Data
    BY <2>4, <2>5
  <2>7. QED BY <2>6 DEF i
<1>2. ASSUME NEW p \in Pos PROVE Written(b, d)[p] \in Bytes
  BY <1>1 DEF Written, Bytes
<1>3. Written(b, d) = [p \in Pos |-> Written(b, d)[p]]
  BY DEF Written
<1>4. QED BY <1>2, <1>3

\* What Kept() says something of is the same in two stores.
SameKept(t, s) ==
    /\ t.buffer = s.buffer /\ t.toFlush = s.toFlush /\ t.disk = s.disk
    /\ t.mode = s.mode /\ t.autoPaused = s.autoPaused

\* A store with the same data has the same types.
LEMMA KeptSame ==
  ASSUME NEW s, NEW t, Typed(s), IsStore(t), SameKept(t, s) PROVE Typed(t)
BY DEF Typed, Kept, SameKept

\* flushBuffer() keeps the types.
LEMMA FlushTyped ==
  ASSUME NEW s, Typed(s), NEW fault PROVE Typed(Flush(s, fault))
<1>1. CASE s.allocJob \/ (fault = "flush" /\ ~MustAllocate(s))
  BY <1>1 DEF Flush
<1>2. CASE ~s.allocJob /\ MustAllocate(s)
  <2> DEFINE q == Append(s.io, AllocJob)
             t == [s EXCEPT !.allocJob = TRUE, !.io = q]
  <2>1. q \in Seq(Jobs)
    BY AppendJob, KindsOfJobs DEF Typed, IsStore
  <2>2. Flush(s, fault) = t
    BY <1>2 DEF Flush
  <2> HIDE DEF q
  <2>3. IsStore(t) /\ SameKept(t, s)
    BY <2>1 DEF Typed, IsStore, SameKept
  <2> HIDE DEF t
  <2>4. QED BY <2>2, <2>3, KeptSame
<1>3. CASE ~s.allocJob /\ ~MustAllocate(s) /\ fault # "flush"
  <2> DEFINE w == Written(s.buffer, s.disk)
             t == [s EXCEPT !.disk = w, !.buffer = <<>>, !.toFlush = 0]
  <2>1. w \in [Pos -> Bytes]
    BY WrittenType DEF Typed, Kept
  <2>2. Flush(s, fault) = t
    BY <1>3 DEF Flush
  <2> HIDE DEF w
  <2>3. /\ IsStore(t) /\ t.disk = w /\ t.buffer = <<>> /\ t.toFlush = 0
        /\ t.mode = s.mode /\ t.autoPaused = s.autoPaused
    BY DEF Typed, IsStore
  <2> HIDE DEF t
  <2>4. DOMAIN t.buffer = {}
    BY <2>3
  <2>5. Kept(t)
    BY <2>1, <2>3, <2>4 DEF Typed, Kept
  <2>6. QED BY <2>2, <2>3, <2>5 DEF Typed
<1>4. QED BY <1>1, <1>2, <1>3

\* save() keeps the types.
LEMMA SaveTyped ==
  ASSUME NEW s, Typed(s), NEW fault PROVE Typed(Save(s, fault))
<1> DEFINE f == Flush(s, fault)
<1>1. Typed(f)
  BY FlushTyped
<1>2. Save(s, fault) \in {AutoPaused(f), Resumed(f), f}
  BY DEF Save
<1> HIDE DEF f
<1>3. Typed(AutoPaused(f)) /\ Typed(Resumed(f))
  BY <1>1 DEF Typed, IsStore, Kept, AutoPaused, Resumed, Modes
<1>4. QED BY <1>1, <1>2, <1>3

\* verifyRange() keeps the types.
LEMMA VerifyTyped ==
  ASSUME NEW s, Typed(s), NEW ks \in Seq(Chunks) PROVE Typed(Verify(s, ks))
<1> DEFINE work == [i \in DOMAIN ks |-> ChunkJob(ks[i])]
           p == s.pending + Len(ks)
           c == s.checks \o work
           q == s.io \o work
           parked == [s EXCEPT !.checks = c, !.pending = p]
           posted == [s EXCEPT !.io = q, !.pending = p]
<1>1. work \in Seq(Jobs) /\ p \in Nat
  BY KindsOfJobs DEF Typed, IsStore
<1>2. Verify(s, ks) \in {parked, posted}
  BY DEF Verify
<1> HIDE DEF work, p
<1>3. c \in Seq(Jobs) /\ q \in Seq(Jobs)
  BY <1>1 DEF Typed, IsStore
<1> HIDE DEF c, q
<1>4. IsStore(parked) /\ SameKept(parked, s)
  BY <1>1, <1>3 DEF Typed, IsStore, SameKept
<1>5. IsStore(posted) /\ SameKept(posted, s)
  BY <1>1, <1>3 DEF Typed, IsStore, SameKept
<1> HIDE DEF parked, posted
<1>6. QED BY <1>2, <1>4, <1>5, KeptSame

\* tryComplete() keeps the types.
LEMMA TryCompleteTyped ==
  ASSUME NEW s, Typed(s), NEW comp, NEW fault PROVE Typed(TryComplete(s, comp, fault))
<1> DEFINE t == Save(s, fault)
<1>1. Typed(t)
  BY SaveTyped
<1>2. TryComplete(s, comp, fault) \in {s, [t EXCEPT !.io = Append(t.io, FullJob), !.fullJob = TRUE]}
  BY DEF TryComplete
<1> HIDE DEF t
<1>3. Append(t.io, FullJob) \in Seq(Jobs)
  BY <1>1, AppendJob, KindsOfJobs DEF Typed, IsStore
<1>4. Typed([t EXCEPT !.io = Append(t.io, FullJob), !.fullJob = TRUE])
  BY <1>1, <1>3 DEF Typed, IsStore, Kept
<1>5. QED BY <1>2, <1>4

\* Chunk::verify() keeps the types.
LEMMA VerifyChunksTyped ==
  ASSUME NEW s, Typed(s), NEW ks \in Seq(Chunks), NEW comp, NEW fault
  PROVE  Typed(VerifyChunks(s, ks, comp, fault))
<1>1. Typed(Verify(Save(s, fault), ks))
  BY SaveTyped, VerifyTyped
<1>2. Typed(TryComplete(s, comp, fault))
  BY TryCompleteTyped
<1>3. QED BY <1>1, <1>2 DEF VerifyChunks

\* A handler that ends with a typed store commits a typed one.
LEMMA CommitTyped ==
  ASSUME NEW s, Typed(s), Commit(s) PROVE Kept(Store')
BY DEF Commit, Store, Typed, Kept

-----------------------------------------------------------------------------
(* Writing.                                                                  *)

\* The smallest element of a range is where it begins.
LEMMA MinOfRange ==
  ASSUME NEW a \in Int, NEW b \in Int, a <= b PROVE Min(a..b) = a
<1>1. a \in a..b /\ \A y \in a..b : a <= y
  OBVIOUS
<1>2. \A x \in a..b : (\A y \in a..b : x <= y) => x = a
  OBVIOUS
<1>3. QED BY <1>1, <1>2, Zenon DEF Min

\* The flags of the chunks are three Booleans each.
LEMMA FlagTypes ==
  ASSUME Rest, NEW comp, NEW ver
  PROVE  /\ \A k : Fresh(k, comp, ver) \in [complete : BOOLEAN, partial : BOOLEAN, verified : BOOLEAN]
         /\ \A range : Updated(range, comp, ver)
               \in [Chunks -> [complete : BOOLEAN, partial : BOOLEAN, verified : BOOLEAN]]
<1>1. \A k : Fresh(k, comp, ver) \in [complete : BOOLEAN, partial : BOOLEAN, verified : BOOLEAN]
  BY DEF Fresh
<1>2. QED BY <1>1 DEF Updated, Rest

\* doWrite() keeps the types of the store and of the lists it changes.
LEMMA DoWriteTyped ==
  ASSUME TInv, NEW begin \in Pos, NEW n \in 1..MaxWrite, NEW d \in Data, NEW fault,
         NEW whole \in BOOLEAN, begin + n <= Size,
         DoWrite(begin..(begin + n - 1), [i \in 1..n |-> d], fault, whole)
  PROVE  /\ Kept(Store')
         /\ complete' \subseteq Pos /\ dontDownload' \subseteq Pos
         /\ latest' \in [Pos -> Bytes] /\ faults' \in Nat
         /\ begin..(begin + n - 1) \subseteq Pos
<1> DEFINE range == begin..(begin + n - 1)
           data == [i \in 1..n |-> d]
           comp == complete \cup range
           After(t) == [t EXCEPT !.toFlush = @ + Len(data)]
           Full(t)  == IF t.toFlush >= BufLimit THEN Save(t, fault) ELSE t
           Ended(t) == IF whole THEN TryComplete(t, comp, fault) ELSE t
<1>1. /\ begin \in Int /\ n \in Nat /\ begin + n - 1 \in Int /\ begin <= begin + n - 1
      /\ range \subseteq Pos /\ Min(range) = begin
  <2>1. begin \in Int /\ n \in Nat /\ n >= 1 /\ begin >= 0 /\ Size \in Nat
    BY PartDataAssumption DEF Pos
  <2>2. begin + n - 1 \in Int /\ begin <= begin + n - 1
    BY <2>1
  <2>3. range \subseteq Pos
    BY <2>1 DEF Pos
  <2>4. QED BY <2>1, <2>2, <2>3, MinOfRange
<1>2. data \in Seq(Data) /\ Len(data) = n
  BY <1>1
<1>3. PICK ks \in InOrder(ToVerify(Touched(range), comp, verified)) :
        Commit(Ended(Full(After(
            VerifyChunks(Buffered(Store, Min(range), data), ks, comp, fault)))))
  BY DEF DoWrite
<1> DEFINE s0 == Buffered(Store, Min(range), data)
           s1 == VerifyChunks(s0, ks, comp, fault)
           s2 == After(s1)
           s3 == Full(s2)
           s4 == Ended(s3)
<1>4. ks \in Seq(Chunks)
  <2>1. ToVerify(Touched(range), comp, verified) \subseteq Chunks
    BY DEF ToVerify, Touched
  <2>2. QED BY <1>3, <2>1, InOrderSeq
<1>5. Typed(s0)
  <2> DEFINE b == [x \in DOMAIN buffer \cup {begin} |-> IF x = begin THEN data ELSE buffer[x]]
  <2>1. /\ DOMAIN b = {begin} \cup DOMAIN buffer
        /\ \A x \in DOMAIN b : b[x] = data \/ (x \in DOMAIN buffer /\ b[x] = buffer[x])
    OBVIOUS
  <2>2. DOMAIN b \subseteq Pos /\ \A x \in DOMAIN b : b[x] \in Seq(Data)
    BY <1>2, <2>1 DEF TInv, Kept, Store
  <2>3. s0 = [Store EXCEPT !.buffer = b]
    BY <1>1 DEF Buffered, Store
  <2> HIDE DEF b
  <2>4. Typed(Store)
    BY Facts DEF TInv, Typed
  <2>5. QED BY <2>2, <2>3, <2>4 DEF Typed, IsStore, Kept
<1> HIDE DEF s0
<1>6. Typed(s1)
  BY <1>4, <1>5, VerifyChunksTyped
<1> HIDE DEF s1
<1>7. Typed(s2)
  <2>1. /\ IsStore(s2) /\ s2.buffer = s1.buffer /\ s2.disk = s1.disk
        /\ s2.mode = s1.mode /\ s2.autoPaused = s1.autoPaused
        /\ s2.toFlush = s1.toFlush + Len(data)
    BY <1>6 DEF Typed, IsStore
  <2> HIDE DEF s2
  <2>2. s2.toFlush \in Nat
    BY <1>1, <1>2, <1>6, <2>1 DEF Typed, Kept
  <2>3. QED BY <1>6, <2>1, <2>2 DEF Typed, Kept
<1> HIDE DEF s2
<1>8. Typed(s3)
  BY <1>7, SaveTyped
<1> HIDE DEF s3
<1>9. Typed(s4)
  BY <1>8, TryCompleteTyped
<1>10. Commit(s4)
  BY <1>3 DEF s0, s1, s2, s3
<1> HIDE DEF s4
<1>11. Kept(Store')
  BY <1>9, <1>10, CommitTyped
<1>12. complete' \subseteq Pos /\ dontDownload' \subseteq Pos
  BY <1>1 DEF DoWrite, TInv, Rest
<1>13. latest' \in [Pos -> Bytes]
  <2>1. latest' = [p \in Pos |-> IF p \in range THEN data[p - begin + 1] ELSE latest[p]]
    BY <1>1 DEF DoWrite
  <2>2. \A p \in range : p - begin + 1 \in 1..n
    BY <1>1
  <2>3. \A p \in Pos : p \in range => data[p - begin + 1] = d
    BY <2>2
  <2>4. QED BY <2>1, <2>3 DEF TInv, Rest, Bytes
<1>14. faults' \in Nat
  BY DEF DoWrite, CountFault, Count, TInv, Rest
<1>15. QED BY <1>1, <1>11, <1>12, <1>13, <1>14

-----------------------------------------------------------------------------
(* The other steps.                                                          *)

\* A step that leaves the store and the jobs under way alone.
LEMMA StoreSame ==
  ASSUME TInv, UNCHANGED <<buffer, toFlush, disk, autoPaused>>, mode' \in Modes
  PROVE  Kept(Store')
BY DEF TInv, Kept, Store

\* A failure of the disk is counted.
LEMMA FaultType ==
  ASSUME TInv, NEW f, CountFault(f) PROVE faults' \in Nat
BY DEF TInv, Rest, CountFault, Count

\* Writing through a lock.
LEMMA WriteTyped ==
  ASSUME TInv, UNCHANGED hashed, NEW c \in Clients, Write(c)
  PROVE  Kept(Store') /\ Rest'
<1>1. PICK begin \in Pos, n \in 1..MaxWrite, d \in Data, fault \in Faults :
        LET range == begin..(begin + n - 1)
            flag  == Updated(range, complete \cup range, verified)
        IN  /\ Input(begin, n, d)
            /\ DoWrite(range, [i \in 1..n |-> d], fault, FALSE)
            /\ flags' = [flag EXCEPT ![used[c]].partial = TRUE]
            /\ wrote' = [wrote EXCEPT ![c] = @ \cup range]
            /\ UNCHANGED <<corrupt, verified, partStatus, locked, used, lock, events,
                           completions, held, commands, rehashes>>
  BY ZenonT(40) DEF Write
<1> DEFINE range == begin..(begin + n - 1)
           flag  == Updated(range, complete \cup range, verified)
<1>2. /\ Kept(Store') /\ complete' \subseteq Pos /\ dontDownload' \subseteq Pos
      /\ latest' \in [Pos -> Bytes] /\ faults' \in Nat /\ range \subseteq Pos
  BY <1>1, DoWriteTyped DEF Input
<1>3. flag \in [Chunks -> [complete : BOOLEAN, partial : BOOLEAN, verified : BOOLEAN]]
  BY FlagTypes DEF TInv
<1> HIDE DEF flag
<1>4. flags' = [flag EXCEPT ![used[c]].partial = TRUE]
  BY <1>1 DEF flag, range
<1>5. flags' \in [Chunks -> [complete : BOOLEAN, partial : BOOLEAN, verified : BOOLEAN]]
  BY <1>3, <1>4
<1>6. bads' \in Nat
  BY <1>1 DEF Input, Count, TInv, Rest
<1>7. wrote' \in [Clients -> SUBSET Pos]
  BY <1>1, <1>2 DEF TInv, Rest
<1>8. QED BY <1>1, <1>2, <1>5, <1>6, <1>7 DEF TInv, Rest

\* Writing without a lock.
LEMMA SafeWriteTyped ==
  ASSUME TInv, UNCHANGED hashed, SafeWrite
  PROVE  Kept(Store') /\ Rest'
<1>1. PICK begin \in Pos, n \in 1..MaxWrite, d \in Data, fault \in Faults :
        LET range == begin..(begin + n - 1)
        IN  /\ Input(begin, n, d)
            /\ DoWrite(range, [i \in 1..n |-> d], fault, TRUE)
            /\ flags' = Updated(range, complete \cup range, verified)
            /\ UNCHANGED <<corrupt, verified, partStatus, locks, events,
                           completions, held, commands, rehashes>>
  BY DEF SafeWrite
<1>2. /\ Kept(Store') /\ complete' \subseteq Pos /\ dontDownload' \subseteq Pos
      /\ latest' \in [Pos -> Bytes] /\ faults' \in Nat
  BY <1>1, DoWriteTyped DEF Input
<1>3. flags' \in [Chunks -> [complete : BOOLEAN, partial : BOOLEAN, verified : BOOLEAN]]
  BY <1>1, FlagTypes DEF TInv
<1>4. bads' \in Nat
  BY <1>1 DEF Input, Count, TInv, Rest
<1>5. QED BY <1>1, <1>2, <1>3, <1>4 DEF TInv, Rest, locks

\* The IO thread.
LEMMA RunTyped ==
  ASSUME TInv, UNCHANGED hashed, RunJob
  PROVE  Kept(Store') /\ Rest'
<1>1. disk' \in [Pos -> Bytes] /\ faults' \in Nat
  <2>1. CASE RunAlloc
    <3>1. PICK fault \in {None, "flush"} :
            CountFault(fault) /\ disk' = IF fault = None THEN Allocated(disk) ELSE disk
      BY <2>1 DEF RunAlloc
    <3>2. disk \in [Pos -> Bytes] /\ Allocated(disk) \in [Pos -> Bytes]
      BY DEF TInv, Kept, Store, Allocated, Bytes, Data
    <3>3. QED BY <3>1, <3>2, FaultType
  <2>2. CASE RunChunk \/ RunFull
    <3>1. disk' = disk /\ \E fault : CountFault(fault)
      BY <2>2 DEF RunChunk, RunFull
    <3>2. QED BY <3>1, FaultType DEF TInv, Kept, Store
  <2>3. QED BY <2>1, <2>2 DEF RunJob
<1>2. UNCHANGED <<lists, buffer, toFlush, mode, autoPaused, locks, observed, bads, commands,
                  rehashes>>
  BY DEF RunJob
<1>3. Kept(Store')
  BY <1>1, <1>2 DEF TInv, Kept, Store
<1>4. QED BY <1>1, <1>2, <1>3 DEF TInv, Rest, lists, locks, observed

\* allocDone()
LEMMA AllocTyped ==
  ASSUME TInv, UNCHANGED hashed, HandleAlloc
  PROVE  Kept(Store') /\ Rest'
<1> DEFINE ok == Head(allocEvents)
           s0 == [Store EXCEPT !.allocJob = FALSE]
           s1 == IF mode = "paused" /\ autoPaused THEN Resumed(s0) ELSE s0
           s2(fault) == Save(s1, fault)
           s3(fault) == [s2(fault) EXCEPT !.io = @ \o checks, !.checks = <<>>]
<1>1. PICK fault \in Faults :
        CountFault(fault) /\ Commit(IF ok THEN s3(fault) ELSE AutoPaused(s0))
  BY DEF HandleAlloc, OnAlloc
<1>2. Typed(s0)
  <2>1. Typed(Store) BY Facts DEF TInv, Typed
  <2>2. QED BY <2>1 DEF Typed, IsStore, Kept
<1> HIDE DEF s0
<1>3. ASSUME NEW s, Typed(s) PROVE Typed(AutoPaused(s)) /\ Typed(Resumed(s))
  BY <1>3 DEF Typed, IsStore, Kept, AutoPaused, Resumed, Modes
<1>4. Typed(s1)
  BY <1>2, <1>3
<1> HIDE DEF s1
<1>5. Typed(s2(fault))
  BY <1>4, SaveTyped
<1> DEFINE u == s2(fault)
           q == u.io \o checks
           v == [u EXCEPT !.io = q, !.checks = <<>>]
<1>6. s3(fault) = v
  OBVIOUS
<1> HIDE DEF s2
<1>7. Typed(v)
  <2>1. Typed(u)
    BY <1>5
  <2> HIDE DEF u
  <2>2. q \in Seq(Jobs) /\ <<>> \in Seq(Jobs)
    BY <2>1, Facts DEF Typed, IsStore, TInv
  <2> HIDE DEF q
  <2>3. IsStore(v) /\ SameKept(v, u)
    BY <2>1, <2>2 DEF Typed, IsStore, SameKept
  <2> HIDE DEF v
  <2>4. QED BY <2>1, <2>3, KeptSame
<1> HIDE DEF u, v, s3
<1>8. Kept(Store')
  <2>1. CASE ok BY <1>1, <1>6, <1>7, <2>1, CommitTyped
  <2>2. CASE ~ok BY <1>1, <1>2, <1>3, <2>2, CommitTyped
  <2>3. QED BY <2>1, <2>2
<1>9. UNCHANGED <<lists, locks, latest, completions, held, bads, commands, rehashes>>
  BY DEF HandleAlloc, OnAlloc
<1>10. faults' \in Nat
  BY <1>1, FaultType
<1>11. QED BY <1>8, <1>9, <1>10 DEF TInv, Rest, lists, locks

\* A result is about a chunk, or about some chunks, of the file.
LEMMA ResultTypes ==
  ASSUME NEW e \in HashResults
  PROVE  (e.kind = "chunk" => e.chunk \in Chunks) /\ (e.kind = "full" => e.good \subseteq Chunks)
BY DEF HashResults

\* Chunk::onHashEvent()
LEMMA ChunkTyped ==
  ASSUME TInv, UNCHANGED hashed, HandleHash, OnChunk(Head(hashEvents))
  PROVE  Kept(Store') /\ Rest'
<1> DEFINE e  == Head(hashEvents)
           s0 == IF e.result = "failed" THEN CancelFull(Store) ELSE Store
           s1 == [s0 EXCEPT !.pending = @ - 1]
<1>1. hashEvents # <<>> /\ e.kind = "chunk" /\ e \in HashResults /\ e.chunk \in Chunks
  <2>1. hashEvents # <<>> /\ e.kind = "chunk" /\ hashEvents \in Seq(HashResults)
    BY Facts DEF HandleHash, OnChunk, TInv
  <2>2. e \in HashResults
    BY <2>1, HeadTailProperties, EmptySeq
  <2>3. QED BY <2>1, <2>2, ResultTypes
<1> HIDE DEF e
<1>2. PICK fault \in Faults :
        LET comp == CASE e.result = "verified" -> complete \cup Points(e.chunk)
                      [] e.result = "failed"   -> complete \ RangeOf(e.chunk)
                      [] OTHER                 -> complete
        IN  CountFault(fault) /\ complete' = comp /\ Commit(TryComplete(s1, comp, fault))
  BY DEF OnChunk, e
<1>3. Typed(s1)
  <2>1. IsStore(s1)
    <3>1. IsStore([s0 EXCEPT !.pending = @ - 1])
      BY <1>1, ChunkOver DEF TInv, Sound, e
    <3>2. QED BY <3>1
  <2>2. SameKept(s1, Store)
    BY DEF SameKept, CancelFull, Store
  <2>3. Typed(Store)
    BY Facts DEF TInv, Typed
  <2> HIDE DEF s1
  <2>4. QED BY <2>1, <2>2, <2>3, KeptSame
<1> HIDE DEF s1
<1>4. Kept(Store') /\ faults' \in Nat
  BY <1>2, <1>3, TryCompleteTyped, CommitTyped, FaultType
<1>5. complete' \subseteq Pos
  BY <1>2 DEF TInv, Rest, Points
<1>6. /\ verified' \subseteq Pos /\ corrupt' \subseteq Pos /\ partStatus' \subseteq Chunks
      /\ flags' \in [Chunks -> [complete : BOOLEAN, partial : BOOLEAN, verified : BOOLEAN]]
  <2>1. CASE e.result = "verified"
    <3>1. /\ verified' = verified \cup Points(e.chunk) /\ corrupt' = corrupt
          /\ flags' = [flags EXCEPT ![e.chunk] =
                         [complete |-> TRUE, partial |-> FALSE, verified |-> TRUE]]
          /\ partStatus' = partStatus \cup {e.chunk}
      BY <2>1 DEF OnChunk, e
    <3>2. QED BY <1>1, <3>1 DEF TInv, Rest, Points
  <2>2. CASE e.result = "failed"
    <3>1. /\ verified' = verified \ RangeOf(e.chunk) /\ corrupt' = corrupt \cup RangeOf(e.chunk)
          /\ flags' = [flags EXCEPT ![e.chunk] =
                         [complete |-> FALSE, partial |-> FALSE, verified |-> FALSE]]
          /\ partStatus' = partStatus \ {e.chunk}
      BY <2>2 DEF OnChunk, e
    <3>2. QED BY <1>1, <3>1 DEF TInv, Rest, Points, RangeOf
  <2>3. CASE e.result # "verified" /\ e.result # "failed"
    <3>1. UNCHANGED <<verified, corrupt, flags, partStatus>>
      BY <2>3 DEF OnChunk, e
    <3>2. QED BY <3>1 DEF TInv, Rest
  <2>4. QED BY <2>1, <2>2, <2>3
<1>7. UNCHANGED <<dontDownload, completions, locks, latest, held, bads, commands, rehashes>>
  BY DEF OnChunk, HandleHash
<1>8. QED BY <1>4, <1>5, <1>6, <1>7 DEF TInv, Rest, locks

\* onHashEvent() of the whole file.
LEMMA FullTyped ==
  ASSUME TInv, UNCHANGED hashed, HandleHash, OnFull(Head(hashEvents))
  PROVE  Kept(Store') /\ Rest'
<1> DEFINE e  == Head(hashEvents)
           s0 == [Store EXCEPT !.fullJob = FALSE]
<1>1. \A k \in Chunks : Points(k) \subseteq Pos
  BY DEF Points
<1>2. Typed(s0)
  <2>1. Typed(Store) BY Facts DEF TInv, Typed
  <2>2. QED BY <2>1 DEF Typed, IsStore, Kept
<1>3. PICK fault \in Faults : CountFault(fault)
          /\ IF e.result = "complete" /\ e.size = Size /\ hashed THEN Judge(e.good, fault)
             ELSE /\ Commit(s0)
                  /\ \/ /\ complete' = {} /\ verified' = {} /\ corrupt' = Pos
                        /\ flags' = [k \in Chunks |-> Fresh(k, {}, {})]
                        /\ UNCHANGED completions
                     \/ /\ completions' = completions
                              + Count(e.result = "complete" /\ complete = Pos)
                        /\ UNCHANGED <<complete, verified, corrupt, flags>>
  BY DEF OnFull
<1>4. UNCHANGED <<dontDownload, partStatus, locks, latest, held, bads, commands, rehashes>>
  BY DEF OnFull, HandleHash
<1>5. faults' \in Nat
  BY <1>3, FaultType
<1>6. \A P : Count(P) \in Nat
  BY DEF Count
<1> HIDE DEF s0
<1>7. ASSUME Judge(e.good, fault) PROVE Kept(Store') /\ Rest'
  <2> DEFINE ok == UNION {Points(k) : k \in e.good}
  <2>1. PICK ks \in InOrder(ReachedEarly(e.good)) : Commit(VerifyChunks(s0, ks, ok, fault))
    BY <1>7 DEF Judge, s0
  <2>2. ReachedEarly(e.good) \subseteq Chunks
    BY DEF ReachedEarly, ToVerify
  <2>3. ks \in Seq(Chunks)
    BY <2>1, <2>2, InOrderSeq
  <2>4. Kept(Store')
    BY <1>2, <2>1, <2>3, VerifyChunksTyped, CommitTyped
  <2>5. ok \subseteq Pos
    BY DEF Points
  <2>6. /\ complete' = ok /\ verified' = ok /\ corrupt' = (corrupt \cup Pos) \ ok
        /\ flags' = [k \in Chunks |-> Fresh(k, ok, ok)]
        /\ completions' = completions + Count(ok = Pos)
    BY <1>7 DEF Judge
  <2> HIDE DEF ok
  <2>7. flags' \in [Chunks -> [complete : BOOLEAN, partial : BOOLEAN, verified : BOOLEAN]]
    BY <2>6, FlagTypes DEF TInv
  <2>8. completions' \in Nat
    BY <1>6, <2>6 DEF TInv, Rest
  <2>9. QED BY <1>4, <1>5, <2>4, <2>5, <2>6, <2>7, <2>8 DEF TInv, Rest, locks
<1>8. ASSUME Commit(s0), complete' = {}, verified' = {}, corrupt' = Pos,
             flags' = [k \in Chunks |-> Fresh(k, {}, {})], UNCHANGED completions
      PROVE  Kept(Store') /\ Rest'
  <2>1. Kept(Store')
    BY <1>2, <1>8, CommitTyped
  <2>2. flags' \in [Chunks -> [complete : BOOLEAN, partial : BOOLEAN, verified : BOOLEAN]]
    BY <1>8, FlagTypes DEF TInv
  <2>3. QED BY <1>4, <1>5, <1>8, <2>1, <2>2 DEF TInv, Rest, locks
<1>9. ASSUME Commit(s0), UNCHANGED <<complete, verified, corrupt, flags>>,
             completions' = completions + Count(e.result = "complete" /\ complete = Pos)
      PROVE  Kept(Store') /\ Rest'
  <2>1. Kept(Store')
    BY <1>2, <1>9, CommitTyped
  <2>2. completions' \in Nat
    BY <1>6, <1>9 DEF TInv, Rest
  <2>3. QED BY <1>4, <1>5, <1>9, <2>1, <2>2 DEF TInv, Rest, locks
<1>10. QED BY <1>3, <1>7, <1>8, <1>9

\* A client takes or gives up a chunk or a lock.
LEMMA ClientTyped ==
  ASSUME TInv, UNCHANGED hashed, NEW c \in Clients,
         GetRange(c) \/ GetLock(c) \/ Unlock(c) \/ Unuse(c)
  PROVE  Kept(Store') /\ Rest'
<1>1. UNCHANGED <<lists, store, observed, counters>>
  BY DEF GetRange, GetLock, Unlock, Unuse
<1>2. used' \in [Clients -> Chunks \cup {NoChunk}] /\ wrote' \in [Clients -> SUBSET Pos]
  BY DEF GetRange, GetLock, Unlock, Unuse, TInv, Rest
<1>3. Kept(Store')
  BY <1>1 DEF TInv, Kept, Store, store
<1>4. QED BY <1>1, <1>2, <1>3 DEF TInv, Rest, lists, observed, counters

\* The user, the plugins and the timer of FilesList.
LEMMA OthersTyped ==
  ASSUME TInv, UNCHANGED hashed, Command \/ SaveTimer \/ Rehash \/ Skip
  PROVE  Kept(Store') /\ Rest'
<1>0. Typed(Store)
  BY Facts DEF TInv, Typed
<1>1. CASE Command
  <2>0. autoPaused \in BOOLEAN /\ commands \in Nat
    BY DEF TInv, Rest, Kept, Store
  <2>1. mode' \in Modes /\ autoPaused' \in BOOLEAN /\ held' \in BOOLEAN /\ commands' \in Nat
    <3>1. CASE Pause \/ Stop
      <4>1. mode' \in Modes /\ commands' = commands + 1
        BY <3>1 DEF Pause, Stop, Modes
      <4>2. UNCHANGED autoPaused /\ held' = TRUE
        BY <3>1 DEF Pause, Stop
      <4>3. autoPaused' \in BOOLEAN /\ held' \in BOOLEAN
        BY <2>0, <4>2
      <4>4. QED BY <2>0, <4>1, <4>3
    <3>2. CASE Resume
      BY <2>0, <3>2 DEF Resume, Modes
    <3>3. QED BY <1>1, <3>1, <3>2 DEF Command
  <2>2. UNCHANGED <<lists, buffer, toFlush, disk, locks, latest, completions, bads, faults,
                    rehashes>>
    BY <1>1 DEF Command
  <2>3. Kept(Store')
    BY <2>1, <2>2 DEF TInv, Kept, Store
  <2>4. QED BY <2>1, <2>2, <2>3 DEF TInv, Rest, lists, locks
<1>2. CASE SaveTimer
  <2>1. PICK fault \in Faults : CountFault(fault) /\ Commit(Save(Store, fault))
    BY <1>2 DEF SaveTimer
  <2>2. UNCHANGED <<lists, locks, observed, bads, commands, rehashes>>
    BY <1>2 DEF SaveTimer
  <2>3. Kept(Store') /\ faults' \in Nat
    BY <1>0, <2>1, SaveTyped, CommitTyped, FaultType
  <2>4. QED BY <2>2, <2>3 DEF TInv, Rest, lists, locks, observed
<1>3. CASE Rehash
  <2>1. PICK ks \in InOrder(Chunks) : Commit(Verify(Store, ks))
    BY <1>3 DEF Rehash
  <2>2. Kept(Store')
    BY <1>0, <2>1, InOrderSeq, VerifyTyped, CommitTyped
  <2>3. /\ flags' = [k \in Chunks |-> [complete |-> TRUE, partial |-> FALSE, verified |-> FALSE]]
        /\ rehashes' = rehashes + 1
        /\ UNCHANGED <<complete, corrupt, verified, dontDownload, partStatus, locks,
                       observed, bads, faults, commands>>
    BY <1>3 DEF Rehash
  <2>4. QED BY <2>2, <2>3 DEF TInv, Rest, locks, observed
<1>4. CASE Skip
  <2>1. dontDownload' \subseteq Pos /\ commands' \in Nat
    BY <1>4 DEF Skip, TInv, Rest, Points
  <2>2. UNCHANGED <<complete, corrupt, verified, flags, partStatus, store, locks,
                    observed, bads, faults, rehashes>>
    BY <1>4 DEF Skip
  <2>3. Kept(Store')
    BY <2>2 DEF TInv, Kept, Store, store
  <2>4. QED BY <2>1, <2>2, <2>3 DEF TInv, Rest, locks, observed
<1>5. QED BY <1>1, <1>2, <1>3, <1>4

\* Nothing happens.
LEMMA StutterTyped == ASSUME TInv, UNCHANGED vars PROVE Kept(Store') /\ Rest'
<1>1. Kept(Store')
  BY DEF TInv, Kept, Store, vars, store
<1>2. QED BY <1>1 DEF TInv, Rest, vars, lists, locks, observed, counters

-----------------------------------------------------------------------------
(* The invariant.                                                            *)

\* A new download is typed.
LEMMA InitTInv == Init => TInv
<1> SUFFICES ASSUME Init PROVE TInv
  OBVIOUS
<1>1. IInv
  BY InitIInv
<1>2. LockInv
  BY DEF Init, LockInv, LocksExclusive
<1>3. Kept(Store)
  <2>1. buffer = <<>> /\ toFlush = 0 /\ disk = [p \in Pos |-> None] /\ mode = "running"
        /\ autoPaused = FALSE
    BY DEF Init
  <2>2. DOMAIN buffer = {}
    BY <2>1
  <2>3. disk \in [Pos -> Bytes]
    BY <2>1 DEF Bytes
  <2>4. QED BY <2>1, <2>2, <2>3 DEF Kept, Store, Modes
<1>4. Rest
  BY PartDataAssumption DEF Init, Rest, Bytes
<1>5. QED BY <1>1, <1>2, <1>3, <1>4 DEF TInv

\* Every step keeps the types.
LEMMA StepTInv == TInv /\ [Next]_vars => TInv'
<1> SUFFICES ASSUME TInv, [Next]_vars PROVE TInv'
  OBVIOUS
<1>1. IInv' /\ LockInv'
  BY StepIInv, StepLockInv DEF TInv
<1>2. UNCHANGED hashed
  BY DEF Next, vars
<1>3. Kept(Store') /\ Rest'
  <2>1. ASSUME NEW c \in Clients, GetRange(c) \/ GetLock(c) \/ Unlock(c) \/ Unuse(c)
        PROVE  Kept(Store') /\ Rest'
    BY <1>2, <2>1, ClientTyped
  <2>2. ASSUME NEW c \in Clients, Write(c) PROVE Kept(Store') /\ Rest'
    BY <1>2, <2>2, WriteTyped
  <2>3. CASE SafeWrite
    BY <1>2, <2>3, SafeWriteTyped
  <2>4. CASE RunJob
    BY <1>2, <2>4, RunTyped
  <2>5. CASE HandleAlloc
    BY <1>2, <2>5, AllocTyped
  <2>6. CASE HandleHash
    <3>1. OnChunk(Head(hashEvents)) \/ OnFull(Head(hashEvents))
      BY <2>6 DEF HandleHash
    <3>2. QED BY <1>2, <2>6, <3>1, ChunkTyped, FullTyped
  <2>7. CASE Command \/ SaveTimer \/ Rehash \/ Skip
    BY <1>2, <2>7, OthersTyped
  <2>8. CASE Finished \/ UNCHANGED vars
    BY <2>8, StutterTyped DEF Finished
  <2>9. QED BY <2>1, <2>2, <2>3, <2>4, <2>5, <2>6, <2>7, <2>8 DEF Next, Step
<1>4. QED BY <1>1, <1>3 DEF TInv

\* Every variable has its type in every state: no handler writes outside the
\* file, buffers a block that begins outside it or makes a count negative.
THEOREM TypeCorrect == Spec => []TypeOK
<1>1. TInv => TypeOK
  <2> SUFFICES ASSUME TInv PROVE TypeOK
    OBVIOUS
  <2>1. locked \subseteq Pos /\ lock \in [Clients -> SUBSET Pos]
    BY DEF TInv, LockInv, LocksExclusive
  <2>2. /\ DOMAIN buffer \subseteq Pos /\ \A b \in DOMAIN buffer : buffer[b] \in Seq(Data)
        /\ toFlush \in Nat /\ disk \in [Pos -> Data \cup {None}] /\ autoPaused \in BOOLEAN
        /\ mode \in {"running", "paused", "stopped"}
    BY DEF TInv, Kept, Store, Bytes, Modes
  <2>3. /\ allocJob \in BOOLEAN /\ fullJob \in BOOLEAN /\ pending \in Nat
        /\ checks \in Seq(Jobs) /\ io \in Seq(Jobs)
        /\ allocEvents \in Seq(BOOLEAN) /\ hashEvents \in Seq(HashResults)
    BY Facts DEF TInv
  <2>4. QED BY <2>1, <2>2, <2>3 DEF TInv, Rest, TypeOK, Bytes
<1>2. QED BY <1>1, InitTInv, StepTInv, PTL DEF Spec

-----------------------------------------------------------------------------
(* Positions and chunks.                                                     *)

\* Division by a positive number.
LEMMA DivBounds ==
  ASSUME NEW a \in Nat, NEW b \in Nat \ {0}
  PROVE  a \div b \in Nat /\ b * (a \div b) <= a /\ a < b * (a \div b) + b
OBVIOUS

\* Multiplication by a positive number keeps numbers apart.
LEMMA TimesMono ==
  ASSUME NEW x \in Int, NEW y \in Int, NEW b \in Nat \ {0}, x < y
  PROVE  b * x + b <= b * y
<1>1. PICK d \in Nat : y = x + 1 + d
  <2>1. y - x - 1 \in Nat /\ y = x + 1 + (y - x - 1)
    OBVIOUS
  <2>2. QED BY <2>1
<1>2. b * y = b * x + b + b * d /\ b * d >= 0 /\ b * x \in Int /\ b * y \in Int
  BY <1>1
<1>3. QED BY <1>2

\* The quotient is the number that its bounds name.
LEMMA DivUnique ==
  ASSUME NEW a \in Nat, NEW b \in Nat \ {0}, NEW k \in Nat, b * k <= a, a < b * k + b
  PROVE  a \div b = k
<1>1. a \div b \in Nat /\ b * (a \div b) <= a /\ a < b * (a \div b) + b
  BY DivBounds
<1> DEFINE q == a \div b
<1>2. q \in Nat /\ b * q <= a /\ a < b * q + b
  BY <1>1
<1> HIDE DEF q
<1>0. b * q \in Int /\ b * k \in Int
  BY <1>2
<1>3. CASE q < k
  BY <1>0, <1>2, <1>3, TimesMono
<1>4. CASE k < q
  BY <1>0, <1>2, <1>4, TimesMono
<1>5. QED BY <1>2, <1>3, <1>4 DEF q

\* Division keeps the order.
LEMMA DivMono ==
  ASSUME NEW a \in Nat, NEW c \in Nat, NEW b \in Nat \ {0}, a <= c
  PROVE  a \div b <= c \div b
<1> DEFINE q == a \div b
           r == c \div b
<1>1. q \in Nat /\ b * q <= a /\ r \in Nat /\ c < b * r + b
  BY DivBounds
<1> HIDE DEF q, r
<1>0. b * q \in Int /\ b * r \in Int
  BY <1>1
<1>2. CASE r < q
  BY <1>0, <1>1, <1>2, TimesMono
<1>3. QED BY <1>1, <1>2 DEF q, r

\* The chunks divide the positions of the file into unbroken runs, none of them
\* empty.
LEMMA ChunkFacts ==
  /\ Pos \subseteq Nat /\ Chunks \subseteq Nat /\ Size - 1 \in Pos
  /\ \A k \in Chunks : Points(k) \subseteq Pos /\ Points(k) # {}
  /\ \A j, k : j # k => Points(j) \cap Points(k) = {}
  /\ \A p \in Pos : p \div ChunkSize \in Chunks /\ p \in Points(p \div ChunkSize)
  /\ \A k \in Chunks : \A p, q \in Points(k) : p..q \subseteq Points(k)
<1>0. Size \in Nat \ {0} /\ ChunkSize \in Nat \ {0} /\ Size - 1 \in Nat
  BY PartDataAssumption
<1>1. Pos \subseteq Nat /\ Size - 1 \in Pos /\ \A p : p \in Pos <=> p \in Nat /\ p <= Size - 1
  BY <1>0 DEF Pos
<1>2. (Size - 1) \div ChunkSize \in Nat /\ ChunkSize * ((Size - 1) \div ChunkSize) <= Size - 1
  BY <1>0, DivBounds
<1>3. Chunks \subseteq Nat
  BY <1>2 DEF Chunks
<1>4. ASSUME NEW k \in Chunks PROVE Points(k) # {}
  <2> DEFINE last == (Size - 1) \div ChunkSize
             p == ChunkSize * k
  <2>1. last \in Nat /\ k \in Nat /\ k <= last /\ ChunkSize * last <= Size - 1
    BY <1>2 DEF Chunks
  <2> HIDE DEF last
  <2>2. p \in Nat /\ ChunkSize * last \in Int /\ p <= ChunkSize * last
    <3>1. p \in Nat /\ ChunkSize * last \in Int
      BY <1>0, <2>1
    <3>2. CASE k = last BY <3>1, <3>2
    <3>3. CASE k < last
      BY <1>0, <2>1, <3>1, <3>3, TimesMono
    <3>4. QED BY <2>1, <3>1, <3>2, <3>3
  <2>3. p \in Pos
    BY <1>0, <1>1, <2>1, <2>2
  <2>4. p \div ChunkSize = k
    BY <1>0, <2>1, <2>2, DivUnique
  <2>5. QED BY <2>3, <2>4 DEF Points
<1>5. ASSUME NEW p \in Pos PROVE p \div ChunkSize \in Chunks /\ p \in Points(p \div ChunkSize)
  <2>1. p \in Nat /\ p <= Size - 1
    BY <1>1
  <2>2. p \div ChunkSize \in Nat /\ p \div ChunkSize <= (Size - 1) \div ChunkSize
    BY <1>0, <2>1, DivMono, DivBounds
  <2>3. QED BY <1>2, <2>2 DEF Chunks, Points
<1>6. ASSUME NEW k \in Chunks, NEW p \in Points(k), NEW q \in Points(k), NEW x \in p..q
      PROVE  x \in Points(k)
  <2>1. p \in Nat /\ q \in Nat /\ q <= Size - 1 /\ p \div ChunkSize = k /\ q \div ChunkSize = k
    BY <1>1 DEF Points
  <2>2. x \in Nat /\ p <= x /\ x <= q /\ x \in Pos
    BY <1>0, <1>1, <2>1
  <2>3. k <= x \div ChunkSize /\ x \div ChunkSize <= k
    BY <1>0, <2>1, <2>2, DivMono
  <2>4. x \div ChunkSize \in Nat /\ k \in Nat
    BY <1>0, <1>3, <2>2, DivBounds
  <2>5. QED BY <2>2, <2>3, <2>4 DEF Points
<1>7. QED BY <1>1, <1>3, <1>4, <1>5, <1>6 DEF Points

-----------------------------------------------------------------------------
(* The hashes of one chunk in a queue.                                       *)

\* What a job or a result of a queue is about: the chunk it hashes, if it is a
\* chunk hash.
Tag(j)  == [kind |-> IF j.kind = "chunk" THEN j.chunk ELSE -1]
Tags(q) == [i \in DOMAIN q |-> Tag(q[i])]

\* The number of hashes of chunk k in a queue.
OfChunk(k, q) == JobsOf(k, Tags(q))

\* The tags of a queue are a sequence as long as the queue.
LEMMA TagsSeq ==
  ASSUME NEW S, NEW q \in Seq(S)
  PROVE  Tags(q) \in Seq({Tag(x) : x \in S}) /\ Len(Tags(q)) = Len(q)
<1> DEFINE T == {Tag(x) : x \in S}
<1>1. DOMAIN q = 1..Len(q) /\ Len(q) \in Nat /\ \A i \in DOMAIN q : Tag(q[i]) \in T
  OBVIOUS
<1> HIDE DEF T
<1>2. QED BY <1>1 DEF Tags, T

\* A count of hashes is a number.
LEMMA OfChunkType ==
  ASSUME NEW S, NEW q \in Seq(S), NEW k
  PROVE  OfChunk(k, q) \in Nat
BY TagsSeq, JobsOfType DEF OfChunk

\* Queues one after the other have the hashes of both.
LEMMA OfChunkConcat ==
  ASSUME NEW S, NEW q \in Seq(S), NEW r \in Seq(S), NEW k
  PROVE  OfChunk(k, q \o r) = OfChunk(k, q) + OfChunk(k, r)
<1> DEFINE T == {Tag(x) : x \in S}
           t == Tags(q) \o Tags(r)
<1>1. /\ Tags(q) \in Seq(T) /\ Tags(r) \in Seq(T)
      /\ Len(Tags(q)) = Len(q) /\ Len(Tags(r)) = Len(r)
  BY TagsSeq
<1>2. /\ Len(q) \in Nat /\ Len(r) \in Nat /\ DOMAIN q = 1..Len(q) /\ DOMAIN r = 1..Len(r)
      /\ DOMAIN (q \o r) = 1..(Len(q) + Len(r))
      /\ \A i \in 1..(Len(q) + Len(r)) : (q \o r)[i] = IF i <= Len(q) THEN q[i] ELSE r[i - Len(q)]
  BY ConcatProperties
<1> HIDE DEF T
<1>3. /\ t \in Seq(T) /\ DOMAIN t = 1..(Len(q) + Len(r))
      /\ \A i \in 1..(Len(q) + Len(r)) :
            t[i] = IF i <= Len(q) THEN Tags(q)[i] ELSE Tags(r)[i - Len(q)]
  <2> DEFINE a == Tags(q)
             b == Tags(r)
  <2>1. a \in Seq(T) /\ b \in Seq(T) /\ Len(a) = Len(q) /\ Len(b) = Len(r)
    BY <1>1
  <2> HIDE DEF a, b
  <2>2. /\ a \o b \in Seq(T) /\ Len(a \o b) = Len(a) + Len(b)
        /\ \A i \in 1..(Len(a) + Len(b)) :
              (a \o b)[i] = IF i <= Len(a) THEN a[i] ELSE b[i - Len(a)]
    BY <2>1, ConcatProperties
  <2>3. DOMAIN (a \o b) = 1..Len(a \o b)
    BY <2>2
  <2>4. t = a \o b
    BY DEF a, b
  <2>5. QED BY <2>1, <2>2, <2>3, <2>4 DEF a, b
<1> HIDE DEF t
<1>4. \A i \in 1..(Len(q) + Len(r)) : t[i] = Tag((q \o r)[i])
  <2>1. SUFFICES ASSUME NEW i \in 1..(Len(q) + Len(r)) PROVE t[i] = Tag((q \o r)[i])
    OBVIOUS
  <2>2. CASE i <= Len(q)
    <3>1. i \in DOMAIN q /\ t[i] = Tags(q)[i] /\ (q \o r)[i] = q[i]
      BY <1>2, <1>3, <2>2
    <3>2. QED BY <3>1 DEF Tags
  <2>3. CASE ~(i <= Len(q))
    <3>1. i - Len(q) \in DOMAIN r /\ t[i] = Tags(r)[i - Len(q)] /\ (q \o r)[i] = r[i - Len(q)]
      BY <1>2, <1>3, <2>3
    <3>2. QED BY <3>1 DEF Tags
  <2>4. QED BY <2>2, <2>3
<1>5. t = [i \in 1..(Len(q) + Len(r)) |-> t[i]]
  BY <1>3
<1>6. t = Tags(q \o r)
  BY <1>2, <1>4, <1>5 DEF Tags
<1>7. JobsOf(k, t) = JobsOf(k, Tags(q)) + JobsOf(k, Tags(r))
  BY <1>1, JobsOfConcat DEF t
<1>8. QED BY <1>6, <1>7 DEF OfChunk

\* A single job is the hash of one chunk at most.
LEMMA OfChunkOne ==
  ASSUME NEW j, NEW k \in Chunks
  PROVE  OfChunk(k, <<j>>) = Count(j.kind = "chunk" /\ j.chunk = k)
<1>1. Tags(<<j>>) = <<Tag(j)>>
  BY DEF Tags
<1>2. OfChunk(k, <<j>>) = Count(Tag(j).kind = k)
  BY <1>1, JobsOfOne DEF OfChunk
<1>3. (Tag(j).kind = k) = (j.kind = "chunk" /\ j.chunk = k)
  <2>1. k # -1
    BY ChunkFacts
  <2>2. QED BY <2>1 DEF Tag
<1>4. QED BY <1>2, <1>3

\* A job goes to the end of a queue.
LEMMA OfChunkAppend ==
  ASSUME NEW S, NEW q \in Seq(S), NEW j \in S, NEW k \in Chunks
  PROVE  OfChunk(k, Append(q, j)) = OfChunk(k, q) + Count(j.kind = "chunk" /\ j.chunk = k)
<1>1. Append(q, j) = q \o <<j>> /\ <<j>> \in Seq(S)
  BY AppendIsConcat
<1>2. OfChunk(k, q \o <<j>>) = OfChunk(k, q) + OfChunk(k, <<j>>)
  BY <1>1, OfChunkConcat
<1>3. QED BY <1>1, <1>2, OfChunkOne

\* The first job of a queue goes.
LEMMA OfChunkTail ==
  ASSUME NEW S, NEW q \in Seq(S), q # <<>>, NEW k \in Chunks
  PROVE  OfChunk(k, q) = Count(Head(q).kind = "chunk" /\ Head(q).chunk = k) + OfChunk(k, Tail(q))
<1>1. q = <<Head(q)>> \o Tail(q) /\ Tail(q) \in Seq(S) /\ <<Head(q)>> \in Seq(S)
  BY HeadTailProperties
<1>2. OfChunk(k, <<Head(q)>> \o Tail(q)) = OfChunk(k, <<Head(q)>>) + OfChunk(k, Tail(q))
  BY <1>1, OfChunkConcat
<1>3. QED BY <1>1, <1>2, OfChunkOne

\* An empty queue has no hashes.
LEMMA OfChunkEmpty == \A k : OfChunk(k, <<>>) = 0
<1>1. Tags(<<>>) = <<>>
  BY DEF Tags
<1>2. QED BY <1>1, JobsOfEmpty DEF OfChunk

\* A hash that is there is counted, and none is where none is counted.
LEMMA OfChunkSome ==
  ASSUME NEW S, NEW q \in Seq(S), NEW i \in DOMAIN q, q[i].kind = "chunk"
  PROVE  OfChunk(q[i].chunk, q) > 0
<1> DEFINE k == q[i].chunk
<1>1. Tags(q) \in Seq({Tag(x) : x \in S}) /\ i \in DOMAIN Tags(q) /\ Tags(q)[i].kind = k
  BY TagsSeq DEF Tags, Tag
<1>2. JobsOf(k, Tags(q)) # 0
  <2> HIDE DEF k
  <2>1. QED BY <1>1, JobsOfNone
<1>3. JobsOf(k, Tags(q)) \in Nat
  BY <1>1, JobsOfType
<1>4. QED BY <1>2, <1>3 DEF OfChunk

\* A queue without chunk hashes has none of any chunk.
LEMMA OfChunkNone ==
  ASSUME NEW S, NEW q \in Seq(S), NEW k \in Chunks, JobsOf("chunk", q) = 0
  PROVE  OfChunk(k, q) = 0
<1>1. \A i \in DOMAIN q : q[i].kind # "chunk"
  BY JobsOfNone
<1>2. k # -1
  BY ChunkFacts
<1>3. Tags(q) \in Seq({Tag(x) : x \in S}) /\ \A i \in DOMAIN Tags(q) : Tags(q)[i].kind # k
  BY <1>1, <1>2, TagsSeq DEF Tags, Tag
<1>4. QED BY <1>3, JobsOfSome DEF OfChunk

\* The order of the chunks names each of them once.
LEMMA InOrderOnce ==
  ASSUME NEW K, K \subseteq Chunks, NEW ks \in InOrder(K), NEW k \in Chunks
  PROVE  OfChunk(k, [i \in DOMAIN ks |-> ChunkJob(ks[i])]) = Count(k \in K)
<1> DEFINE n == Cardinality(K)
           work == [i \in DOMAIN ks |-> ChunkJob(ks[i])]
           W == {i \in DOMAIN Tags(work) : Tags(work)[i].kind = k}
<1>1. IsFiniteSet(K) /\ n \in Nat
  <2>1. ((Size - 1) \div ChunkSize) \in Int
    BY PartDataAssumption
  <2>2. IsFiniteSet(Chunks)
    BY <2>1, FS_Interval DEF Chunks
  <2>3. QED BY <2>2, FS_Subset, FS_CardinalityType
<1>2. ks \in [1..n -> K] /\ \A i, j \in DOMAIN ks : i < j => ks[i] < ks[j]
  BY DEF InOrder
<1>3. \A i, j \in 1..n : ks[i] = ks[j] => i = j
  <2>0. Chunks \subseteq Int
    BY ChunkFacts
  <2>1. \A i \in 1..n : ks[i] \in Int
    BY <1>2, <2>0
  <2>2. QED BY <1>1, <1>2, <2>1
<1>4. ks \in Injection(1..n, K)
  BY <1>2, <1>3 DEF Injection, IsInjective
<1>5. ks \in Surjection(1..n, K)
  <2>1. Cardinality(1..n) = n
    BY <1>1, FS_Interval
  <2>2. QED BY <1>1, <1>4, <2>1, FS_Injection
<1>6. W = {i \in 1..n : ks[i] = k}
  BY <1>2 DEF Tags, Tag, ChunkJob
<1>7. OfChunk(k, work) = Cardinality(W)
  BY DEF OfChunk, JobsOf
<1> HIDE DEF n, work, W
<1>8. CASE k \in K
  <2>1. PICK i \in 1..n : ks[i] = k
    BY <1>5, <1>8 DEF Surjection
  <2>2. W = {i}
    BY <1>3, <1>6, <2>1
  <2>3. QED BY <1>7, <1>8, <2>2, FS_Singleton DEF Count, work
<1>9. CASE k \notin K
  <2>1. W = {}
    BY <1>2, <1>6, <1>9
  <2>2. QED BY <1>7, <1>9, <2>1, FS_EmptySet DEF Count, work
<1>10. QED BY <1>8, <1>9

-----------------------------------------------------------------------------
(* The buffer and the disk.                                                  *)

\* A set of positions that is not empty has a smallest element.
LEMMA MinIn ==
  ASSUME NEW S, S \subseteq Pos, S # {}
  PROVE  Min(S) \in S /\ \A y \in S : Min(S) <= y
<1> DEFINE T == {p \in Pos : \A x \in S : p <= x}
           m == Max(T)
<1>1. Pos \subseteq Int /\ Size - 1 \in Int /\ \A p : p \in Pos <=> p \in Int /\ 0 <= p /\ p <= Size - 1
  BY PartDataAssumption DEF Pos
<1>2. 0 \in T
  BY <1>1, PartDataAssumption
<1>3. m \in T /\ \A y \in T : m >= y
  BY <1>2, MaxIn
<1> HIDE DEF m
<1>4. m \in S
  <2>1. SUFFICES ASSUME m \notin S PROVE FALSE
    OBVIOUS
  <2>2. PICK x \in S : TRUE
    OBVIOUS
  <2>3. m + 1 <= x
    BY <1>1, <1>3, <2>1, <2>2
  <2>4. m + 1 \in T
    BY <1>1, <1>3, <2>1, <2>3
  <2>5. QED BY <1>1, <1>3, <2>4
<1>5. \E x \in S : \A y \in S : x <= y
  BY <1>3, <1>4
<1>6. QED BY <1>5, Zenon DEF Min

\* No entry of the buffer covers position p.
Free(s, p) == Covering(s.buffer, p) = {}

\* Where no entry covers a position a flush leaves it alone; where one does,
\* the flush does not depend on what was on disk.
LEMMA WrittenAt ==
  ASSUME NEW b, NEW p \in Pos
  PROVE  /\ \A d : Covering(b, p) = {} => Written(b, d)[p] = d[p]
         /\ \A d, e : Covering(b, p) # {} => Written(b, d)[p] = Written(b, e)[p]
BY DEF Written

\* An empty buffer changes nothing on disk.
LEMMA WrittenNothing ==
  ASSUME NEW d, NEW p \in Pos
  PROVE  Covering(<<>>, p) = {} /\ Written(<<>>, d)[p] = d[p]
<1>1. DOMAIN <<>> = {}
  OBVIOUS
<1>2. Covering(<<>>, p) = {}
  BY <1>1 DEF Covering
<1>3. QED BY <1>2, WrittenAt

\* Buffer c is b with one more entry, whose positions no other entry covers.
OneMore(b, begin, data, c) ==
    /\ begin \in Pos /\ data \in Seq(Data) /\ Len(data) > 0
    /\ DOMAIN b \subseteq Pos /\ \A i \in DOMAIN b : b[i] \in Seq(Data) /\ Len(b[i]) > 0
    /\ \A q \in Pos : begin <= q /\ q < begin + Len(data) => Covering(b, q) = {}
    /\ DOMAIN c = DOMAIN b \cup {begin}
    /\ \A x \in DOMAIN c : c[x] = IF x = begin THEN data ELSE b[x]

\* Position p has the data of the new entry, if it is one of that entry's, and
\* what it had otherwise.
EntryAt(b, begin, data, c, p) ==
    /\ begin <= p /\ p < begin + Len(data) =>
          Covering(c, p) # {} /\ \A d : Written(c, d)[p] = data[p - begin + 1]
    /\ ~(begin <= p /\ p < begin + Len(data)) =>
          Covering(c, p) = Covering(b, p) /\ \A d : Written(c, d)[p] = Written(b, d)[p]

\* One more entry changes its own positions only.
LEMMA BufferedAt ==
  ASSUME NEW b, NEW begin, NEW data, NEW c, NEW p \in Pos, OneMore(b, begin, data, c)
  PROVE  EntryAt(b, begin, data, c, p)
<1>a. /\ begin \in Pos /\ data \in Seq(Data) /\ Len(data) > 0
      /\ DOMAIN b \subseteq Pos /\ \A i \in DOMAIN b : b[i] \in Seq(Data) /\ Len(b[i]) > 0
      /\ \A q \in Pos : begin <= q /\ q < begin + Len(data) => Covering(b, q) = {}
      /\ DOMAIN c = DOMAIN b \cup {begin}
      /\ \A x \in DOMAIN c : c[x] = IF x = begin THEN data ELSE b[x]
  BY DEF OneMore
<1>0. Pos \subseteq Int /\ Len(data) \in Nat
  BY <1>a, PartDataAssumption DEF Pos
<1>1. begin \notin DOMAIN b
  <2>1. SUFFICES ASSUME begin \in DOMAIN b PROVE FALSE
    OBVIOUS
  <2>2. begin \in Covering(b, begin)
    BY <1>a, <1>0, <2>1 DEF Covering
  <2>3. QED BY <1>a, <1>0, <2>2
<1>2. /\ DOMAIN c = DOMAIN b \cup {begin} /\ c[begin] = data
      /\ \A i \in DOMAIN b : c[i] = b[i]
  BY <1>a, <1>1
<1>3. Covering(c, p) = IF begin <= p /\ p < begin + Len(data) THEN {begin} \cup Covering(b, p)
                       ELSE Covering(b, p)
  BY <1>1, <1>2 DEF Covering
<1>4. CASE begin <= p /\ p < begin + Len(data)
  <2>1. Covering(c, p) = {begin}
    BY <1>a, <1>3, <1>4
  <2>2. Max({begin}) = begin
    <3>1. {begin} \subseteq Pos /\ {begin} # {}
      BY <1>a
    <3>2. Max({begin}) \in {begin}
      BY <3>1, MaxIn
    <3>3. QED BY <3>2
  <2>3. \A d : Written(c, d)[p] = data[p - begin + 1]
    BY <1>2, <2>1, <2>2 DEF Written
  <2>4. QED BY <1>4, <2>1, <2>3 DEF EntryAt
<1>5. CASE ~(begin <= p /\ p < begin + Len(data))
  <2>1. Covering(c, p) = Covering(b, p)
    BY <1>3, <1>5
  <2>2. ASSUME Covering(b, p) # {} PROVE c[Max(Covering(b, p))] = b[Max(Covering(b, p))]
    <3>1. Covering(b, p) \subseteq Pos /\ Covering(b, p) \subseteq DOMAIN b
      BY <1>a DEF Covering
    <3>2. Max(Covering(b, p)) \in DOMAIN b
      BY <2>2, <3>1, MaxIn
    <3>3. QED BY <1>2, <3>2
  <2>3. \A d : Written(c, d)[p] = Written(b, d)[p]
    BY <2>1, <2>2 DEF Written
  <2>4. QED BY <1>5, <2>1, <2>3 DEF EntryAt
<1>6. QED BY <1>4, <1>5

\* The file is as long as it will be as soon as its last byte is there.
LEMMA SizeOfFile ==
  ASSUME NEW d
  PROVE  FileSize(d) = Size <=> d[Size - 1] # None
<1> DEFINE taken == {p \in Pos : d[p] # None}
<1>1. Size \in Nat /\ Size > 0 /\ Size - 1 \in Pos /\ \A p \in Pos : p \in Int /\ p <= Size - 1
  BY PartDataAssumption DEF Pos
<1>2. CASE taken = {}
  BY <1>1, <1>2 DEF FileSize
<1>3. CASE taken # {}
  <2>1. Max(taken) \in taken /\ \A y \in taken : Max(taken) >= y
    BY <1>3, MaxIn
  <2>2. FileSize(d) = Max(taken) + 1
    BY <1>3 DEF FileSize
  <2> DEFINE m == Max(taken)
  <2>3. m \in Pos /\ d[m] # None /\ (d[Size - 1] # None => m >= Size - 1) /\ FileSize(d) = m + 1
    BY <1>1, <2>1, <2>2
  <2> HIDE DEF m
  <2>4. CASE d[Size - 1] # None
    BY <1>1, <2>3, <2>4
  <2>5. CASE d[Size - 1] = None
    BY <1>1, <2>3, <2>5
  <2>6. QED BY <2>4, <2>5
<1>4. QED BY <1>2, <1>3

-----------------------------------------------------------------------------
(* What holds of a download as long as the disk has not failed and nobody    *)
(* has asked for a rehash: of the store s, the lists comp and ver of         *)
(* complete and verified positions, lat of what was last written, the chunks *)
(* due that are to be hashed, and the results ae and he that wait.           *)

\* What is not on disk goes there when the allocation that is under way ends,
\* and no chunk is to be hashed before a file with every byte is complete.
Settled(s, comp) == comp = Pos /\ s.pending = 0 /\ (s.buffer = <<>> \/ s.allocJob)

\* The chunks that are complete but not verified: each is hashed exactly once.
Due(comp, ver) ==
    {k \in Chunks : hashed /\ Points(k) \subseteq comp /\ ~(Points(k) \subseteq ver)}

\* The buffer holds complete positions only, and no data is lost.
Entries(s, comp, lat) ==
    /\ \A b \in DOMAIN s.buffer : Len(s.buffer[b]) > 0
    /\ \A p \in Pos : ~Free(s, p) => p \in comp
    /\ \A p \in comp : Written(s.buffer, s.disk)[p] = lat[p] /\ lat[p] \in Data

\* One hash is under way for each chunk that is due, and as soon as it is with
\* the IO thread the chunk is not in the buffer.
Hashes(s, due, he) ==
    /\ \A k \in Chunks :
          OfChunk(k, s.checks) + OfChunk(k, s.io) + OfChunk(k, he) = Count(k \in due)
    /\ \A k \in Chunks :
          OfChunk(k, s.io) + OfChunk(k, he) > 0 => \A p \in Points(k) : Free(s, p)
    /\ ~s.allocJob => s.checks = <<>>

\* Verified data is on disk.
Safe(s, comp, ver) ==
    /\ ver \subseteq comp
    /\ \A p \in ver : s.disk[p] = "good" /\ Free(s, p)

\* The allocation writes the last byte of a file that does not have it.
Allocation(s, ae) ==
    /\ JobsOf("alloc", s.io) > 0 => s.disk[Size - 1] = None
    /\ ae # <<>> => s.disk[Size - 1] # None
    /\ \A i \in DOMAIN ae : ae[i] = TRUE

\* Nothing is behind the final rehash in the queue of the IO thread.
Final(s, comp) ==
    /\ \A j \in DOMAIN s.io : s.io[j].kind = "full" => j = Len(s.io)
    /\ s.fullJob => Settled(s, comp)

\* The verdict e is right about the file d on disk.
Right(d, e) ==
    /\ e.result \in {"verified", "failed"}
    /\ e.result = "verified" <=> \A p \in Points(e.chunk) : d[p] = "good"

\* What the results say.
Results(s, he) ==
    \A i \in DOMAIN he :
       /\ he[i].kind = "chunk" => Right(s.disk, he[i])
       /\ he[i].kind = "full" => /\ he[i].result = "complete" /\ he[i].size = Size
                                 /\ hashed => he[i].good = Chunks

Good(s, comp, ver, lat, due, ae, he) ==
    /\ comp \subseteq Pos
    /\ Entries(s, comp, lat) /\ Hashes(s, due, he) /\ Safe(s, comp, ver)
    /\ Allocation(s, ae) /\ Final(s, comp) /\ Results(s, he)

\* The invariant speaks of a store with its jobs and its types.
Fit(s, ae, he) == Sound(s, ae, he) /\ Typed(s)

\* Only the chunk itself matters to its verdict.
LEMMA RightSame ==
  ASSUME NEW d, NEW f, NEW e, Right(d, e), \A p \in Points(e.chunk) : f[p] = d[p]
  PROVE  Right(f, e)
BY DEF Right

\* The rest of the store does not matter.
LEMMA GoodSame ==
  ASSUME NEW s, NEW t, NEW comp, NEW ver, NEW lat, NEW due, NEW ae, NEW he,
         Good(s, comp, ver, lat, due, ae, he),
         t.buffer = s.buffer, t.disk = s.disk, t.allocJob = s.allocJob, t.checks = s.checks,
         t.pending = s.pending, t.fullJob = s.fullJob, t.io = s.io
  PROVE  Good(t, comp, ver, lat, due, ae, he)
<1>1. \A p : Free(t, p) = Free(s, p)
  BY DEF Free
<1>2. Entries(t, comp, lat)
  BY <1>1 DEF Good, Entries
<1>3. Hashes(t, due, he)
  BY <1>1 DEF Good, Hashes
<1>4. Safe(t, comp, ver) /\ Allocation(t, ae) /\ Final(t, comp) /\ Results(t, he)
  BY <1>1 DEF Good, Safe, Allocation, Final, Settled, Results
<1>5. QED BY <1>2, <1>3, <1>4 DEF Good

\* What the counts say when a flag is not set.
LEMMA NoAlloc ==
  ASSUME NEW s, NEW ae, NEW he, Sound(s, ae, he), ~s.allocJob
  PROVE  JobsOf("alloc", s.io) = 0 /\ ae = <<>>
<1>1. JobsOf("alloc", s.io) \in Nat /\ Len(ae) \in Nat /\ ae \in Seq(BOOLEAN)
  BY JobsOfType DEF Sound, IsStore
<1>2. JobsOf("alloc", s.io) + Len(ae) = 0
  BY DEF Sound, Count
<1>3. JobsOf("alloc", s.io) = 0 /\ Len(ae) = 0
  BY <1>1, <1>2
<1>4. QED BY <1>1, <1>3, EmptySeq

\* Without m_fullJob no final rehash is under way.
LEMMA NoFull ==
  ASSUME NEW s, NEW ae, NEW he, Sound(s, ae, he), ~s.fullJob
  PROVE  /\ \A j \in DOMAIN s.io : s.io[j].kind # "full"
         /\ \A j \in DOMAIN he : he[j].kind # "full"
<1>1. /\ JobsOf("full", s.io) \in Nat /\ JobsOf("full", he) \in Nat
      /\ s.io \in Seq(Jobs) /\ he \in Seq(HashResults)
  BY JobsOfType DEF Sound, IsStore
<1>2. JobsOf("full", s.io) + JobsOf("full", he) = 0
  BY DEF Sound, Count
<1>3. JobsOf("full", s.io) = 0 /\ JobsOf("full", he) = 0
  BY <1>1, <1>2
<1>4. QED BY <1>1, <1>3, JobsOfNone

\* When m_pendingHashes is zero no chunk hash is under way.
LEMMA NoHash ==
  ASSUME NEW s, NEW ae, NEW he, Sound(s, ae, he), s.pending = 0
  PROVE  /\ s.checks = <<>>
         /\ \A k \in Chunks : OfChunk(k, s.checks) = 0 /\ OfChunk(k, s.io) = 0 /\ OfChunk(k, he) = 0
<1>1. /\ JobsOf("chunk", s.checks) \in Nat /\ JobsOf("chunk", s.io) \in Nat
      /\ JobsOf("chunk", he) \in Nat
      /\ s.checks \in Seq(Jobs) /\ s.io \in Seq(Jobs) /\ he \in Seq(HashResults)
  BY JobsOfType DEF Sound, IsStore
<1>2. JobsOf("chunk", s.checks) + JobsOf("chunk", s.io) + JobsOf("chunk", he) = 0
  BY DEF Sound
<1>3. JobsOf("chunk", s.checks) = 0 /\ JobsOf("chunk", s.io) = 0 /\ JobsOf("chunk", he) = 0
  BY <1>1, <1>2
<1>4. Len(s.checks) = 0
  <2>1. \A i \in DOMAIN s.checks : s.checks[i].kind = "chunk"
    BY DEF Sound
  <2>2. "full" # "chunk"
    OBVIOUS
  <2>3. JobsOf("chunk", s.checks) = Len(s.checks)
    BY <1>1, <2>1, <2>2, JobsOfAll
  <2>4. QED BY <1>3, <2>3
<1>5. QED BY <1>1, <1>3, <1>4, OfChunkNone, EmptySeq

\* The last byte is on disk as soon as the file is settled and not being
\* allocated.
LEMMA LastByte ==
  ASSUME NEW s, NEW comp, NEW lat, Entries(s, comp, lat), comp = Pos, s.buffer = <<>>
  PROVE  s.disk[Size - 1] # None
<1>1. Size - 1 \in comp /\ Size - 1 \in Pos
  BY ChunkFacts
<1>2. Written(s.buffer, s.disk)[Size - 1] \in Data
  BY <1>1 DEF Entries
<1>3. s.disk[Size - 1] \in Data
  BY <1>1, <1>2, WrittenNothing
<1>4. QED BY <1>3 DEF Data, None

\* flushBuffer() without a fault: no data is lost, and what it does not write
\* waits for an allocation.
LEMMA FlushGood ==
  ASSUME NEW s, NEW comp, NEW ver, NEW lat, NEW due, NEW ae, NEW he, Fit(s, ae, he),
         Good(s, comp, ver, lat, due, ae, he)
  PROVE  /\ Good(Flush(s, None), comp, ver, lat, due, ae, he)
         /\ Flush(s, None).buffer = <<>> \/ Flush(s, None).allocJob
<1>0. None # "flush" /\ s.io \in Seq(Jobs) /\ he \in Seq(HashResults)
  BY DEF None, Fit, Sound, IsStore
<1>1. CASE s.allocJob
  BY <1>1 DEF Flush
<1>2. CASE ~s.allocJob /\ MustAllocate(s)
  <2> DEFINE q == Append(s.io, AllocJob)
             t == [s EXCEPT !.allocJob = TRUE, !.io = q]
  <2>1. JobsOf("alloc", s.io) = 0 /\ ae = <<>>
    BY <1>2, NoAlloc DEF Fit
  <2>2. s.disk[Size - 1] = None
    <3>1. FileSize(s.disk) # Size
      BY <1>2, PartDataAssumption, FileSizeType DEF MustAllocate
    <3>2. QED BY <3>1, SizeOfFile
  <2>3. ~s.fullJob
    <3>1. s.fullJob => comp = Pos /\ s.buffer = <<>>
      BY <1>2 DEF Good, Final, Settled
    <3>2. QED BY <2>2, <3>1, LastByte DEF Good
  <2>4. /\ \A k \in Chunks : OfChunk(k, q) = OfChunk(k, s.io)
        /\ \A j \in DOMAIN q : q[j].kind # "full"
    <3>1. \A k \in Chunks : OfChunk(k, q) = OfChunk(k, s.io) + Count(FALSE)
      BY <1>0, KindsOfJobs, OfChunkAppend
    <3>2. \A k \in Chunks : OfChunk(k, s.io) \in Nat
      BY <1>0, OfChunkType
    <3>3. \A j \in DOMAIN s.io : s.io[j].kind # "full"
      BY <2>3, NoFull DEF Fit
    <3>4. DOMAIN q = 1..(Len(s.io) + 1) /\ DOMAIN s.io = 1..Len(s.io)
      BY <1>0, KindsOfJobs, AppendProperties
    <3>5. \A j \in DOMAIN q : q[j].kind # "full"
      BY <1>0, <3>3, <3>4, KindsOfJobs, AppendProperties
    <3>6. QED BY <3>1, <3>2, <3>5 DEF Count
  <2>5. Flush(s, None) = t
    BY <1>2 DEF Flush
  <2> HIDE DEF q
  <2>6. /\ t.buffer = s.buffer /\ t.disk = s.disk /\ t.allocJob = TRUE /\ t.checks = s.checks
        /\ t.pending = s.pending /\ t.fullJob = s.fullJob /\ t.io = q
    BY DEF Fit, Sound, IsStore
  <2> HIDE DEF t
  <2>7. \A p : Free(t, p) = Free(s, p)
    BY <2>6 DEF Free
  <2>8. Entries(t, comp, lat)
    BY <2>6, <2>7 DEF Good, Entries
  <2>9. Hashes(t, due, he)
    BY <2>4, <2>6, <2>7 DEF Good, Hashes
  <2>10. Safe(t, comp, ver) /\ Results(t, he)
    BY <2>6, <2>7 DEF Good, Safe, Results
  <2>11. Allocation(t, ae)
    BY <2>1, <2>2, <2>6 DEF Good, Allocation
  <2>12. Final(t, comp)
    BY <2>3, <2>4, <2>6 DEF Final
  <2>13. QED BY <2>5, <2>6, <2>8, <2>9, <2>10, <2>11, <2>12 DEF Good
<1>3. CASE ~s.allocJob /\ ~MustAllocate(s)
  <2> DEFINE w == Written(s.buffer, s.disk)
             t == [s EXCEPT !.disk = w, !.buffer = <<>>, !.toFlush = 0]
  <2>1. Flush(s, None) = t
    BY <1>0, <1>3 DEF Flush
  <2> HIDE DEF w
  <2>2. /\ t.buffer = <<>> /\ t.disk = w /\ t.allocJob = s.allocJob /\ t.checks = s.checks
        /\ t.pending = s.pending /\ t.fullJob = s.fullJob /\ t.io = s.io
    BY DEF Fit, Sound, IsStore
  <2> HIDE DEF t
  <2>3. \A p \in Pos : Free(t, p) /\ Written(t.buffer, t.disk)[p] = w[p]
    BY <2>2, WrittenNothing DEF Free
  <2>4. \A p \in Pos : Free(s, p) => w[p] = s.disk[p]
    BY WrittenAt DEF w, Free
  <2>5. JobsOf("alloc", s.io) = 0 /\ ae = <<>>
    BY <1>3, NoAlloc DEF Fit
  <2>6. Entries(t, comp, lat)
    <3>1. DOMAIN t.buffer = {}
      BY <2>2
    <3>2. QED BY <2>3, <3>1 DEF Good, Entries, w
  <2>7. \A k \in Chunks : Points(k) \subseteq Pos
    BY ChunkFacts
  <2>8. Hashes(t, due, he)
    BY <2>2, <2>3, <2>7 DEF Good, Hashes
  <2>9. Safe(t, comp, ver)
    BY <2>2, <2>3, <2>4 DEF Good, Safe
  <2>10. Results(t, he)
    <3>1. SUFFICES ASSUME NEW i \in DOMAIN he, he[i].kind = "chunk"
                   PROVE  Right(t.disk, he[i])
      BY DEF Good, Results
    <3>2. he[i].chunk \in Chunks
      BY <1>0, <3>1, ResultTypes
    <3>3. OfChunk(he[i].chunk, he) > 0 /\ OfChunk(he[i].chunk, he) \in Nat
          /\ OfChunk(he[i].chunk, s.io) \in Nat
      BY <1>0, <3>1, OfChunkSome, OfChunkType
    <3>4. \A p \in Points(he[i].chunk) : Free(s, p) /\ p \in Pos
      BY <2>7, <3>1, <3>2, <3>3 DEF Good, Hashes
    <3>5. Right(s.disk, he[i])
      BY <3>1 DEF Good, Results
    <3>6. \A p \in Points(he[i].chunk) : t.disk[p] = s.disk[p]
      BY <2>2, <2>4, <3>4
    <3>7. QED BY <3>5, <3>6, RightSame
  <2>11. Allocation(t, ae)
    BY <2>2, <2>5 DEF Allocation
  <2>12. Final(t, comp)
    BY <2>2 DEF Good, Final, Settled
  <2>13. QED BY <2>1, <2>2, <2>6, <2>8, <2>9, <2>10, <2>11, <2>12 DEF Good
<1>4. QED BY <1>1, <1>2, <1>3

\* So does save(), which may resume the download besides.
LEMMA SaveGood ==
  ASSUME NEW s, NEW comp, NEW ver, NEW lat, NEW due, NEW ae, NEW he, Fit(s, ae, he),
         Good(s, comp, ver, lat, due, ae, he)
  PROVE  /\ Good(Save(s, None), comp, ver, lat, due, ae, he)
         /\ Save(s, None).buffer = <<>> \/ Save(s, None).allocJob
<1> DEFINE f == Flush(s, None)
<1>1. Good(f, comp, ver, lat, due, ae, he) /\ (f.buffer = <<>> \/ f.allocJob) /\ Typed(f)
  BY FlushGood, FlushTyped DEF Fit
<1>2. Save(s, None) = f \/ Save(s, None) = Resumed(f)
  BY DEF Save, FlushThrows, None
<1> HIDE DEF f
<1> DEFINE r == Resumed(f)
<1>3. /\ r.buffer = f.buffer /\ r.disk = f.disk /\ r.allocJob = f.allocJob
      /\ r.checks = f.checks /\ r.pending = f.pending /\ r.fullJob = f.fullJob /\ r.io = f.io
  BY <1>1 DEF Resumed, Typed, IsStore
<1> HIDE DEF r
<1>4. Good(r, comp, ver, lat, due, ae, he)
  BY <1>1, <1>3, GoodSame
<1>5. QED BY <1>1, <1>2, <1>3, <1>4 DEF r

\* save() keeps the jobs counted and the types.
LEMMA SaveFit ==
  ASSUME NEW s, NEW ae, NEW he, Fit(s, ae, he), NEW fault
  PROVE  Fit(Save(s, fault), ae, he)
BY SaveSound, SaveTyped DEF Fit

\* verifyRange() of chunks that were not due yet, after a save().
LEMMA VerifyGood ==
  ASSUME NEW s, NEW comp, NEW ver, NEW lat, NEW due, NEW ae, NEW he, Fit(s, ae, he),
         Good(s, comp, ver, lat, due, ae, he), s.buffer = <<>> \/ s.allocJob, ~s.fullJob,
         NEW K, K \subseteq Chunks, K \cap due = {}, NEW ks \in InOrder(K)
  PROVE  Good(Verify(s, ks), comp, ver, lat, due \cup K, ae, he)
<1> DEFINE work == [i \in DOMAIN ks |-> ChunkJob(ks[i])]
           n == s.pending + Len(ks)
           c == s.checks \o work
           q == s.io \o work
           parked == [s EXCEPT !.checks = c, !.pending = n]
           posted == [s EXCEPT !.io = q, !.pending = n]
<1>1. \A k \in Chunks : OfChunk(k, work) = Count(k \in K)
  BY InOrderOnce
<1>2. work \in Seq(Jobs) /\ \A i \in DOMAIN work : work[i].kind = "chunk"
  <2>1. ks \in Seq(Chunks)
    BY InOrderSeq
  <2>2. QED BY <2>1, KindsOfJobs
<1>3. Verify(s, ks) = IF s.allocJob THEN parked ELSE posted
  BY DEF Verify
<1> HIDE DEF work, n
<1>4. /\ s.io \in Seq(Jobs) /\ s.checks \in Seq(Jobs) /\ he \in Seq(HashResults)
      /\ \A k \in Chunks : OfChunk(k, s.io) \in Nat /\ OfChunk(k, s.checks) \in Nat
                           /\ OfChunk(k, he) \in Nat
  <2>1. /\ s.io \in Seq(Jobs) /\ s.checks \in Seq(Jobs) /\ he \in Seq(HashResults)
    BY DEF Fit, Sound, IsStore
  <2>2. QED BY <2>1, OfChunkType
<1>5. \A k \in Chunks : /\ OfChunk(k, c) = OfChunk(k, s.checks) + Count(k \in K)
                        /\ OfChunk(k, q) = OfChunk(k, s.io) + Count(k \in K)
  BY <1>1, <1>2, <1>4, OfChunkConcat
<1>6. \A k : Count(k \in due \cup K) = Count(k \in due) + Count(k \in K)
  BY DEF Count
<1>7. \A j \in DOMAIN q : q[j].kind # "full"
  <2>1. \A j \in DOMAIN s.io : s.io[j].kind # "full"
    BY NoFull DEF Fit
  <2>2. QED BY <1>2, <1>4, <2>1, ConcatOrder
<1>8. JobsOf("alloc", q) = JobsOf("alloc", s.io)
  BY <1>2, <1>4, ConcatChunks
<1> HIDE DEF c, q
<1>9. CASE s.allocJob
  <2>1. /\ parked.buffer = s.buffer /\ parked.disk = s.disk /\ parked.allocJob = s.allocJob
        /\ parked.checks = c /\ parked.fullJob = s.fullJob /\ parked.io = s.io
    BY DEF Fit, Sound, IsStore
  <2> HIDE DEF parked
  <2>2. \A p : Free(parked, p) = Free(s, p)
    BY <2>1 DEF Free
  <2>3. Hashes(parked, due \cup K, he)
    <3>1. ASSUME NEW k \in Chunks
          PROVE  OfChunk(k, c) + OfChunk(k, s.io) + OfChunk(k, he) = Count(k \in due \cup K)
      <4>1. OfChunk(k, s.checks) + OfChunk(k, s.io) + OfChunk(k, he) = Count(k \in due)
        BY DEF Good, Hashes
      <4>2. Count(k \in due) \in Nat /\ Count(k \in K) \in Nat
        BY DEF Count
      <4>3. QED BY <1>4, <1>5, <1>6, <4>1, <4>2
    <3>2. QED BY <1>9, <2>1, <2>2, <3>1 DEF Good, Hashes
  <2>4. Entries(parked, comp, lat) /\ Safe(parked, comp, ver)
    BY <2>1, <2>2 DEF Good, Entries, Safe
  <2>5. Allocation(parked, ae) /\ Results(parked, he) /\ Final(parked, comp)
    BY <2>1, <2>2 DEF Good, Allocation, Results, Final
  <2>6. QED BY <1>3, <1>9, <2>3, <2>4, <2>5 DEF Good
<1>10. CASE ~s.allocJob
  <2>1. /\ posted.buffer = <<>> /\ posted.disk = s.disk /\ posted.allocJob = s.allocJob
        /\ posted.checks = s.checks /\ posted.fullJob = s.fullJob /\ posted.io = q
        /\ s.buffer = <<>>
    BY <1>10 DEF Fit, Sound, IsStore
  <2> HIDE DEF posted
  <2>2. \A p \in Pos : Free(posted, p) /\ Free(s, p)
    BY <2>1, WrittenNothing DEF Free
  <2>3. Hashes(posted, due \cup K, he)
    <3>1. ASSUME NEW k \in Chunks
          PROVE  OfChunk(k, s.checks) + OfChunk(k, q) + OfChunk(k, he) = Count(k \in due \cup K)
      <4>1. OfChunk(k, s.checks) + OfChunk(k, s.io) + OfChunk(k, he) = Count(k \in due)
        BY DEF Good, Hashes
      <4>2. Count(k \in due) \in Nat /\ Count(k \in K) \in Nat
        BY DEF Count
      <4>3. QED BY <1>4, <1>5, <1>6, <4>1, <4>2
    <3>2. \A k \in Chunks : Points(k) \subseteq Pos
      BY ChunkFacts
    <3>3. QED BY <1>10, <2>1, <2>2, <3>1, <3>2 DEF Good, Hashes
  <2>4. Entries(posted, comp, lat) /\ Safe(posted, comp, ver)
    BY <2>1, <2>2 DEF Good, Entries, Safe
  <2>5. Allocation(posted, ae) /\ Results(posted, he) /\ Final(posted, comp)
    BY <1>7, <1>8, <2>1, <2>2 DEF Good, Allocation, Results, Final
  <2>6. QED BY <1>3, <1>10, <2>3, <2>4, <2>5 DEF Good
<1>11. QED BY <1>9, <1>10

\* tryComplete() asks for the final rehash of a settled file.
LEMMA TryCompleteGood ==
  ASSUME NEW s, NEW comp, NEW ver, NEW lat, NEW due, NEW ae, NEW he, Fit(s, ae, he),
         Good(s, comp, ver, lat, due, ae, he)
  PROVE  Good(TryComplete(s, comp, None), comp, ver, lat, due, ae, he)
<1>1. CASE ~(comp = Pos /\ ~s.fullJob /\ s.pending = 0)
  BY <1>1 DEF TryComplete
<1>2. CASE comp = Pos /\ ~s.fullJob /\ s.pending = 0
  <2> DEFINE t == Save(s, None)
             q == Append(t.io, FullJob)
             u == [t EXCEPT !.io = q, !.fullJob = TRUE]
  <2>1. /\ Good(t, comp, ver, lat, due, ae, he) /\ (t.buffer = <<>> \/ t.allocJob)
        /\ Fit(t, ae, he) /\ t.pending = 0 /\ t.fullJob = s.fullJob
    BY <1>2, SaveGood, SaveFit, SaveSound DEF Fit
  <2>2. TryComplete(s, comp, None) = u
    BY <1>2 DEF TryComplete
  <2> HIDE DEF t
  <2>3. t.io \in Seq(Jobs)
    BY <2>1 DEF Fit, Sound, IsStore
  <2>4. /\ \A k \in Chunks : OfChunk(k, q) = OfChunk(k, t.io)
        /\ JobsOf("alloc", q) = JobsOf("alloc", t.io)
    <3>0. \A k \in Chunks : OfChunk(k, q) = OfChunk(k, t.io) + Count(FALSE)
      BY <2>3, KindsOfJobs, OfChunkAppend
    <3>1. JobsOf("alloc", q) = JobsOf("alloc", t.io) + 0
      BY <2>3, KindsOfJobs, AppendJob DEF Count
    <3>2. JobsOf("alloc", t.io) \in Nat /\ \A k \in Chunks : OfChunk(k, t.io) \in Nat
      BY <2>3, OfChunkType, JobsOfType
    <3>3. QED BY <3>0, <3>1, <3>2 DEF Count
  <2>5. \A j \in DOMAIN q : q[j].kind = "full" => j = Len(q)
    <3>1. \A j \in DOMAIN t.io : t.io[j].kind # "full"
      BY <1>2, <2>1, NoFull DEF Fit
    <3>2. /\ DOMAIN q = 1..(Len(t.io) + 1) /\ DOMAIN t.io = 1..Len(t.io) /\ Len(q) = Len(t.io) + 1
          /\ \A j \in 1..Len(t.io) : q[j] = t.io[j]
      BY <2>3, KindsOfJobs, AppendProperties
    <3>3. QED BY <2>3, <3>1, <3>2
  <2> HIDE DEF q
  <2>6. /\ u.buffer = t.buffer /\ u.disk = t.disk /\ u.allocJob = t.allocJob
        /\ u.checks = t.checks /\ u.pending = 0 /\ u.fullJob = TRUE /\ u.io = q
    BY <2>1 DEF Fit, Sound, IsStore
  <2> HIDE DEF u
  <2>7. \A p : Free(u, p) = Free(t, p)
    BY <2>6 DEF Free
  <2>8. Entries(u, comp, lat) /\ Safe(u, comp, ver)
    BY <2>1, <2>6, <2>7 DEF Good, Entries, Safe
  <2>9. Hashes(u, due, he)
    BY <2>1, <2>4, <2>6, <2>7 DEF Good, Hashes
  <2>10. Allocation(u, ae) /\ Results(u, he)
    BY <2>1, <2>4, <2>6, <2>7 DEF Good, Allocation, Results
  <2>11. Final(u, comp)
    BY <1>2, <2>1, <2>5, <2>6 DEF Final, Settled
  <2>12. QED BY <2>1, <2>2, <2>8, <2>9, <2>10, <2>11 DEF Good
<1>3. QED BY <1>1, <1>2

\* tryComplete() keeps the jobs counted and the types.
LEMMA TryCompleteFit ==
  ASSUME NEW s, NEW ae, NEW he, Fit(s, ae, he), NEW comp, NEW fault
  PROVE  Fit(TryComplete(s, comp, fault), ae, he)
BY TryCompleteSound, TryCompleteTyped DEF Fit

\* The order of no chunks is empty, and no other.
LEMMA InOrderEmpty ==
  ASSUME NEW K, K \subseteq Chunks, NEW ks \in InOrder(K)
  PROVE  ks = <<>> <=> K = {}
<1>1. ks \in Seq(Chunks)
  BY InOrderSeq
<1>2. \A k \in Chunks : OfChunk(k, [i \in DOMAIN ks |-> ChunkJob(ks[i])]) = Count(k \in K)
  BY InOrderOnce
<1>3. CASE ks = <<>>
  <2>1. [i \in DOMAIN ks |-> ChunkJob(ks[i])] = <<>>
    BY <1>3
  <2>2. \A k \in Chunks : Count(k \in K) = 0
    BY <1>2, <2>1, OfChunkEmpty
  <2>3. QED BY <1>3, <2>2 DEF Count
<1>4. CASE K = {}
  <2>1. Cardinality({}) = 0
    BY FS_EmptySet
  <2>2. ks \in [1..0 -> {}]
    BY <1>4, <2>1 DEF InOrder
  <2>3. QED BY <1>1, <1>4, <2>2
<1>5. CASE ks # <<>> /\ K # {}
  BY <1>5
<1>6. QED BY <1>3, <1>4, <1>5

\* Chunk::verify() of chunks that were not due yet.
LEMMA VerifyChunksGood ==
  ASSUME NEW s, NEW comp, NEW ver, NEW lat, NEW due, NEW ae, NEW he, Fit(s, ae, he),
         Good(s, comp, ver, lat, due, ae, he), ~s.fullJob,
         NEW K, K \subseteq Chunks, K \cap due = {}, NEW ks \in InOrder(K)
  PROVE  Good(VerifyChunks(s, ks, comp, None), comp, ver, lat,
              IF hashed THEN due \cup K ELSE due, ae, he)
<1>1. CASE ks = <<>>
  <2>1. K = {}
    BY <1>1, InOrderEmpty
  <2>2. (IF hashed THEN due \cup K ELSE due) = due
    BY <2>1
  <2>3. QED BY <1>1, <2>2 DEF VerifyChunks
<1>2. CASE ks # <<>> /\ hashed
  <2> DEFINE t == Save(s, None)
  <2>1. /\ Good(t, comp, ver, lat, due, ae, he) /\ (t.buffer = <<>> \/ t.allocJob)
        /\ Fit(t, ae, he) /\ t.fullJob = s.fullJob
    BY SaveGood, SaveFit, SaveSound DEF Fit
  <2> HIDE DEF t
  <2>2. Good(Verify(t, ks), comp, ver, lat, due \cup K, ae, he)
    BY <2>1, VerifyGood
  <2>3. VerifyChunks(s, ks, comp, None) = Verify(t, ks)
    BY <1>2 DEF VerifyChunks, t
  <2>4. QED BY <1>2, <2>2, <2>3
<1>3. CASE ks # <<>> /\ ~hashed
  <2>1. VerifyChunks(s, ks, comp, None) = TryComplete(s, comp, None)
    BY <1>3 DEF VerifyChunks
  <2>2. QED BY <1>3, <2>1, TryCompleteGood
<1>4. QED BY <1>1, <1>2, <1>3

\* Chunk::verify() keeps the jobs counted and the types.
LEMMA VerifyChunksFit ==
  ASSUME NEW s, NEW ae, NEW he, Fit(s, ae, he), NEW ks \in Seq(Chunks), NEW comp, NEW fault
  PROVE  Fit(VerifyChunks(s, ks, comp, fault), ae, he)
BY VerifyChunksSound, VerifyChunksTyped DEF Fit

-----------------------------------------------------------------------------
(* The invariant.                                                            *)

\* The disk has not failed, and nobody has asked for a rehash.
Undisturbed == faults = 0 /\ rehashes = 0

DInv ==
    /\ Good(Store, complete, verified, latest, Due(complete, verified), allocEvents, hashEvents)
    /\ completions > 0 => completions = 1 /\ ~fullJob /\ Settled(Store, complete)

\* A handler ends.
LEMMA CommitGood ==
  ASSUME NEW s, Commit(s), UNCHANGED hashed,
         Good(s, complete', verified', latest', Due(complete', verified'), allocEvents', hashEvents'),
         completions' > 0 => completions' = 1 /\ ~s.fullJob /\ Settled(s, complete')
  PROVE  DInv'
<1>1. /\ Store'.buffer = s.buffer /\ Store'.disk = s.disk /\ Store'.allocJob = s.allocJob
      /\ Store'.checks = s.checks /\ Store'.pending = s.pending
      /\ Store'.fullJob = s.fullJob /\ Store'.io = s.io /\ fullJob' = s.fullJob
  BY DEF Commit, Store
<1>2. Good(Store', complete', verified', latest', Due(complete', verified'),
           allocEvents', hashEvents')
  BY <1>1, GoodSame
<1>3. Good(Store, complete, verified, latest, Due(complete, verified), allocEvents, hashEvents)'
  BY <1>2 DEF Good, Results, Due
<1>4. Settled(s, complete') => Settled(Store', complete')
  BY <1>1 DEF Settled
<1>5. QED BY <1>1, <1>3, <1>4 DEF DInv

\* A store with the same jobs and the same types fits.
LEMMA FitSame ==
  ASSUME NEW s, NEW t, NEW ae, NEW he, Fit(s, ae, he), IsStore(t), Kept(t),
         t.allocJob = s.allocJob, t.checks = s.checks, t.pending = s.pending,
         t.fullJob = s.fullJob, t.io = s.io
  PROVE  Fit(t, ae, he)
BY SoundSame DEF Fit, Typed

\* The store of a state fits.
LEMMA StoreFit == ASSUME TInv PROVE Fit(Store, allocEvents, hashEvents)
BY Facts DEF TInv, IInv, Fit, Typed

\* A write of data at begin fills range, which was not complete.
Fills(range, begin, data, lat) ==
    /\ begin \in Pos /\ data \in Seq(Data) /\ Len(data) > 0
    /\ range = begin..(begin + Len(data) - 1) /\ range \subseteq Pos
    /\ range \cap complete = {}
    /\ \A p \in Pos : lat[p] = IF p \in range THEN data[p - begin + 1] ELSE latest[p]

\* The buffer takes the data of a write to positions that are not complete.
LEMMA BufferedGood ==
  ASSUME TInv, DInv, NEW begin, NEW data, NEW range, NEW lat, Fills(range, begin, data, lat)
  PROVE  /\ Fit(Buffered(Store, begin, data), allocEvents, hashEvents)
         /\ Good(Buffered(Store, begin, data), complete \cup range, verified, lat,
                 Due(complete, verified), allocEvents, hashEvents)
         /\ ~Buffered(Store, begin, data).fullJob
<1>a. /\ begin \in Pos /\ data \in Seq(Data) /\ Len(data) > 0
      /\ range = begin..(begin + Len(data) - 1) /\ range \subseteq Pos
      /\ range \cap complete = {}
  BY DEF Fills
<1>b. \A p \in Pos : lat[p] = IF p \in range THEN data[p - begin + 1] ELSE latest[p]
  BY DEF Fills
<1> DEFINE due == Due(complete, verified)
           he == hashEvents
           s == Buffered(Store, begin, data)
           c == [x \in DOMAIN buffer \cup {begin} |-> IF x = begin THEN data ELSE buffer[x]]
<1>0. /\ DOMAIN c = DOMAIN buffer \cup {begin}
      /\ \A x \in DOMAIN c : c[x] = IF x = begin THEN data ELSE buffer[x]
  OBVIOUS
<1>1. Good(Store, complete, verified, latest, due, allocEvents, he)
  BY DEF DInv
<1>2. /\ DOMAIN buffer \subseteq Pos /\ \A i \in DOMAIN buffer : buffer[i] \in Seq(Data)
      /\ Store.buffer = buffer
  BY DEF TInv, Kept, Store
<1>3. /\ \A i \in DOMAIN buffer : Len(buffer[i]) > 0
      /\ \A p \in Pos : ~Free(Store, p) => p \in complete
  BY <1>1, <1>2 DEF Good, Entries
<1>4. /\ begin \in Int /\ Len(data) \in Nat /\ Pos \subseteq Int /\ begin \in range
      /\ \A p \in Int : p \in range <=> begin <= p /\ p < begin + Len(data)
  <2>1. begin \in Int /\ Len(data) \in Nat /\ Pos \subseteq Int
    BY <1>a, ChunkFacts
  <2>2. QED BY <1>a, <2>1
<1>5. \A q \in Pos : begin <= q /\ q < begin + Len(data) => Covering(buffer, q) = {}
  BY <1>a, <1>2, <1>3, <1>4 DEF Free
<1>6. /\ s = [Store EXCEPT !.buffer = c] /\ IsStore(Store)
      /\ s.buffer = c /\ s.disk = Store.disk /\ s.allocJob = Store.allocJob
      /\ s.checks = Store.checks /\ s.pending = Store.pending /\ s.fullJob = Store.fullJob
      /\ s.io = Store.io
  BY Facts DEF TInv, Buffered, Store
<1>7. ASSUME NEW p \in Pos
      PROVE  IF p \in range
             THEN ~Free(s, p) /\ Written(s.buffer, s.disk)[p] = lat[p] /\ lat[p] \in Data
             ELSE /\ Free(s, p) = Free(Store, p) /\ lat[p] = latest[p]
                  /\ Written(s.buffer, s.disk)[p] = Written(Store.buffer, Store.disk)[p]
  <2>1. /\ begin <= p /\ p < begin + Len(data) =>
              Covering(c, p) # {} /\ \A d : Written(c, d)[p] = data[p - begin + 1]
        /\ ~(begin <= p /\ p < begin + Len(data)) =>
              Covering(c, p) = Covering(buffer, p) /\ \A d : Written(c, d)[p] = Written(buffer, d)[p]
    <3> HIDE DEF c
    <3>1. OneMore(buffer, begin, data, c)
      BY <1>a, <1>0, <1>2, <1>3, <1>5 DEF OneMore
    <3>2. EntryAt(buffer, begin, data, c, p)
      BY <3>1, BufferedAt
    <3>3. QED BY <3>2 DEF EntryAt
  <2> HIDE DEF c, s
  <2>2. CASE p \in range
    <3>1. begin <= p /\ p < begin + Len(data) /\ p - begin + 1 \in 1..Len(data)
      BY <1>a, <1>4, <2>2
    <3>2. QED BY <1>a, <1>b, <1>6, <2>1, <2>2, <3>1 DEF Free
  <2>3. CASE p \notin range
    <3>1. ~(begin <= p /\ p < begin + Len(data))
      BY <1>4, <2>3
    <3>2. QED BY <1>b, <1>2, <1>6, <2>1, <2>3, <3>1 DEF Free
  <2>4. QED BY <2>2, <2>3
<1>8. Fit(s, allocEvents, he)
  <2>1. DOMAIN c \subseteq Pos /\ \A x \in DOMAIN c : c[x] \in Seq(Data)
    BY <1>a, <1>2
  <2> HIDE DEF c
  <2>2. IsStore(s) /\ Kept(s)
    BY <1>6, <2>1, Facts DEF TInv, IsStore, Kept
  <2> HIDE DEF s
  <2>3. QED BY <1>6, <2>2, StoreFit, FitSame
<1>9. ~s.fullJob
  <2>1. Store.fullJob => complete = Pos
    BY <1>1 DEF Good, Final, Settled
  <2>2. complete # Pos
    BY <1>a, <1>4
  <2>3. QED BY <1>6, <2>1, <2>2
<1> HIDE DEF c, s
<1> DEFINE comp == complete \cup range
<1>10. comp \subseteq Pos /\ complete \subseteq Pos
  BY <1>a DEF TInv, Rest
<1>11. Entries(s, comp, lat)
  <2>1. ASSUME NEW i \in DOMAIN s.buffer PROVE Len(s.buffer[i]) > 0
    <3>1. i \in DOMAIN c
      BY <1>6, <2>1
    <3>2. c[i] = data \/ (i \in DOMAIN buffer /\ c[i] = buffer[i])
      BY <1>0, <3>1
    <3>3. QED BY <1>a, <1>3, <1>6, <3>2
  <2>2. ASSUME NEW p \in Pos, ~Free(s, p) PROVE p \in comp
    BY <1>3, <1>7, <2>2
  <2>3. ASSUME NEW p \in comp
        PROVE  Written(s.buffer, s.disk)[p] = lat[p] /\ lat[p] \in Data
    BY <1>1, <1>7, <1>10, <2>3 DEF Good, Entries
  <2>4. QED BY <2>1, <2>2, <2>3 DEF Entries
<1>12. ASSUME NEW p \in complete, Free(Store, p) PROVE Free(s, p)
  BY <1>a, <1>7, <1>10, <1>12
<1>13. Hashes(s, due, he)
  <2>1. ASSUME NEW k \in Chunks, OfChunk(k, s.io) + OfChunk(k, he) > 0, NEW p \in Points(k)
        PROVE  Free(s, p)
    <3>1. Free(Store, p)
      BY <1>1, <1>6, <2>1 DEF Good, Hashes
    <3>2. Store.io \in Seq(Jobs) /\ Store.checks \in Seq(Jobs) /\ he \in Seq(HashResults)
      BY Facts DEF TInv
    <3>3. OfChunk(k, Store.checks) \in Nat /\ OfChunk(k, Store.io) \in Nat /\ OfChunk(k, he) \in Nat
      BY <3>2, OfChunkType
    <3>4. OfChunk(k, Store.checks) + OfChunk(k, Store.io) + OfChunk(k, he) = Count(k \in due)
      BY <1>1 DEF Good, Hashes
    <3>5. k \in due
      BY <1>6, <2>1, <3>3, <3>4 DEF Count
    <3>6. p \in complete
      BY <2>1, <3>5 DEF Due
    <3>7. QED BY <1>12, <3>1, <3>6
  <2>2. QED BY <1>1, <1>6, <2>1 DEF Good, Hashes
<1>14. Safe(s, comp, verified)
  BY <1>1, <1>6, <1>12 DEF Good, Safe
<1>15. Allocation(s, allocEvents) /\ Results(s, he)
  BY <1>1, <1>6 DEF Good, Allocation, Results
<1>16. Final(s, comp)
  BY <1>1, <1>6, <1>9 DEF Good, Final
<1>17. Good(s, comp, verified, lat, due, allocEvents, he)
  BY <1>10, <1>11, <1>13, <1>14, <1>15, <1>16 DEF Good
<1>18. QED BY <1>8, <1>9, <1>17 DEF s

-----------------------------------------------------------------------------
(* The handlers keep the invariant.                                          *)

\* doWrite(), when the disk does not fail.
LEMMA DoWriteGood ==
  ASSUME TInv, DInv, UNCHANGED hashed, UNCHANGED <<verified, events, completions>>,
         NEW begin \in Pos, NEW n \in 1..MaxWrite, NEW d \in Data,
         NEW whole \in BOOLEAN, begin + n <= Size,
         DoWrite(begin..(begin + n - 1), [i \in 1..n |-> d], None, whole)
  PROVE  DInv'
<1> DEFINE range == begin..(begin + n - 1)
           data == [i \in 1..n |-> d]
           comp == complete \cup range
           After(t) == [t EXCEPT !.toFlush = @ + Len(data)]
           Full(t)  == IF t.toFlush >= BufLimit THEN Save(t, None) ELSE t
           Ended(t) == IF whole THEN TryComplete(t, comp, None) ELSE t
           due == Due(complete, verified)
           K == ToVerify(Touched(range), comp, verified)
           ae == allocEvents
           he == hashEvents
           lat == latest'
<1>1. /\ begin \in Int /\ n \in Nat /\ n >= 1 /\ begin <= begin + n - 1
      /\ range \subseteq Pos /\ Min(range) = begin /\ begin \in range
  <2>1. begin \in Int /\ n \in Nat /\ n >= 1 /\ begin >= 0 /\ Size \in Nat
    BY PartDataAssumption DEF Pos
  <2>2. begin + n - 1 \in Int /\ begin <= begin + n - 1
    BY <2>1
  <2>3. range \subseteq Pos
    BY <2>1 DEF Pos
  <2>4. QED BY <2>1, <2>2, <2>3, MinOfRange
<1>2. data \in Seq(Data) /\ Len(data) = n
  BY <1>1
<1>3. PICK ks \in InOrder(K) :
        Commit(Ended(Full(After(
            VerifyChunks(Buffered(Store, begin, data), ks, comp, None)))))
  BY <1>1 DEF DoWrite
<1>4. range \cap complete = {} /\ complete' = comp
  BY DEF DoWrite
<1>5. \A p \in Pos : lat[p] = IF p \in range THEN data[p - begin + 1] ELSE latest[p]
  BY <1>1 DEF DoWrite
<1> DEFINE s0 == Buffered(Store, begin, data)
           s1 == VerifyChunks(s0, ks, comp, None)
           s2 == After(s1)
           s3 == Full(s2)
           s4 == Ended(s3)
           now == IF hashed THEN due \cup K ELSE due
<1>6. K \subseteq Chunks /\ K \cap due = {} /\ now = Due(comp, verified)
  <2>1. \A k : k \in K <=> /\ k \in Chunks /\ Points(k) \cap range # {}
                           /\ Points(k) \subseteq comp /\ ~(Points(k) \subseteq verified)
    BY DEF ToVerify, Touched
  <2>2. \A c, k : k \in Due(c, verified) <=> /\ k \in Chunks /\ hashed /\ Points(k) \subseteq c
                                             /\ ~(Points(k) \subseteq verified)
    BY DEF Due
  <2> HIDE DEF K, range
  <2>a. \A k : Points(k) \subseteq comp /\ Points(k) \cap range = {} => Points(k) \subseteq complete
    OBVIOUS
  <2>b. K \subseteq Chunks /\ K \cap due = {}
    BY <1>4, <2>1, <2>2
  <2>c. \A k : k \in Due(comp, verified) <=> k \in due \/ (hashed /\ k \in K)
    BY <2>1, <2>2, <2>a
  <2> HIDE DEF due, comp
  <2>3. CASE hashed
    BY <2>b, <2>c, <2>3
  <2>4. CASE ~hashed
    BY <2>b, <2>c, <2>4
  <2>5. QED BY <2>3, <2>4
<1> HIDE DEF K
<1>7. ks \in Seq(Chunks)
  BY <1>3, <1>6, InOrderSeq
<1>8. Fit(s0, ae, he) /\ Good(s0, comp, verified, lat, due, ae, he) /\ ~s0.fullJob
  <2>1. range = begin..(begin + Len(data) - 1) /\ Len(data) > 0
    BY <1>1, <1>2
  <2>2. range \subseteq Pos /\ range \cap complete = {} /\ data \in Seq(Data)
    BY <1>1, <1>2, <1>4
  <2> HIDE DEF data, range, lat
  <2>3. \A p \in Pos : lat[p] = IF p \in range THEN data[p - begin + 1] ELSE latest[p]
    BY <1>5
  <2>4. Fills(range, begin, data, lat)
    BY <2>1, <2>2, <2>3 DEF Fills
  <2>5. QED BY <2>4, BufferedGood
<1>9. Commit(s4)
  BY <1>3
<1>10. s2 = [s1 EXCEPT !.toFlush = @ + Len(data)] /\ Len(data) \in Nat
  BY <1>1, <1>2
<1> HIDE DEF s0, due
<1>11. Fit(s1, ae, he) /\ Good(s1, comp, verified, lat, now, ae, he)
  BY <1>3, <1>6, <1>7, <1>8, VerifyChunksGood, VerifyChunksFit
<1> HIDE DEF s1, now, data
<1>12. Fit(s2, ae, he) /\ Good(s2, comp, verified, lat, now, ae, he)
  <2>1. /\ IsStore(s2) /\ s2.buffer = s1.buffer /\ s2.disk = s1.disk
        /\ s2.mode = s1.mode /\ s2.autoPaused = s1.autoPaused
        /\ s2.allocJob = s1.allocJob /\ s2.checks = s1.checks
        /\ s2.pending = s1.pending /\ s2.fullJob = s1.fullJob /\ s2.io = s1.io
        /\ s2.toFlush = s1.toFlush + Len(data)
    BY <1>10, <1>11 DEF Fit, Typed, IsStore
  <2> HIDE DEF s2
  <2>2. Kept(s2)
    BY <1>10, <1>11, <2>1 DEF Fit, Typed, Kept
  <2>3. QED BY <1>11, <2>1, <2>2, FitSame, GoodSame
<1> HIDE DEF s2
<1>13. Fit(s3, ae, he) /\ Good(s3, comp, verified, lat, now, ae, he)
  BY <1>12, SaveGood, SaveFit
<1> HIDE DEF s3
<1>14. Good(s4, comp, verified, lat, now, ae, he)
  BY <1>13, TryCompleteGood
<1> HIDE DEF s4
<1>15. completions' = 0
  <2>1. completions > 0 => complete = Pos
    BY DEF DInv, Settled
  <2>2. complete # Pos
    BY <1>1, <1>4
  <2>3. completions \in Nat
    BY DEF TInv, Rest
  <2>4. QED BY <2>1, <2>2, <2>3
<1>16. allocEvents' = ae /\ hashEvents' = he /\ verified' = verified
  BY DEF events
<1>17. Due(complete', verified') = now
  BY <1>4, <1>6, <1>16
<1> HIDE DEF comp
<1>18. Good(s4, complete', verified', latest', Due(complete', verified'), allocEvents', hashEvents')
  BY <1>4, <1>14, <1>16, <1>17
<1>19. QED BY <1>9, <1>15, <1>18, CommitGood

\* The IO thread allocates the file.
LEMMA RunAllocGood ==
  ASSUME TInv, DInv, UNCHANGED hashed, RunJob, RunAlloc, faults' = faults
  PROVE  DInv'
<1> DEFINE due == Due(complete, verified)
<1>1. /\ Good(Store, complete, verified, latest, due, allocEvents, hashEvents)
      /\ completions > 0 => completions = 1 /\ ~fullJob /\ Settled(Store, complete)
  BY DEF DInv
<1>2. /\ io # <<>> /\ io' = Tail(io) /\ Head(io) = AllocJob
      /\ UNCHANGED <<lists, buffer, toFlush, allocJob, checks, pending, fullJob, mode,
                     autoPaused, locks, observed, bads, commands, rehashes>>
      /\ UNCHANGED hashEvents
  BY DEF RunJob, RunAlloc
<1>3. disk' = Allocated(disk) /\ allocEvents' = Append(allocEvents, TRUE)
  <2>1. PICK fault \in {None, "flush"} :
          /\ CountFault(fault)
          /\ disk' = IF fault = None THEN Allocated(disk) ELSE disk
          /\ allocEvents' = Append(allocEvents, fault = None)
    BY DEF RunAlloc
  <2>2. faults + Count(fault # None) = faults /\ faults \in Nat
    BY <2>1 DEF CountFault, TInv, Rest
  <2>3. fault = None
    BY <2>2 DEF Count
  <2>4. QED BY <2>1, <2>3
<1>4. /\ Store.io = io /\ Store.disk = disk /\ Store.buffer = buffer /\ Store.checks = checks
      /\ Store.allocJob = allocJob /\ Store.pending = pending /\ Store.fullJob = fullJob
      /\ io \in Seq(Jobs) /\ disk \in [Pos -> Bytes] /\ allocEvents \in Seq(BOOLEAN)
  BY Facts DEF TInv, Kept, Store
<1>5. /\ Store'.io = Tail(io) /\ Store'.disk = Allocated(disk) /\ Store'.buffer = buffer
      /\ Store'.checks = checks /\ Store'.allocJob = allocJob /\ Store'.pending = pending
      /\ Store'.fullJob = fullJob
  BY <1>2, <1>3 DEF Store
<1> DEFINE t == Store'
<1> HIDE DEF t
<1>6. /\ t.io = Tail(io) /\ t.disk = Allocated(disk) /\ t.buffer = buffer
      /\ t.checks = checks /\ t.allocJob = allocJob /\ t.pending = pending
      /\ t.fullJob = fullJob
  BY <1>5 DEF t
<1>7. Size - 1 \in Pos /\ \A p \in Pos : Allocated(disk)[p] = IF p = Size - 1 THEN "bad" ELSE disk[p]
  BY <1>4, ChunkFacts DEF Allocated
<1>8. disk[Size - 1] = None
  <2>1. JobsOf("alloc", io) > 0
    <3>1. JobsOf("alloc", io) = Count(Head(io).kind = "alloc") + JobsOf("alloc", Tail(io))
          /\ Tail(io) \in Seq(Jobs)
      BY <1>2, <1>4, JobsOfTail
    <3>2. JobsOf("alloc", Tail(io)) \in Nat
      BY <3>1, JobsOfType
    <3>3. Head(io).kind = "alloc"
      BY <1>2 DEF AllocJob
    <3>4. QED BY <3>1, <3>2, <3>3 DEF Count
  <2>2. QED BY <1>1, <1>4, <2>1 DEF Good, Allocation
<1>9. \A p : Free(t, p) = Free(Store, p)
  BY <1>4, <1>6 DEF Free
<1>10. ASSUME NEW p \in complete, Free(Store, p) PROVE p \in Pos /\ t.disk[p] = disk[p] /\ disk[p] \in Data
  <2>1. p \in Pos /\ Written(buffer, disk)[p] \in Data
    BY <1>1, <1>4, <1>10 DEF Good, Entries
  <2>2. Written(buffer, disk)[p] = disk[p]
    BY <1>4, <1>10, <2>1, WrittenAt DEF Free
  <2>3. p # Size - 1
    BY <1>8, <2>1, <2>2 DEF Data, None
  <2>4. QED BY <1>6, <1>7, <2>1, <2>2, <2>3
<1>11. Entries(t, complete, latest)
  <2>1. ASSUME NEW p \in complete PROVE Written(buffer, t.disk)[p] = Written(buffer, disk)[p]
    <3>0. p \in Pos
      BY <1>1 DEF Good
    <3>1. CASE Free(Store, p)
      BY <1>4, <1>10, <3>0, <3>1, WrittenAt DEF Free
    <3>2. CASE ~Free(Store, p)
      BY <1>4, <3>0, <3>2, WrittenAt DEF Free
    <3>3. QED BY <3>1, <3>2
  <2>2. QED BY <1>1, <1>4, <1>6, <1>9, <2>1 DEF Good, Entries
<1>12. \A k \in Chunks : OfChunk(k, Tail(io)) = OfChunk(k, io)
  <2>1. SUFFICES ASSUME NEW k \in Chunks PROVE OfChunk(k, Tail(io)) = OfChunk(k, io)
    OBVIOUS
  <2>2. OfChunk(k, io) = Count(Head(io).kind = "chunk" /\ Head(io).chunk = k) + OfChunk(k, Tail(io))
    BY <1>2, <1>4, OfChunkTail
  <2>3. Head(io).kind # "chunk"
    BY <1>2 DEF AllocJob
  <2>4. OfChunk(k, Tail(io)) \in Nat
    BY <1>2, <1>4, HeadTailProperties, OfChunkType
  <2>5. QED BY <2>2, <2>3, <2>4 DEF Count
<1>13. Hashes(t, due, hashEvents)
  BY <1>1, <1>4, <1>6, <1>9, <1>12 DEF Good, Hashes
<1>14. Safe(t, complete, verified)
  <2>1. verified \subseteq complete /\ \A p \in verified : disk[p] = "good" /\ Free(Store, p)
    BY <1>1, <1>4 DEF Good, Safe
  <2>2. QED BY <1>9, <1>10, <2>1 DEF Safe
<1>15. Allocation(t, allocEvents')
  <2>1. JobsOf("alloc", Tail(io)) = 0
    <3>1. JobsOf("alloc", io) = Count(Head(io).kind = "alloc") + JobsOf("alloc", Tail(io))
          /\ Tail(io) \in Seq(Jobs)
      BY <1>2, <1>4, JobsOfTail
    <3>2. JobsOf("alloc", Tail(io)) \in Nat /\ Len(allocEvents) \in Nat
      <4>1. Len(allocEvents) \in Nat
        BY <1>4
      <4>2. QED BY <3>1, <4>1, JobsOfType
    <3>3. Head(io).kind = "alloc"
      BY <1>2 DEF AllocJob
    <3>4. JobsOf("alloc", io) + Len(allocEvents) = Count(allocJob)
      BY Facts DEF TInv
    <3>5. QED BY <3>1, <3>2, <3>3, <3>4 DEF Count
  <2>2. t.disk[Size - 1] # None
    BY <1>6, <1>7 DEF None
  <2>3. \A i \in DOMAIN Append(allocEvents, TRUE) : Append(allocEvents, TRUE)[i] = TRUE
    <3>1. \A i \in DOMAIN allocEvents : allocEvents[i] = TRUE
      BY <1>1 DEF Good, Allocation
    <3>2. DOMAIN allocEvents = 1..Len(allocEvents) /\ Len(allocEvents) \in Nat
      BY <1>4
    <3>3. QED BY <1>4, <3>1, <3>2, AppendProperties
  <2>4. ~(JobsOf("alloc", t.io) > 0)
    BY <1>6, <2>1
  <2>5. \A i \in DOMAIN allocEvents' : allocEvents'[i] = TRUE
    BY <1>3, <2>3
  <2>6. QED BY <2>2, <2>4, <2>5 DEF Allocation
<1>16. Final(t, complete)
  <2>1. \A j \in DOMAIN io : io[j].kind = "full" => j = Len(io)
    BY <1>1, <1>4 DEF Good, Final
  <2>2. \A j \in DOMAIN Tail(io) : j + 1 \in DOMAIN io /\ Tail(io)[j] = io[j + 1]
        /\ Len(Tail(io)) = Len(io) - 1 /\ j \in Int /\ Len(io) \in Nat
    BY <1>2, <1>4, HeadTailProperties
  <2>3. \A j \in DOMAIN t.io : t.io[j].kind = "full" => j = Len(t.io)
    BY <1>6, <2>1, <2>2
  <2>4. t.fullJob => Settled(t, complete)
    BY <1>1, <1>4, <1>6 DEF Good, Final, Settled
  <2>5. QED BY <2>3, <2>4 DEF Final
<1>17. Results(t, hashEvents)
  <2>1. ASSUME NEW i \in DOMAIN hashEvents, hashEvents[i].kind = "chunk"
        PROVE  Right(t.disk, hashEvents[i])
    <3>1. PICK k : k = hashEvents[i].chunk
      OBVIOUS
    <3>2. k \in Chunks /\ hashEvents \in Seq(HashResults)
      <4>1. hashEvents \in Seq(HashResults)
        BY Facts DEF TInv
      <4>2. QED BY <2>1, <3>1, <4>1, ResultTypes
    <3>3. /\ OfChunk(k, hashEvents) > 0 /\ OfChunk(k, hashEvents) \in Nat
          /\ OfChunk(k, io) \in Nat /\ OfChunk(k, checks) \in Nat
      <4>1. checks \in Seq(Jobs)
        BY Facts DEF TInv
      <4>2. QED BY <1>4, <2>1, <3>1, <3>2, <4>1, OfChunkSome, OfChunkType
    <3>4. /\ OfChunk(k, checks) + OfChunk(k, io) + OfChunk(k, hashEvents) = Count(k \in due)
          /\ \A p \in Points(k) : Free(Store, p)
      BY <1>1, <1>4, <3>2, <3>3 DEF Good, Hashes
    <3>5. k \in due
      BY <3>3, <3>4 DEF Count
    <3>6. \A p \in Points(k) : t.disk[p] = disk[p]
      BY <1>10, <3>4, <3>5 DEF Due
    <3>7. Right(disk, hashEvents[i])
      BY <1>1, <1>4, <2>1 DEF Good, Results
    <3>8. QED BY <3>1, <3>6, <3>7, RightSame
  <2>2. QED BY <1>1, <1>4, <2>1 DEF Good, Results
<1>18. Good(t, complete, verified, latest, due, allocEvents', hashEvents)
  BY <1>1, <1>11, <1>13, <1>14, <1>15, <1>16, <1>17 DEF Good
<1>19. /\ complete' = complete /\ verified' = verified /\ latest' = latest
       /\ completions' = completions /\ hashEvents' = hashEvents
  BY <1>2 DEF lists, observed
<1>20. Commit(t)
  <2>1. Commit(Store')
    BY DEF Commit, Store
  <2>2. QED BY <2>1 DEF t
<1>21. Due(complete', verified') = due
  BY <1>19
<1>22. completions' > 0 => completions' = 1 /\ ~t.fullJob /\ Settled(t, complete')
  BY <1>1, <1>4, <1>6, <1>19 DEF Settled
<1> HIDE DEF due
<1>23. Good(t, complete', verified', latest', Due(complete', verified'), allocEvents', hashEvents')
  BY <1>18, <1>19, <1>21
<1>24. QED BY <1>20, <1>22, <1>23, CommitGood

\* The IO thread posts result e of a hash.
LEMMA HashPosted ==
  ASSUME TInv, DInv, UNCHANGED hashed, RunJob, UNCHANGED <<disk, allocEvents>>,
         NEW e \in HashResults, hashEvents' = Append(hashEvents, e),
         Head(io) \in Jobs, Head(io).kind # "alloc",
         \A k \in Chunks : (Head(io).kind = "chunk" /\ Head(io).chunk = k)
                              <=> (e.kind = "chunk" /\ e.chunk = k),
         e.kind = "chunk" => Right(disk, e),
         e.kind = "full" => e.result = "complete" /\ e.size = Size /\ (hashed => e.good = Chunks)
  PROVE  DInv'
<1> DEFINE due == Due(complete, verified)
           t == Store'
           he == hashEvents
           new == Append(hashEvents, e)
<1>1. /\ Good(Store, complete, verified, latest, due, allocEvents, he)
      /\ completions > 0 => completions = 1 /\ ~fullJob /\ Settled(Store, complete)
  BY DEF DInv
<1>2. /\ io # <<>> /\ io' = Tail(io)
      /\ UNCHANGED <<lists, buffer, toFlush, allocJob, checks, pending, fullJob, mode,
                     autoPaused, locks, observed, bads, commands, rehashes>>
  BY DEF RunJob
<1>3. /\ Store.io = io /\ Store.disk = disk /\ Store.buffer = buffer /\ Store.checks = checks
      /\ Store.allocJob = allocJob /\ Store.pending = pending /\ Store.fullJob = fullJob
      /\ io \in Seq(Jobs) /\ he \in Seq(HashResults) /\ checks \in Seq(Jobs)
  BY Facts DEF TInv, Store
<1>4. /\ t.io = Tail(io) /\ t.disk = disk /\ t.buffer = buffer
      /\ t.checks = checks /\ t.allocJob = allocJob /\ t.pending = pending
      /\ t.fullJob = fullJob
  BY <1>2 DEF Store
<1>5. Commit(t)
  BY DEF Commit, Store
<1> HIDE DEF t
<1>6. \A p : Free(t, p) = Free(Store, p)
  BY <1>3, <1>4 DEF Free
<1>7. Tail(io) \in Seq(Jobs)
  BY <1>2, <1>3, HeadTailProperties
<1>8. ASSUME NEW k \in Chunks
      PROVE  OfChunk(k, Tail(io)) + OfChunk(k, new) = OfChunk(k, io) + OfChunk(k, he)
  <2>1. OfChunk(k, io) = Count(Head(io).kind = "chunk" /\ Head(io).chunk = k) + OfChunk(k, Tail(io))
    BY <1>2, <1>3, OfChunkTail
  <2>2. OfChunk(k, new) = OfChunk(k, he) + Count(e.kind = "chunk" /\ e.chunk = k)
    BY <1>3, OfChunkAppend
  <2>3. Count(Head(io).kind = "chunk" /\ Head(io).chunk = k) = Count(e.kind = "chunk" /\ e.chunk = k)
    BY DEF Count
  <2>4. Count(e.kind = "chunk" /\ e.chunk = k) \in Nat
    BY DEF Count
  <2>5. OfChunk(k, Tail(io)) \in Nat
    BY <1>7, OfChunkType
  <2>6. OfChunk(k, he) \in Nat
    BY <1>3, OfChunkType
  <2> HIDE DEF new
  <2>7. QED BY <2>1, <2>2, <2>3, <2>4, <2>5, <2>6
<1>9. Entries(t, complete, latest) /\ Safe(t, complete, verified)
  BY <1>1, <1>3, <1>4, <1>6 DEF Good, Entries, Safe
<1>10. Hashes(t, due, new)
  <2>1. ASSUME NEW k \in Chunks
        PROVE  OfChunk(k, t.checks) + OfChunk(k, t.io) + OfChunk(k, new) = Count(k \in due)
    <3>1. OfChunk(k, checks) + OfChunk(k, io) + OfChunk(k, he) = Count(k \in due)
      BY <1>1, <1>3 DEF Good, Hashes
    <3>2. new \in Seq(HashResults)
      BY <1>3
    <3> HIDE DEF new
    <3>3. /\ OfChunk(k, checks) \in Nat /\ OfChunk(k, io) \in Nat /\ OfChunk(k, he) \in Nat
          /\ OfChunk(k, Tail(io)) \in Nat /\ OfChunk(k, new) \in Nat
      BY <1>3, <1>7, <3>2, OfChunkType
    <3>4. OfChunk(k, t.checks) = OfChunk(k, checks) /\ OfChunk(k, t.io) = OfChunk(k, Tail(io))
      BY <1>4
    <3>5. OfChunk(k, Tail(io)) + OfChunk(k, new) = OfChunk(k, io) + OfChunk(k, he)
      BY <1>8
    <3> DEFINE a == OfChunk(k, checks)
               b == OfChunk(k, io)
               c == OfChunk(k, he)
               i == OfChunk(k, Tail(io))
               h == OfChunk(k, new)
    <3>6. a \in Nat /\ b \in Nat /\ c \in Nat /\ i \in Nat /\ h \in Nat /\ i + h = b + c
      BY <3>3, <3>5
    <3>7. a + b + c = Count(k \in due)
      BY <3>1
    <3> HIDE DEF a, b, c, i, h
    <3>8. a + i + h = Count(k \in due)
      BY <3>6, <3>7
    <3>9. QED BY <3>4, <3>8 DEF a, i, h
  <2> HIDE DEF new
  <2>2. ASSUME NEW k \in Chunks, OfChunk(k, t.io) + OfChunk(k, new) > 0, NEW p \in Points(k)
        PROVE  Free(t, p)
    <3>1. OfChunk(k, io) + OfChunk(k, he) > 0
      BY <1>4, <1>8, <2>2
    <3>2. Free(Store, p)
      BY <1>1, <1>3, <3>1 DEF Good, Hashes
    <3>3. QED BY <1>6, <3>2
  <2>3. ~t.allocJob => t.checks = <<>>
    BY <1>1, <1>3, <1>4 DEF Good, Hashes
  <2>4. QED BY <2>1, <2>2, <2>3 DEF Hashes
<1>11. Allocation(t, allocEvents)
  <2>1. JobsOf("alloc", io) = Count(Head(io).kind = "alloc") + JobsOf("alloc", Tail(io))
    BY <1>2, <1>3, JobsOfTail
  <2>2. JobsOf("alloc", Tail(io)) \in Nat
    BY <1>7, JobsOfType
  <2>3. JobsOf("alloc", Tail(io)) = JobsOf("alloc", io)
    BY <2>1, <2>2 DEF Count
  <2>4. QED BY <1>1, <1>3, <1>4, <2>3 DEF Good, Allocation
<1>12. Final(t, complete)
  <2>1. \A j \in DOMAIN io : io[j].kind = "full" => j = Len(io)
    BY <1>1, <1>3 DEF Good, Final
  <2>2. \A j \in DOMAIN Tail(io) : j + 1 \in DOMAIN io /\ Tail(io)[j] = io[j + 1]
        /\ Len(Tail(io)) = Len(io) - 1 /\ j \in Int /\ Len(io) \in Nat
    BY <1>2, <1>3, HeadTailProperties
  <2>3. \A j \in DOMAIN t.io : t.io[j].kind = "full" => j = Len(t.io)
    BY <1>4, <2>1, <2>2
  <2>4. t.fullJob => Settled(t, complete)
    BY <1>1, <1>3, <1>4 DEF Good, Final, Settled
  <2>5. QED BY <2>3, <2>4 DEF Final
<1>13. Results(t, new)
  <2>1. DOMAIN new = 1..(Len(he) + 1) /\ new[Len(he) + 1] = e
    BY <1>3, AppendProperties
  <2>2. \A i \in DOMAIN he : new[i] = he[i]
    BY <1>3, AppendProperties
  <2>3. DOMAIN he = 1..Len(he) /\ Len(he) \in Nat
    BY <1>3
  <2> HIDE DEF new
  <2>4. \A i \in DOMAIN new : new[i] = e \/ (i \in DOMAIN he /\ new[i] = he[i])
    BY <2>1, <2>2, <2>3
  <2>5. ASSUME NEW i \in DOMAIN new
        PROVE  /\ new[i].kind = "chunk" => Right(t.disk, new[i])
               /\ new[i].kind = "full" => /\ new[i].result = "complete" /\ new[i].size = Size
                                          /\ hashed => new[i].good = Chunks
    <3>1. CASE new[i] = e
      BY <1>4, <3>1
    <3>2. CASE i \in DOMAIN he /\ new[i] = he[i]
      BY <1>1, <1>3, <1>4, <3>2 DEF Good, Results
    <3>3. QED BY <2>4, <3>1, <3>2
  <2>6. QED BY <2>5 DEF Results
<1>14. Good(t, complete, verified, latest, due, allocEvents, new)
  BY <1>1, <1>9, <1>10, <1>11, <1>12, <1>13 DEF Good
<1>15. /\ complete' = complete /\ verified' = verified /\ latest' = latest
       /\ completions' = completions /\ hashEvents' = new /\ allocEvents' = allocEvents
  BY <1>2 DEF lists, observed
<1>16. Due(complete', verified') = due
  BY <1>15
<1>17. completions' > 0 => completions' = 1 /\ ~t.fullJob /\ Settled(t, complete')
  BY <1>1, <1>3, <1>4, <1>15 DEF Settled
<1> HIDE DEF due, new
<1>18. Good(t, complete', verified', latest', Due(complete', verified'), allocEvents', hashEvents')
  BY <1>14, <1>15, <1>16
<1>19. QED BY <1>5, <1>17, <1>18, CommitGood

\* When no fault is counted there is none.
LEMMA NoFault ==
  ASSUME TInv, NEW fault, CountFault(fault), faults' = faults PROVE fault = None
<1>1. faults + Count(fault # None) = faults /\ faults \in Nat
  BY DEF CountFault, TInv, Rest
<1>2. QED BY <1>1 DEF Count

\* The IO thread runs a job.
LEMMA RunGood ==
  ASSUME TInv, DInv, UNCHANGED hashed, RunJob, faults' = faults
  PROVE  DInv'
<1>1. io # <<>> /\ io \in Seq(Jobs) /\ Head(io) \in Jobs
  <2>1. io # <<>> /\ io \in Seq(Jobs)
    BY Facts DEF RunJob, TInv
  <2>2. QED BY <2>1, HeadTailProperties
<1>2. CASE RunAlloc
  BY <1>2, RunAllocGood
<1>3. CASE RunChunk
  <2> DEFINE k == Head(io).chunk
             res == IF k \in GoodOnDisk THEN "verified" ELSE "failed"
             e == [kind |-> "chunk", chunk |-> k, result |-> res]
  <2>0. Head(io).kind = "chunk" /\ UNCHANGED <<disk, allocEvents>>
    BY <1>3 DEF RunChunk
  <2>1. hashEvents' = Append(hashEvents, e)
    <3>1. PICK fault \in {None, "flush"} :
            /\ CountFault(fault)
            /\ hashEvents' = Append(hashEvents,
                  [kind |-> "chunk", chunk |-> Head(io).chunk,
                   result |-> IF fault # None THEN "fatal"
                              ELSE IF Head(io).chunk \in GoodOnDisk THEN "verified"
                              ELSE "failed"])
      BY <1>3 DEF RunChunk
    <3>2. fault = None
      BY <3>1, NoFault
    <3>3. QED BY <3>1, <3>2
  <2>2. k \in Chunks
    BY <1>1, <2>0 DEF Jobs, AllocJob, FullJob, ChunkJob
  <2>3. res \in {"verified", "failed", "fatal"} /\ (res = "verified" <=> \A p \in Points(k) : disk[p] = "good")
        /\ (res = "verified" \/ res = "failed")
    BY <2>2 DEF GoodOnDisk
  <2> HIDE DEF res, k
  <2>4. e \in HashResults /\ e.kind = "chunk" /\ e.chunk = k /\ e.result = res
    BY <2>2, <2>3 DEF HashResults
  <2> HIDE DEF e
  <2>5. \A c \in Chunks : (Head(io).kind = "chunk" /\ Head(io).chunk = c)
                              <=> (e.kind = "chunk" /\ e.chunk = c)
    BY <2>0, <2>4 DEF k
  <2>6. Right(disk, e)
    BY <2>3, <2>4 DEF Right
  <2>7. Head(io).kind # "alloc" /\ e.kind # "full"
    BY <2>0, <2>4
  <2>8. QED BY <1>1, <2>0, <2>1, <2>4, <2>5, <2>6, <2>7, HashPosted
<1>4. CASE RunFull
  <2> DEFINE e == [kind |-> "full", size |-> FileSize(disk), good |-> GoodOnDisk,
                   result |-> "complete"]
  <2>0. Head(io) = FullJob /\ UNCHANGED <<disk, allocEvents>>
    BY <1>4 DEF RunFull
  <2>1. hashEvents' = Append(hashEvents, e)
    <3>1. PICK fault \in {None, "flush"} :
            /\ CountFault(fault)
            /\ hashEvents' = Append(hashEvents,
                  [kind |-> "full", size |-> FileSize(disk), good |-> GoodOnDisk,
                   result |-> IF fault = None THEN "complete" ELSE "fatal"])
      BY <1>4 DEF RunFull
    <3>2. fault = None
      BY <3>1, NoFault
    <3>3. QED BY <3>1, <3>2
  <2>2. /\ Good(Store, complete, verified, latest, Due(complete, verified), allocEvents, hashEvents)
        /\ Sound(Store, allocEvents, hashEvents)
        /\ Store.io = io /\ Store.disk = disk /\ Store.allocJob = allocJob
        /\ Store.fullJob = fullJob /\ allocEvents \in Seq(BOOLEAN)
    BY Facts DEF DInv, TInv, IInv, Store
  <2>3. Head(io).kind = "full" /\ io[1] = Head(io) /\ 1 \in DOMAIN io
    BY <1>1, <2>0 DEF FullJob
  <2>4. Len(io) = 1
    BY <2>2, <2>3 DEF Good, Final
  <2>5. Settled(Store, complete)
    <3>1. JobsOf("full", io) # 0
      BY <1>1, <2>3, JobsOfNone
    <3>2. JobsOf("full", io) \in Nat /\ JobsOf("full", hashEvents) \in Nat
          /\ JobsOf("full", io) + JobsOf("full", hashEvents) = Count(fullJob)
      BY Facts DEF TInv
    <3>3. fullJob
      BY <3>1, <3>2 DEF Count
    <3>4. QED BY <2>2, <3>3 DEF Good, Final
  <2>6. disk[Size - 1] # None
    <3>1. CASE Store.buffer = <<>>
      BY <2>2, <2>5, <3>1, LastByte DEF Good, Settled
    <3>2. CASE allocJob
      <4>1. \A i \in DOMAIN io : io[i].kind # "alloc"
        BY <1>1, <2>3, <2>4
      <4>2. JobsOf("alloc", io) = 0
        BY <1>1, <4>1, JobsOfSome
      <4>3. JobsOf("alloc", io) + Len(allocEvents) = Count(allocJob)
        BY Facts DEF TInv
      <4>4. Len(allocEvents) \in Nat
        BY <2>2
      <4>5. allocEvents # <<>>
        <5>1. Count(allocJob) = 1
          BY <3>2 DEF Count
        <5>2. 0 + Len(allocEvents) = 1
          BY <4>2, <4>3, <5>1
        <5>3. QED BY <4>4, <5>2
      <4>6. QED BY <2>2, <4>5 DEF Good, Allocation
    <3>3. QED BY <2>2, <2>5, <3>1, <3>2 DEF Settled
  <2>7. FileSize(disk) = Size
    BY <2>6, SizeOfFile
  <2>8. ASSUME hashed PROVE GoodOnDisk = Chunks
    <3>1. SUFFICES ASSUME NEW k \in Chunks PROVE \A p \in Points(k) : disk[p] = "good"
      BY DEF GoodOnDisk
    <3>2. complete = Pos /\ Store.pending = 0
      BY <2>5 DEF Settled
    <3>3. OfChunk(k, Store.checks) = 0 /\ OfChunk(k, Store.io) = 0 /\ OfChunk(k, hashEvents) = 0
      BY <2>2, <3>2, NoHash
    <3>4. Count(k \in Due(complete, verified)) = 0
      BY <2>2, <3>3 DEF Good, Hashes
    <3>5. k \notin Due(complete, verified)
      BY <3>4 DEF Count
    <3>6. Points(k) \subseteq complete
      BY <3>2 DEF Points
    <3>7. Points(k) \subseteq verified
      BY <2>8, <3>5, <3>6 DEF Due
    <3>8. QED BY <2>2, <3>7 DEF Good, Safe
  <2>9. e \in HashResults /\ e.kind = "full" /\ e.result = "complete" /\ e.size = FileSize(disk)
        /\ e.good = GoodOnDisk
    <3>1. FileSize(disk) \in 0..Size /\ GoodOnDisk \in SUBSET Chunks
      BY FileSizeType DEF GoodOnDisk
    <3>2. QED BY <3>1 DEF HashResults
  <2> HIDE DEF e
  <2>10. Head(io).kind # "alloc" /\ e.kind # "chunk" /\ Head(io).kind # "chunk"
    BY <2>3, <2>9
  <2>11. \A c \in Chunks : (Head(io).kind = "chunk" /\ Head(io).chunk = c)
                              <=> (e.kind = "chunk" /\ e.chunk = c)
    BY <2>10
  <2>12. e.size = Size /\ (hashed => e.good = Chunks)
    BY <2>7, <2>8, <2>9
  <2>13. QED BY <1>1, <2>0, <2>1, <2>9, <2>10, <2>11, <2>12, HashPosted
<1>5. QED BY <1>2, <1>3, <1>4 DEF RunJob

\* allocDone(), after an allocation that went well.
LEMMA AllocGood ==
  ASSUME TInv, DInv, UNCHANGED hashed, HandleAlloc, faults' = faults
  PROVE  DInv'
<1> DEFINE due == Due(complete, verified)
           ae == Tail(allocEvents)
           he == hashEvents
           s0 == [Store EXCEPT !.allocJob = FALSE]
           s1 == IF mode = "paused" /\ autoPaused THEN Resumed(s0) ELSE s0
           s2 == Save(s1, None)
           new == Written(buffer, disk)
           q == io \o checks
           t == [s2 EXCEPT !.io = @ \o checks, !.checks = <<>>]
<1>1. /\ Good(Store, complete, verified, latest, due, allocEvents, he)
      /\ completions > 0 => completions = 1 /\ ~fullJob /\ Settled(Store, complete)
  BY DEF DInv
<1>2. /\ allocEvents # <<>> /\ allocEvents' = ae /\ hashEvents' = he
      /\ UNCHANGED <<complete, verified, latest, completions>>
  BY DEF HandleAlloc, OnAlloc, lists
<1>3. /\ Store.io = io /\ Store.disk = disk /\ Store.buffer = buffer /\ Store.checks = checks
      /\ Store.allocJob = allocJob /\ Store.pending = pending /\ Store.fullJob = fullJob
      /\ io \in Seq(Jobs) /\ he \in Seq(HashResults) /\ checks \in Seq(Jobs)
      /\ allocEvents \in Seq(BOOLEAN) /\ IsStore(Store)
      /\ \A i \in DOMAIN checks : checks[i].kind = "chunk"
  BY Facts DEF TInv, Store
<1>4. Commit(t)
  <2>1. Head(allocEvents) = TRUE
    <3>1. allocEvents[1] = TRUE
      <4>1. 1 \in DOMAIN allocEvents
        BY <1>2, <1>3
      <4>2. \A i \in DOMAIN allocEvents : allocEvents[i] = TRUE
        BY <1>1 DEF Good, Allocation
      <4>3. QED BY <4>1, <4>2
    <3>2. Head(allocEvents) = allocEvents[1]
      BY <1>2, <1>3, HeadTailProperties
    <3>3. QED BY <3>1, <3>2, Zenon
  <2>2. PICK fault \in Faults :
          LET r2 == Save(s1, fault)
          IN  /\ CountFault(fault)
              /\ Commit(IF Head(allocEvents)
                        THEN [r2 EXCEPT !.io = @ \o checks, !.checks = <<>>]
                        ELSE AutoPaused(s0))
    BY DEF HandleAlloc, OnAlloc
  <2>3. fault = None
    BY <2>2, NoFault
  <2>4. QED BY <2>1, <2>2, <2>3
<1>5. disk[Size - 1] # None /\ FileSize(disk) = Size /\ Size \in Nat
  BY <1>1, <1>2, <1>3, SizeOfFile, PartDataAssumption DEF Good, Allocation
<1>6. /\ IsStore(s1) /\ s1.buffer = buffer /\ s1.disk = disk /\ s1.allocJob = FALSE
      /\ s1.checks = checks /\ s1.pending = pending /\ s1.fullJob = fullJob /\ s1.io = io
  <2>1. /\ IsStore(s0) /\ s0.buffer = buffer /\ s0.disk = disk /\ s0.allocJob = FALSE
        /\ s0.checks = checks /\ s0.pending = pending /\ s0.fullJob = fullJob /\ s0.io = io
    BY <1>3 DEF IsStore
  <2> HIDE DEF s0
  <2>2. QED BY <2>1 DEF IsStore, Resumed
<1> HIDE DEF s1
<1>7. /\ IsStore(s2) /\ s2.buffer = <<>> /\ s2.disk = new /\ s2.allocJob = FALSE
      /\ s2.checks = checks /\ s2.pending = pending /\ s2.fullJob = fullJob /\ s2.io = io
  <2> DEFINE f == [s1 EXCEPT !.disk = Written(s1.buffer, @), !.buffer = <<>>, !.toFlush = 0]
  <2>1. ~MustAllocate(s1)
    BY <1>5, <1>6 DEF MustAllocate
  <2>2. Flush(s1, None) = f
    BY <1>6, <2>1 DEF Flush, None
  <2>3. /\ IsStore(f) /\ f.buffer = <<>> /\ f.disk = new /\ f.allocJob = FALSE
        /\ f.checks = checks /\ f.pending = pending /\ f.fullJob = fullJob /\ f.io = io
    BY <1>6 DEF IsStore
  <2>4. s2 = IF f.autoPaused THEN Resumed(f) ELSE f
    BY <2>2 DEF Save, FlushThrows, None
  <2> HIDE DEF s2, f
  <2>5. QED BY <2>3, <2>4 DEF IsStore, Resumed
<1> HIDE DEF s2
<1>8. /\ t.buffer = <<>> /\ t.disk = new /\ t.allocJob = FALSE /\ t.checks = <<>>
      /\ t.pending = pending /\ t.fullJob = fullJob /\ t.io = q
  BY <1>7 DEF IsStore
<1> HIDE DEF t
<1>9. \A p \in Pos : Free(t, p) /\ Written(t.buffer, t.disk)[p] = new[p]
  BY <1>8, WrittenNothing DEF Free
<1>10. \A p \in Pos : Free(Store, p) => new[p] = disk[p]
  <2>1. SUFFICES ASSUME NEW p \in Pos, Free(Store, p) PROVE Written(buffer, disk)[p] = disk[p]
    OBVIOUS
  <2>2. Covering(buffer, p) = {}
    BY <1>3, <2>1 DEF Free
  <2>3. QED BY <2>2, WrittenAt
<1> HIDE DEF new
<1>11. complete \subseteq Pos /\ verified \subseteq complete
  BY <1>1 DEF Good, Safe
<1>12. Entries(t, complete, latest)
  <2>1. DOMAIN t.buffer = {}
    BY <1>8
  <2>2. \A p \in complete : new[p] = latest[p] /\ latest[p] \in Data
    BY <1>1, <1>3 DEF Good, Entries, new
  <2>3. QED BY <1>9, <1>11, <2>1, <2>2 DEF Entries
<1>13. Safe(t, complete, verified)
  BY <1>1, <1>3, <1>8, <1>9, <1>10, <1>11 DEF Good, Safe
<1>14. ae = <<>> /\ JobsOf("alloc", io) = 0
  <2>1. JobsOf("alloc", io) \in Nat /\ Len(ae) \in Nat /\ Len(allocEvents) = Len(ae) + 1
        /\ JobsOf("alloc", io) + Len(allocEvents) = Count(allocJob) /\ ae \in Seq(BOOLEAN)
    BY Facts, <1>2, <1>3, HeadTailProperties DEF TInv
  <2>2. Count(allocJob) \in {0, 1}
    BY DEF Count
  <2>3. JobsOf("alloc", io) = 0 /\ Len(ae) = 0
    BY <2>1, <2>2
  <2>4. QED BY <2>1, <2>3, EmptySeq
<1>15. q \in Seq(Jobs) /\ JobsOf("alloc", q) = JobsOf("alloc", io)
  BY <1>3, ConcatChunks
<1>16. Allocation(t, ae)
  <2>1. JobsOf("alloc", t.io) = 0
    BY <1>8, <1>14, <1>15
  <2>2. DOMAIN ae = {} /\ ae = <<>>
    BY <1>14
  <2>3. ~(JobsOf("alloc", t.io) > 0)
    BY <2>1
  <2> HIDE DEF ae
  <2>4. QED BY <2>2, <2>3 DEF Allocation
<1>17. Hashes(t, due, he)
  <2>1. ASSUME NEW k \in Chunks
        PROVE  OfChunk(k, t.checks) + OfChunk(k, t.io) + OfChunk(k, he) = Count(k \in due)
    <3> DEFINE a == OfChunk(k, checks)
               b == OfChunk(k, io)
               c == OfChunk(k, he)
               n == Count(k \in due)
    <3>1. a + b + c = n
      BY <1>1, <1>3 DEF Good, Hashes
    <3>2. a \in Nat /\ b \in Nat /\ c \in Nat
      BY <1>3, OfChunkType
    <3>3. OfChunk(k, t.io) = b + a
      BY <1>3, <1>8, OfChunkConcat
    <3>4. OfChunk(k, t.checks) = 0
      BY <1>8, OfChunkEmpty
    <3> HIDE DEF a, b, c, n
    <3>5. 0 + (b + a) + c = n
      BY <3>1, <3>2
    <3>6. QED BY <3>3, <3>4, <3>5 DEF c, n
  <2>2. \A k \in Chunks : \A p \in Points(k) : Free(t, p)
    BY <1>9 DEF Points
  <2>3. QED BY <1>8, <2>1, <2>2 DEF Hashes
<1>18. fullJob => Settled(Store, complete)
  BY <1>1, <1>3 DEF Good, Final
<1>19. Settled(Store, complete) => Settled(t, complete)
  BY <1>3, <1>8 DEF Settled
<1>20. Final(t, complete)
  <2>1. ASSUME NEW j \in DOMAIN q, q[j].kind = "full" PROVE j = Len(q)
    <3>1. \/ j \in DOMAIN io /\ q[j] = io[j]
          \/ q[j].kind = "chunk"
      BY <1>3, ConcatOrder
    <3>2. j \in DOMAIN io /\ io[j].kind = "full"
      BY <2>1, <3>1
    <3>3. JobsOf("full", io) # 0
      BY <1>3, <3>2, JobsOfNone
    <3>4. JobsOf("full", io) \in Nat /\ JobsOf("full", he) \in Nat
          /\ JobsOf("full", io) + JobsOf("full", he) = Count(fullJob)
      BY Facts DEF TInv
    <3>5. fullJob
      BY <3>3, <3>4 DEF Count
    <3>6. Store.pending = 0
      BY <1>18, <3>5 DEF Settled
    <3>7. checks = <<>>
      BY <1>3, <3>6, NoHash DEF TInv, IInv
    <3>8. q = io
      BY <1>3, <3>7, ConcatEmptySeq
    <3>9. QED BY <1>1, <1>3, <3>2, <3>8 DEF Good, Final
  <2>2. t.fullJob => Settled(t, complete)
    BY <1>8, <1>18, <1>19
  <2> HIDE DEF q
  <2>3. QED BY <1>8, <2>1, <2>2 DEF Final
<1>21. Results(t, he)
  <2>1. ASSUME NEW i \in DOMAIN he, he[i].kind = "chunk"
        PROVE  Right(t.disk, he[i])
    <3> DEFINE k == he[i].chunk
    <3>1. k \in Chunks
      <4>1. he[i] \in HashResults
        BY <1>3
      <4>2. QED BY <2>1, <4>1 DEF HashResults
    <3>2. OfChunk(k, he) > 0 /\ OfChunk(k, he) \in Nat /\ OfChunk(k, io) \in Nat
      BY <1>3, <2>1, OfChunkSome, OfChunkType
    <3>3. \A p \in Points(k) : Free(Store, p) /\ p \in Pos
      BY <1>1, <1>3, <3>1, <3>2 DEF Good, Hashes, Points
    <3>4. \A p \in Points(k) : t.disk[p] = disk[p]
      BY <1>8, <1>10, <3>3
    <3>5. Right(disk, he[i])
      BY <1>1, <1>3, <2>1 DEF Good, Results
    <3>6. QED BY <3>4, <3>5, RightSame
  <2>2. QED BY <1>1, <1>3, <2>1 DEF Good, Results
<1>22. Good(t, complete, verified, latest, due, ae, he)
  BY <1>11, <1>12, <1>13, <1>16, <1>17, <1>20, <1>21 DEF Good
<1>23. /\ complete' = complete /\ verified' = verified /\ latest' = latest
       /\ completions' = completions /\ hashEvents' = he /\ allocEvents' = ae
       /\ Due(complete', verified') = due
  BY <1>2
<1>24. completions' > 0 => completions' = 1 /\ ~t.fullJob /\ Settled(t, complete')
  BY <1>1, <1>8, <1>19, <1>23
<1> HIDE DEF due, ae
<1>25. Good(t, complete', verified', latest', Due(complete', verified'), allocEvents', hashEvents')
  BY <1>22, <1>23
<1>26. QED BY <1>4, <1>24, <1>25, CommitGood

\* The queue of the hash results without its first.
LEMMA RestOfResults ==
  ASSUME NEW he \in Seq(HashResults), he # <<>>
  PROVE  /\ Tail(he) \in Seq(HashResults) /\ he[1] = Head(he) /\ 1 \in DOMAIN he
         /\ \A i \in DOMAIN Tail(he) : i + 1 \in DOMAIN he /\ Tail(he)[i] = he[i + 1]
         /\ \A k \in Chunks :
               OfChunk(k, he) = Count(Head(he).kind = "chunk" /\ Head(he).chunk = k)
                                + OfChunk(k, Tail(he))
<1>1. Tail(he) \in Seq(HashResults) /\ he[1] = Head(he) /\ 1 \in DOMAIN he
  BY HeadTailProperties
<1>2. \A i \in DOMAIN Tail(he) : i + 1 \in DOMAIN he /\ Tail(he)[i] = he[i + 1]
  BY HeadTailProperties
<1>3. \A k \in Chunks :
         OfChunk(k, he) = Count(Head(he).kind = "chunk" /\ Head(he).chunk = k)
                          + OfChunk(k, Tail(he))
  BY OfChunkTail
<1>4. QED BY <1>1, <1>2, <1>3

\* The results that wait behind one that is handled stay as right as they were.
LEMMA ResultsTail ==
  ASSUME NEW s, NEW t, NEW he \in Seq(HashResults), he # <<>>, Results(s, he), t.disk = s.disk
  PROVE  Results(t, Tail(he))
<1>1. \A i \in DOMAIN Tail(he) : i + 1 \in DOMAIN he /\ Tail(he)[i] = he[i + 1]
  BY RestOfResults
<1> DEFINE r == Tail(he)
<1>2. \A i \in DOMAIN r : i + 1 \in DOMAIN he /\ r[i] = he[i + 1]
  BY <1>1
<1> HIDE DEF r
<1>3. ASSUME NEW i \in DOMAIN r
      PROVE  /\ r[i].kind = "chunk" => Right(t.disk, r[i])
             /\ r[i].kind = "full" => /\ r[i].result = "complete" /\ r[i].size = Size
                                      /\ hashed => r[i].good = Chunks
  <2> DEFINE j == i + 1
  <2>1. j \in DOMAIN he /\ r[i] = he[j]
    BY <1>2
  <2> HIDE DEF j
  <2>2. QED BY <2>1 DEF Results
<1>4. Results(t, r)
  BY <1>3 DEF Results
<1>5. QED BY <1>4 DEF r

\* The chunk whose hash result is first was due, and is not afterwards.
LEMMA HeadOfChunk ==
  ASSUME NEW s, NEW comp, NEW ver, NEW lat, NEW due, NEW ae, NEW he, Fit(s, ae, he),
         Good(s, comp, ver, lat, due, ae, he), he # <<>>, Head(he).kind = "chunk"
  PROVE  LET k == Head(he).chunk
         IN  /\ k \in Chunks /\ k \in due /\ \A p \in Points(k) : Free(s, p)
             /\ \A c \in Chunks : OfChunk(c, s.checks) + OfChunk(c, s.io) + OfChunk(c, Tail(he))
                                     = Count(c \in due \ {k})
             /\ \A c \in Chunks : OfChunk(c, s.io) + OfChunk(c, Tail(he)) > 0
                                     => \A p \in Points(c) : Free(s, p)
             /\ s.pending # 0
<1> DEFINE k == Head(he).chunk
           r == Tail(he)
<1>1. he \in Seq(HashResults) /\ s.io \in Seq(Jobs) /\ s.checks \in Seq(Jobs)
  BY DEF Fit, Sound, IsStore
<1>2. /\ r \in Seq(HashResults) /\ he[1] = Head(he) /\ 1 \in DOMAIN he
      /\ \A c \in Chunks : OfChunk(c, he) = Count(c = k) + OfChunk(c, r)
  <2>1. \A c : (Head(he).kind = "chunk" /\ Head(he).chunk = c) <=> (c = k)
    OBVIOUS
  <2>2. \A c : Count(Head(he).kind = "chunk" /\ Head(he).chunk = c) = Count(c = k)
    BY <2>1 DEF Count
  <2>3. QED BY <1>1, <2>2, RestOfResults
<1>3. k \in Chunks
  <2>1. Head(he) \in HashResults
    BY <1>1, HeadTailProperties
  <2>2. QED BY <2>1 DEF HashResults
<1> HIDE DEF k, r
<1>4. ASSUME NEW c \in Chunks
      PROVE  /\ OfChunk(c, s.checks) + OfChunk(c, s.io) + OfChunk(c, r) = Count(c \in due \ {k})
             /\ c = k => c \in due /\ OfChunk(c, he) > 0
             /\ OfChunk(c, s.io) + OfChunk(c, r) > 0 => OfChunk(c, s.io) + OfChunk(c, he) > 0
  <2> DEFINE x == OfChunk(c, s.checks)
             y == OfChunk(c, s.io)
             z == OfChunk(c, r)
             h == OfChunk(c, he)
  <2>1. x \in Nat /\ y \in Nat /\ z \in Nat
    BY <1>1, <1>2, OfChunkType
  <2>2. h = Count(c = k) + z
    BY <1>2
  <2>3. x + y + h = Count(c \in due)
    BY DEF Good, Hashes
  <2> HIDE DEF x, y, z, h
  <2>4. CASE c = k
    <3>1. Count(c = k) = 1 /\ Count(c \in due) \in {0, 1} /\ Count(c \in due \ {k}) = 0
      BY <2>4 DEF Count
    <3>2. Count(c \in due) = 1 /\ x + y + z = 0 /\ h > 0
      BY <2>1, <2>2, <2>3, <3>1
    <3>3. c \in due
      BY <3>2 DEF Count
    <3>4. y + z > 0 => y + h > 0
      BY <2>1, <3>2
    <3>5. QED BY <3>1, <3>2, <3>3, <3>4 DEF x, y, z, h
  <2>5. CASE c # k
    <3>1. Count(c = k) = 0 /\ Count(c \in due \ {k}) = Count(c \in due)
      BY <2>5 DEF Count
    <3>2. h = z
      BY <2>1, <2>2, <3>1
    <3>3. QED BY <2>3, <2>5, <3>1, <3>2 DEF x, y, z, h
  <2>6. QED BY <2>4, <2>5
<1>5. k \in due /\ OfChunk(k, he) > 0
  BY <1>3, <1>4
<1>6. OfChunk(k, s.io) + OfChunk(k, he) > 0
  <2>1. OfChunk(k, s.io) \in Nat /\ OfChunk(k, he) \in Nat
    BY <1>1, OfChunkType
  <2>2. QED BY <1>5, <2>1
<1>7. \A p \in Points(k) : Free(s, p)
  BY <1>3, <1>6 DEF Good, Hashes
<1>8. \A c \in Chunks : OfChunk(c, s.io) + OfChunk(c, r) > 0 => \A p \in Points(c) : Free(s, p)
  BY <1>4 DEF Good, Hashes
<1>9. s.pending # 0
  <2>1. SUFFICES ASSUME s.pending = 0 PROVE FALSE
    OBVIOUS
  <2>2. OfChunk(k, he) = 0
    BY <1>3, <2>1, NoHash DEF Fit
  <2>3. QED BY <1>5, <2>2
<1>10. QED BY <1>3, <1>4, <1>5, <1>7, <1>8, <1>9 DEF k, r

\* The chunks that are due after the verdict on chunk k, which was due.
LEMMA DueAfter ==
  ASSUME NEW comp, NEW ver, NEW k \in Chunks, k \in Due(comp, ver)
  PROVE  /\ \A c : c \in Due(comp, ver \cup Points(k)) <=> c \in Due(comp, ver) \ {k}
         /\ \A c : c \in Due(comp \ Points(k), ver \ Points(k)) <=> c \in Due(comp, ver) \ {k}
<1>1. \A c, d, v : c \in Due(d, v) <=> /\ c \in Chunks /\ hashed /\ Points(c) \subseteq d
                                       /\ ~(Points(c) \subseteq v)
  BY DEF Due
<1>2. \A c : c # k => Points(c) \cap Points(k) = {}
  BY ChunkFacts
<1>3. Points(k) # {}
  BY ChunkFacts
<1>4. \A c : c \in Due(comp, ver \cup Points(k)) <=> c \in Due(comp, ver) \ {k}
  <2>1. SUFFICES ASSUME NEW c
                 PROVE  c \in Due(comp, ver \cup Points(k)) <=> c \in Due(comp, ver) /\ c # k
    OBVIOUS
  <2>2. CASE c = k
    BY <1>1, <2>2
  <2>3. CASE c # k
    <3>1. Points(c) \subseteq ver \cup Points(k) <=> Points(c) \subseteq ver
      BY <1>2, <2>3
    <3>2. QED BY <1>1, <2>3, <3>1
  <2>4. QED BY <2>2, <2>3
<1>5. \A c : c \in Due(comp \ Points(k), ver \ Points(k)) <=> c \in Due(comp, ver) \ {k}
  <2>1. SUFFICES ASSUME NEW c
                 PROVE  c \in Due(comp \ Points(k), ver \ Points(k)) <=> c \in Due(comp, ver) /\ c # k
    OBVIOUS
  <2>2. CASE c = k
    <3>1. ~(Points(c) \subseteq comp \ Points(k))
      BY <1>3, <2>2
    <3>2. QED BY <1>1, <2>2, <3>1
  <2>3. CASE c # k
    <3>1. /\ Points(c) \subseteq comp \ Points(k) <=> Points(c) \subseteq comp
          /\ Points(c) \subseteq ver \ Points(k) <=> Points(c) \subseteq ver
      BY <1>2, <2>3
    <3>2. QED BY <1>1, <2>3, <3>1
  <2>4. QED BY <2>2, <2>3
<1>6. QED BY <1>4, <1>5

\* Chunk::onHashEvent(), when the disk does not fail.
LEMMA ChunkGood ==
  ASSUME TInv, DInv, UNCHANGED hashed, HandleHash, OnChunk(Head(hashEvents)), faults' = faults
  PROVE  DInv'
<1> DEFINE due == Due(complete, verified)
           e  == Head(hashEvents)
           k  == e.chunk
           ae == allocEvents
           he == Tail(hashEvents)
           s0 == IF e.result = "failed" THEN CancelFull(Store) ELSE Store
           s1 == [s0 EXCEPT !.pending = @ - 1]
           comp == complete'
           ver == verified'
<1>1. /\ Good(Store, complete, verified, latest, due, ae, hashEvents)
      /\ completions > 0 => Settled(Store, complete)
      /\ Fit(Store, ae, hashEvents)
  BY StoreFit DEF DInv
<1>2. /\ hashEvents # <<>> /\ hashEvents' = he /\ allocEvents' = ae /\ e.kind = "chunk"
      /\ UNCHANGED <<latest, completions>>
  BY DEF HandleHash, OnChunk
<1>3. /\ Store.io = io /\ Store.disk = disk /\ Store.buffer = buffer /\ Store.checks = checks
      /\ Store.allocJob = allocJob /\ Store.pending = pending /\ Store.fullJob = fullJob
      /\ IsStore(Store) /\ hashEvents \in Seq(HashResults) /\ Kept(Store)
  BY Facts DEF TInv, Store
<1>4. /\ k \in Chunks /\ k \in due /\ \A p \in Points(k) : Free(Store, p)
      /\ \A c \in Chunks : OfChunk(c, checks) + OfChunk(c, io) + OfChunk(c, he)
                                     = Count(c \in due \ {k})
      /\ \A c \in Chunks : OfChunk(c, io) + OfChunk(c, he) > 0
                                     => \A p \in Points(c) : Free(Store, p)
      /\ pending # 0
  <2> HIDE DEF due
  <2>1. QED BY <1>1, <1>2, <1>3, HeadOfChunk
<1>5. fullJob = FALSE /\ Sound(s1, ae, he)
  BY <1>2, ChunkOver DEF TInv
<1>6. /\ s1.buffer = buffer /\ s1.disk = disk /\ s1.allocJob = allocJob /\ s1.checks = checks
      /\ s1.fullJob = FALSE /\ s1.io = io /\ Kept(s1)
  <2>1. /\ IsStore(s0) /\ Kept(s0) /\ s0.buffer = buffer /\ s0.disk = disk /\ s0.allocJob = allocJob
        /\ s0.checks = checks /\ s0.fullJob = FALSE /\ s0.io = io /\ s0.pending = pending
    BY <1>3, <1>5 DEF IsStore, CancelFull, Kept
  <2> HIDE DEF s0
  <2>2. QED BY <2>1 DEF IsStore, Kept
<1>7. Fit(s1, ae, he)
  BY <1>5, <1>6 DEF Fit, Typed, Sound
<1>8. \/ /\ e.result = "verified" /\ \A p \in Points(k) : disk[p] = "good"
         /\ comp = complete \cup Points(k) /\ ver = verified \cup Points(k)
      \/ /\ e.result = "failed"
         /\ comp = complete \ Points(k) /\ ver = verified \ Points(k)
  <2>1. \/ e.result = "failed"
        \/ e.result = "verified" /\ \A p \in Points(k) : disk[p] = "good"
    <3>1. 1 \in DOMAIN hashEvents /\ hashEvents[1] = e
      BY <1>2, <1>3, RestOfResults
    <3>2. QED BY <1>1, <1>2, <1>3, <3>1 DEF Good, Results, Right
  <2>2. CASE e.result = "failed"
    BY <2>2 DEF OnChunk, RangeOf
  <2>3. CASE e.result = "verified"
    BY <2>1, <2>3 DEF OnChunk
  <2>4. QED BY <2>1, <2>2, <2>3
<1>9. Commit(TryComplete(s1, comp, None))
  <2>1. PICK fault \in Faults : CountFault(fault) /\ Commit(TryComplete(s1, comp, fault))
    BY DEF OnChunk
  <2>2. fault = None
    BY <2>1, NoFault
  <2>3. QED BY <2>1, <2>2
<1> HIDE DEF s0, s1, k
<1>10. complete \subseteq Pos /\ verified \subseteq complete /\ Points(k) \subseteq complete
  BY <1>1, <1>4 DEF Good, Safe, Due
<1>11. \A c : c \in Due(comp, ver) <=> c \in due \ {k}
  <2>1. complete \cup Points(k) = complete
    BY <1>10
  <2>2. /\ \A c : c \in Due(complete, verified \cup Points(k)) <=> c \in due \ {k}
        /\ \A c : c \in Due(complete \ Points(k), verified \ Points(k)) <=> c \in due \ {k}
    BY <1>4, DueAfter
  <2>3. QED BY <1>8, <2>1, <2>2
<1> HIDE DEF due, comp, ver
<1>12. \A p : Free(s1, p) = Free(Store, p)
  BY <1>3, <1>6 DEF Free
<1>13. comp \subseteq complete /\ \A p \in complete : p \notin Points(k) => p \in comp
  BY <1>8, <1>10
<1>14. Entries(s1, comp, latest)
  <2>1. \A p \in Pos : ~Free(Store, p) => p \in complete /\ p \notin Points(k)
    BY <1>1, <1>4 DEF Good, Entries
  <2>2. \A p \in Pos : ~Free(s1, p) => p \in comp
    BY <1>12, <1>13, <2>1
  <2>3. QED BY <1>1, <1>3, <1>6, <1>13, <2>2 DEF Good, Entries
<1>15. Hashes(s1, Due(comp, ver), he)
  <2>1. \A c \in Chunks : Count(c \in Due(comp, ver)) = Count(c \in due \ {k})
    BY <1>11 DEF Count
  <2>2. ~allocJob => checks = <<>>
    BY <1>1, <1>3 DEF Good, Hashes
  <2>3. \A c \in Chunks : OfChunk(c, s1.checks) + OfChunk(c, s1.io) + OfChunk(c, he)
                             = Count(c \in Due(comp, ver))
    BY <1>4, <1>6, <2>1
  <2>4. \A c \in Chunks : OfChunk(c, s1.io) + OfChunk(c, he) > 0 => \A p \in Points(c) : Free(s1, p)
    BY <1>4, <1>6, <1>12
  <2>5. ~s1.allocJob => s1.checks = <<>>
    BY <1>6, <2>2
  <2>6. QED BY <2>3, <2>4, <2>5 DEF Hashes
<1>16. Safe(s1, comp, ver)
  <2>1. \A p \in verified : disk[p] = "good" /\ Free(Store, p)
    BY <1>1, <1>3 DEF Good, Safe
  <2>2. CASE ver = verified \cup Points(k) /\ comp = complete \cup Points(k)
             /\ \A p \in Points(k) : disk[p] = "good"
    BY <1>4, <1>6, <1>10, <1>12, <2>1, <2>2 DEF Safe
  <2>3. CASE ver = verified \ Points(k) /\ comp = complete \ Points(k)
    BY <1>6, <1>10, <1>12, <2>1, <2>3 DEF Safe
  <2>4. QED BY <1>8, <2>2, <2>3
<1>17. Allocation(s1, ae)
  BY <1>1, <1>3, <1>6 DEF Good, Allocation
<1>18. Final(s1, comp)
  BY <1>1, <1>3, <1>6 DEF Good, Final
<1>19. Results(s1, he)
  BY <1>1, <1>2, <1>3, <1>6, ResultsTail DEF Good
<1>20. Good(s1, comp, ver, latest, Due(comp, ver), ae, he)
  BY <1>10, <1>13, <1>14, <1>15, <1>16, <1>17, <1>18, <1>19 DEF Good
<1>21. Good(TryComplete(s1, comp, None), comp, ver, latest, Due(comp, ver), ae, he)
  BY <1>7, <1>20, TryCompleteGood
<1>22. completions' = 0
  <2>1. completions \in Nat
    BY DEF TInv, Rest
  <2>2. ~(completions > 0)
    BY <1>1, <1>3, <1>4 DEF Settled
  <2>3. QED BY <1>2, <2>1, <2>2
<1> HIDE DEF ae, he
<1>23. Good(TryComplete(s1, comp, None), complete', verified', latest', Due(complete', verified'),
            allocEvents', hashEvents')
  BY <1>2, <1>21 DEF comp, ver
<1>24. QED BY <1>9, <1>22, <1>23, CommitGood

\* The final rehash of an undisturbed download finds what the main thread
\* believes, and the download is completed.
LEMMA FullFacts ==
  ASSUME TInv, DInv, HandleHash, OnFull(Head(hashEvents)), faults' = faults
  PROVE  /\ fullJob /\ Settled(Store, complete) /\ completions = 0 /\ completions' = 1
         /\ complete' = complete /\ verified' = verified /\ latest' = latest
         /\ allocEvents' = allocEvents /\ hashEvents' = Tail(hashEvents)
         /\ hashEvents # <<>> /\ Head(hashEvents).kind = "full"
         /\ Commit([Store EXCEPT !.fullJob = FALSE])
<1> DEFINE due == Due(complete, verified)
           e  == Head(hashEvents)
           s0 == [Store EXCEPT !.fullJob = FALSE]
<1>1. /\ Good(Store, complete, verified, latest, due, allocEvents, hashEvents)
      /\ completions > 0 => ~fullJob
  BY DEF DInv
<1>2. /\ hashEvents # <<>> /\ hashEvents' = Tail(hashEvents) /\ allocEvents' = allocEvents
      /\ e.kind = "full" /\ latest' = latest
  BY DEF HandleHash, OnFull
<1>3. /\ Store.fullJob = fullJob /\ Store.pending = pending /\ hashEvents \in Seq(HashResults)
      /\ completions \in Nat /\ hashed \in BOOLEAN /\ Sound(Store, allocEvents, hashEvents)
  BY Facts DEF TInv, Rest, IInv
<1>4. 1 \in DOMAIN hashEvents /\ hashEvents[1] = e
  BY <1>2, <1>3, RestOfResults
<1>5. e.result = "complete" /\ e.size = Size /\ (hashed => e.good = Chunks)
  BY <1>1, <1>2, <1>4 DEF Good, Results
<1>6. fullJob
  <2>1. JobsOf("full", hashEvents) # 0
    BY <1>2, <1>3, <1>4, JobsOfNone
  <2>2. JobsOf("full", io) \in Nat /\ JobsOf("full", hashEvents) \in Nat
        /\ JobsOf("full", io) + JobsOf("full", hashEvents) = Count(fullJob)
    BY Facts DEF TInv
  <2>3. QED BY <2>1, <2>2 DEF Count
<1>7. Settled(Store, complete)
  BY <1>1, <1>3, <1>6 DEF Good, Final
<1>8. completions = 0
  BY <1>1, <1>3, <1>6
<1>9. complete = Pos /\ verified \subseteq Pos
  BY <1>1, <1>7 DEF Settled, Good, Safe
<1>10. ASSUME hashed PROVE Pos \subseteq verified
  <2>1. ASSUME NEW p \in Pos PROVE p \in verified
    <3> DEFINE k == p \div ChunkSize
    <3>1. k \in Chunks /\ p \in Points(k)
      BY ChunkFacts
    <3> HIDE DEF k
    <3>2. /\ OfChunk(k, Store.checks) = 0 /\ OfChunk(k, Store.io) = 0
          /\ OfChunk(k, hashEvents) = 0
      BY <1>3, <1>7, <3>1, NoHash DEF Settled
    <3>3. Count(k \in due) = 0
      BY <1>1, <3>1, <3>2 DEF Good, Hashes
    <3>4. k \notin due
      BY <3>3 DEF Count
    <3>5. Points(k) \subseteq complete
      BY <1>9 DEF Points
    <3>6. QED BY <1>10, <3>1, <3>4, <3>5 DEF Due
  <2>2. QED BY <2>1
<1>11. PICK fault \in Faults :
         /\ CountFault(fault)
         /\ IF e.result = "complete" /\ e.size = Size /\ hashed
            THEN Judge(e.good, fault)
            ELSE /\ Commit(s0)
                 /\ IF e.result = "complete" /\ e.size # Size
                    THEN TRUE
                    ELSE /\ completions' = completions
                               + Count(e.result = "complete" /\ complete = Pos)
                         /\ UNCHANGED <<complete, verified, corrupt, flags>>
  BY DEF OnFull
<1>12. CASE hashed
  <2>1. Judge(Chunks, fault)
    BY <1>5, <1>11, <1>12
  <2>2. UNION {Points(k) : k \in Chunks} = Pos
    <3>1. \A p \in Pos : \E k \in Chunks : p \in Points(k)
      BY ChunkFacts
    <3>2. \A k \in Chunks : Points(k) \subseteq Pos
      BY ChunkFacts
    <3>3. QED BY <3>1, <3>2
  <2>3. ReachedEarly(Chunks) = {}
    <3>1. \A k \in Chunks : Points(k) \subseteq verified
      BY <1>10, <1>12, ChunkFacts
    <3>2. QED BY <3>1 DEF ReachedEarly, ToVerify
  <2>4. /\ complete' = Pos /\ verified' = Pos
        /\ completions' = completions + Count(Pos = Pos)
    BY <2>1, <2>2 DEF Judge
  <2>5. PICK ks \in InOrder(ReachedEarly(Chunks)) : Commit(VerifyChunks(s0, ks, Pos, fault))
    BY <2>1, <2>2 DEF Judge
  <2>6. ks = <<>>
    <3>1. ks \in InOrder({}) /\ {} \subseteq Chunks
      BY <2>3, <2>5
    <3>2. QED BY <3>1, InOrderEmpty
  <2>7. Commit(s0)
    BY <2>5, <2>6 DEF VerifyChunks
  <2>8. completions' = 1
    BY <1>8, <2>4 DEF Count
  <2>9. verified = Pos
    BY <1>9, <1>10, <1>12
  <2>10. QED BY <1>2, <1>6, <1>7, <1>8, <1>9, <2>4, <2>7, <2>8, <2>9
<1>13. CASE ~hashed
  <2>1. /\ Commit(s0) /\ complete' = complete /\ verified' = verified
        /\ completions' = completions + Count(e.result = "complete" /\ complete = Pos)
    BY <1>5, <1>11, <1>13
  <2>2. completions' = 1
    BY <1>5, <1>8, <1>9, <2>1 DEF Count
  <2>3. QED BY <1>2, <1>6, <1>7, <1>8, <2>1, <2>2
<1>14. QED BY <1>12, <1>13

\* onHashEvent() of the whole file, when the disk does not fail.
LEMMA FullGood ==
  ASSUME TInv, DInv, UNCHANGED hashed, HandleHash, OnFull(Head(hashEvents)), faults' = faults
  PROVE  DInv'
<1> DEFINE due == Due(complete, verified)
           s == [Store EXCEPT !.fullJob = FALSE]
           he == Tail(hashEvents)
<1>1. Good(Store, complete, verified, latest, due, allocEvents, hashEvents)
  BY DEF DInv
<1>2. /\ Settled(Store, complete) /\ completions' = 1
      /\ complete' = complete /\ verified' = verified /\ latest' = latest
      /\ allocEvents' = allocEvents /\ hashEvents' = he
      /\ hashEvents # <<>> /\ Head(hashEvents).kind = "full" /\ Commit(s)
  BY FullFacts
<1>3. hashEvents \in Seq(HashResults) /\ IsStore(Store)
  BY Facts DEF TInv
<1>4. /\ s.buffer = Store.buffer /\ s.disk = Store.disk /\ s.allocJob = Store.allocJob
      /\ s.checks = Store.checks /\ s.pending = Store.pending /\ s.fullJob = FALSE
      /\ s.io = Store.io
  BY <1>3 DEF IsStore
<1> HIDE DEF s
<1>5. \A p : Free(s, p) = Free(Store, p)
  BY <1>4 DEF Free
<1>6. ASSUME NEW k \in Chunks PROVE OfChunk(k, he) = OfChunk(k, hashEvents)
  <2>1. OfChunk(k, hashEvents)
          = Count(Head(hashEvents).kind = "chunk" /\ Head(hashEvents).chunk = k) + OfChunk(k, he)
    BY <1>2, <1>3, RestOfResults
  <2>2. Count(Head(hashEvents).kind = "chunk" /\ Head(hashEvents).chunk = k) = 0
    BY <1>2 DEF Count
  <2>3. he \in Seq(HashResults)
    BY <1>2, <1>3, RestOfResults
  <2>4. OfChunk(k, he) \in Nat
    BY <2>3, OfChunkType
  <2>5. QED BY <2>1, <2>2, <2>4
<1>7. Entries(s, complete, latest) /\ Safe(s, complete, verified) /\ Allocation(s, allocEvents)
  BY <1>1, <1>4, <1>5 DEF Good, Entries, Safe, Allocation
<1>8. Hashes(s, due, he)
  BY <1>1, <1>4, <1>5, <1>6 DEF Good, Hashes
<1>9. Final(s, complete)
  BY <1>1, <1>4 DEF Good, Final
<1>10. Results(s, he)
  BY <1>1, <1>2, <1>3, <1>4, ResultsTail DEF Good
<1>11. Good(s, complete, verified, latest, due, allocEvents, he)
  BY <1>1, <1>7, <1>8, <1>9, <1>10 DEF Good
<1>12. completions' > 0 => completions' = 1 /\ ~s.fullJob /\ Settled(s, complete')
  BY <1>2, <1>4 DEF Settled
<1> HIDE DEF he
<1>13. Good(s, complete', verified', latest', Due(complete', verified'), allocEvents', hashEvents')
  BY <1>2, <1>11
<1>14. QED BY <1>2, <1>12, <1>13, CommitGood

\* The commands, the timer, and what the clients do with their ranges.
LEMMA OthersGood ==
  ASSUME TInv, DInv, UNCHANGED <<hashed, complete, verified, latest, completions>>,
         UNCHANGED events,
         \/ UNCHANGED <<buffer, disk, allocJob, checks, pending, fullJob, io>>
         \/ Commit(Save(Store, None))
  PROVE  DInv'
<1>1. /\ Good(Store, complete, verified, latest, Due(complete, verified), allocEvents, hashEvents)
      /\ completions > 0 => completions = 1 /\ ~fullJob /\ Settled(Store, complete)
      /\ Fit(Store, allocEvents, hashEvents)
  BY StoreFit DEF DInv
<1>2. /\ complete' = complete /\ verified' = verified /\ latest' = latest
      /\ completions' = completions /\ allocEvents' = allocEvents /\ hashEvents' = hashEvents
  BY DEF events
<1>3. CASE UNCHANGED <<buffer, disk, allocJob, checks, pending, fullJob, io>>
  <2> DEFINE t == Store'
  <2>1. /\ t.buffer = Store.buffer /\ t.disk = Store.disk /\ t.allocJob = Store.allocJob
        /\ t.checks = Store.checks /\ t.pending = Store.pending /\ t.fullJob = Store.fullJob
        /\ t.io = Store.io /\ Store.fullJob = fullJob /\ Commit(t)
    BY <1>3 DEF Store, Commit
  <2> HIDE DEF t
  <2>2. Good(t, complete, verified, latest, Due(complete, verified), allocEvents, hashEvents)
    BY <1>1, <2>1, GoodSame
  <2>3. completions' > 0 => completions' = 1 /\ ~t.fullJob /\ Settled(t, complete')
    BY <1>1, <1>2, <2>1 DEF Settled
  <2>4. Good(t, complete', verified', latest', Due(complete', verified'), allocEvents', hashEvents')
    BY <1>2, <2>2
  <2>5. QED BY <2>1, <2>3, <2>4, CommitGood
<1>4. CASE Commit(Save(Store, None))
  <2> DEFINE t == Save(Store, None)
  <2>1. /\ Good(t, complete, verified, latest, Due(complete, verified), allocEvents, hashEvents)
        /\ t.buffer = <<>> \/ t.allocJob
    BY <1>1, SaveGood
  <2>2. t.pending = Store.pending /\ t.fullJob = Store.fullJob /\ Store.fullJob = fullJob
    BY <1>1, Facts, SaveSound DEF Fit, TInv
  <2> HIDE DEF t
  <2>3. completions' > 0 => completions' = 1 /\ ~t.fullJob /\ Settled(t, complete')
    BY <1>1, <1>2, <2>1, <2>2 DEF Settled
  <2>4. Good(t, complete', verified', latest', Due(complete', verified'), allocEvents', hashEvents')
    BY <1>2, <2>1
  <2>5. QED BY <1>4, <2>3, <2>4, CommitGood DEF t
<1>5. QED BY <1>3, <1>4

\* A new download.
LEMMA InitDInv == Init => DInv
<1> SUFFICES ASSUME Init PROVE DInv
  OBVIOUS
<1>1. /\ complete = {} /\ verified = {} /\ buffer = <<>> /\ allocJob = FALSE /\ fullJob = FALSE
      /\ checks = <<>> /\ pending = 0 /\ io = <<>> /\ allocEvents = <<>> /\ hashEvents = <<>>
      /\ completions = 0
  BY DEF Init
<1>2. /\ Store.buffer = <<>> /\ Store.allocJob = FALSE /\ Store.fullJob = FALSE
      /\ Store.checks = <<>> /\ Store.io = <<>>
  BY <1>1 DEF Store
<1> DEFINE s == Store
<1> HIDE DEF s
<1>3. /\ s.buffer = <<>> /\ s.allocJob = FALSE /\ s.fullJob = FALSE
      /\ s.checks = <<>> /\ s.io = <<>>
  BY <1>2 DEF s
<1>4. \A p \in Pos : Free(s, p)
  BY <1>3, WrittenNothing DEF Free
<1>5. DOMAIN <<>> = {}
  OBVIOUS
<1>6. Entries(s, {}, latest)
  BY <1>3, <1>4, <1>5 DEF Entries
<1>7. Hashes(s, Due({}, {}), <<>>)
  <2>1. ASSUME NEW k \in Chunks PROVE k \notin Due({}, {})
    BY ChunkFacts DEF Due
  <2>2. \A k \in Chunks : Count(k \in Due({}, {})) = 0
    BY <2>1 DEF Count
  <2>3. \A k \in Chunks : \A p \in Points(k) : Free(s, p)
    BY <1>4 DEF Points
  <2>4. \A k \in Chunks : OfChunk(k, s.checks) = 0 /\ OfChunk(k, s.io) = 0
                          /\ OfChunk(k, <<>>) = 0
    BY <1>3, OfChunkEmpty
  <2>5. QED BY <1>3, <2>2, <2>3, <2>4 DEF Hashes
<1>8. Safe(s, {}, {})
  BY DEF Safe
<1>9. Allocation(s, <<>>)
  <2>1. JobsOf("alloc", s.io) = 0
    BY <1>3, JobsOfEmpty
  <2>2. QED BY <1>5, <2>1 DEF Allocation
<1>10. Final(s, {}) /\ Results(s, <<>>)
  BY <1>3, <1>5 DEF Final, Results
<1>11. Good(s, {}, {}, latest, Due({}, {}), <<>>, <<>>)
  BY <1>6, <1>7, <1>8, <1>9, <1>10 DEF Good
<1>12. Good(Store, complete, verified, latest, Due(complete, verified), allocEvents, hashEvents)
  BY <1>1, <1>11 DEF s
<1>13. QED BY <1>1, <1>12 DEF DInv

-----------------------------------------------------------------------------
(* Steps of an undisturbed download.                                         *)

\* The failures and the rehashes are counted and never forgotten.
LEMMA Counters ==
  ASSUME TInv, [Next]_vars
  PROVE  /\ faults' \in Nat /\ faults' >= faults
         /\ rehashes' \in Nat /\ rehashes' >= rehashes
         /\ rehashes' = rehashes \/ (Rehash /\ rehashes' = rehashes + 1)
<1>1. faults \in Nat /\ rehashes \in Nat
  BY DEF TInv, Rest
<1>2. ASSUME NEW f, CountFault(f) PROVE faults' \in Nat /\ faults' >= faults
  BY <1>1, <1>2 DEF CountFault, Count
<1>3. ASSUME NEW c \in Clients, GetRange(c) \/ GetLock(c) \/ Unlock(c) \/ Unuse(c)
      PROVE  UNCHANGED <<faults, rehashes>>
  BY <1>3 DEF GetRange, GetLock, Unlock, Unuse, counters
<1>4. ASSUME NEW c \in Clients, Write(c)
      PROVE  faults' \in Nat /\ faults' >= faults /\ UNCHANGED rehashes
  <2>1. rehashes' = rehashes /\ \E f : CountFault(f)
    BY <1>4 DEF Write, DoWrite
  <2>2. QED BY <1>2, <2>1
<1>5. CASE SafeWrite
  <2>1. rehashes' = rehashes /\ \E f : CountFault(f)
    BY <1>5 DEF SafeWrite, DoWrite
  <2>2. QED BY <1>1, <1>2, <2>1
<1>6. CASE RunJob
  <2>1. rehashes' = rehashes /\ \E f : CountFault(f)
    BY <1>6 DEF RunJob, RunAlloc, RunChunk, RunFull
  <2>2. QED BY <1>1, <1>2, <2>1
<1>7. CASE HandleAlloc \/ HandleHash
  <2>1. rehashes' = rehashes /\ \E f : CountFault(f)
    BY <1>7 DEF HandleAlloc, HandleHash, OnAlloc, OnChunk, OnFull
  <2>2. QED BY <1>1, <1>2, <2>1
<1>8. CASE SaveTimer
  <2>1. rehashes' = rehashes /\ \E f : CountFault(f)
    BY <1>8 DEF SaveTimer
  <2>2. QED BY <1>1, <1>2, <2>1
<1>9. CASE Rehash
  BY <1>1, <1>9 DEF Rehash
<1>10. CASE Command \/ Skip \/ Finished \/ UNCHANGED vars
  <2>1. UNCHANGED <<faults, rehashes>>
    BY <1>10 DEF Command, Skip, Finished, vars, counters
  <2>2. QED BY <1>1, <2>1
<1>11. QED
  BY <1>1, <1>3, <1>4, <1>5, <1>6, <1>7, <1>8, <1>9, <1>10 DEF Next, Step

\* A download that is undisturbed after a step was so before it.
LEMMA StepQuiet ==
  ASSUME TInv, [Next]_vars, Undisturbed'
  PROVE  Undisturbed /\ faults' = faults /\ ~Rehash
<1>1. faults \in Nat /\ rehashes \in Nat /\ faults' = 0 /\ rehashes' = 0
  BY DEF TInv, Rest, Undisturbed
<1>2. faults = 0 /\ rehashes = 0
  BY <1>1, Counters
<1>3. ~Rehash
  BY <1>1 DEF Rehash
<1>4. QED BY <1>1, <1>2, <1>3 DEF Undisturbed

\* Without a fault a write is a write whose fault is None.
LEMMA WriteGood ==
  ASSUME TInv, DInv, UNCHANGED hashed, faults' = faults,
         SafeWrite \/ \E c \in Clients : Write(c)
  PROVE  DInv'
<1>1. PICK begin \in Pos, n \in 1..MaxWrite, d \in Data, fault \in Faults, whole \in BOOLEAN :
        /\ begin + n <= Size
        /\ DoWrite(begin..(begin + n - 1), [i \in 1..n |-> d], fault, whole)
        /\ UNCHANGED <<verified, events, completions>>
  <2>1. CASE SafeWrite
    BY <2>1 DEF SafeWrite, Input
  <2>2. ASSUME NEW c \in Clients, Write(c)
        PROVE  \E begin \in Pos, n \in 1..MaxWrite, d \in Data, fault \in Faults :
                  /\ begin + n <= Size
                  /\ DoWrite(begin..(begin + n - 1), [i \in 1..n |-> d], fault, FALSE)
                  /\ UNCHANGED <<verified, events, completions>>
    <3>1. PICK begin \in Pos, n \in 1..MaxWrite, d \in Data, fault \in Faults :
            LET range == begin..(begin + n - 1)
            IN  /\ Input(begin, n, d)
                /\ DoWrite(range, [i \in 1..n |-> d], fault, FALSE)
                /\ UNCHANGED <<corrupt, verified, partStatus, locked, used, lock, events,
                               completions, held, commands, rehashes>>
      BY ZenonT(40), <2>2 DEF Write
    <3>2. QED BY <3>1 DEF Input
  <2>3. QED BY <2>1, <2>2
<1>2. fault = None
  BY <1>1, NoFault DEF DoWrite
<1>3. QED BY <1>1, <1>2, DoWriteGood

\* Every step of an undisturbed download keeps what holds of it.
LEMMA StepDInv == TInv /\ (Undisturbed => DInv) /\ [Next]_vars => (Undisturbed => DInv)'
<1> SUFFICES ASSUME TInv, Undisturbed => DInv, [Next]_vars, Undisturbed'
             PROVE  DInv'
  OBVIOUS
<1>1. DInv /\ faults' = faults /\ ~Rehash
  BY StepQuiet
<1>2. UNCHANGED hashed
  BY DEF Next, vars
<1>3. ASSUME NEW c \in Clients, GetRange(c) \/ GetLock(c) \/ Unlock(c) \/ Unuse(c)
      PROVE  DInv'
  <2>1. UNCHANGED <<lists, store, events, observed>>
    BY <1>3 DEF GetRange, GetLock, Unlock, Unuse
  <2>2. QED BY <1>1, <1>2, <2>1, OthersGood DEF lists, store, observed
<1>4. CASE SafeWrite \/ \E c \in Clients : Write(c)
  BY <1>1, <1>2, <1>4, WriteGood
<1>5. CASE RunJob
  BY <1>1, <1>2, <1>5, RunGood
<1>6. CASE HandleAlloc
  BY <1>1, <1>2, <1>6, AllocGood
<1>7. CASE HandleHash
  <2>1. OnChunk(Head(hashEvents)) \/ OnFull(Head(hashEvents))
    BY <1>7 DEF HandleHash
  <2>2. QED BY <1>1, <1>2, <1>7, <2>1, ChunkGood, FullGood
<1>8. CASE Command
  <2>1. UNCHANGED <<lists, buffer, disk, allocJob, checks, pending, fullJob, io, events,
                    latest, completions>>
    BY <1>8 DEF Command
  <2>2. QED BY <1>1, <1>2, <2>1, OthersGood DEF lists
<1>9. CASE SaveTimer
  <2>1. PICK fault \in Faults : CountFault(fault) /\ Commit(Save(Store, fault))
    BY <1>9 DEF SaveTimer
  <2>2. UNCHANGED <<lists, events, observed>>
    BY <1>9 DEF SaveTimer
  <2>3. fault = None
    BY <1>1, <2>1, NoFault
  <2>4. QED BY <1>1, <1>2, <2>1, <2>2, <2>3, OthersGood DEF lists, observed
<1>10. CASE Skip
  <2>1. UNCHANGED <<complete, verified, store, events, observed>>
    BY <1>10 DEF Skip
  <2>2. QED BY <1>1, <1>2, <2>1, OthersGood DEF store, observed
<1>11. CASE Finished \/ UNCHANGED vars
  <2>1. UNCHANGED <<lists, store, events, observed>>
    BY <1>11 DEF Finished, vars
  <2>2. QED BY <1>1, <1>2, <2>1, OthersGood DEF lists, store, observed
<1>12. QED
  BY <1>1, <1>3, <1>4, <1>5, <1>6, <1>7, <1>8, <1>9, <1>10, <1>11 DEF Next, Step

\* The invariant of an undisturbed download.
LEMMA Downloads == Spec => [](TInv /\ (Undisturbed => DInv))
<1>1. Init => TInv /\ (Undisturbed => DInv)
  BY InitTInv, InitDInv
<1>2. TInv /\ (Undisturbed => DInv) /\ [Next]_vars => (TInv /\ (Undisturbed => DInv))'
  BY StepTInv, StepDInv
<1>3. QED BY <1>1, <1>2, PTL DEF Spec

\* No flush, allocation or entry of the buffer overwrites a byte that is
\* complete with anything but what was last written there, as long as the disk
\* has not failed and nobody asked for a rehash.
THEOREM DataKept == Spec => [](Undisturbed => NothingLost)
<1>1. TInv /\ (Undisturbed => DInv) => (Undisturbed => NothingLost)
  BY DEF DInv, Good, Entries, NothingLost, Store
<1>2. QED BY <1>1, Downloads, PTL

\* Under the same condition m_verified covers only what agrees with its hash.
THEOREM VerifiedGood == Spec => [](Undisturbed => VerifiedIsGood)
<1>1. TInv /\ (Undisturbed => DInv) => (Undisturbed => VerifiedIsGood)
  <2> SUFFICES ASSUME TInv, DInv, NEW p \in verified PROVE Written(buffer, disk)[p] = "good"
    BY DEF VerifiedIsGood
  <2>1. p \in Pos
    BY DEF TInv, Rest
  <2>2. Store.buffer = buffer /\ Store.disk = disk
    BY DEF Store
  <2>3. disk[p] = "good" /\ Covering(buffer, p) = {}
    BY <2>2 DEF DInv, Good, Safe, Free
  <2>4. QED BY <2>1, <2>3, WrittenAt
<1>2. QED BY <1>1, Downloads, PTL

\* Under the same condition no verdict grows stale on its way to the main thread:
\* the chunk is hashed once while it is due, from the disk alone, and is neither
\* written nor discarded until the verdict is applied.
THEOREM VerdictsStay == Spec => [](Undisturbed => VerdictsCurrent)
<1>1. TInv /\ (Undisturbed => DInv) => (Undisturbed => VerdictsCurrent)
  <2> SUFFICES ASSUME TInv, DInv, NEW i \in DOMAIN hashEvents, hashEvents[i].kind = "chunk"
               PROVE  /\ Points(hashEvents[i].chunk) \subseteq complete
                      /\ hashEvents[i].result = "verified"
                            <=> \A p \in Points(hashEvents[i].chunk) :
                                    Written(buffer, disk)[p] = "good"
    BY DEF VerdictsCurrent
  <2>1. PICK k : k = hashEvents[i].chunk
    OBVIOUS
  <2>2. Good(Store, complete, verified, latest, Due(complete, verified), allocEvents, hashEvents)
    BY DEF DInv
  <2>3. /\ io \in Seq(Jobs) /\ checks \in Seq(Jobs) /\ hashEvents \in Seq(HashResults)
        /\ Store.io = io /\ Store.checks = checks /\ Store.disk = disk /\ Store.buffer = buffer
    BY Facts DEF TInv, Store
  <2>4. k \in Chunks
    BY <2>1, <2>3, ResultTypes
  <2>5. /\ OfChunk(k, hashEvents) > 0 /\ OfChunk(k, hashEvents) \in Nat
        /\ OfChunk(k, io) \in Nat /\ OfChunk(k, checks) \in Nat
    BY <2>1, <2>3, <2>4, OfChunkSome, OfChunkType
  <2>6. /\ OfChunk(k, checks) + OfChunk(k, io) + OfChunk(k, hashEvents)
             = Count(k \in Due(complete, verified))
        /\ \A p \in Points(k) : Free(Store, p)
    BY <2>2, <2>3, <2>4, <2>5 DEF Good, Hashes
  <2>7. Points(k) \subseteq complete
    <3>1. k \in Due(complete, verified)
      BY <2>5, <2>6 DEF Count
    <3>2. QED BY <3>1 DEF Due
  <2>8. \A p \in Points(k) : Written(buffer, disk)[p] = disk[p]
    <3>1. \A p \in Points(k) : p \in Pos /\ Covering(buffer, p) = {}
      BY <2>3, <2>6 DEF Free, Points
    <3>2. QED BY <3>1, WrittenAt
  <2>9. Right(disk, hashEvents[i])
    BY <2>2, <2>3 DEF Good, Results
  <2>10. QED BY <2>1, <2>7, <2>8, <2>9 DEF Right
<1>2. QED BY <1>1, Downloads, PTL

\* Under the same condition a file that onCompleted is emitted for has all its
\* data on disk, or in the buffer with an allocation under way whose result
\* flushes it, and agrees with its hashes.
THEOREM CompletionKept == Spec => [](Undisturbed => CompletedKept)
<1>1. TInv /\ (Undisturbed => DInv) => (Undisturbed => CompletedKept)
  <2> SUFFICES ASSUME TInv, DInv, completions > 0
               PROVE  /\ \A p \in Pos : Written(buffer, disk)[p] = latest[p]
                      /\ buffer # <<>> => allocJob
                      /\ hashed => \A p \in Pos : disk[p] = "good"
    BY DEF CompletedKept
  <2>1. /\ Good(Store, complete, verified, latest, Due(complete, verified), allocEvents, hashEvents)
        /\ Settled(Store, complete)
    BY DEF DInv
  <2>2. Store.buffer = buffer /\ Store.disk = disk /\ Store.allocJob = allocJob
    BY DEF Store
  <2>3. complete = Pos /\ (buffer # <<>> => allocJob)
    BY <2>1, <2>2 DEF Settled
  <2>4. \A p \in Pos : Written(buffer, disk)[p] = latest[p]
    BY <2>1, <2>2, <2>3 DEF Good, Entries
  <2>5. ASSUME hashed, NEW p \in Pos PROVE disk[p] = "good"
    <3> DEFINE k == p \div ChunkSize
    <3>1. k \in Chunks /\ p \in Points(k)
      BY ChunkFacts
    <3> HIDE DEF k
    <3>2. Sound(Store, allocEvents, hashEvents) /\ Store.pending = 0
      BY <2>1 DEF TInv, IInv, Settled
    <3>3. /\ OfChunk(k, Store.checks) = 0 /\ OfChunk(k, Store.io) = 0
          /\ OfChunk(k, hashEvents) = 0
      BY <3>1, <3>2, NoHash
    <3>4. Count(k \in Due(complete, verified)) = 0
      BY <2>1, <3>1, <3>3 DEF Good, Hashes
    <3>5. k \notin Due(complete, verified)
      BY <3>4 DEF Count
    <3>6. Points(k) \subseteq complete
      BY <2>3 DEF Points
    <3>7. p \in verified
      BY <2>5, <3>1, <3>5, <3>6 DEF Due
    <3>8. QED BY <2>1, <2>2, <3>7 DEF Good, Safe
  <2>6. QED BY <2>3, <2>4, <2>5
<1>2. QED BY <1>1, Downloads, PTL

-----------------------------------------------------------------------------
(* Locks and the chunks they are in.                                         *)

\* A lock is an unbroken run of bytes of the chunk its client uses.
LInv ==
    \A c \in Clients :
       lock[c] # {} => /\ used[c] \in Chunks /\ lock[c] \subseteq Points(used[c])
                       /\ \A p, q \in lock[c] : p..q \subseteq lock[c]

\* A run of free bytes has no gap.
LEMMA FreeRunWhole ==
  ASSUME NEW k \in Chunks, NEW size \in Nat, Points(k) \ Blocked # {}
  PROVE  /\ FreeRun(k, size) \subseteq Points(k) \ Blocked
         /\ \A p, q \in FreeRun(k, size) : p..q \subseteq FreeRun(k, size)
<1> DEFINE free == Points(k) \ Blocked
           m == Min(free)
<1>1. free \subseteq Pos /\ Pos \subseteq Int /\ free # {}
  BY ChunkFacts DEF Points
<1>2. m \in free /\ m \in Int /\ \A y \in free : m <= y
  BY <1>1, MinIn
<1>3. \A p : p \in FreeRun(k, size) <=> p \in free /\ p < m + size /\ m..p \subseteq free
  BY DEF FreeRun
<1> HIDE DEF free, m
<1>4. ASSUME NEW p \in FreeRun(k, size), NEW q \in FreeRun(k, size), NEW x \in p..q
      PROVE  x \in FreeRun(k, size)
  <2>1. p \in Int /\ q \in Int /\ m <= p /\ q < m + size /\ m..q \subseteq free
    BY <1>1, <1>2, <1>3
  <2>2. x \in Int /\ m <= x /\ x <= q
    BY <1>2, <2>1
  <2>3. m..x \subseteq m..q /\ x \in m..q
    BY <1>2, <2>1, <2>2
  <2>4. x < m + size
    BY <1>2, <2>1, <2>2
  <2>5. QED BY <1>3, <2>1, <2>3, <2>4
<1>5. FreeRun(k, size) \subseteq free
  BY <1>3
<1>6. QED BY <1>4, <1>5 DEF free

\* Locks change only when a client takes or gives up one.
LEMMA StepLInv == TInv /\ LInv /\ [Next]_vars => LInv'
<1> SUFFICES ASSUME TInv, LInv, [Next]_vars PROVE LInv'
  OBVIOUS
<1>0. /\ used \in [Clients -> Chunks \cup {NoChunk}] /\ lock \in [Clients -> SUBSET Pos]
      /\ NoChunk \notin Chunks
  BY NoChunkAssumption DEF TInv, Rest, LockInv
<1>1. ASSUME NEW c \in Clients, GetLock(c) PROVE LInv'
  <2>1. used[c] # NoChunk /\ Points(used[c]) \ Blocked # {} /\ used' = used
    BY <1>1 DEF GetLock
  <2>2. PICK size \in 1..Size : lock' = [lock EXCEPT ![c] = FreeRun(used[c], size)]
    BY <1>1 DEF GetLock
  <2>3. used[c] \in Chunks /\ size \in Nat
    BY <1>0, <2>1
  <2>4. /\ FreeRun(used[c], size) \subseteq Points(used[c])
        /\ \A p, q \in FreeRun(used[c], size) : p..q \subseteq FreeRun(used[c], size)
    BY <2>1, <2>3, FreeRunWhole
  <2>5. lock'[c] = FreeRun(used[c], size) /\ \A d \in Clients : d # c => lock'[d] = lock[d]
    BY <1>0, <2>2
  <2>6. QED BY <2>1, <2>3, <2>4, <2>5 DEF LInv
<1>2. ASSUME NEW c \in Clients, Unlock(c) PROVE LInv'
  <2>1. lock' = [lock EXCEPT ![c] = {}] /\ used' = used
    BY <1>2 DEF Unlock
  <2>2. lock'[c] = {} /\ \A d \in Clients : d # c => lock'[d] = lock[d]
    BY <1>0, <2>1
  <2>3. QED BY <2>1, <2>2 DEF LInv
<1>3. ASSUME NEW c \in Clients, GetRange(c) \/ Unuse(c) PROVE LInv'
  <2>1. /\ lock' = lock /\ \A d \in Clients : d # c => used'[d] = used[d]
        /\ lock[c] = {} \/ used[c] = NoChunk
    BY <1>0, <1>3 DEF GetRange, Unuse
  <2>2. lock[c] = {}
    BY <1>0, <2>1 DEF LInv
  <2>3. QED BY <2>1, <2>2 DEF LInv
<1>4. ASSUME UNCHANGED <<lock, used>> PROVE LInv'
  BY <1>4 DEF LInv
<1>5. ASSUME NEW c \in Clients, Write(c) PROVE UNCHANGED <<lock, used>>
  BY <1>5 DEF Write
<1>6. ASSUME \/ SafeWrite \/ RunJob \/ HandleAlloc \/ HandleHash \/ Command \/ SaveTimer
             \/ Rehash \/ Skip \/ Finished \/ UNCHANGED vars
      PROVE  UNCHANGED <<lock, used>>
  <2>1. CASE SafeWrite \/ RunJob \/ HandleAlloc \/ HandleHash
    BY <2>1 DEF SafeWrite, RunJob, HandleAlloc, HandleHash, locks
  <2>2. CASE Command \/ SaveTimer \/ Rehash \/ Skip
    BY <2>2 DEF Command, SaveTimer, Rehash, Skip, locks
  <2>3. CASE Finished \/ UNCHANGED vars
    BY <2>3 DEF Finished, vars, locks
  <2>4. QED BY <1>6, <2>1, <2>2, <2>3
<1>7. QED
  BY <1>1, <1>2, <1>3, <1>4, <1>5, <1>6 DEF Next, Step

\* What a client writes that does not start before its lock is in its lock.
LEMMA WriteInLock ==
  ASSUME ~Careless, TInv, LInv, NEW c \in Clients, NEW begin \in Pos, NEW n \in 1..MaxWrite,
         lock[c] # {}, Careless \/ begin >= Min(lock[c]), begin + n - 1 <= Max(lock[c])
  PROVE  /\ begin..(begin + n - 1) \subseteq lock[c] /\ begin \in begin..(begin + n - 1)
         /\ used[c] \in Chunks /\ begin..(begin + n - 1) \subseteq Points(used[c])
<1>1. lock[c] \subseteq Pos
  BY DEF TInv, LockInv
<1>2. /\ Min(lock[c]) \in lock[c] /\ Max(lock[c]) \in lock[c]
  BY <1>1, MinIn, MaxIn
<1>3. /\ Min(lock[c])..Max(lock[c]) \subseteq lock[c]
      /\ used[c] \in Chunks /\ lock[c] \subseteq Points(used[c])
  BY <1>2 DEF LInv
<1>4. Min(lock[c]) \in Int /\ Max(lock[c]) \in Int /\ begin \in Int /\ n \in Int /\ n >= 1
  <2>1. Pos \subseteq Int
    BY DEF Pos
  <2>2. n \in Int /\ n >= 1
    BY PartDataAssumption
  <2> HIDE DEF Pos
  <2>3. QED BY <1>1, <1>2, <2>1, <2>2
<1> DEFINE lo == Min(lock[c])
           hi == Max(lock[c])
<1>5. lo \in Int /\ hi \in Int /\ begin >= lo /\ begin + n - 1 <= hi
  BY <1>4
<1> HIDE DEF lo, hi
<1>6. begin..(begin + n - 1) \subseteq lo..hi /\ begin \in begin..(begin + n - 1)
  BY <1>4, <1>5
<1>7. QED BY <1>3, <1>6 DEF lo, hi

\* What a write changes of the lists.
LEMMA WriteEffect ==
  ASSUME ~Careless, TInv, LInv, NEW c \in Clients, Write(c)
  PROVE  \E range \in SUBSET lock[c] :
            /\ range \subseteq Points(used[c]) /\ range # {} /\ used[c] \in Chunks
            /\ complete' = complete \cup range /\ verified' = verified
            /\ flags' = [Updated(range, complete \cup range, verified)
                            EXCEPT ![used[c]].partial = TRUE]
            /\ wrote' = [wrote EXCEPT ![c] = @ \cup range]
            /\ UNCHANGED <<lock, used, rehashes, completions>>
<1>1. PICK begin \in Pos, n \in 1..MaxWrite, d \in Data, fault \in Faults :
        LET range == begin..(begin + n - 1)
            flag  == Updated(range, complete \cup range, verified)
        IN  /\ lock[c] # {}
            /\ Careless \/ begin >= Min(lock[c])
            /\ begin + n - 1 <= Max(lock[c])
            /\ DoWrite(range, [i \in 1..n |-> d], fault, FALSE)
            /\ flags' = [flag EXCEPT ![used[c]].partial = TRUE]
            /\ wrote' = [wrote EXCEPT ![c] = @ \cup range]
            /\ UNCHANGED <<corrupt, verified, partStatus, locked, used, lock, events,
                           completions, held, commands, rehashes>>
  BY ZenonT(40) DEF Write
<1> DEFINE range == begin..(begin + n - 1)
<1>2. /\ range \subseteq lock[c] /\ begin \in range
      /\ used[c] \in Chunks /\ range \subseteq Points(used[c])
  BY <1>1, WriteInLock
<1>3. complete' = complete \cup range
  BY <1>1 DEF DoWrite
<1>4. /\ flags' = [Updated(range, complete \cup range, verified)
                            EXCEPT ![used[c]].partial = TRUE]
      /\ wrote' = [wrote EXCEPT ![c] = @ \cup range]
      /\ UNCHANGED <<lock, used, rehashes, completions, verified>>
  BY <1>1
<1> HIDE DEF range
<1>5. QED BY <1>2, <1>3, <1>4

\* What a write without a lock changes of the lists.
LEMMA SafeEffect ==
  ASSUME SafeWrite
  PROVE  \E range :
            /\ range \cap locked = {}
            /\ complete' = complete \cup range /\ verified' = verified
            /\ flags' = Updated(range, complete \cup range, verified)
            /\ UNCHANGED <<lock, used, wrote, rehashes, completions>>
<1>1. PICK begin \in Pos, n \in 1..MaxWrite, d \in Data, fault \in Faults :
        LET range == begin..(begin + n - 1)
        IN  /\ MayWrite(range)
            /\ DoWrite(range, [i \in 1..n |-> d], fault, TRUE)
            /\ flags' = Updated(range, complete \cup range, verified)
            /\ UNCHANGED <<corrupt, verified, partStatus, locks, events,
                           completions, held, commands, rehashes>>
  BY DEF SafeWrite
<1> DEFINE range == begin..(begin + n - 1)
<1>2. complete' = complete \cup range
  BY <1>1 DEF DoWrite
<1>3. /\ range \cap locked = {} /\ flags' = Updated(range, complete \cup range, verified)
      /\ UNCHANGED <<lock, used, wrote, rehashes, completions, verified>>
  BY <1>1 DEF MayWrite, locks
<1> HIDE DEF range
<1>4. QED BY <1>2, <1>3

\* What the verdict on a chunk changes of the lists.
LEMMA ChunkEffect ==
  ASSUME TInv, HandleHash, OnChunk(Head(hashEvents))
  PROVE  /\ Head(hashEvents).chunk \in Chunks
         /\ LET k == Head(hashEvents).chunk
            IN  \/ /\ complete' = complete \cup Points(k) /\ verified' = verified \cup Points(k)
                   /\ flags' = [flags EXCEPT ![k] =
                                  [complete |-> TRUE, partial |-> FALSE, verified |-> TRUE]]
                \/ /\ complete' = complete \ Points(k) /\ verified' = verified \ Points(k)
                   /\ flags' = [flags EXCEPT ![k] =
                                  [complete |-> FALSE, partial |-> FALSE, verified |-> FALSE]]
                \/ UNCHANGED <<complete, verified, flags>>
         /\ UNCHANGED <<lock, used, wrote, rehashes, completions>>
<1>1. Head(hashEvents).chunk \in Chunks
  <2>1. hashEvents # <<>> /\ hashEvents \in Seq(HashResults) /\ Head(hashEvents).kind = "chunk"
    BY Facts DEF HandleHash, OnChunk, TInv
  <2>2. Head(hashEvents) \in HashResults
    BY <2>1, HeadTailProperties
  <2>3. QED BY <2>1, <2>2 DEF HashResults
<1>2. UNCHANGED <<lock, used, wrote, rehashes, completions>>
  BY DEF HandleHash, OnChunk, locks
<1> DEFINE e == Head(hashEvents)
<1>3. CASE e.result = "verified"
  BY <1>1, <1>2, <1>3 DEF OnChunk
<1>4. CASE e.result = "failed"
  BY <1>1, <1>2, <1>4 DEF OnChunk, RangeOf
<1>5. CASE e.result # "verified" /\ e.result # "failed"
  BY <1>1, <1>2, <1>5 DEF OnChunk
<1>6. QED BY <1>3, <1>4, <1>5

\* The steps that leave the lists alone.
LEMMA NoEffect ==
  ASSUME \/ \E c \in Clients : GetRange(c) \/ GetLock(c) \/ Unlock(c) \/ Unuse(c)
         \/ RunJob \/ HandleAlloc \/ Command \/ SaveTimer \/ Skip \/ Finished
         \/ UNCHANGED vars
  PROVE  UNCHANGED <<complete, verified, flags, rehashes, completions>>
<1>1. CASE \E c \in Clients : GetRange(c) \/ GetLock(c) \/ Unlock(c) \/ Unuse(c)
  BY <1>1 DEF GetRange, GetLock, Unlock, Unuse, lists, observed, counters
<1>2. CASE RunJob
  BY <1>2 DEF RunJob, lists, observed
<1>3. CASE HandleAlloc
  BY <1>3 DEF HandleAlloc, OnAlloc, lists
<1>4. CASE Command \/ SaveTimer
  BY <1>4 DEF Command, SaveTimer, lists, observed
<1>5. CASE Skip
  BY <1>5 DEF Skip, observed
<1>6. CASE Finished \/ UNCHANGED vars
  BY <1>6 DEF Finished, vars, lists, observed, counters
<1>7. QED BY <1>1, <1>2, <1>3, <1>4, <1>5, <1>6

-----------------------------------------------------------------------------
(* What is complete stays complete.                                          *)

\* A verdict is about a chunk that is complete.
LEMMA JudgedComplete ==
  ASSUME TInv, DInv, HandleHash, OnChunk(Head(hashEvents))
  PROVE  Points(Head(hashEvents).chunk) \subseteq complete
<1>1. hashEvents # <<>> /\ Head(hashEvents).kind = "chunk"
  BY DEF HandleHash, OnChunk
<1>2. Head(hashEvents).chunk \in Due(complete, verified)
  BY <1>1, StoreFit, HeadOfChunk DEF DInv
<1>3. QED BY <1>2 DEF Due

\* A chunk that was complete is given up.
Discarded == \E k \in Chunks : Points(k) \subseteq complete /\ complete' = complete \ Points(k)

\* A verdict completes nothing new: it gives up a complete chunk or none.
LEMMA JudgeStep ==
  ASSUME TInv, DInv, HandleHash, faults' = faults
  PROVE  (UNCHANGED complete \/ Discarded) /\ UNCHANGED <<lock, wrote>>
<1>1. CASE OnChunk(Head(hashEvents))
  <2> DEFINE k == Head(hashEvents).chunk
  <2>1. /\ k \in Chunks /\ UNCHANGED <<lock, wrote>>
        /\ complete' \in {complete \cup Points(k), complete \ Points(k), complete}
    BY <1>1, ChunkEffect
  <2>2. Points(k) \subseteq complete
    BY <1>1, JudgedComplete
  <2> HIDE DEF k
  <2>3. complete' = complete \/ complete' = complete \ Points(k)
    BY <2>1, <2>2
  <2>4. QED BY <2>1, <2>2, <2>3 DEF Discarded
<1>2. CASE OnFull(Head(hashEvents))
  <2>1. UNCHANGED <<lock, wrote>>
    BY DEF HandleHash, locks
  <2>2. QED BY <1>2, <2>1, FullFacts
<1>3. QED BY <1>1, <1>2 DEF HandleHash

\* A step completes more bytes or gives up one chunk that was complete.
LEMMA GrowStep ==
  ASSUME TInv, DInv, [Next]_vars, faults' = faults, ~Rehash
  PROVE  complete \subseteq complete' \/ Discarded
<1>1. ASSUME NEW c \in Clients, Write(c) PROVE complete \subseteq complete'
  BY <1>1 DEF Write, DoWrite
<1>2. CASE SafeWrite
  BY <1>2, SafeEffect
<1>3. CASE HandleHash
  BY <1>3, JudgeStep
<1>4. CASE \/ \E c \in Clients : GetRange(c) \/ GetLock(c) \/ Unlock(c) \/ Unuse(c)
           \/ RunJob \/ HandleAlloc \/ Command \/ SaveTimer \/ Skip \/ Finished
           \/ UNCHANGED vars
  BY <1>4, NoEffect
<1>5. QED BY <1>1, <1>2, <1>3, <1>4 DEF Next, Step

\* A client takes or gives up a lock.
Relocked(c) ==
    /\ UNCHANGED complete /\ wrote' = [wrote EXCEPT ![c] = {}]
    /\ \/ lock' = [lock EXCEPT ![c] = {}]
       \/ \E size : lock' = [lock EXCEPT ![c] = FreeRun(used[c], size)]

\* A client writes into its lock.
WroteInto(c) ==
    \E range \in SUBSET lock[c] :
       complete' = complete \cup range /\ wrote' = [wrote EXCEPT ![c] = @ \cup range]

\* Somebody writes where no lock is.
WroteFree == \E range : range \cap locked = {} /\ complete' = complete \cup range

\* What a step does to the complete bytes, the locks and what was written into
\* them: nothing, or one of these.
LEMMA CompleteStep ==
  ASSUME ~Careless, TInv, DInv, LInv, [Next]_vars, faults' = faults, ~Rehash
  PROVE  \/ UNCHANGED <<complete, lock, wrote>>
         \/ \E c \in Clients : Relocked(c) \/ (WroteInto(c) /\ UNCHANGED lock)
         \/ (WroteFree \/ Discarded) /\ UNCHANGED <<lock, wrote>>
<1>1. ASSUME NEW c \in Clients, Write(c)
      PROVE  WroteInto(c) /\ UNCHANGED lock
  <2>1. PICK range \in SUBSET lock[c] :
           /\ complete' = complete \cup range /\ wrote' = [wrote EXCEPT ![c] = @ \cup range]
           /\ UNCHANGED lock
    BY <1>1, WriteEffect
  <2>2. QED BY <2>1 DEF WroteInto
<1>2. CASE SafeWrite
  <2>1. PICK range : /\ range \cap locked = {} /\ complete' = complete \cup range
                     /\ UNCHANGED <<lock, wrote>>
    BY <1>2, SafeEffect
  <2>2. QED BY <2>1 DEF WroteFree
<1>3. CASE HandleHash
  BY <1>3, JudgeStep
<1>4. ASSUME NEW c \in Clients, GetLock(c) \/ Unlock(c) PROVE Relocked(c)
  <2>1. CASE GetLock(c)
    BY <2>1 DEF GetLock, lists, Relocked
  <2>2. CASE Unlock(c)
    BY <2>2 DEF Unlock, lists, Relocked
  <2>3. QED BY <1>4, <2>1, <2>2
<1>5. CASE \/ \E c \in Clients : GetRange(c) \/ Unuse(c)
           \/ RunJob \/ HandleAlloc \/ Command \/ SaveTimer \/ Skip \/ Finished
           \/ UNCHANGED vars
  <2>1. UNCHANGED complete
    BY <1>5, NoEffect
  <2>2. UNCHANGED <<lock, wrote>>
    <3>1. CASE \E c \in Clients : GetRange(c) \/ Unuse(c)
      BY <3>1 DEF GetRange, Unuse
    <3>2. CASE RunJob \/ HandleAlloc
      BY <3>2 DEF RunJob, HandleAlloc, locks
    <3>3. CASE Command \/ SaveTimer \/ Skip
      BY <3>3 DEF Command, SaveTimer, Skip, locks
    <3>4. CASE Finished \/ UNCHANGED vars
      BY <3>4 DEF Finished, vars, locks
    <3>5. QED BY <1>5, <3>1, <3>2, <3>3, <3>4
  <2>3. QED BY <2>1, <2>2
<1>6. ASSUME NEW c \in Clients, Write(c) \/ GetLock(c) \/ Unlock(c)
      PROVE  \E d \in Clients : Relocked(d) \/ (WroteInto(d) /\ UNCHANGED lock)
  <2>1. CASE Write(c)
    BY <1>1, <2>1
  <2>3. CASE GetLock(c) \/ Unlock(c)
    <3>1. Relocked(c)
      BY <1>4, <2>3
    <3>2. QED BY <3>1
  <2>4. QED BY <1>6, <2>1, <2>3
<1>7. \/ \E c \in Clients : Write(c) \/ GetLock(c) \/ Unlock(c)
      \/ SafeWrite \/ HandleHash
      \/ \E c \in Clients : GetRange(c) \/ Unuse(c)
      \/ RunJob \/ HandleAlloc \/ Command \/ SaveTimer \/ Skip \/ Finished
      \/ UNCHANGED vars
  BY DEF Next, Step
<1>8. QED BY <1>2, <1>3, <1>5, <1>6, <1>7

\* A lock is taken of bytes that are not complete, and only its own client
\* completes them.
LEMMA StepReserved ==
  ASSUME ~Careless
  PROVE  TInv /\ LInv /\ (Undisturbed => DInv) /\ (Undisturbed => LockReserved) /\ [Next]_vars
            => (Undisturbed => LockReserved)'
<1> SUFFICES ASSUME TInv, LInv, Undisturbed => DInv, Undisturbed => LockReserved, [Next]_vars,
                    Undisturbed'
             PROVE  LockReserved'
  OBVIOUS
<1>1. DInv /\ LockReserved /\ faults' = faults /\ ~Rehash
  BY StepQuiet
<1>2. /\ lock \in [Clients -> SUBSET Pos] /\ wrote \in [Clients -> SUBSET Pos]
      /\ \A c, d \in Clients : c # d => lock[c] \cap lock[d] = {}
      /\ \A c \in Clients : lock[c] \subseteq locked /\ lock[c] \cap complete \subseteq wrote[c]
  BY <1>1 DEF TInv, Rest, LockInv, LocksExclusive, LockReserved
<1>3. CASE UNCHANGED <<complete, lock, wrote>>
  BY <1>1, <1>3 DEF LockReserved
<1>4. ASSUME NEW c \in Clients, Relocked(c) PROVE LockReserved'
  <2>1. PICK free : free \cap complete = {} /\ lock' = [lock EXCEPT ![c] = free]
    BY <1>4 DEF Relocked, FreeRun, Blocked
  <2>2. wrote' = [wrote EXCEPT ![c] = {}] /\ complete' = complete
    BY <1>4 DEF Relocked
  <2>3. /\ lock'[c] = free
        /\ \A d \in Clients : d # c => lock'[d] = lock[d] /\ wrote'[d] = wrote[d]
    BY <1>2, <2>1, <2>2
  <2>4. QED BY <1>2, <2>1, <2>2, <2>3 DEF LockReserved
<1>5. ASSUME NEW c \in Clients, WroteInto(c), UNCHANGED lock PROVE LockReserved'
  <2>1. PICK range \in SUBSET lock[c] :
           complete' = complete \cup range /\ wrote' = [wrote EXCEPT ![c] = @ \cup range]
    BY <1>5 DEF WroteInto
  <2>2. /\ wrote'[c] = wrote[c] \cup range
        /\ \A d \in Clients : d # c => wrote'[d] = wrote[d] /\ lock[d] \cap range = {}
    BY <1>2, <2>1
  <2>3. QED BY <1>2, <1>5, <2>1, <2>2 DEF LockReserved
<1>6. CASE WroteFree /\ UNCHANGED <<lock, wrote>>
  BY <1>2, <1>6 DEF LockReserved, WroteFree
<1>7. CASE Discarded /\ UNCHANGED <<lock, wrote>>
  BY <1>2, <1>7 DEF LockReserved, Discarded
<1>8. QED BY <1>1, <1>3, <1>4, <1>5, <1>6, <1>7, CompleteStep

\* As long as no client writes in front of its lock, the disk has not failed and
\* nobody asked for a rehash, a byte that a client has locked is completed only
\* by that client.
THEOREM Reserved ==
  ASSUME ~Careless
  PROVE  Spec => [](Undisturbed => LockReserved)
<1> DEFINE J == TInv /\ LInv /\ (Undisturbed => DInv) /\ (Undisturbed => LockReserved)
<1>1. Init => J
  <2>1. Init => LInv /\ LockReserved
    BY DEF Init, LInv, LockReserved
  <2>2. QED BY <2>1, InitTInv, InitDInv
<1>2. J /\ [Next]_vars => J'
  <2> SUFFICES ASSUME J, [Next]_vars PROVE J'
    OBVIOUS
  <2>1. TInv' /\ LInv'
    BY StepTInv, StepLInv
  <2>2. (Undisturbed => DInv)'
    BY StepDInv
  <2>3. (Undisturbed => LockReserved)'
    BY StepReserved
  <2>4. QED BY <2>1, <2>2, <2>3
<1>3. J => (Undisturbed => LockReserved)
  OBVIOUS
<1>4. QED BY <1>1, <1>2, <1>3, PTL DEF Spec

-----------------------------------------------------------------------------
(* The chunk map and the range lists.                                        *)

\* The flags fl of the chunk map agree with the range lists.
Agree(fl, comp, ver) ==
    \A k \in Chunks :
       /\ fl[k].complete = (Points(k) \subseteq comp)
       /\ fl[k].verified = (Points(k) \subseteq ver)
       /\ ~fl[k].complete => fl[k].partial = (Points(k) \cap comp # {})

\* updateState() makes the flags agree.
LEMMA FreshAgrees ==
  ASSUME NEW comp, NEW ver, NEW k \in Chunks
  PROVE  LET f == Fresh(k, comp, ver)
         IN  /\ f.complete = (Points(k) \subseteq comp)
             /\ f.verified = (Points(k) \subseteq ver)
             /\ ~f.complete => f.partial = (Points(k) \cap comp # {})
BY DEF Fresh

\* Only the chunks that a write touches need an update.
LEMMA UpdatedAgrees ==
  ASSUME FlagsFresh, NEW range
  PROVE  Agree(Updated(range, complete \cup range, verified), complete \cup range, verified)
<1> DEFINE comp == complete \cup range
           flag == Updated(range, comp, verified)
<1> SUFFICES ASSUME NEW k \in Chunks
             PROVE  /\ flag[k].complete = (Points(k) \subseteq comp)
                    /\ flag[k].verified = (Points(k) \subseteq verified)
                    /\ ~flag[k].complete => flag[k].partial = (Points(k) \cap comp # {})
  BY DEF Agree
<1>1. flag[k] = IF k \in Touched(range) THEN Fresh(k, comp, verified) ELSE flags[k]
  BY DEF Updated
<1>2. CASE k \in Touched(range)
  BY <1>1, <1>2, FreshAgrees
<1>3. CASE k \notin Touched(range)
  <2>1. Points(k) \cap range = {} /\ flag[k] = flags[k]
    BY <1>1, <1>3 DEF Touched
  <2>2. /\ Points(k) \subseteq comp <=> Points(k) \subseteq complete
        /\ Points(k) \cap comp # {} <=> Points(k) \cap complete # {}
    BY <2>1
  <2> HIDE DEF comp, flag
  <2>3. QED BY <2>1, <2>2 DEF FlagsFresh
<1>4. QED BY <1>2, <1>3

\* A write into a lock marks a chunk partial that has at least the bytes of the
\* write.
LEMMA WriteFresh ==
  ASSUME ~Careless, TInv, LInv, FlagsFresh, NEW c \in Clients, Write(c)
  PROVE  FlagsFresh'
<1>1. PICK range \in SUBSET lock[c] :
            /\ range \subseteq Points(used[c]) /\ range # {} /\ used[c] \in Chunks
            /\ complete' = complete \cup range /\ verified' = verified
            /\ flags' = [Updated(range, complete \cup range, verified)
                            EXCEPT ![used[c]].partial = TRUE]
  BY WriteEffect
<1> DEFINE comp == complete \cup range
           flag == Updated(range, comp, verified)
<1>2. Agree(flag, comp, verified)
  BY UpdatedAgrees
<1>3. flag \in [Chunks -> [complete : BOOLEAN, partial : BOOLEAN, verified : BOOLEAN]]
  <2>1. flags \in [Chunks -> [complete : BOOLEAN, partial : BOOLEAN, verified : BOOLEAN]]
    BY DEF TInv, Rest
  <2>2. QED BY <2>1 DEF Updated, Fresh
<1>4. complete' = comp /\ verified' = verified /\ flags' = [flag EXCEPT ![used[c]].partial = TRUE]
  BY <1>1
<1> HIDE DEF flag
<1>5. ASSUME NEW k \in Chunks
      PROVE  /\ flags'[k].complete = flag[k].complete /\ flags'[k].verified = flag[k].verified
             /\ k # used[c] => flags'[k].partial = flag[k].partial
             /\ k = used[c] => flags'[k].partial = TRUE
  <2>1. flag[k] \in [complete : BOOLEAN, partial : BOOLEAN, verified : BOOLEAN]
    BY <1>3
  <2>2. flags'[k] = IF k = used[c] THEN [flag[k] EXCEPT !.partial = TRUE] ELSE flag[k]
    BY <1>1, <1>3, <1>4
  <2>3. CASE k = used[c]
    BY <2>1, <2>2, <2>3
  <2>4. CASE k # used[c]
    BY <2>2, <2>4
  <2>5. QED BY <2>3, <2>4
<1>6. Points(used[c]) \cap comp # {}
  BY <1>1
<1> HIDE DEF comp
<1>7. ASSUME NEW k \in Chunks
      PROVE  /\ flags'[k].complete = (Points(k) \subseteq complete')
             /\ flags'[k].verified = (Points(k) \subseteq verified')
             /\ ~flags'[k].complete => flags'[k].partial = (Points(k) \cap complete' # {})
  <2>1. /\ flag[k].complete = (Points(k) \subseteq comp)
        /\ flag[k].verified = (Points(k) \subseteq verified)
        /\ ~flag[k].complete => flag[k].partial = (Points(k) \cap comp # {})
    BY <1>2 DEF Agree
  <2>2. CASE k = used[c]
    BY <1>4, <1>5, <1>6, <2>1, <2>2
  <2>3. CASE k # used[c]
    BY <1>4, <1>5, <2>1, <2>3
  <2>4. QED BY <2>2, <2>3
<1>8. QED BY <1>7 DEF FlagsFresh

\* A verdict on a chunk changes the flags of that chunk and its positions.
LEMMA ChunkFresh ==
  ASSUME TInv, FlagsFresh, HandleHash, OnChunk(Head(hashEvents))
  PROVE  FlagsFresh'
<1> DEFINE k == Head(hashEvents).chunk
<1>1. /\ k \in Chunks
      /\ \/ /\ complete' = complete \cup Points(k) /\ verified' = verified \cup Points(k)
            /\ flags' = [flags EXCEPT ![k] =
                           [complete |-> TRUE, partial |-> FALSE, verified |-> TRUE]]
         \/ /\ complete' = complete \ Points(k) /\ verified' = verified \ Points(k)
            /\ flags' = [flags EXCEPT ![k] =
                           [complete |-> FALSE, partial |-> FALSE, verified |-> FALSE]]
         \/ UNCHANGED <<complete, verified, flags>>
  BY ChunkEffect
<1> HIDE DEF k
<1>2. DOMAIN flags = Chunks
  BY DEF TInv, Rest
<1>3. Points(k) # {} /\ \A j \in Chunks : j # k => Points(j) \cap Points(k) = {}
  BY <1>1, ChunkFacts
<1>4. ASSUME NEW j \in Chunks, j # k
      PROVE  /\ flags'[j] = flags[j]
             /\ Points(j) \subseteq complete' <=> Points(j) \subseteq complete
             /\ Points(j) \subseteq verified' <=> Points(j) \subseteq verified
             /\ Points(j) \cap complete' # {} <=> Points(j) \cap complete # {}
  <2>1. flags'[j] = flags[j]
    BY <1>1, <1>2, <1>4
  <2>2. \A x \in Points(j) : (x \in complete' <=> x \in complete)
                             /\ (x \in verified' <=> x \in verified)
    BY <1>1, <1>3, <1>4
  <2>3. QED BY <2>1, <2>2
<1>5. ASSUME NEW j \in Chunks, j # k
      PROVE  /\ flags'[j].complete = (Points(j) \subseteq complete')
             /\ flags'[j].verified = (Points(j) \subseteq verified')
             /\ ~flags'[j].complete => flags'[j].partial = (Points(j) \cap complete' # {})
  BY <1>4, <1>5 DEF FlagsFresh
<1>6. ASSUME ~UNCHANGED <<complete, verified, flags>>
      PROVE  /\ flags'[k].complete = (Points(k) \subseteq complete')
             /\ flags'[k].verified = (Points(k) \subseteq verified')
             /\ ~flags'[k].complete => flags'[k].partial = (Points(k) \cap complete' # {})
  <2>1. CASE /\ complete' = complete \cup Points(k) /\ verified' = verified \cup Points(k)
             /\ flags' = [flags EXCEPT ![k] =
                           [complete |-> TRUE, partial |-> FALSE, verified |-> TRUE]]
    <3>1. flags'[k] = [complete |-> TRUE, partial |-> FALSE, verified |-> TRUE]
      BY <1>1, <1>2, <2>1
    <3>2. Points(k) \subseteq complete' /\ Points(k) \subseteq verified'
      BY <2>1
    <3>3. flags'[k].complete = TRUE /\ flags'[k].verified = TRUE
      BY <3>1
    <3>4. QED BY <3>2, <3>3
  <2>2. CASE /\ complete' = complete \ Points(k) /\ verified' = verified \ Points(k)
             /\ flags' = [flags EXCEPT ![k] =
                           [complete |-> FALSE, partial |-> FALSE, verified |-> FALSE]]
    <3>1. flags'[k] = [complete |-> FALSE, partial |-> FALSE, verified |-> FALSE]
      BY <1>1, <1>2, <2>2
    <3>2. /\ ~(Points(k) \subseteq complete') /\ ~(Points(k) \subseteq verified')
          /\ Points(k) \cap complete' = {}
      BY <1>3, <2>2
    <3>3. /\ flags'[k].complete = FALSE /\ flags'[k].verified = FALSE
          /\ flags'[k].partial = FALSE
      BY <3>1
    <3>4. QED BY <3>2, <3>3
  <2>3. QED BY <1>1, <1>6, <2>1, <2>2
<1>7. CASE UNCHANGED <<complete, verified, flags>>
  BY <1>7 DEF FlagsFresh
<1>8. QED BY <1>1, <1>5, <1>6, <1>7 DEF FlagsFresh

\* The judgement on the whole file updates every chunk.
LEMMA FullFresh ==
  ASSUME FlagsFresh, HandleHash, OnFull(Head(hashEvents))
  PROVE  FlagsFresh'
<1>1. ASSUME NEW ok, complete' = ok, verified' = ok,
             flags' = [k \in Chunks |-> Fresh(k, ok, ok)]
      PROVE  FlagsFresh'
  <2>1. ASSUME NEW k \in Chunks PROVE flags'[k] = Fresh(k, ok, ok)
    BY <1>1
  <2>2. QED BY <1>1, <2>1, FreshAgrees DEF FlagsFresh
<1>2. ASSUME NEW good, NEW fault, Judge(good, fault) PROVE FlagsFresh'
  BY <1>1, <1>2 DEF Judge
<1>3. CASE UNCHANGED <<complete, verified, flags>>
  BY <1>3 DEF FlagsFresh
<1>4. \/ \E fault \in Faults : Judge(Head(hashEvents).good, fault)
      \/ complete' = {} /\ verified' = {} /\ flags' = [k \in Chunks |-> Fresh(k, {}, {})]
      \/ UNCHANGED <<complete, verified, flags>>
  BY DEF OnFull
<1>5. QED BY <1>1, <1>2, <1>3, <1>4

\* Every step but a rehash keeps the flags in agreement with the lists.
LEMMA StepFresh ==
  ASSUME ~Careless
  PROVE  TInv /\ LInv /\ (rehashes = 0 => FlagsFresh) /\ [Next]_vars
            => (rehashes = 0 => FlagsFresh)'
<1> SUFFICES ASSUME TInv, LInv, rehashes = 0 => FlagsFresh, [Next]_vars, rehashes' = 0
             PROVE  FlagsFresh'
  OBVIOUS
<1>1. FlagsFresh /\ ~Rehash
  <2>1. rehashes \in Nat
    BY DEF TInv, Rest
  <2>2. rehashes = 0
    BY <2>1, Counters
  <2>3. ~Rehash
    BY <2>1 DEF Rehash
  <2>4. QED BY <2>2, <2>3
<1>2. ASSUME NEW c \in Clients, Write(c) PROVE FlagsFresh'
  BY <1>1, <1>2, WriteFresh
<1>3. CASE SafeWrite
  <2>1. PICK range : /\ complete' = complete \cup range /\ verified' = verified
                     /\ flags' = Updated(range, complete \cup range, verified)
    BY <1>3, SafeEffect
  <2>2. Agree(Updated(range, complete \cup range, verified), complete \cup range, verified)
    BY <1>1, UpdatedAgrees
  <2>3. QED BY <2>1, <2>2 DEF Agree, FlagsFresh
<1>4. CASE HandleHash
  BY <1>1, <1>4, ChunkFresh, FullFresh DEF HandleHash
<1>5. CASE \/ \E c \in Clients : GetRange(c) \/ GetLock(c) \/ Unlock(c) \/ Unuse(c)
           \/ RunJob \/ HandleAlloc \/ Command \/ SaveTimer \/ Skip \/ Finished
           \/ UNCHANGED vars
  <2>1. UNCHANGED <<complete, verified, flags>>
    BY <1>5, NoEffect
  <2>2. QED BY <1>1, <2>1 DEF FlagsFresh
<1>6. QED BY <1>1, <1>2, <1>3, <1>4, <1>5 DEF Next, Step

\* As long as no client writes in front of its lock and nobody asked for a
\* rehash, the flags of each chunk say what the range lists say of it, whatever
\* the disk does.
THEOREM Flagged ==
  ASSUME ~Careless
  PROVE  Spec => [](rehashes = 0 => FlagsFresh)
<1> DEFINE J == TInv /\ LInv /\ (rehashes = 0 => FlagsFresh)
<1>1. Init => J
  <2>1. Init => LInv
    BY DEF Init, LInv
  <2>2. Init => FlagsFresh
    <3> SUFFICES ASSUME Init, NEW k \in Chunks
                 PROVE  /\ flags[k].complete = (Points(k) \subseteq complete)
                        /\ flags[k].verified = (Points(k) \subseteq verified)
                        /\ ~flags[k].complete => flags[k].partial = (Points(k) \cap complete # {})
      BY DEF FlagsFresh
    <3>1. flags[k] = [complete |-> FALSE, partial |-> FALSE, verified |-> FALSE]
      BY DEF Init
    <3>2. complete = {} /\ verified = {} /\ Points(k) # {}
      BY ChunkFacts DEF Init
    <3>3. flags[k].complete = FALSE /\ flags[k].verified = FALSE /\ flags[k].partial = FALSE
      BY <3>1
    <3>4. ~(Points(k) \subseteq complete) /\ ~(Points(k) \subseteq verified)
          /\ Points(k) \cap complete = {}
      BY <3>2
    <3>5. QED BY <3>3, <3>4
  <2>3. QED BY <2>1, <2>2, InitTInv
<1>2. J /\ [Next]_vars => J'
  <2> SUFFICES ASSUME J, [Next]_vars PROVE J'
    OBVIOUS
  <2>1. TInv' /\ LInv'
    BY StepTInv, StepLInv
  <2>2. (rehashes = 0 => FlagsFresh)'
    BY StepFresh
  <2>3. QED BY <2>1, <2>2
<1>3. J => (rehashes = 0 => FlagsFresh)
  OBVIOUS
<1>4. QED BY <1>1, <1>2, <1>3, PTL DEF Spec

-----------------------------------------------------------------------------
(* Downloads that nothing disturbs.                                          *)

\* Where the bounds allow no failure of the disk and no rehash there is none.
LEMMA NothingDisturbs ==
  ASSUME MaxFaults = 0, MaxRehash = 0
  PROVE  TInv /\ Undisturbed /\ [Next]_vars => Undisturbed'
<1> SUFFICES ASSUME TInv, Undisturbed, [Next]_vars PROVE Undisturbed'
  OBVIOUS
<1>1. ASSUME NEW f, Fault(f), CountFault(f) PROVE faults' = 0
  BY <1>1 DEF Undisturbed, Fault, CountFault, Count
<1>2. \/ \E f : Fault(f) /\ CountFault(f)
      \/ UNCHANGED faults
  <2>1. ASSUME NEW c \in Clients, GetRange(c) \/ GetLock(c) \/ Write(c) \/ Unlock(c) \/ Unuse(c)
        PROVE  (\E f : Fault(f) /\ CountFault(f)) \/ UNCHANGED faults
    <3>1. CASE Write(c)
      BY <3>1 DEF Write, DoWrite
    <3>2. CASE GetRange(c) \/ GetLock(c) \/ Unlock(c) \/ Unuse(c)
      BY <3>2 DEF GetRange, GetLock, Unlock, Unuse, counters
    <3>3. QED BY <2>1, <3>1, <3>2
  <2>2. CASE SafeWrite
    BY <2>2 DEF SafeWrite, DoWrite
  <2>8. CASE RunJob
    BY <2>8 DEF RunJob, RunAlloc, RunChunk, RunFull
  <2>3. CASE HandleAlloc
    <3>1. PICK f \in Faults : /\ IF Head(allocEvents) THEN Fault(f) ELSE f = None
                              /\ CountFault(f)
      BY <2>3 DEF HandleAlloc, OnAlloc
    <3>2. Fault(f)
      BY <3>1 DEF Fault
    <3>3. QED BY <3>1, <3>2
  <2>4. CASE HandleHash
    BY <2>4 DEF HandleHash, OnChunk, OnFull
  <2>5. CASE SaveTimer
    BY <2>5 DEF SaveTimer
  <2>6. CASE Command \/ Rehash \/ Skip \/ Finished \/ UNCHANGED vars
    BY <2>6 DEF Command, Rehash, Skip, Finished, vars, counters
  <2>7. QED BY <2>1, <2>2, <2>3, <2>4, <2>5, <2>6, <2>8 DEF Next, Step
<1>3. faults' = 0
  BY <1>1, <1>2 DEF Undisturbed
<1>4. ~Rehash
  BY DEF Rehash, Undisturbed
<1>5. rehashes' = 0
  BY <1>4, Counters DEF Undisturbed
<1>6. QED BY <1>3, <1>5 DEF Undisturbed

\* With those bounds the invariants hold of every download.
LEMMA Quiet ==
  ASSUME MaxFaults = 0, MaxRehash = 0
  PROVE  Spec => [](TInv /\ LInv /\ DInv /\ Undisturbed)
<1> DEFINE J == TInv /\ LInv /\ DInv /\ Undisturbed
<1>1. Init => J
  <2>1. Init => LInv /\ Undisturbed
    BY DEF Init, LInv, Undisturbed
  <2>2. QED BY <2>1, InitTInv, InitDInv
<1>2. J /\ [Next]_vars => J'
  <2> SUFFICES ASSUME J, [Next]_vars PROVE J'
    OBVIOUS
  <2>1. TInv' /\ LInv' /\ Undisturbed'
    BY StepTInv, StepLInv, NothingDisturbs
  <2>2. DInv'
    BY <2>1, StepDInv
  <2>3. QED BY <2>1, <2>2
<1>3. QED BY <1>1, <1>2, PTL DEF Spec

\* Only a chunk that was downloaded completely is given up for its hash.
THEOREM Progress ==
  ASSUME MaxFaults = 0, MaxRehash = 0
  PROVE  Spec => ProgressKept
<1>1. TInv /\ LInv /\ DInv /\ Undisturbed /\ (TInv /\ LInv /\ DInv /\ Undisturbed)' /\ [Next]_vars
        => [\A k \in Chunks : Points(k) \cap complete \subseteq complete'
                              \/ Points(k) \subseteq complete]_vars
  <2> SUFFICES ASSUME TInv, LInv, DInv, Undisturbed', [Next]_vars, NEW k \in Chunks
               PROVE  \/ Points(k) \cap complete \subseteq complete'
                      \/ Points(k) \subseteq complete
    OBVIOUS
  <2>1. faults' = faults /\ ~Rehash
    BY StepQuiet
  <2>2. complete \subseteq complete' \/ Discarded
    BY <2>1, GrowStep
  <2>3. ASSUME NEW j \in Chunks, Points(j) \subseteq complete, complete' = complete \ Points(j)
        PROVE  \/ Points(k) \cap complete \subseteq complete'
               \/ Points(k) \subseteq complete
    <3>1. k # j => Points(k) \cap Points(j) = {}
      BY ChunkFacts
    <3>2. QED BY <2>3, <3>1
  <2>4. QED BY <2>2, <2>3 DEF Discarded
<1>2. QED BY <1>1, Quiet, PTL DEF Spec, ProgressKept

\* onCompleted is emitted once, and after the last chunk hash is over.
THEOREM CompletedOnce ==
  ASSUME MaxFaults = 0, MaxRehash = 0
  PROVE  Spec => CompletedAfterChunks
<1>1. TInv /\ DInv /\ Undisturbed' /\ [Next]_vars
        => [completions' # completions => completions = 0 /\ pending' = 0]_vars
  <2> SUFFICES ASSUME TInv, DInv, Undisturbed', [Next]_vars, completions' # completions
               PROVE  completions = 0 /\ pending' = 0
    OBVIOUS
  <2>1. faults' = faults /\ ~Rehash
    BY StepQuiet
  <2>2. ASSUME NEW c \in Clients, Write(c) PROVE FALSE
    BY <2>2 DEF Write
  <2>3. CASE SafeWrite
    BY <2>3, SafeEffect
  <2>4. CASE HandleHash
    <3>1. CASE OnChunk(Head(hashEvents))
      BY <3>1 DEF OnChunk
    <3>2. CASE OnFull(Head(hashEvents))
      <4>1. completions = 0 /\ Settled(Store, complete) /\ Commit([Store EXCEPT !.fullJob = FALSE])
        BY <2>1, <2>4, <3>2, FullFacts
      <4>2. pending' = pending /\ pending = 0
        BY <4>1 DEF Settled, Store, Commit
      <4>3. QED BY <4>1, <4>2
    <3>3. QED BY <2>4, <3>1, <3>2 DEF HandleHash
  <2>5. CASE \/ \E c \in Clients : GetRange(c) \/ GetLock(c) \/ Unlock(c) \/ Unuse(c)
             \/ RunJob \/ HandleAlloc \/ Command \/ SaveTimer \/ Skip \/ Finished
             \/ UNCHANGED vars
    BY <2>5, NoEffect
  <2>6. QED BY <2>1, <2>2, <2>3, <2>4, <2>5 DEF Next, Step
<1>2. QED BY <1>1, Quiet, PTL DEF Spec, CompletedAfterChunks
=============================================================================
