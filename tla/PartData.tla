------------------------------ MODULE PartData ------------------------------
(***************************************************************************)
(* hncore/partdata.{h,cpp}: a download in progress.  Plugins ask it for    *)
(* chunks (UsedRange), lock sub-ranges of them (LockedRange) and write     *)
(* into the locks.  The main thread buffers the data, flushes it to disk,  *)
(* has the IO thread allocate the file and hash complete chunks, and after *)
(* a last rehash of the whole file announces its completion.               *)
(*                                                                         *)
(* A RangeList is the set of positions it covers (RangeList.tla relates    *)
(* the two).  The file has one chunk map; data is "good" when it is what   *)
(* the hashes expect.  The main thread runs one handler at a time, so a    *)
(* handler is a step; the IO thread runs one job at a time, in order.      *)
(***************************************************************************)
EXTENDS JobCount, FiniteSetsExt, TLC

CONSTANTS
    Size,         \* m_size
    ChunkSize,    \* m_size of the chunks
    HashKinds,    \* whether there may be a hash for every chunk, for none
    NoChunk,      \* a null UsedRangePtr
    Clients,      \* plugin objects that hold a UsedRange and a LockedRange
    BufLimit,     \* BUF_SIZE_LIMIT
    Careless,     \* whether a client may start a write before its lock
    MaxWrite,     \* bound: bytes of one write
    MaxBad,       \* bound: writes of bad data
    MaxFaults,    \* bound: failures of the disk
    MaxUser,      \* bound: commands of the user
    MaxRehash     \* bound: calls of rehashCompleted()

ASSUME PartDataAssumption ==
    /\ Size \in Nat \ {0}
    /\ ChunkSize \in Nat \ {0}
    /\ HashKinds \subseteq BOOLEAN /\ Careless \in BOOLEAN
    /\ MaxWrite \in Nat \ {0}
    /\ BufLimit \in Nat \ {0}

Pos    == 0 .. (Size - 1)
Chunks == 0 .. ((Size - 1) \div ChunkSize)
Points(k) == {p \in Pos : p \div ChunkSize = k}
None    == "none"
Data    == {"good", "bad"}

ASSUME NoChunkAssumption == NoChunk \notin Chunks

VARIABLES
    hashed,       \* MetaData has a hash for every chunk
    \* The range lists.
    complete, locked, corrupt, verified, dontDownload,
    flags,        \* [Chunks -> m_complete, m_partial and m_verified]
    partStatus,   \* the chunks that are true in m_partStatus
    \* The store.
    buffer,       \* m_buffer, [begin -> data]
    toFlush,      \* m_toFlush
    disk,         \* the temporary file, [Pos -> data]
    allocJob,     \* m_allocJob is set
    checks,       \* m_chunkChecks
    pending,      \* m_pendingHashes
    fullJob,      \* m_fullJob is set
    mode,         \* m_paused, m_stopped
    autoPaused,   \* m_autoPaused
    \* The surroundings.
    io,           \* jobs the IO thread has not run yet
    allocEvents,  \* results of AllocJob the main thread has not handled yet
    hashEvents,   \* the same of HashWork: every event table has its own queue
    used, lock,   \* the ranges that each client holds
    \* What an observer sees.
    wrote,        \* [Clients -> positions written in the present lock]
    latest,       \* [Pos -> the data last written there]
    completions,  \* emissions of onCompleted
    held,         \* the user paused or stopped the file, and nobody resumed it
    bads, faults, commands, rehashes

lists     == <<complete, corrupt, verified, dontDownload, flags, partStatus>>
store     == <<buffer, toFlush, disk, allocJob, checks, pending, fullJob, mode,
               autoPaused, io>>
locks     == <<locked, used, lock, wrote>>
events    == <<allocEvents, hashEvents>>
observed  == <<latest, completions, held>>
counters  == <<bads, faults, commands, rehashes>>
vars      == <<hashed, lists, store, locks, events, observed, counters>>

AllocJob    == [kind |-> "alloc"]
ChunkJob(k) == [kind |-> "chunk", chunk |-> k]
FullJob     == [kind |-> "full"]
Jobs == {AllocJob, FullJob} \cup {ChunkJob(k) : k \in Chunks}

HashResults ==
    [kind : {"chunk"}, chunk : Chunks, result : {"verified", "failed", "fatal"}]
    \cup [kind : {"full"}, result : {"complete", "fatal"}, size : 0..Size,
          good : SUBSET Chunks]

Faults == {None, "flush", "save"}   \* what goes wrong in save()

TypeOK ==
    /\ hashed \in BOOLEAN
    /\ complete \subseteq Pos /\ locked \subseteq Pos /\ verified \subseteq Pos
    /\ corrupt \subseteq Pos /\ dontDownload \subseteq Pos
    /\ flags \in [Chunks -> [complete : BOOLEAN, partial : BOOLEAN, verified : BOOLEAN]]
    /\ partStatus \subseteq Chunks
    /\ DOMAIN buffer \subseteq Pos /\ \A b \in DOMAIN buffer : buffer[b] \in Seq(Data)
    /\ toFlush \in Nat
    /\ disk \in [Pos -> Data \cup {None}]
    /\ allocJob \in BOOLEAN /\ fullJob \in BOOLEAN /\ autoPaused \in BOOLEAN
    /\ checks \in Seq(Jobs) /\ io \in Seq(Jobs)
    /\ pending \in Nat
    /\ mode \in {"running", "paused", "stopped"}
    /\ allocEvents \in Seq(BOOLEAN) /\ hashEvents \in Seq(HashResults)
    /\ used \in [Clients -> Chunks \cup {NoChunk}]
    /\ lock \in [Clients -> SUBSET Pos] /\ wrote \in [Clients -> SUBSET Pos]
    /\ latest \in [Pos -> Data \cup {None}]
    /\ held \in BOOLEAN
    /\ {completions, bads, faults, commands, rehashes} \subseteq Nat

Init ==
    /\ hashed \in HashKinds
    /\ complete = {} /\ locked = {} /\ corrupt = {} /\ verified = {} /\ dontDownload = {}
    /\ flags = [k \in Chunks |-> [complete |-> FALSE, partial |-> FALSE, verified |-> FALSE]]
    /\ partStatus = {}
    /\ buffer = <<>> /\ toFlush = 0 /\ disk = [p \in Pos |-> None]
    /\ allocJob = FALSE /\ fullJob = FALSE /\ checks = <<>> /\ pending = 0
    /\ mode = "running" /\ autoPaused = FALSE
    /\ io = <<>> /\ allocEvents = <<>> /\ hashEvents = <<>>
    /\ used = [c \in Clients |-> NoChunk] /\ lock = [c \in Clients |-> {}]
    /\ wrote = [c \in Clients |-> {}]
    /\ latest = [p \in Pos |-> None]
    /\ completions = 0 /\ held = FALSE
    /\ bads = 0 /\ faults = 0 /\ commands = 0 /\ rehashes = 0

-----------------------------------------------------------------------------
(* The store: what save(), verifyRange() and tryComplete() do to it, as      *)
(* functions of a record, for the handlers call them one after the other.    *)

Store ==
    [buffer |-> buffer, toFlush |-> toFlush, disk |-> disk, allocJob |-> allocJob,
     checks |-> checks, pending |-> pending, fullJob |-> fullJob, mode |-> mode,
     autoPaused |-> autoPaused, io |-> io]

Commit(s) ==
    /\ buffer' = s.buffer /\ toFlush' = s.toFlush /\ disk' = s.disk
    /\ allocJob' = s.allocJob /\ checks' = s.checks /\ pending' = s.pending
    /\ fullJob' = s.fullJob /\ mode' = s.mode /\ autoPaused' = s.autoPaused
    /\ io' = s.io

\* Utils::getFileSize(m_loc)
FileSize(d) == LET taken == {p \in Pos : d[p] # None}
                IN  IF taken = {} THEN 0 ELSE Max(taken) + 1

Covering(b, p) == {i \in DOMAIN b : i <= p /\ p < i + Len(b[i])}

\* The entries are written in the order of their offsets.
Written(b, d) ==
    [p \in Pos |-> IF Covering(b, p) = {} THEN d[p]
                   ELSE LET i == Max(Covering(b, p)) IN b[i][p - i + 1]]

MustAllocate(s) == s.toFlush > 0 /\ FileSize(s.disk) < Size

\* Mutation: the buffer is written while the file is allocated.
FlushDuringAlloc(s, fault) ==
    IF ~s.allocJob /\ MustAllocate(s)
    THEN [s EXCEPT !.allocJob = TRUE, !.io = Append(@, AllocJob)]
    ELSE IF fault = "flush" THEN s
    ELSE [s EXCEPT !.disk = Written(s.buffer, @), !.buffer = <<>>, !.toFlush = 0]

\* flushBuffer(); the fault "flush" is an exception it throws.
Flush(s, fault) ==
    IF s.allocJob THEN s
    ELSE IF MustAllocate(s) THEN [s EXCEPT !.allocJob = TRUE, !.io = Append(@, AllocJob)]
    ELSE IF fault = "flush" THEN s
    ELSE [s EXCEPT !.disk = Written(s.buffer, @), !.buffer = <<>>, !.toFlush = 0]

FlushThrows(s, fault) == fault = "flush" /\ ~s.allocJob /\ ~MustAllocate(s)

Resumed(s)    == [s EXCEPT !.mode = "running", !.autoPaused = FALSE]
AutoPaused(s) == [s EXCEPT !.mode = "paused", !.autoPaused = TRUE]

Save(s, fault) ==
    LET f == Flush(s, fault)
    IN  IF FlushThrows(s, fault) \/ fault = "save"
        THEN IF f.mode = "running" THEN AutoPaused(f) ELSE f
        ELSE IF f.autoPaused THEN Resumed(f) ELSE f

\* Mutation: m_pendingHashes does not count the jobs that are parked.
VerifyUncounted(s, ks) ==
    LET work == [i \in DOMAIN ks |-> ChunkJob(ks[i])]
    IN  IF s.allocJob THEN [s EXCEPT !.checks = @ \o work]
        ELSE [s EXCEPT !.io = @ \o work, !.pending = @ + Len(ks)]

\* Mutation: the jobs are not parked but forgotten during an allocation.
VerifyForgotten(s, ks) ==
    LET work == [i \in DOMAIN ks |-> ChunkJob(ks[i])]
    IN  IF s.allocJob THEN [s EXCEPT !.pending = @ + Len(ks)]
        ELSE [s EXCEPT !.io = @ \o work, !.pending = @ + Len(ks)]

\* verifyRange() for the chunks ks, after save().
Verify(s, ks) ==
    LET work == [i \in DOMAIN ks |-> ChunkJob(ks[i])]
    IN  IF s.allocJob THEN [s EXCEPT !.checks = @ \o work, !.pending = @ + Len(ks)]
        ELSE [s EXCEPT !.io = @ \o work, !.pending = @ + Len(ks)]

\* Mutation: the hash jobs in flight are not waited for.
CompleteEarly(s, comp, fault) ==
    IF comp = Pos /\ ~s.fullJob
    THEN LET t == Save(s, fault) IN [t EXCEPT !.io = Append(@, FullJob), !.fullJob = TRUE]
    ELSE s

\* Mutation: doComplete() does not save.
CompleteUnsaved(s, comp, fault) ==
    IF comp = Pos /\ ~s.fullJob /\ s.pending = 0
    THEN [s EXCEPT !.io = Append(@, FullJob), !.fullJob = TRUE]
    ELSE s

\* tryComplete() and doComplete(); no plugin vetoes the completion.
TryComplete(s, comp, fault) ==
    IF comp = Pos /\ ~s.fullJob /\ s.pending = 0
    THEN LET t == Save(s, fault) IN [t EXCEPT !.io = Append(@, FullJob), !.fullJob = TRUE]
    ELSE s

\* Mutation: the hash is posted before the data is written.
VerifyBeforeSave(s, ks, comp, fault) ==
    IF ks = <<>> THEN s
    ELSE IF hashed THEN Save(Verify(s, ks), fault)
    ELSE TryComplete(s, comp, fault)

\* Chunk::verify() of the chunks ks.
VerifyChunks(s, ks, comp, fault) ==
    IF ks = <<>> THEN s
    ELSE IF hashed THEN Verify(Save(s, fault), ks)
    ELSE TryComplete(s, comp, fault)

\* m_fullJob->cancel(): it goes if the IO thread has not run it yet.
CancelFull(s) ==
    [s EXCEPT !.io = IF s.fullJob THEN SelectSeq(@, LAMBDA j : j # FullJob) ELSE @,
              !.fullJob = FALSE]

-----------------------------------------------------------------------------
(* The chunk map.                                                            *)

Fresh(k, comp, ver) ==
    [complete |-> Points(k) \subseteq comp,
     partial  |-> Points(k) \cap comp # {} /\ ~(Points(k) \subseteq comp),
     verified |-> Points(k) \subseteq ver]

Touched(range) == {k \in Chunks : Points(k) \cap range # {}}

\* Mutation: the neighbours of the first chunk are not updated.
UpdatedFirst(range, comp, ver) ==
    [k \in Chunks |-> IF k = Min(Touched(range)) THEN Fresh(k, comp, ver) ELSE flags[k]]

\* updateState() of the touched chunks: all of them are found, for the chunks
\* of one map are neighbours in the index.
Updated(range, comp, ver) ==
    [k \in Chunks |-> IF k \in Touched(range) THEN Fresh(k, comp, ver) ELSE flags[k]]

\* Mutation: a chunk is hashed as soon as some of it is there.
ToVerifyPartial(ks, comp, ver) ==
    {k \in ks : Points(k) \cap comp # {} /\ ~(Points(k) \subseteq ver)}

\* The chunks that updateState() hashes.
ToVerify(ks, comp, ver) ==
    {k \in ks : Points(k) \subseteq comp /\ ~(Points(k) \subseteq ver)}

\* The chunks in the order of the index: the only element of this set.
InOrder(ks) ==
    {q \in [1..Cardinality(ks) -> ks] : \A i, j \in DOMAIN q : i < j => q[i] < q[j]}

Fault(f) == f = None \/ faults < MaxFaults
CountFault(f) == faults' = faults + Count(f # None)

-----------------------------------------------------------------------------
(* Chunks and locks.                                                         *)

Blocked == complete \cup locked \cup dontDownload

\* getRange(): which of the lockable chunks depends on the sources; the code
\* ranks them by use, by m_partial and by availability.
GetRange(c) ==
    /\ used[c] = NoChunk
    /\ \E k \in Chunks :
          /\ ~flags[k].complete
          /\ Points(k) \ Blocked # {}
          /\ used' = [used EXCEPT ![c] = k]
    /\ UNCHANGED <<lists, store, locked, lock, wrote, events, observed, counters>>

\* Mutation: only the complete positions are skipped.
FreeRunUnlocked(k, size) ==
    LET free == Points(k) \ complete
    IN  {p \in free : p < Min(free) + size /\ Min(free)..p \subseteq free}

\* The longest free range at the first free position of the chunk, at most size.
FreeRun(k, size) ==
    LET free == Points(k) \ Blocked
    IN  {p \in free : p < Min(free) + size /\ Min(free)..p \subseteq free}

\* UsedRange::getLock()
GetLock(c) ==
    /\ used[c] # NoChunk /\ lock[c] = {}
    /\ Points(used[c]) \ Blocked # {}
    /\ \E size \in 1..Size :
          /\ lock' = [lock EXCEPT ![c] = FreeRun(used[c], size)]
          /\ locked' = locked \cup FreeRun(used[c], size)
    /\ wrote' = [wrote EXCEPT ![c] = {}]
    /\ UNCHANGED <<lists, store, used, events, observed, counters>>

\* ~LockedRange()
Unlock(c) ==
    /\ lock[c] # {}
    /\ locked' = locked \ lock[c]
    /\ lock' = [lock EXCEPT ![c] = {}]
    /\ wrote' = [wrote EXCEPT ![c] = {}]
    /\ UNCHANGED <<lists, store, used, events, observed, counters>>

\* ~UsedRange(): a LockedRange keeps its UsedRange alive.
Unuse(c) ==
    /\ used[c] # NoChunk /\ lock[c] = {}
    /\ used' = [used EXCEPT ![c] = NoChunk]
    /\ UNCHANGED <<lists, store, locked, lock, wrote, events, observed, counters>>

-----------------------------------------------------------------------------
(* Writing.                                                                  *)

Buffered(s, begin, data) ==
    [s EXCEPT !.buffer = [b \in DOMAIN @ \cup {begin} |-> IF b = begin THEN data ELSE @[b]]]

\* doWrite() with the updates of the chunk map, for a range that the caller
\* checked.  m_toFlush grows only after a save() of a chunk that is complete.
DoWrite(range, data, fault, whole) ==
    LET comp     == complete \cup range
        After(t) == [t EXCEPT !.toFlush = @ + Len(data)]
        Full(t)  == IF t.toFlush >= BufLimit THEN Save(t, fault) ELSE t
        Ended(t) == IF whole THEN TryComplete(t, comp, fault) ELSE t
    IN  /\ mode = "running"
        /\ range \cap complete = {}
        /\ Fault(fault) /\ CountFault(fault)
        /\ complete' = comp
        /\ dontDownload' = dontDownload \ range
        /\ \E ks \in InOrder(ToVerify(Touched(range), comp, verified)) :
              Commit(Ended(Full(After(
                  VerifyChunks(Buffered(Store, Min(range), data), ks, comp, fault)))))
        /\ latest' = [p \in Pos |-> IF p \in range THEN data[p - Min(range) + 1]
                                    ELSE latest[p]]

Input(begin, n, d) ==
    /\ begin + n <= Size
    /\ bads + Count(d = "bad") <= MaxBad
    /\ bads' = bads + Count(d = "bad")

\* LockedRange::write() of a chunk, which marks the chunk partial.
Write(c) ==
    \E begin \in Pos, n \in 1..MaxWrite, d \in Data, fault \in Faults :
        LET range == begin..(begin + n - 1)
            flag  == Updated(range, complete \cup range, verified)
        IN  /\ lock[c] # {}
            /\ Careless \/ begin >= Min(lock[c])
            /\ begin <= Max(lock[c]) /\ begin + n - 1 <= Max(lock[c])
            /\ Input(begin, n, d)
            /\ DoWrite(range, [i \in 1..n |-> d], fault, FALSE)
            /\ flags' = [flag EXCEPT ![used[c]].partial = TRUE]
            /\ wrote' = [wrote EXCEPT ![c] = @ \cup range]
            /\ UNCHANGED <<corrupt, verified, partStatus, locked, used, lock, events,
                           completions, held, commands, rehashes>>

\* Mutation: PartData::write() does not look at the locks.
MayWriteLocked(range) == range \cap complete = {}

MayWrite(range) == range \cap locked = {} /\ range \cap complete = {}

\* PartData::write(), without a lock.
SafeWrite ==
    \E begin \in Pos, n \in 1..MaxWrite, d \in Data, fault \in Faults :
        LET range == begin..(begin + n - 1)
        IN  /\ MayWrite(range)
            /\ Input(begin, n, d)
            /\ DoWrite(range, [i \in 1..n |-> d], fault, TRUE)
            /\ flags' = Updated(range, complete \cup range, verified)
            /\ UNCHANGED <<corrupt, verified, partStatus, locks, events,
                           completions, held, commands, rehashes>>

-----------------------------------------------------------------------------
(* The IO thread.                                                            *)

Allocated(d) == [d EXCEPT ![Size - 1] = "bad"]   \* the byte it writes is "1"

\* Mutation: the last byte of a range is not hashed.
GoodButLast ==
    {k \in Chunks : \A p \in Points(k) \ {Max(Points(k))} : disk[p] = "good"}

\* The chunks for which HashWork::finish() finds the hash it was given.
GoodOnDisk == {k \in Chunks : \A p \in Points(k) : disk[p] = "good"}

RunAlloc ==
    /\ Head(io) = AllocJob
    /\ \E fault \in {None, "flush"} :
          /\ Fault(fault) /\ CountFault(fault)
          /\ disk' = IF fault = None THEN Allocated(disk) ELSE disk
          /\ allocEvents' = Append(allocEvents, fault = None)
    /\ UNCHANGED hashEvents

RunChunk ==
    /\ Head(io).kind = "chunk"
    /\ \E fault \in {None, "flush"} :
          /\ Fault(fault) /\ CountFault(fault)
          /\ hashEvents' = Append(hashEvents,
                [kind |-> "chunk", chunk |-> Head(io).chunk,
                 result |-> IF fault # None THEN "fatal"
                            ELSE IF Head(io).chunk \in GoodOnDisk THEN "verified"
                            ELSE "failed"])
    /\ UNCHANGED <<disk, allocEvents>>

RunFull ==
    /\ Head(io) = FullJob
    /\ \E fault \in {None, "flush"} :
          /\ Fault(fault) /\ CountFault(fault)
          /\ hashEvents' = Append(hashEvents,
                [kind |-> "full", size |-> FileSize(disk), good |-> GoodOnDisk,
                 result |-> IF fault = None THEN "complete" ELSE "fatal"])
    /\ UNCHANGED <<disk, allocEvents>>

\* ThreadWork::process() of the next job; the result is an event.
RunJob ==
    /\ io # <<>>
    /\ RunAlloc \/ RunChunk \/ RunFull
    /\ io' = Tail(io)
    /\ UNCHANGED <<lists, buffer, toFlush, allocJob, checks, pending, fullJob, mode,
                   autoPaused, locks, observed, bads, commands, rehashes>>

-----------------------------------------------------------------------------
(* The main thread handles the results.                                      *)

\* allocDone()
OnAlloc(ok) ==
    /\ \E fault \in Faults :
          LET s0 == [Store EXCEPT !.allocJob = FALSE]
              s1 == IF mode = "paused" /\ autoPaused THEN Resumed(s0) ELSE s0
              s2 == Save(s1, fault)
          IN  /\ IF ok THEN Fault(fault) ELSE fault = None
              /\ CountFault(fault)
              /\ Commit(IF ok
                        THEN [s2 EXCEPT !.io = @ \o checks, !.checks = <<>>]
                        ELSE AutoPaused(s0))
    /\ UNCHANGED <<lists, completions>>

RangeOf(k) == Points(k)

\* Chunk::onHashEvent(); a failure is corruption() of the chunk.
OnChunk(e) ==
    /\ e.kind = "chunk"
    /\ \E fault \in Faults :
          LET k    == e.chunk
              comp == CASE e.result = "verified" -> complete \cup Points(k)
                        [] e.result = "failed"   -> complete \ RangeOf(k)
                        [] OTHER                 -> complete
              s0   == IF e.result = "failed" THEN CancelFull(Store) ELSE Store
              s1   == [s0 EXCEPT !.pending = @ - 1]
          IN  /\ Fault(fault) /\ CountFault(fault)
              /\ complete' = comp
              /\ Commit(TryComplete(s1, comp, fault))
    /\ CASE e.result = "verified" ->
              /\ verified' = verified \cup Points(e.chunk)
              /\ flags' = [flags EXCEPT ![e.chunk] =
                    [complete |-> TRUE, partial |-> FALSE, verified |-> TRUE]]
              /\ partStatus' = partStatus \cup {e.chunk}
              /\ UNCHANGED corrupt
         [] e.result = "failed" ->
              /\ verified' = verified \ RangeOf(e.chunk)
              /\ corrupt' = corrupt \cup RangeOf(e.chunk)
              /\ flags' = [flags EXCEPT ![e.chunk] =
                    [complete |-> FALSE, partial |-> FALSE, verified |-> FALSE]]
              /\ partStatus' = partStatus \ {e.chunk}
         [] OTHER -> UNCHANGED <<verified, corrupt, flags, partStatus>>
    /\ UNCHANGED <<dontDownload, completions>>

\* The chunks that verifyHashSet() has hashed again: setVerified() and
\* corruption() reach one byte into the next chunk (beg + getChunkSize()), so
\* that chunk is updated before its own turn.
ReachedEarly(good) ==
    ToVerify({k \in Chunks : k > 0 /\ (k - 1) \in good}, complete, verified)

\* onHashEvent() of the whole file, with the chunks whose hashes agree.  The
\* chunks are done in order, so each one ends as its own hash says.
Judge(good, fault) ==
    LET ok == UNION {Points(k) : k \in good}
    IN  /\ complete' = ok /\ verified' = ok
        /\ corrupt' = (corrupt \cup Pos) \ ok
        /\ flags' = [k \in Chunks |-> Fresh(k, ok, ok)]
        /\ \E ks \in InOrder(ReachedEarly(good)) :
              Commit(VerifyChunks([Store EXCEPT !.fullJob = FALSE], ks, ok, fault))
        /\ completions' = completions + Count(ok = Pos)

OnFull(e) ==
    /\ e.kind = "full"
    /\ \E fault \in Faults :
          /\ Fault(fault) /\ CountFault(fault)
          /\ IF e.result = "complete" /\ e.size = Size /\ hashed
             THEN Judge(e.good, fault)
             ELSE /\ fault = None
                  /\ Commit([Store EXCEPT !.fullJob = FALSE])
                  /\ IF e.result = "complete" /\ e.size # Size
                     THEN /\ complete' = {} /\ verified' = {} /\ corrupt' = Pos
                          /\ flags' = [k \in Chunks |-> Fresh(k, {}, {})]
                          /\ UNCHANGED completions
                     ELSE /\ completions' = completions
                                + Count(e.result = "complete" /\ complete = Pos)
                          /\ UNCHANGED <<complete, verified, corrupt, flags>>
    /\ UNCHANGED <<dontDownload, partStatus>>

\* EventTable::process(): each table in the order of its posts, but the tables
\* in turn, so that a result may overtake one of the other table.
HandleAlloc ==
    /\ allocEvents # <<>>
    /\ allocEvents' = Tail(allocEvents)
    /\ OnAlloc(Head(allocEvents))
    /\ UNCHANGED <<hashEvents, locks, latest, held, bads, commands, rehashes>>

HandleHash ==
    /\ hashEvents # <<>>
    /\ hashEvents' = Tail(hashEvents)
    /\ OnChunk(Head(hashEvents)) \/ OnFull(Head(hashEvents))
    /\ UNCHANGED <<allocEvents, locks, latest, held, bads, commands, rehashes>>

-----------------------------------------------------------------------------
(* The user, the plugins and FilesList.                                      *)

Pause ==
    /\ commands < MaxUser /\ commands' = commands + 1
    /\ mode # "paused"
    /\ mode' = "paused" /\ held' = TRUE
    /\ UNCHANGED autoPaused

Stop ==
    /\ commands < MaxUser /\ commands' = commands + 1
    /\ mode # "stopped"
    /\ mode' = "stopped" /\ held' = TRUE
    /\ UNCHANGED autoPaused

Resume ==
    /\ mode # "running"
    /\ mode' = "running" /\ autoPaused' = FALSE /\ held' = FALSE
    /\ UNCHANGED commands

Command ==
    /\ Pause \/ Stop \/ Resume
    /\ UNCHANGED <<lists, buffer, toFlush, disk, allocJob, checks, pending, fullJob,
                   io, locks, events, latest, completions, bads, faults, rehashes>>

\* FilesList::savePartFiles(), from a timer.
SaveTimer ==
    /\ buffer # <<>>
    /\ \E fault \in Faults :
          /\ Fault(fault) /\ CountFault(fault)
          /\ Commit(Save(Store, fault))
    /\ UNCHANGED <<lists, locks, events, observed, bads, commands, rehashes>>

\* rehashCompleted(), from SharedFile::read() or a shell command.
Rehash ==
    /\ rehashes < MaxRehash /\ rehashes' = rehashes + 1
    /\ hashed
    /\ flags' = [k \in Chunks |-> [complete |-> TRUE, partial |-> FALSE,
                                   verified |-> FALSE]]
    /\ \E ks \in InOrder(Chunks) : Commit(Verify(Store, ks))
    /\ UNCHANGED <<complete, corrupt, verified, dontDownload, partStatus, locks,
                   events, observed, bads, faults, commands>>

\* dontDownload() and doDownload() of a chunk, as a multi-file torrent does.
Skip ==
    /\ \E k \in Chunks :
          \/ /\ commands < MaxUser /\ commands' = commands + 1
             /\ dontDownload' = dontDownload \cup Points(k)
          \/ /\ Points(k) \cap dontDownload # {}
             /\ dontDownload' = dontDownload \ Points(k)
             /\ UNCHANGED commands
    /\ UNCHANGED <<complete, corrupt, verified, flags, partStatus, store, locks,
                   events, observed, bads, faults, rehashes>>

\* The download is over; SharedFile takes the file away.
Finished ==
    /\ completions > 0 /\ io = <<>> /\ allocEvents = <<>> /\ hashEvents = <<>>
    /\ UNCHANGED vars

Step ==
    \/ \E c \in Clients : GetRange(c) \/ GetLock(c) \/ Write(c) \/ Unlock(c) \/ Unuse(c)
    \/ SafeWrite
    \/ RunJob
    \/ HandleAlloc \/ HandleHash
    \/ Command
    \/ SaveTimer
    \/ Rehash
    \/ Skip
    \/ Finished

Next == Step /\ UNCHANGED hashed

Spec == Init /\ [][Next]_vars

-----------------------------------------------------------------------------
(* Properties.                                                               *)

\* Two clients never hold locks on the same byte, and m_locked, which the
\* locks enter and leave one by one, is exactly what they hold: no lock is
\* lost to another one's destructor and none stays behind.
LocksExclusive ==
    /\ \A c, d \in Clients : c # d => lock[c] \cap lock[d] = {}
    /\ locked = UNION {lock[c] : c \in Clients}

\* Nobody completes the bytes a client has locked but the client itself, so
\* a write into a lock is never refused as already complete.
LockReserved == \A c \in Clients : lock[c] \cap complete \subseteq wrote[c]

\* m_pendingHashes counts the chunk hashes that wait for the allocation, for
\* the IO thread or for the main thread: the final rehash starts neither
\* before the last of them nor never.
PendingExact == pending = JobsOf("chunk", checks) + JobsOf("chunk", io) + JobsOf("chunk", hashEvents)

\* m_allocJob is set as long as one allocation is under way, and chunk hashes
\* are parked only for it or for the next attempt.
AllocExact == JobsOf("alloc", io) + Len(allocEvents) = Count(allocJob)

\* m_fullJob is set exactly as long as a final rehash, and only one, is under
\* way.
FullJobExact == JobsOf("full", io) + JobsOf("full", hashEvents) = Count(fullJob)

\* What the main thread believes of the jobs it has given away is so: each one is
\* counted from the call that posts it to the event that ends it.
WorkCounted == PendingExact /\ AllocExact /\ FullJobExact

\* What the disk and the buffer together hold at a complete byte is what was
\* last written there: no flush, allocation or older entry of the buffer
\* overwrites it.
NothingLost == \A p \in complete : Written(buffer, disk)[p] = latest[p]

\* A range is in m_verified only while its data is what the hash expects.
VerifiedIsGood == \A p \in verified : Written(buffer, disk)[p] = "good"

\* A verdict that waits to be handled is still right about the chunk it is applied
\* to: the chunk is complete, nothing of it was discarded or written again since it
\* was hashed, and what was hashed is its data and not an older state of the file.
VerdictsCurrent ==
    \A i \in DOMAIN hashEvents :
        LET e == hashEvents[i]
        IN  e.kind = "chunk" =>
              /\ Points(e.chunk) \subseteq complete
              /\ e.result = "verified"
                    <=> \A p \in Points(e.chunk) : Written(buffer, disk)[p] = "good"

\* onCompleted is emitted for a file that is wholly on disk.
CompletedOnDisk == completions > 0 => \A p \in Pos : disk[p] = latest[p]

\* When onCompleted is emitted no byte is lost: what is not on disk yet is in
\* the buffer, an allocation is under way whose result flushes the buffer, and
\* if there are hashes they agree with what is on disk.
CompletedKept ==
    completions > 0 =>
        /\ \A p \in Pos : Written(buffer, disk)[p] = latest[p]
        /\ buffer # <<>> => allocJob
        /\ hashed => \A p \in Pos : disk[p] = "good"

\* onCompleted, on which SharedFile moves the file away, is emitted once, and
\* after the last chunk hash is over.
CompletedAfterChunks ==
    [][completions' # completions => completions = 0 /\ pending' = 0]_vars

\* The chunk's flags agree with the range lists whenever no handler runs; the
\* exception is m_partial, which a write sets after the chunk is complete.
FlagsFresh ==
    \A k \in Chunks :
        /\ flags[k].complete = (Points(k) \subseteq complete)
        /\ flags[k].verified = (Points(k) \subseteq verified)
        /\ ~flags[k].complete => flags[k].partial = (Points(k) \cap complete # {})

\* A file that the user paused or stopped runs again only when told to.
UserHolds == held => mode # "running"

\* Only a chunk that was downloaded completely is discarded for its hash.
ProgressKept ==
    [][\A k \in Chunks : Points(k) \cap complete \subseteq complete'
                         \/ Points(k) \subseteq complete]_vars

\* The two threads run, a download that was paused or skipped in part is taken
\* up again, and the clients keep at it: one that can get a chunk, a lock or
\* data for its lock again and again does get it, and gives up what leads
\* nowhere.
Fairness ==
    /\ WF_vars(RunJob /\ UNCHANGED hashed)
    /\ WF_vars(HandleAlloc /\ UNCHANGED hashed)
    /\ WF_vars(HandleHash /\ UNCHANGED hashed)
    /\ WF_vars(Command /\ mode' = "running" /\ UNCHANGED hashed)
    /\ WF_vars(Skip /\ dontDownload' = {} /\ UNCHANGED hashed)
    /\ \A c \in Clients :
          /\ SF_vars(GetRange(c) /\ UNCHANGED hashed)
          /\ SF_vars(GetLock(c) /\ UNCHANGED hashed)
          /\ SF_vars(Write(c) /\ UNCHANGED hashed)
          /\ WF_vars(Unuse(c) /\ Points(used[c]) \subseteq Blocked /\ UNCHANGED hashed)
          /\ WF_vars(Unlock(c) /\ lock[c] \subseteq complete /\ UNCHANGED hashed)

LiveSpec == Spec /\ Fairness

\* A download whose clients keep downloading is completed in the end: no hash
\* result, allocation or completion is waited for that never comes.
Completes == <>(completions > 0)
=============================================================================
