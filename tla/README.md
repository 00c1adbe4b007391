# A TLA+ verification of hydranode's core

Hydranode is a download client core in C++ with plugins for eDonkey2000,
BitTorrent, HTTP, FTP and others. This directory holds TLA+ modules of the parts
where its own logic is: what happens to the data between a plugin that received
it and the finished, shared file; the machinery below (worker threads, event
tables, sockets and their scheduler, range lists); and the clients of the two largest
plugins, with their slots, queues and requests. Every module is translated from the source; the
file `PROJECT.json` names the lines of every definition.

- `hnbase/` is the library: ranges, event tables, sockets and their scheduler,
  worker threads, hashes, configuration.
- `hncore/` is the application: `PartData` (a download), `SharedFile` (a file we
  share), `FilesList`, `MetaDb`, clients, search, modules; its subdirectories are
  the plugins. `hngui`, `launcher`, `utils`, `extra` are beside the core.

Contents:

1. [Inventory](#1-inventory)
2. [Hard behaviours](#2-hard-behaviours)
3. [Modules and the code](#3-modules-and-the-code)
4. [Runs](#4-runs)
5. [Proofs](#5-proofs)
6. [Disagreements](#6-disagreements)
7. [Not modelled](#7-not-modelled)
8. [Plan](#8-plan)

To repeat: `tlc -config PartData.cfg MCPartData.tla`, and so on for each `.cfg`
of section 4; `tlapm PartData_proofs.tla` for the proofs.

## 1. Inventory

One process with a main thread and a few worker threads. The main thread runs
`EventMain::process()` in a loop: it drains the event tables one after another
(posting order within a table), then deletes what `safeDelete()` marked, then
waits for sockets and timers. Everything but the workers' `process()` runs in the
main thread, so a handler is atomic with respect to other handlers. The workers
talk back only by posting events.

| Component | State | Operations | Interacts with | What makes it correct |
|---|---|---|---|---|
| `WorkThread`, `IOThread` (`hnbase/workthread.*`, `hncore/iothread.*`) | queue of jobs, `m_exiting`, `m_running`, `m_pauserCount`, the job in hand | `postWork`, `threadLoop`, `Pauser`, `exit`, `join`; `cancel`, `isComplete` of jobs | everything that hashes, allocates or moves files; results come back as events | jobs in order, one at a time, none left behind, at most one result; pausing and cancelling take effect; the destructor returns |
| Jobs: `HashWork`, `AllocJob`, `MoveWork` | the file, the position in it, `m_valid`, `m_complete` | `process` (one buffer), `finish`, `cancel`, `invalidate` | post `HashEvent`, `bool`, `MoveEvent` | the answer is about the data on disk at the time |
| `Range`, `RangeList` (`hnbase/range.h`, `rangelist.h`) | a multiset of closed ranges ordered by their middle | `merge`, `erase`, `push`, `remove`, look-ups | `PartData`'s five lists, the IP filter, torrents | covers exactly what was merged and not erased, with the fewest ranges, and look-ups miss nothing |
| `PartData` (`hncore/partdata.*`) | `m_complete`, `m_locked`, `m_verified`, `m_corrupt`, `m_dontDownload`, the chunk map, the write buffer, the temporary file, flags of jobs under way, paused/stopped | `getRange`, `getLock`, `write`, `save`, `flushBuffer`, `verifyRange`, `allocDone`, `onHashEvent`, `tryComplete`, `rehashCompleted`, `pause`, `stop`, `resume`, `cancel`, `dontDownload` | clients (locks), the IO thread (jobs, events), `SharedFile` (events), `FilesList` (saves) | no byte is lost or downloaded by two; bad chunks are found and fetched again; completion is announced once, after all hashes, with the file on disk |
| `SharedFile` (`hncore/sharedfile.*`) | `m_partData`, `m_location`, `m_moveWork`, connections | `onPartEvent`, `finishDownload`, `onMoveEvent`, `read`, `verify`, `destroy` | `PartData`, `MoveWork`, `FilesList` | a finished download arrives as a whole at its destination, replaces nothing, survives failures and restarts; nobody uses a deleted object |
| `FilesList` (`hncore/fileslist.*`) | the shared files, directories, indexes | `createDownload`, `loadTempFile`, scans, periodic save, event handler | both of the above | a `.dat` file is loaded once and leaves with its file |
| A download on disk (`PartData::save()`, `Hydranode::cleanUp()`, `scanTempDir()`) | the data file, `.dat`, `.dat.bak`, `.dat_`, `.dat.bak_` | the nine steps of `save()`, exit, start | `FilesList`, the IO thread | what was saved survives a crash; no description claims data that was never there |
| Event tables (`hnbase/event*.{h,cpp}`, `timed_callback.h`) | per type: pending and delayed events, handlers, objects to delete | `postEvent`, `addHandler`, `process`, `safeDelete`, `checkDelete`, `waitForEvent` | everything | no event is lost, delivered twice or out of order; an object is not used after its deletion |
| Sockets (`hnbase/sockets.*`) | a TCP socket's stage, data that waits, the watched sockets, the events of a round | `connect`, `read`, `write`, `disconnect`, `destroy`, `SocketWatcher::process` | the scheduler | every socket is told what became of it, none after its deletion |
| Scheduler (`hnbase/schedbase.*`, `scheduler.h`, `ssocket.h`) | requests by the address of a socket, `m_connCnt`, `m_connectingCnt`, wrappers, rate limits | `process` in three rounds, requests that are made, revived, invalidated, dropped; `addSocket`, `connect`, `accept`, `disconnect`, `delSocket` | plugins (calls, notifications), `SocketWatcher` (events) | limits hold and their slots come back; no data is stranded without a request |
| `MetaData`, `MetaDb` | names, sizes, hash sets and indexes | look-ups, updates | hashing, searches | indexes agree |
| eDonkey2000 clients (`hncore/ed2k`: `clients.*`, `clientext.*`, `clientlist.*`, `downloadlist.*`) | per client: socket, source, download, queue and upload parts; upload slots, queue; a download's sources | packets, UDP datagrams, timers, `SF`/`PD` events | sockets, `PartData`, `SharedFile`, the server (callbacks) | a client lives while it has a purpose and no longer; slots and queue hold living clients |
| BitTorrent clients (`hncore/bt`: `client.*`, `torrent.*`) | per client: socket, what the peer has, who chokes whom, requests out and in; a torrent's shared requests | packets, `sendRequests`, `onVerified`, `onDestroyed`, time-outs | `PartData` (ranges, locks, signals), the remote peers | each request is answered or given up; who may ask does; nothing stays locked for a peer that does not send |
| Other plugins (`http`, `ftp`, `cgcomm`, `hnsh`, ...; the servers and packets of `ed2k`, the trackers of `bt`) | sources, sessions, queues | protocols | call `PartData` and `SharedFile` as above | per protocol |
| Hash transforms, configuration, logging, utilities | - | sequential | - | test vectors in the repository |

## 2. Hard behaviours

The list in `PROJECT.json` ("hazards") has each at its line, with the properties
that look for it. In groups:

- **Two threads.** The worker between the look at a flag and the wait on the
  condition; a pause or a cancel in the middle of a pass; a job that is cancelled after
  the worker decided on its next pass, or while a pause keeps it aside.
- **Answers that come late.** Hash results apply to a chunk that has changed
  since; `AllocJob` and `HashWork` report through different tables, so the later
  answer may be handled first; a download is cancelled while it is moved.
- **Three queues of the same work.** Chunk hashes wait in `m_chunkChecks` (for an
  allocation), in the IO thread and in the event table; the last rehash starts
  when a counter says none is left.
- **Disk failures and crashes.** A flush that fails, a disk that is full (the
  download is paused and resumed by itself), a copy that breaks off, a program
  that dies between the rename and the deletion of the `.dat` file.
- **Lifetimes.** Two objects that delete each other through event tables whose
  order is the order of their first use.
- **Addresses as names.** Requests, wrappers and events name a socket by its
  address, which the next socket may get; the eDonkey slots and queue hold plain
  pointers to clients.
- **Edges that are not repeated.** `select()` is not asked again for a socket
  whose data was not read: a lost request strands it. A wait for a notification
  forgets those that came before it.
- **Files replaced in steps.** `save()` does nine things to four files, and any
  of them may fail or be the last.
- **Caches.** The flags of chunks against the range lists; `m_partStatus`; a list
  ordered by middles and used as if ordered by begins.
- **Counts without owners.** A chunk's availability is raised and lowered by clients, and nothing says
  that what one takes away is what it added.
- **Requests without numbers.** A BitTorrent answer belongs to the first request that waits,
  whatever was choked, cancelled or answered late in between; at the end of a torrent
  clients hold the same lock, and find it through weak pointers.
- **Ends of types.** Ranges that reach the largest value of the integer type.

## 3. Modules and the code

| Module | Stands for | EXTENDS / composes |
|---|---|---|
| `JobQueue` | what the rest of the program may rely on of a worker thread (abstract) | |
| `WorkThread` | `hnbase/workthread.{h,cpp}`, `hncore/hasher.*` as its client | implements `JobQueue` |
| `Range` | `hnbase/range.h` | |
| `RangeList` | `hnbase/rangelist.h` | `Range` |
| `JobCount` | counting the jobs of a kind in a queue | |
| `PartData` | `hncore/partdata.*` with the IO thread and `FilesList`'s save timer | `JobCount` |
| `SharedFile` | `hncore/sharedfile.*` with `MoveWork`, the end of `PartData`, `loadTempFile()` and three event tables | |
| `PartDataStore` | `PartData::save()`, `flushBuffer()`, `Hydranode::cleanUp()`, `scanTempDir()` on the files of one download | |
| `Mailbox` | what the rest of the program may rely on of the event tables (abstract) | |
| `EventTable` | `hnbase/event.h`, `eventbase.cpp`, `timed_callback.h` | implements `Mailbox` |
| `Sockets` | `hnbase/sockets.{h,cpp}`: a TCP socket, the socket watcher | |
| `Scheduler` | `hnbase/scheduler.h`, `schedbase.*`, `ssocket.h` | `Sockets` |
| `DonkeyClients` | `hncore/ed2k/clients.*`, `clientext.*`, `clientlist.*`, `downloadlist.*` | |
| `Torrent` | `hncore/bt/client.cpp`, `torrent.cpp`: the download of a torrent, with its remote peers | |
| `MC*` | the instances for TLC | |
| `*_proofs` | theorems | the modules they are about |

### WorkThread

A step is a critical section of one of the two mutexes. `pc` walks through
`threadLoop()`: "check" (`checkExit()`), "fetch" (the look into the queue and the
wait under `m_notifyLock`, hence one step), "test" (is the job wanted),
"askRunning", "process", "answered" (the event is posted, `setComplete()` is
not called yet), "pauseLock" (between `isRunning()` and the wait: two locks), and
"sleep" / "pausedSleep" (the two waits). `SpuriousWakeup` is a return of a wait
without a notification. The main thread's calls are `PostWork`, `Cancel`,
`Invalidate`, `PauserBegin`, `PauserEnd` with `ResumeNotify` (`resume()` sets the
flag under one lock and takes the other to notify), `Exit` and `Join`. A pass of
`process()` ends with more to do, an answer, or an exception. `m_valid` exists
twice, as in the code: in `ThreadWork` (read by the worker) and in `HashWork`
(written by `invalidate()`). `limit` is what the first cancel leaves a job: the passes
it has made, and one more if the worker is past the test of `m_valid` with it
(`DecidedOn`); `CancelHolds` says that it makes no others.

The mapping to `JobQueue`: `waiting <- queue`, `active <- wrk`, `worked` the jobs
with a pass, `answers <- results`.

### Range and RangeList

`Range` is arithmetic modulo the size of the type. `RangeList` keeps the multiset
as a sequence; `lower_bound`, `insert` and `find` use the order by middles, with
`find` free among equivalent elements. The loops of `merge()` and `erase()` are
recursive functions of the number of passes (`MergePass`, `ErasePass`), taken at the
length of the list, which is as many as a loop can need: a pass that finds nothing changes
nothing. Two uses of the class exist and no list
mixes them: `merge`/`erase` and `push`/`remove`. `points` is what the list ought to
cover. `PartData` uses the sets of positions instead of the lists; `Exact` and
`LookupsExact` are what allows that.

### PartData

The main thread's handlers are one step each. The data that the store consists
of (`buffer`, `toFlush`, `disk`, `allocJob`, `checks`, `pending`, `fullJob`, `mode`,
`autoPaused`, `io`) is a record in the operators `Flush`, `Save`, `Verify`,
`TryComplete`, `VerifyChunks`, because handlers call these functions one after the
other, each on what the last left: `Commit` assigns the result.

| Code | Action |
|---|---|
| `getRange()`, `UsedRange::getLock()`, `LockedRange::write()`, the two destructors | `GetRange`, `GetLock`, `Write`, `Unlock`, `Unuse` |
| `PartData::write()` without a lock | `SafeWrite` |
| a job's `process()` in the IO thread | `RunJob` (`RunAlloc`, `RunChunk`, `RunFull`) |
| `allocDone()` | `HandleAlloc` |
| `Chunk::onHashEvent()`, `PartData::onHashEvent()`, `verifyHashSet()` | `HandleHash` (`OnChunk`, `OnFull`, `Judge`) |
| `pause()`, `stop()`, `resume()` | `Command` |
| `FilesList::savePartFiles()` | `SaveTimer` |
| `rehashCompleted()` | `Rehash` |
| `dontDownload()`, `doDownload()` | `Skip` |

Data is "good" (what the hashes expect) or "bad". A lock is any initial part of
the first free run of the chunk, since its size is the caller's choice; which
chunk `getRange()` takes depends on sources that are not modelled, so it takes any that
the conditions allow. Each event table has a queue of its own, so allocation results and hash results are
handled in any relative order. A fault of the disk is a choice at each save,
flush and job. What the IO thread promises here is `JobQueue`: in order, one at a
time; a job is cancelled only while it waits (`CancelFull`).

### SharedFile

`table` says which event table is being drained: "others" stands for sockets,
timers and the user, between rounds. `After` is the order of the tables, which
nothing but the order of first use fixes: `FilesList`'s constructor registers a
handler for `SharedFile` events first, then comes `PartData`'s table, and
`MoveWork`'s with the first finished download. `DeleteShared` and `DeletePart` are
`checkDelete()` with the destructors. `crashed` is set where the code would follow
a null or dangling pointer. `FreePlace` is the loop that puts underscores in front
of the name. A move is a rename in one step or a copy in three, with a failure
possible at each. `Restart` is the death of the program at any point (or its
orderly end) followed by `loadTempFile()`. Files that a scan of the shared
directories finds after a restart are not represented: the model ends with the
deletion of the leftover `.dat` file.

### PartDataStore

One download's files, at the grain of the file operations. `pc` is where `save()`
is; `Goto` names the step that follows. Each step that needs space may fail
(`FlushFails`, `CopyFails`, `WriteFails`), which is the function-try of `save()`:
the download is paused (`Failed`). `Receive`, `SavePartFiles`, `AllocDone` and the
first step of `Init` are who calls `save()`. `Allocate` is the job in the IO
thread and may end between any two steps. `Exit` is the end of the main loop, after
which `flushBuffer()` still posts an allocation that nobody answers; `Die` is
the end of the program anywhere; `Start` reads what `scanTempDir()` finds. The
modification time, by which `init()` decides whether to hash the file again, is a
counter that moves with a write or does not (its unit is a second). A block is a
hashed chunk; what hashing does is `PartData`'s subject, so `Start` takes what
is on disk where the file is hashed again.

### Mailbox and EventTable

An event has a source and the objects it is about (`needs`): its validator, or the
objects bound to a timed callback. `Move` is `checkForDelayed()`, `Lock` to
`NextTable` the rest of `EventTable::process()`; `Calling` picks a handler that is
still connected, first of the source, then of all. A handler posts, posts delayed,
calls `safeDelete()`, deletes an object it owns or connects and disconnects
handlers (`Posts`, `Dooms`, `Kills`, `Connects`); a handler that does nothing the table sees is
one that connects what is connected. `ThreadPosts` is another thread's
`postEvent()`, shut out while the table's mutex is held (`Locked`). `Wait` returns
when notified or after its time; notifications from before it are forgotten. The
mapping to `Mailbox`: `inbox <- pending`; a delayed event arrives in its mailbox when it is moved.

### Sockets and Scheduler

`Socks` are objects in the order of their making, `ptr` the address the
allocator gave each. Everything the scheduler keeps (`s_sockets`, `s_upReqs`,
`s_downReqs`, `s_connReqs`) is found by address: `Holder`, `ReqAt`, `Invalidated`
and `Asked` do what the maps do. `pc` walks through `SchedBase::process()`: the
round of downloads and its `clearAndNotify()`, uploads (without notifications),
connections and theirs, then `SocketWatcher::process()` and its events. A plugin
may call anything on any socket when it is notified (`user`) and between rounds.
`Watch` is the whole call of `select()`: the time-outs, one answer per socket that
the sets it was put into allow, the handler of each and the events they post.
Bandwidth is the choice of how many requests a round reaches and whether all of the
data moved. Scores and rates are left out, as every order of requests is possible.

### DonkeyClients

The state is one record `s`, and a handler is an operator from a state to the
state after it, since the handlers call one another in depth:
`LostConnection`, `SendNextChunk`, `StartUpload`, `HandshakeCompleted`, `Merge`,
`OnIdChange`, ... are named for the functions of `clients.cpp`. What the network,
the clock and the disk decide is an argument. `RemoveClient`, `UpdateQueue`,
`FillSlots`, `OnUploadReqEvent` and `OnClientEvent` are `ClientList`'s. The actions
are the main loop's: `Dispatch` (one event of the clients' table), timers
(`...Due`, `RegenQueue`), the sockets (`Accept`, `Opened`, `Connected`,
`ConnFailed`, `Lost`, `Writable`), a packet of each kind, and the end of the file
(`DownloadGone`, `FileGone`). A datagram (`Datagram`) is only taken from a client that
`findClientByUdp()` finds: by its address, so not one with a low ID, and by the UDP port, which
a Hello told us. Loops are recursive functions over states (`Loop`, `ForEach`), about which proofs
can be made: `startNextUpload()` calls itself, after an entry of the queue that leads nowhere, with a
queue that is one shorter, so it is `ServeFirst` taken as often as the queue is long. Times, credits, names and data are left out: an
event that would find nothing to do may not come, one that finds something may come at any time.

### Torrent

Our side of the connections and the peers' are the two halves of the same class:
`OnChoke` ... `OnPiece` are its download, `PeerOnRequest` ... `PeerGains` its upload in
the remote program, and `toPeer` and `fromPeer` the connection between them, which keeps
packets in order and loses them only with the connection (`Drop`). A peer may
unchoke us right after it choked us (`PeerUnchokes`): another client's `sendChoke()` calls `tryUnchoke()`, while
our requests and the choke itself are still on their way, and the unchoked peer takes requests
that we counted as taken back. What PartData knows
of a block is whether it is written, wrong, locked; `GetRange` and `Free` are
`getRange()` and `getLock()` on that. `avail`, `sources` and `seeds` are its counts of
sources (`AddSourceMask`, `DelSourceMask`, `AddAvail`): they are not tied to the clients that raised them,
and `Drop` lowers them by whatever `m_bitField` is then. A request holds its lock, so that `Locked` is what is in
`m_outRequests` and in the hands of `onPiece()`. `m_sharedReqs` is a sequence in which
`Gone` stands for a weak pointer whose lock is no more; `Sweep` is the erasing loop of
`delRequest()` and `clearRequests()` as it is written, and `Rotated` that of `getRequest()`.
`sendRequests()` takes a step for each request (`AskRange` to `AskEnds`), since what it
does next depends on `getRange()`, whose choice is free. `HashDone` is the signal
`onVerified`: the torrent's handler is first, then the clients' in any order
(`OnVerified`), twice for a client that we connected to, as `setFile()` was called twice (`Slots`); `Finish` is `onDestroyed`. A client whose connection ends is deleted, and the next one to
the same peer starts from `Init`'s values.

## 4. Runs

| Run | Config | States | Shows |
|---|---|---|---|
| `workthread` | `WorkThread.cfg` | 135 k | the class delivers `JobQueue`, pausing and cancelling work, jobs come to an end |
| `rangelist` | `RangeList.cfg` | 21.7 k | exact lists and look-ups |
| `partdata` | `PartData.cfg` | 176 k | bookkeeping, data and completion on a disk that works |
| `partdata_faults` | `PartDataFaults.cfg` | 359 k | the counts also with failures, a rehash and writes outside locks |
| `partdata_live` | `PartDataLive.cfg` | 5.1 k | downloads are completed |
| `sharedfile` | `SharedFile.cfg` | 129 k | the file is kept, arrives, replaces nothing |
| `store` | `PartDataStore.cfg` | 924 k | a crash or a full disk at any step of `save()` loses nothing that was saved |
| `events` | `EventTable.cfg` | 321 k | the tables deliver `Mailbox`; no handler sees a deleted object; everything posted is dealt with |
| `scheduler` | `Scheduler.cfg` | 1.0 M | slots are counted and come back; no data is stranded |
| `ed2k` | `DonkeyClients.cfg` | 2.08 M | clients live exactly while they are needed |
| `bt` | `Torrent.cfg` | 1.36 M | requests are answered or taken back, clients ask when they can, the torrent gets complete |
| `ed2k_gone` | `DonkeyGone.cfg` | violation | a download's list of sources keeps a client that is gone |

### Bounds, and why they are enough

- **WorkThread**: two jobs (one in hand, one waiting: order, one at a time), two passes (a job that is put
  aside half way), two nested Pausers (outermost and inner). A job is posted once,
  as in the code. No bound on cancels, pauses in sequence or spurious wake-ups.
- **RangeList**: a type of 11 values with lists over the first ten, so that no
  range reaches the end of the type: five disjoint ranges that do not touch fit, and a merge can swallow
  several and touch two more. Lists with `push` hold up to three
  ranges over five values: more than two with the same middle.
- **PartData**: three bytes in chunks of two (a whole chunk and a short last one,
  a border between chunks); two clients, which is enough for two locks in one
  chunk, and symmetric: they differ in nothing; writes of up to two bytes, so a
  write can cross the chunks when it has no lock, and the buffer limit of two
  is reached in one or two writes. One bad write makes a chunk fail once; one
  user command. `partdata_faults` has one client, two chunks of one byte, one
  failure, one rehash and `Careless` clients: the counts do not depend on how
  many bytes a chunk has. Sequences of more faults or rehashes are covered
  for the counts by the proofs (section 5), where none of these bounds exists.
- **SharedFile**: one file, its own directory and Incoming; one failed move (a
  second one is the retry's); cancelled once; two restarts, as a crash may follow
  a crash during recovery; two events of `SharedFile` pending at most; up to four
  underscores, of which these bounds use three. `Move` supposes that a free name is
  left below the bound (`FreePrefixes`), since the program's loop has none.
- **PartDataStore**: two blocks (one described and one in the buffer, or both), two
  failures and two ends of the program, so that a failure or a death can follow the
  recovery from another. The clock moves only with writes.
- **EventTable**: two tables, so that a handler or a destructor can reach back to one that is done
  for this round and forward to one that is not; an object in each and the source
  of timed callbacks; one handler, connected to a source, to all, or to neither; two events, one of which is behind the other or posted by
  its handler; a clock of one tick, so that a delayed event is due now, later or
  after the bound.
- **Scheduler**: two sockets, at two addresses or one after the other at the same one;
  one may be connecting while another is open; limits of two connections and one
  that is connecting, so that both are reached.
- **DonkeyClients**: two `Client` objects, at one of which a merge is aimed, and one
  peer that both may be; one slot, so that the queue is used; a
  peer or a timer acts while at most one event is pending (the handlers' own events are
  not bounded).

- **Torrent**: two chunks of a block, so that one can be verified, corrupt or asked for by
  both clients while the other is open; a seed that we connected to and a peer that came to us,
  starts with nothing and gets a chunk at any time (which we learn by a HAVE, or by a bitfield if it
  reconnects), so that it leaves its counts behind in each way; a window of two
  (five in the code), so that answers queue and the window is full in the end game; one
  fault. A peer that starts with a chunk as well makes 4.25 million states, without liveness; the two invariants hold
  there too, also with `Short = {1}`. `Gains` bounds what a peer gets: a peer that
  starts with nothing and gets both chunks takes millions of states, and is needed for two of the disagreements
  of section 6. Peers act while the main thread is between handlers.

`CHECK_DEADLOCK FALSE` is set where the system may stop: in `WorkThread` after
`join()`, in `SharedFile` and `PartDataStore` after the program died for good, in `partdata_faults`
because a file with a failed disk may wait for ever, in `EventTable` because the bound on
events leaves a handler nothing to do but return, in `DonkeyClients` when everything
is gone, as no file comes back, and in `Torrent` when the file is complete and all connections ended. In `partdata`, `partdata_live`, `rangelist` and `scheduler` deadlock is checked.

### Fairness

- `WorkThread.FairSpec`: weak fairness of the worker (the operating system runs
  it) and of the second half of `resume()` and `join()`. Nothing obliges the main
  thread to make a call, and no wake-up comes without a notification.
- `PartData.LiveSpec`: weak fairness of the IO thread and of the two handlers
  (`EventMain::process()` drains every table in each round); a file that is paused
  is resumed, a skipped chunk wanted again. Strong fairness of a client's
  `GetRange`, `GetLock` and `Write`: a client that can get something again and again gets it, since
  plugins ask again with each packet or timer; and clients give up ranges that lead nowhere, as
  the plugins do when `getLock()` throws. `SafeWrite`, saves and commands are not
  fair. The bad write is one (`MaxBad`): with unlimited bad data no download ends.
- `SharedFile.FairSpec`: weak fairness of the IO thread and of the rounds of the
  main loop; strong fairness of `Fill` and `Verify`, which is what `partdata_live`
  shows of the download, and strong because restarts interrupt it.
- `PartDataStore.FairSpec`: weak fairness of the steps of `save()`, of the timer that
  saves what has a buffer, of the IO thread and of the exit; strong fairness of the two
  answers of an allocation, which are events and stay in their queue while `save()`
  runs. No step is obliged to fail, and nothing obliges the program to start again.
- `EventTable.FairSpec`: weak fairness of the main thread, in the wait and in the tables;
  strong fairness of time passing while it waits. No thread is obliged to post.
- `Scheduler.FairSpec`: weak fairness of the main loop (`Loop`: rounds, `select()`, events),
  none of the plugins; and for each socket strong fairness of `select()` answering it or
  its timeout passing while it is connecting, which is what `m_timeout` is for.
- `Torrent.FairSpec`: weak fairness of the hasher and of the end of the download; and for each peer
  weak fairness of the connection going on (`GoesOn`): our handlers, the peer's, a slot for us if we
  are interested, the socket's time-out once nothing can come any more (140 seconds without an event;
  `sendPing()` sends one ping, two minutes after the start), and a new connection to a peer, which the tracker's next
  list brings. No fault is obliged to happen, and no peer to get more chunks.
- `DonkeyClients.Spec` has no fairness: its properties are invariants.

### Mutants

Each property of a passing run has a mutant in `PROJECT.json`: a definition
changed the way a bug would change the code (`\* Mutation:` in the modules). TLC
finds the property violated with it. They show that the property depends on the
code at that place: `FlushDuringAlloc` (the buffer is written while the file is
allocated) breaks `NothingLost`, `CompleteEarly` (the hash jobs in flight are not
waited for) breaks `CompletedAfterChunks`, `AfterReversed` (the tables in another order)
breaks `NoDangling`, `CheckDeleteEarly` (what is doomed goes before the queue is empty)
breaks `ImplementsMailbox`, `HandleReadOnce` (a request that is there is left as it is)
breaks `DataServed`, `DropKeepsLocks` (the requests of a dead client keep their locks) breaks
`Torrent`'s `Completes`, and so on.

## 5. Proofs

Checked by TLAPS for every value of the constants that satisfies the
assumptions named in the modules (sizes and bounds are natural numbers, null
values are none of the others). The bounds of the runs are arbitrary numbers in the
proofs, and the set of `PartData`'s clients may be infinite. Where a theorem needs a condition
(no failure of the disk, no rehash, no client that writes in front of its lock) the
condition is in its statement; the others hold whatever happens.

**`Hnbase_proofs`** has two parts. *Ranges*, for an integer type of any size and any number of ranges.
About `Range`'s operators: `OverlapIsCommonPoint`, `MergeIsUnion`,
`EraseIsDifference`, `ApartMeansOrdered`: `contains()`, `merge()`, `erase()` and
`operator<` mean what `RangeList` needs, the merge under the condition that no range ends
at the last value. About the list: `ListsExact` (`ListExact`, what is covered and what
`contains()` and `containsFull()` answer) and `ListTypeCorrect`, if `Top < Size - 1`, which
is needed (section 6); `PushedExact` (`ExactWhenApart`), also at the end of the type.
The invariant is that `ranges` is in `Lists`: sequences of ranges with a gap between each
and the next. In such a list the order by middles is the order of the ranges, so what `lower_bound`
returns has everything that overlaps or touches nearby (`GetContainsIs`, `GetBordersIs`), and a
range that is far from all others is inserted where it belongs (`InsertKeeps`). A pass
of a loop keeps the list and what it covers (`MergePassKeeps`, `ErasePassKeeps`), and makes
the list shorter, or for `erase()` the set of the ranges that overlap, until nothing is left to do
(`AbsorbIs`, `EraseIs`). The library's induction theorems cannot be instantiated; the inductions
are for sets of numbers instead (`Induction`, by the least number outside, from
the well-foundedness of `<`), and `Iterates` says that the recursive functions exist.

*Worker threads*, for any set of jobs: the inductive invariant `IInv` joins the type
invariant and the properties to what makes them inductive: which positions
of the worker go with a job in hand, and that such a job is not complete
(`WorkerHasJob`); a job with a result is complete or about to be marked so
(`ResultOnce`: without it a second result could follow); while a Pauser exists the
worker made no pass since it began, or made one and is not about to make another
(`PausedSlack`); a cancelled job has made the passes `limit` allows, or fewer if
the worker is about to make the one it had decided on, and it is past the test then
(`CancelSlack`); a job in the queue is there once, is not held and has no
passes (`WaitingUntouched`). From it: `TypeCorrect`,
`Serial` (`OneAtATime`), `NeverLeftBehind` (`NoJobLeftBehind`), `PausersHold`,
`CancelTakesEffect` (`CancelHolds`), and `Refinement`: initial states map to
initial states (`InitPromise`), and every step maps to one of `JobQueue`'s or to a
stutter (`StepPromise`), so `Spec => Promise!Spec`.

**`PartData_proofs`**. Three layers, each of which rests on the one before.

*Locks and counts*, whatever fails, is rehashed, or is written outside locks:

- `Exclusive`: `Spec => []LocksExclusive`. `LockInv` adds the type of `lock` and
  is inductive: a new lock is made of bytes outside `m_locked` (`FreeRunFree`), and
  a destructor removes from `m_locked` bytes that nobody else holds.
- `Counted`: `Spec => []WorkCounted`, the conjunction of `PendingExact`, `AllocExact`
  and `FullJobExact`. The counts
  alone are not inductive: `CancelFull` removes the final rehash from the IO
  thread's queue when a chunk fails, and had it been answered already the
  count would be wrong. The strengthening `Sound(Store, allocEvents, hashEvents)`
  says that in the queue and in the event table no chunk hash is in front of
  a final rehash (`FullFirst`), and that no chunk result waits while a final rehash is queued;
  so when a chunk's result is handled no final rehash is under way
  (`ChunkOver`), and the cancellation in `Chunk::onHashEvent()` has nothing to
  cancel. `Sound` is a predicate on a record, so that each function the handlers call
  (`Flush`, `Save`, `Verify`, `TryComplete`, ...) has one lemma that says it keeps it.
  Jobs are counted as the cardinality of a set of positions in the queue, so that the facts
  about concatenation, head and tail follow from bijections and need no induction.

*Types*: `TypeCorrect`: `Spec => []TypeOK`. `TInv` joins the two invariants above to the
types of the data (`Kept`, `Rest`). What it takes: a flush reads within the blocks of the
buffer (`WrittenType`), and blocks begin in the file.

*Data*. The invariant is `TInv /\ (Undisturbed => DInv)`, where `Undisturbed` says that the
disk has not failed and nobody asked for a rehash (`rehashCompleted()`). `DInv` is again a
predicate on the record, `Good`, with a lemma for each function:

- `Entries`: the buffer holds complete positions only, and what a flush would leave on
  disk at a complete position is what was last written there.
- `Hashes`: for each chunk that is complete and not verified exactly one hash is under way, be it
  in `m_chunkChecks`, in the IO thread or among the results; from the IO thread on none of
  the chunk's data is in the buffer. So the hash is of the data that is there when its result is
  handled, which is what makes the late answers harmless.
- `Safe`: what is verified is good, on disk, and not in the buffer.
- `Allocation`, `Results`: an allocation is queued only for a file without its last byte, and the
  results in the event table are still true of the disk, the bad ones as well as the good (`Right`), and
  about chunks that are still complete.
- `Final`: nothing is behind the final rehash in the queue, and while it is under way, and after
  completion, everything is complete, no hash is pending and the buffer is empty or waits for an
  allocation (`Settled`).

From it `DataKept` (`NothingLost`), `VerifiedGood` (`VerifiedIsGood`), `VerdictsStay`
(`VerdictsCurrent`: no verdict grows stale between the hash and its handling) and `CompletionKept`
(`CompletedKept`) follow, each under `Undisturbed`, and, where the constants allow no fault and no
rehash (`MaxFaults = 0`, `MaxRehash = 0`), `Progress` (`ProgressKept`: only a chunk that was downloaded
completely is given up) and `CompletedOnce` (`CompletedAfterChunks`). With `LInv`, that a lock is an
unbroken run of bytes of the chunk its client uses, and clients that are not `Careless`: `Reserved`
(`LockReserved`, under `Undisturbed`) and `Flagged` (`FlagsFresh`, as long as nobody asked for a rehash,
with any number of failures of the disk). None of the conditions can be dropped: section 6 has what
happens to these properties with a failed flush, a rehash or a careless client.

**`PartDataStore_proofs`**, for a file of any number of blocks and any number of
failures and deaths, with `NoFile`, `Torn` and the descriptions distinct
(`FilesAssumption`): `TypeCorrect`; `Kept`: `Spec => []NeverLost`; `Replaced`:
`Spec => DatReplaced`; `ClaimsHold`: `Spec => []ClaimsAccounted`. What the first
two rest on is `Backed`: while the program runs `.dat` is the description saved
last, except in the one step in which it is missing, and from the making of a backup
until then the backup is that description too, so that a death at any step finds
one of them whole. `ClaimsAccounted` looks at the files; `Accounted` adds the
description that `save()` holds in memory and is about to write.

**`SharedFile_proofs`**, for any directories and names and any number of failed moves,
restarts and pending events, whether the user cancels or not: `TypeCorrect`; `Kept`
(`FileKept`), `Found` (`ReadsFind`), `NeverDangling` (`NoDangling`), `Cleaned`
(`CleanedUp`) and `Intact` (`NothingReplaced`). None of these is inductive, and they share
one invariant, `IInv`. `OneOrder` says that the order to move the file is in one place at most, the event
queue of PartData, the IO thread's queue or that of the results. From it follow `Copied` (the copy
under way is at the first job's destination, so that `CopyEnd` replaces nothing), `Whole`
(a move that is reported to have succeeded left a whole file) and `Located` (while there is such an order,
`read()` says that the file is being moved). `Life` and `Pointer` are the argument from the order of the event tables: a
`SharedFile` that no longer listens to its `PartData` is deleted when its own table is
drained, which is before `PartData`'s is; one that listens still has `PD_DESTROY` before it when that
table is not yet drained. `Pointer` and `Located` are only claimed until the user cancels, after which they are false
(section 6).

**`Torrent_proofs`**, for any peers, torrent, window and faults: `AskersAsk`:
`Spec => []NeverIdle`. The invariant `Eager` says of every step, also inside a handler,
that a client which is interested, not choked and has nothing out is the one in
`sendRequests()` (`asking`). The only handler that makes a client interested without
asking is `onBitfield()`, so it needs `Greeting`: a bitfield can only be the
first packet of a connection, and until it is read we are choked.

`RequestsAnswered`: `Spec => []NoStall`. That each request out has an answer coming is not
inductive: where a packet stands matters, since a cancel takes back only what is before it, and a
choke which the peer sends takes back all that it has not answered. `AllFine` says for each client (`Fine`): who is
choked has nothing out and is not asking; if the peer chokes us, either we know and no unchoke is on the way (`Quiet`), or its choke
is, and no unchoke is behind the last one (`Chokes`); and if it does not, `Awaits`, or a choke is on the way that will
take back what we have out. The last is the case of requests that cross a choke and the unchoke after it: the
peer answers them although `onChoke()` drops them, and what comes back is an answer to the first of whatever is
out then. Behind `Awaits` is the connection
taken as one line, what comes from the peer, then what the peer has still to serve, then what goes
to it: the requests in `m_outRequests` stand in that line in their own order, as answers, requests it took
or requests on their way (`Place`), and no cancel of the same block follows one that is not yet answered. What
happens on a connection moves along this line: taking a packet, serving, reading a request, sending or cancelling
one (`AwaitsTaken`, `AwaitsServed`, `AwaitsRead`, `AwaitsSent`, `AwaitsCancelled`, ...). `Moved` says once
what these share: a map that keeps places and their order keeps `Awaits`. `Without`, what
the erasing of requests leaves, counts instead of selecting: the n-th entry
that is left is the one with n that stay up to it (`WithoutIs`).

**`DonkeyClients_proofs`**, for any finite set of clients (a queue must be able to list all that wait), any
peers, any number of slots: `TypeCorrect`, `NoDanglingHolds`,
`NoZombiesHolds` and `DownloadsConnectedHolds`, from one invariant, `Good`. It takes `Live`, that every event in
the table is about a client that exists, since an event puts its client into the slots again; and `Sound`, for
each client: what has a socket, a purpose or a callback to wait for exists, what exists has a socket or a purpose
or its destruction among the events, downloads are on an open connection, and connections have a session.
The handlers call each other in depth, and inside one the invariant fails for the client at
hand. So the lemmas speak of `Near(t, c)`, in order but for `c`, and of `Within(t, u, c)`, what a step for `c` may
touch (its record, new events, its places in the queue and the slots): by `NearWithin` each call keeps
the first because of the second, and a handler only has to show that it leaves `c` itself in order (`Kept`).
Loops over clients are by induction on the number of passes.

**`EventTable_proofs`**, for any tables, objects and handlers and any number of events:
`TypeCorrect`, `NoGhostCalled` (`NoGhosts`: whichever handler is called, the source and the
objects of the event are alive, which `Mailbox` asks of a delivery) and `Refinement`: `Spec => ImplementsMailbox`. The
invariant is `Types /\ Once /\ Dying /\ Handling`. `Once` looks at a table's pending and delayed events
as one sequence (`Stream`): its events belong to the table, each is there once, and none was delivered. `Dying`:
what waits for its deletion waits in the table of its own type, and `Handling` that the queue of
a table is empty when `checkDelete()` begins; so an event that is still in a queue is never about an
object that goes in this step. Each step maps to one of `Mailbox`'s or to a stutter (`StepPromise`):
`postEvent()` from a handler or another thread, and `Move`, to `Post`; a delayed event to a stutter until `Move`;
`safeDelete()` to `Doom`; the deletion of an owned object to `Kill`; an event whose validator is gone to
`Drop`; a handled one to `Deliver`; `checkDelete()` to `Remove`.

**`Scheduler_proofs`**, for any finite number of sockets, any addresses, any limits, and addresses that are given again or
not: `TypeCorrect` (which says that the counts are never negative), `SlotsKept` (`NoSlotLost`), `Limited` (`LimitHolds`) and
`Served` (`DataServed`). They share one invariant, `IInv`:

- `Living`: objects that exist have addresses of their own, and what is registered exists.
- `Waiting`: an accepted connection has no owner until its event is told.
- `Holding`: a socket that holds a slot of those that are connecting is registered and is
  connecting, or its news is still in the events of this round; a connection request is for a socket
  that is registered and was never used.
- `Stale`: a loss that waits to be told is about a socket that is closed, or its address was
  given since to one that was never connected; and none waits outside the drain for one that is not there.
- `Counting`: `m_connectingCnt` is the number of holders, within its limit; and the open sockets
  *together with the losses not yet told* are at most `m_connCnt`, within its limit. `LimitHolds`
  alone is not inductive: `disconnect()` and the event of a loss both lower `m_connCnt`,
  and the invariant has to say that a socket cannot have both.
- `ReadsServed`, `WritesServed`: `DataServed`, also within a round.

The whole call of `select()` (`Watch`) is a step of many sockets at once. Its lemmas take it apart: `InOrder`
(the events it makes name each socket once), `Told`, `Woken` and `HeardKeeps`.

Only model-checked is liveness (`JobsServed`, `Completes`, `Arrives`, `BufferDrains`, `Settles`, `SlotsReturn`,
`Torrent`'s `Completes`), which TLAPS does not do. Every other property of a passing run is a theorem.

## 6. Disagreements

`ed2k_gone` is a run of its own: `SourcesAlive`, that a download's sources exist.
`Client::merge()` moves a `SourceInfo` to another client without telling the
`Download`, which keeps the pointer (`hncore/ed2k/clients.cpp:376`).

The others are shown by adding the property to the `.cfg` named, as INVARIANT or
PROPERTY, with the bounds given. Those first listed are findings in `PROJECT.json`,
with the lines that disagree:

- `ExitJoins` (`WorkThread.cfg`): the destructor of a worker thread can wait for ever
  (`hnbase/workthread.cpp:56`).
- `Exact` with `Top` at the end of the type (`RangeList.cfg`): ranges at the
  opposite ends are taken for neighbours, and `Range::merge()`, whose last two comparisons wrap, keeps only
  one of them; a range that swallows one with the other end of the type becomes that one (`hnbase/range.h:245`).
- `UserHolds` with `MaxFaults = 1`, `MaxUser = 2` (`PartData.cfg`): `stop()` leaves
  `m_autoPaused` set, and the next save resumes the file (`hncore/partdata.cpp:1326`).
- `CompletedOnDisk` (`PartData.cfg`): a file without chunk hashes is announced
  complete before its data is on disk (`hncore/partdata.cpp:1258`).
- `ProgressKept` with `MaxRehash = 1` (`PartData.cfg`): `rehashCompleted()` discards
  what is there of incomplete chunks (`hncore/partdata.cpp:583`).
- `CancelDestroys` (`SharedFile.cfg`): a download cancelled while it is verified or
  moved stays in the list of shared files without data (`hncore/sharedfile.cpp:311`).
- `OwnRequests` (`Scheduler.cfg`): a socket at the address of a deleted one revives the
  requests of the old, which are still in the maps (`hnbase/scheduler.h:565`).
- `ClaimsBacked` (`PartDataStore.cfg`): the description is written with the blocks
  that wait in the buffer for an allocation; if the program ends first, and the
  data file's time did not change, they count as complete at the next start
  (`hncore/partdata.cpp:1276`).
- `StartFinds` (`PartDataStore.cfg`): between the removal of `.dat` and the renaming of
  `.dat_` there is no `.dat` file, and the start looks for nothing else
  (`hncore/partdata.cpp:1323`).
- `AutoResumes` (`PartDataStore.cfg`): a download paused for want of space with an
  empty buffer is not saved any more, so nothing resumes it (`hncore/partdata.cpp:1328`).

- `NothingVerifiedAsked` (`Torrent.cfg`, with a peer that starts with nothing and gets both chunks): the loops that erase shared requests skip the entry that becomes the
  first, so a request for a chunk that was verified is still shared, and is asked for again
  (`hncore/bt/torrent.cpp:243`).
- `AnnouncedIsAvailable` (`Torrent.cfg`): a peer that began with nothing and sent HAVEs is
  removed as if it had been a full source, because its `m_bitField` is empty. If a seed
  is there, the seed's counts go: chunks that it alone has are available no more, `getRange()`
  does not offer them, and only a later connection raises their count (`hncore/partdata.cpp:640`). Two
  clients that time out in turns can keep it so for ever, which is why `Completes` supposes
  `[]AnnouncedIsAvailable`; without it, and with peers that start with nothing and get everything, it fails.
- `AsksWhatItHas` (`Torrent.cfg`): a peer that sent no bitfield is asked for everything
  (`hncore/bt/client.cpp:634`).

And without an entry there:

- `ResumeRestarts` (`WorkThread.cfg`, as PROPERTY): a Pauser that ends between
  `isRunning()` and the wait leaves the job in hand asleep until the next
  notification. `workthread.h` says "Resume the thread execution".
- `InvalidatedIsSilent` (`WorkThread.cfg`): an invalidated `HashWork` posts its
  result, for the worker asks the other `m_valid`.
- `GetContainsIsFirst` and `NoDuplicates` (`RangeList.cfg`): `getContains()` may
  return a range that is not the first that overlaps, and `push()` may add a range
  twice if `find()` returns another one with the same middle.
- `LockReserved` with `Careless = TRUE` (`PartData.cfg`): `LockedRange::write()`
  does not check the begin, so a client can write in front of its lock.
- `NothingLost` and `CompletedKept` with `MaxFaults = 1`: a block that a failed
  flush left in the buffer overlaps with a later download of the same bytes, and
  the order of the map, not of the writes, decides which is on disk.
- `VerifiedIsGood`, `VerdictsCurrent` and `CompletedAfterChunks` with `MaxRehash = 1`: results of a
  rehash may be handled after the final one, and a rehash judges chunks that are half there and
  are written to before its result is handled.
- `m_partStatus` is not reset by `corruption()`: with `MaxRehash = 1` the invariant
  `\A k \in partStatus : flags[k].complete` fails after a final rehash that finds a
  chunk bad; without a rehash it holds in the instance of `PartData.cfg`.
- `Arrives` with `Homes <- TwoDirs` and `MaxFaults = 1` (`SharedFile.cfg`): if the
  move to Incoming itself fails, `m_moveWork` stays set and the file is
  neither moved nor readable until a restart.
- `~crashed` (`SharedFile.cfg`): cancelling during a move makes the result of
  the move use a null `m_partData`.
- `CountExact` (`Scheduler.cfg`): `m_connCnt` counts for good a socket that was lost
  and is destroyed before its event is handled: `delSocket()` finds it closed, and the
  event finds no handler. `LimitHolds` has `<=` for that reason.
- Of the eDonkey clients, as far as the model shows without a property:
  `onLostConnection()` and `SF_DESTROY` reset `m_uploadInfo` without the event that
  takes the client out of `m_uploading`, so that the slot is held until the client
  is destroyed or asks again; an upload request that finds a free slot and
  somebody queued is dropped (`clientlist.cpp:345`); the slots can be exceeded, as
  `onIdChange()` gives one without a look at the limit and `EVT_UPLOADREQ` takes
  one away from a client that may go on uploading; `setOnQueue()` schedules the next
  question only if a download was running.
- Of the BitTorrent clients: one that became uninterested, because all that its peer has was
  locked by others, is interested again only after a HAVE or a new connection, even if a chunk turns out to be corrupt
  (no property says so; `Completes` holds by the time-out). A late answer to a cancelled request takes another
  from the front of `m_outRequests`. The
  assertion `CHECK(m_bitField.at(index))` of debug builds throws for every seed (it is not in the model).
  `addAvail()` does not find a last chunk that is shorter than the others, and dereferences `end()` if it is
  shorter by a byte; the model has the first (`Short`).

## 7. Not modelled

- Network protocols but for the eDonkey clients: servers, packets, credits and Kademlia of
  `ed2k`, trackers and files of `bt`, `http`, `ftp`, `cgcomm`, `hnsh`, ...: they appear as callers.
  The largest part of the repository is there, and in the user interface, in
  cryptography (`cryptopp.*`) and compression (`extra/zlib`), which are third-party code.
- In the eDonkey clients: which chunks and parts are exchanged (that is `PartData`'s
  side), ranks and credits, pauses, identification, more than one file.
- In the BitTorrent clients: whom to unchoke (`tryUnchoke()`), our upload, the handshake, pings, several files
  in a torrent, and which of the chunks that may be offered is.
- Several chunk maps of one file (`checkAddChunkMap()`, the walk of `updateChunks()`), masks that are
  refused because of their length, the order in which `getRange()` prefers chunks, `getNextChunk()`
  of files without chunks.
- Duplicates among shared files and the hashing of files found on disk.
- In the scheduler: rates, scores, UDP sockets and the delay between two connections;
  in the sockets: servers that close, and the addresses of UDP peers.
- The machine's own crash: what was written to a file stays written.
- Digests (equal exactly when the data is), strings, times and rates.

## 8. Plan

Order of work. Each module comes with its MC module, configs, mutants and, as far
as the provers reach, its proofs. Done:

1. `JobQueue`, `WorkThread`, refinement and its proof.
2. `Range`, `RangeList` and their proofs.
3. `PartData`; proofs of locks, counts, types, and of every safety property of the data.
4. `SharedFile` with move, crash and the event tables, and its safety proofs.
5. `PartDataStore`: `save()` step by step, with crashes and the start.
6. `Mailbox`, `EventTable`, refinement and its proof.
7. `Sockets`, `Scheduler`, and its safety proofs.
8. `DonkeyClients`: source states, slots and queue of the eDonkey plugin, and the proofs of the lifetimes.
9. `Torrent`: choking, requests and the end game of the BitTorrent plugin; the proofs of `NeverIdle` and `NoStall`.

Left:

10. `ChunkMaps`: the common index of several chunk maps, `updateChunks()` and
    `checkAddChunkMap()` (the source masks are in `Torrent`).
11. `SharedFile` with a second object of the same hash (`isDuplicate`).
