--------------------------- MODULE PartDataStore ---------------------------
(***************************************************************************)
(* How one download is kept on disk: PartData::save() and flushBuffer()    *)
(* (hncore/partdata.cpp) step by step, the allocation of its space by the  *)
(* IO thread, the timers and events that call save(), the program's exit,  *)
(* its death between any two steps, and the start after it, which looks    *)
(* for descriptions in the temp directory (hncore/fileslist.cpp).          *)
(*                                                                         *)
(* A download is a data file and its description, a file of the same name  *)
(* ending in .dat that says which blocks are complete.  Blocks are hashed  *)
(* chunks here; what rehashing does is the subject of PartData.tla, and is *)
(* one step of the start here.  The program may die, the machine does not: *)
(* what was written to a file stays written.                               *)
(***************************************************************************)
EXTENDS Naturals, FiniteSets

CONSTANTS Blocks,      \* the blocks of the file
          NoFile,      \* a file that is not there
          Torn,        \* a file that was not written to its end
          MaxFaults,   \* bound: operations that fail for want of space
          MaxDeaths    \* bound: times the program dies or exits

ASSUME PartDataStoreAssumption ==
    /\ IsFiniteSet(Blocks)
    /\ MaxFaults \in Nat /\ MaxDeaths \in Nat

VARIABLES
    \* the program's memory
    up,          \* "run", "exit" (the main loop has ended) or "down"
    complete,    \* m_complete
    buffer,      \* the blocks in m_buffer
    paused,      \* m_paused
    autoPaused,  \* m_autoPaused
    alloc,       \* m_allocJob and its answer
    modDate,     \* m_md->getModDate()
    pc,          \* where save() is
    desc,        \* save()'s tmp: the new description
    \* the disk
    data,        \* the blocks the data file holds
    full,        \* whether the data file has its full size
    modTime,     \* its modification time
    dat, bak, datTmp, bakTmp,  \* .dat, .dat.bak, .dat_ and .dat.bak_
    \* bounds, and an observer's
    faults, deaths,
    saved,       \* the description of the last save() that succeeded
    lost         \* blocks that were in the buffer when the program ended

memory  == <<up, complete, buffer, paused, autoPaused, alloc, modDate>>
content == <<data, full, modTime>>
files   == <<dat, bak, datTmp, bakTmp>>
seen    == <<faults, deaths, saved, lost>>
vars    == <<memory, pc, desc, content, files, seen>>

Descs  == [complete: SUBSET Blocks, modDate: Nat]
Files  == Descs \cup {NoFile, Torn}
ASSUME FilesAssumption ==
    NoFile \notin Descs /\ Torn \notin Descs /\ NoFile # Torn
Whole(f) == f \in Descs
SavePcs == {"flush", "check", "copy", "dropBak", "moveBak", "write", "close", "drop", "move"}

TypeOK ==
    /\ up \in {"run", "exit", "down"}
    /\ complete \in SUBSET Blocks /\ buffer \in SUBSET complete
    /\ paused \in BOOLEAN /\ autoPaused \in BOOLEAN
    /\ alloc \in {"none", "queued", "done", "failed"}
    /\ modDate \in Nat /\ modTime \in Nat
    /\ pc \in SavePcs \cup {"none"}
    /\ desc \in Descs
    /\ data \in SUBSET Blocks /\ full \in BOOLEAN
    /\ {dat, bak, datTmp, bakTmp} \subseteq Files
    /\ faults \in 0..MaxFaults /\ deaths \in 0..MaxDeaths
    /\ saved \in Descs \cup {NoFile}
    /\ lost \in SUBSET Blocks

NoDesc == [complete |-> {}, modDate |-> 0]

\* createDownload(): the constructor makes an empty data file; then save().
Init ==
    /\ up = "run" /\ complete = {} /\ buffer = {} /\ paused = FALSE
    /\ autoPaused = FALSE /\ alloc = "none" /\ modDate = 0
    /\ pc = "flush" /\ desc = NoDesc
    /\ data = {} /\ full = FALSE /\ modTime = 1
    /\ dat = NoFile /\ bak = NoFile /\ datTmp = NoFile /\ bakTmp = NoFile
    /\ faults = 0 /\ deaths = 0 /\ saved = NoFile /\ lost = {}

\* The file is written to: its time changes, if the second has.
Touched == modTime' \in {modTime, modTime + 1}
Fault   == faults < MaxFaults /\ faults' = faults + 1
NoFault == UNCHANGED faults
At(p)   == pc = p /\ up # "down"
Goto(p) == pc' = p

-----------------------------------------------------------------------------
(* save()                                                                  *)

\* The function-try of save(): a download that runs is paused, the files are
\* left as they are.
Failed ==
    /\ Fault
    /\ pc' = "none"
    /\ paused' = TRUE
    /\ autoPaused' = (autoPaused \/ ~paused)

\* What flushBuffer() leaves in the buffer: it waits for the space.
Skips == alloc # "none" \/ (buffer # {} /\ up = "exit")

\* Everything is in the description, whatever flushBuffer() did.
Describe(date) == desc' = [complete |-> complete, modDate |-> date]

FlushSkip ==
    /\ At("flush") /\ Skips
    /\ Describe(modDate) /\ Goto("check")
    /\ UNCHANGED <<memory, content, files, seen>>

FlushAlloc ==
    /\ At("flush") /\ ~Skips /\ buffer # {} /\ ~full
    /\ alloc' = "queued"
    /\ Describe(modDate) /\ Goto("check")
    /\ UNCHANGED <<up, complete, buffer, paused, autoPaused, modDate, content, files, seen>>

\* Mutation: the buffer is emptied before it is known to be written.
FlushFailsEmptied ==
    /\ At("flush") /\ ~Skips /\ buffer # {} /\ full
    /\ \E B \in SUBSET buffer : B # buffer /\ data' = data \cup B
    /\ Touched
    /\ Failed
    /\ buffer' = {}
    /\ UNCHANGED <<up, complete, alloc, modDate, desc, full, files, deaths, saved, lost>>

\* A part of the buffer was written, all of it is kept.
FlushFails ==
    /\ At("flush") /\ ~Skips /\ buffer # {} /\ full
    /\ \E B \in SUBSET buffer : B # buffer /\ data' = data \cup B
    /\ Touched
    /\ Failed
    /\ UNCHANGED <<up, complete, buffer, alloc, modDate, desc, full, files, deaths, saved, lost>>

Flush ==
    /\ At("flush") /\ ~Skips /\ (buffer # {} => full)
    /\ data' = data \cup buffer
    /\ IF buffer = {} THEN UNCHANGED modTime ELSE Touched
    /\ buffer' = {}
    /\ modDate' = modTime'
    /\ Describe(modTime') /\ Goto("check")
    /\ UNCHANGED <<up, complete, paused, autoPaused, alloc, full, files, seen>>

CheckDat ==
    /\ At("check")
    /\ IF dat = NoFile
       THEN Goto("write") /\ UNCHANGED bakTmp
       ELSE Goto("copy") /\ bakTmp' = Torn
    /\ UNCHANGED <<memory, desc, content, dat, bak, datTmp, seen>>

\* copy_file() throws with a part of the copy left behind, or the sizes differ
\* and the copy is removed.
CopyFails ==
    /\ At("copy")
    /\ bakTmp' \in {NoFile, Torn}
    /\ Failed
    /\ UNCHANGED <<up, complete, buffer, alloc, modDate, desc, content, dat, bak, datTmp,
                   deaths, saved, lost>>

Copy ==
    /\ At("copy")
    /\ bakTmp' = dat
    /\ Goto("dropBak")
    /\ UNCHANGED <<memory, desc, content, dat, bak, datTmp, seen>>

DropBak ==
    /\ At("dropBak")
    /\ bak' = NoFile
    /\ Goto("moveBak")
    /\ UNCHANGED <<memory, desc, content, dat, datTmp, bakTmp, seen>>

MoveBak ==
    /\ At("moveBak")
    /\ bak' = bakTmp /\ bakTmp' = NoFile
    /\ Goto("write")
    /\ UNCHANGED <<memory, desc, content, dat, datTmp, seen>>

\* Mutation: .dat is removed to make room before the new one is written.
OpenDropping ==
    /\ At("write")
    /\ datTmp' = Torn /\ dat' = NoFile
    /\ Goto("close")
    /\ UNCHANGED <<memory, desc, content, bak, bakTmp, seen>>

OpenDatTmp ==
    /\ At("write")
    /\ datTmp' = Torn
    /\ Goto("close")
    /\ UNCHANGED <<memory, desc, content, dat, bak, bakTmp, seen>>

\* Mutation: the stream is not asked whether all was written.
WriteUnchecked ==
    /\ At("close")
    /\ datTmp' \in {desc, Torn}
    /\ Goto("drop")
    /\ UNCHANGED <<memory, desc, content, dat, bak, bakTmp, seen>>

Write ==
    /\ At("close")
    /\ datTmp' = desc
    /\ Goto("drop")
    /\ UNCHANGED <<memory, desc, content, dat, bak, bakTmp, seen>>

WriteFails ==
    /\ At("close")
    /\ datTmp' = NoFile
    /\ Failed
    /\ UNCHANGED <<up, complete, buffer, alloc, modDate, desc, content, dat, bak, bakTmp,
                   deaths, saved, lost>>

DropDat ==
    /\ At("drop")
    /\ dat' = NoFile
    /\ Goto("move")
    /\ UNCHANGED <<memory, desc, content, bak, datTmp, bakTmp, seen>>

\* .dat_ becomes .dat, and a download that was paused for want of space runs
\* again.  The list of files then notes the time of the data file, in a save of
\* its own; the others leave it.
MoveDat ==
    /\ At("move")
    /\ dat' = datTmp /\ datTmp' = NoFile
    /\ Goto("none")
    /\ paused' = (paused /\ ~autoPaused) /\ autoPaused' = FALSE
    /\ modDate' \in {modDate, modTime}
    /\ saved' = desc
    /\ UNCHANGED <<up, complete, buffer, alloc, desc, content, bak, bakTmp, faults, deaths, lost>>

SaveSteps ==
    \/ FlushSkip \/ FlushAlloc \/ Flush \/ CheckDat \/ Copy \/ DropBak \/ MoveBak
    \/ OpenDatTmp \/ Write \/ DropDat \/ MoveDat
SaveFails == FlushFails \/ CopyFails \/ WriteFails

-----------------------------------------------------------------------------
(* Who calls save(): the main loop while pc is "none"                      *)

Idle == up = "run" /\ pc = "none"

\* doWrite(): the buffer is saved when it is large enough.
Receive(b) ==
    /\ Idle /\ ~paused /\ b \notin complete
    /\ complete' = complete \cup {b}
    /\ buffer' = buffer \cup {b}
    /\ pc' \in {"none", "flush"}
    /\ UNCHANGED <<up, paused, autoPaused, alloc, modDate, desc, content, files, seen>>

\* Hydranode::saveSettings(), every so often, for what has a buffer.
SavePartFiles ==
    /\ Idle /\ buffer # {}
    /\ Goto("flush")
    /\ UNCHANGED <<memory, desc, content, files, seen>>

\* AllocJob::process() in the IO thread, whatever the main thread does.
Allocate ==
    /\ alloc = "queued" /\ up # "down"
    /\ Touched
    /\ \/ alloc' = "done" /\ full' = TRUE /\ NoFault
       \/ alloc' = "failed" /\ Fault /\ UNCHANGED full
    /\ UNCHANGED <<up, complete, buffer, paused, autoPaused, modDate, pc, desc, data, files,
                   deaths, saved, lost>>

\* Mutation: a job that failed is kept.
AllocFailedKept ==
    /\ Idle /\ alloc = "failed"
    /\ paused' = TRUE /\ autoPaused' = TRUE
    /\ UNCHANGED <<up, complete, buffer, alloc, modDate, pc, desc, content, files, seen>>

\* allocDone()
AllocFailed ==
    /\ Idle /\ alloc = "failed"
    /\ alloc' = "none"
    /\ paused' = TRUE /\ autoPaused' = TRUE
    /\ UNCHANGED <<up, complete, buffer, modDate, pc, desc, content, files, seen>>

AllocDone ==
    /\ Idle /\ alloc = "done"
    /\ alloc' = "none"
    /\ paused' = (paused /\ ~autoPaused) /\ autoPaused' = FALSE
    /\ Goto("flush")
    /\ UNCHANGED <<up, complete, buffer, modDate, desc, content, files, seen>>

-----------------------------------------------------------------------------
(* The end of the program and its next start                               *)

\* Hydranode::cleanUp(): every download is saved, with the main loop over.
Exit ==
    /\ Idle /\ deaths < MaxDeaths
    /\ up' = "exit" /\ Goto("flush")
    /\ UNCHANGED <<complete, buffer, paused, autoPaused, alloc, modDate, desc, content, files, seen>>

Ended ==
    /\ up' = "down" /\ pc' = "none" /\ desc' = NoDesc
    /\ complete' = {} /\ buffer' = {} /\ paused' = FALSE /\ autoPaused' = FALSE
    /\ alloc' = "none" /\ modDate' = 0
    /\ lost' = lost \cup buffer
    /\ deaths' = deaths + 1
    /\ UNCHANGED <<content, files, faults, saved>>

Exited == up = "exit" /\ pc = "none" /\ Ended
Die    == up = "run" /\ deaths < MaxDeaths /\ Ended

\* scanTempDir() and loadTempFile(): only a .dat file is looked for; one that
\* cannot be read is replaced by its backup.
Found == IF Whole(dat) THEN dat ELSE IF dat = Torn THEN bak ELSE NoFile

\* PartData::init(): a download that seems complete, or whose data file has
\* another time than it was saved with, but for one unit, is hashed again.
Start ==
    /\ up = "down" /\ Whole(Found)
    /\ up' = "run"
    /\ LET doubt == Found.complete = Blocks \/ modTime \notin {Found.modDate, Found.modDate - 1}
       IN  complete' = IF doubt THEN Found.complete \cap data ELSE Found.complete
    /\ modDate' = Found.modDate
    /\ UNCHANGED <<buffer, paused, autoPaused, alloc, pc, desc, content, files, seen>>

Run  == SaveSteps \/ SavePartFiles \/ Allocate \/ AllocFailed \/ AllocDone
Next == Run \/ SaveFails \/ (\E b \in Blocks : Receive(b)) \/ Exit \/ Exited \/ Die \/ Start

Spec == Init /\ [][Next]_vars
\* The main loop runs, its timers fire, the IO thread works its queue, and cleanUp()
\* comes to its end.  An answer of that thread is an event: it stays in the queue
\* while save() runs, and the main loop comes to it.
FairSpec ==
    /\ Spec
    /\ WF_vars(SaveSteps) /\ WF_vars(SavePartFiles)
    /\ WF_vars(Exited) /\ WF_vars(Allocate) /\ SF_vars(AllocFailed) /\ SF_vars(AllocDone)

-----------------------------------------------------------------------------
(* Properties                                                              *)

\* Once a save() has succeeded, its description is on disk in one piece until the
\* next one succeeds, wherever the program dies or the disk is full: save()'s
\* comment, "we don't corrupt anything, not even backup files".
NeverLost ==
    saved # NoFile => saved \in {dat, datTmp, bak}

\* .dat is only removed when its successor and a backup of it are both complete,
\* and only replaced by that successor.
DatReplaced ==
    [][dat' # dat => \/ dat' = NoFile /\ Whole(datTmp) /\ bak = dat
                     \/ dat = NoFile /\ Whole(dat') /\ dat' = datTmp]_vars

\* No block is claimed, in memory or by a description, that is neither on disk nor
\* in the buffer, nor was in the buffer of a program that ended: a flush that
\* fails or waits for space loses nothing.
ClaimsAccounted ==
    \A c \in {complete} \cup {f.complete : f \in {dat, bak, datTmp, bakTmp} \cap Descs} :
        c \subseteq data \cup buffer \cup lost

\* What is buffered gets to the disk, past failed allocations and writes, unless
\* the program ends first.
BufferDrains == buffer # {} ~> buffer = {}

\* save() says of flushBuffer() that it will "flush all temporary buffers" before
\* the description is written: then a description never claims a block that only
\* a program that has ended had.
ClaimsBacked == up = "run" => complete \subseteq data \cup buffer

\* "if they were written successfully, rename them to the real files": then the
\* next start finds a download that was saved once.
StartFinds == up = "down" /\ saved # NoFile => Whole(Found)

\* "check if we need to auto-resume the download": then a download paused for want
\* of space is resumed in the end (MaxFaults bounds the want).
AutoResumes == autoPaused ~> ~autoPaused
=============================================================================
