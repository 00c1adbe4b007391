----------------------------- MODULE SharedFile -----------------------------
(***************************************************************************)
(* hncore/sharedfile.{h,cpp} with the parts of partdata.cpp, fileslist.cpp *)
(* and event.h that take part: how a finished download is moved to its     *)
(* destination and becomes a shared file, while the user cancels it, stops *)
(* sharing it or the program dies.                                         *)
(*                                                                         *)
(* Three event tables take part, and EventMain::process() drains them in   *)
(* the order in which they were first used: SharedFile's, PartData's and   *)
(* MoveWork's.  safeDelete() deletes an object after the drain of its      *)
(* table.  Sockets and timers (the user, the final rehash) come in between *)
(* rounds.  The IO thread runs one MoveWork at a time.                     *)
(***************************************************************************)
EXTENDS Naturals, Sequences, FiniteSets, FiniteSetsExt

CONSTANTS
    Dirs,         \* directories
    NoDir,        \* the empty string
    Incoming,     \* the preference "/Incoming"
    Homes,        \* the directories that downloads are made for
    TempFile,     \* the temporary file, m_loc
    MaxPrefix,    \* bound: underscores in front of a name
    MaxFaults,    \* bound: moves that fail
    MayCancel,    \* whether the user may call PartData::cancel(), once
    MaxEvents,    \* bound: events of SharedFile while destroy() is called again
    MaxStarts     \* bound: restarts of the program

Places == Dirs \X (0..MaxPrefix)    \* the file's name with underscores in front

ASSUME SharedFileAssumption ==
    /\ NoDir \notin Dirs /\ Incoming \in Dirs \cup {NoDir} /\ Homes \subseteq Dirs
    /\ MayCancel \in BOOLEAN
    /\ {MaxPrefix, MaxFaults, MaxEvents, MaxStarts} \subseteq Nat
    /\ TempFile \notin Places

VARIABLES
    disk,         \* [Places \cup {TempFile} -> what is there]
    dat,          \* what the .dat file says of the download
    pd,           \* the PartData object
    sf,           \* the SharedFile object
    sfEvents, pdEvents, moveEvents,   \* m_pending of the three tables
    table,        \* the table that is being drained
    moves,        \* MoveWorks the IO thread has not finished
    copying,      \* how far the first of them is
    crashed,      \* a pointer that is null or dangling was used
    home,         \* the destination directory in the .dat file
    finished,     \* the download was verified once
    cancelled,    \* the user cancelled it
    faults, starts

events == <<sfEvents, pdEvents, moveEvents, table>>
mover  == <<moves, copying>>
past   == <<finished, cancelled, starts>>
vars   == <<disk, dat, pd, sf, events, mover, crashed, home, past, faults>>

Contents == {"none", "other", "partial", "whole"}
Tables   == {"others", "shared", "part", "move"}
Stages   == {"partial", "full", "verified"}

TypeOK ==
    /\ disk \in [Places \cup {TempFile} -> Contents]
    /\ dat \in {"none", "partial", "full"}
    /\ pd \in [alive : BOOLEAN, doomed : BOOLEAN, stage : Stages, dest : Places]
    /\ sf \in [alive : BOOLEAN, doomed : BOOLEAN, part : BOOLEAN, connected : BOOLEAN,
               moving : BOOLEAN, location : Places \cup {TempFile}]
    /\ sfEvents \in Seq({"destroy", "complete"})
    /\ pdEvents \in Seq({"destroy", "complete"})
    /\ moveEvents \in Seq([ok : BOOLEAN, to : Places])
    /\ moves \in Seq(Places)
    /\ copying \in {"no", "begun", "done"}
    /\ table \in Tables
    /\ home \in Dirs
    /\ {crashed, finished, cancelled} \subseteq BOOLEAN
    /\ faults \in 0..MaxFaults /\ starts \in 0..MaxStarts

NewPart(stage, dir) ==
    [alive |-> TRUE, doomed |-> FALSE, stage |-> stage, dest |-> <<dir, 0>>]
NewShared ==
    [alive |-> TRUE, doomed |-> FALSE, part |-> TRUE, connected |-> TRUE,
     moving |-> FALSE, location |-> TempFile]

\* A download that FilesList::createDownload() made; a file of the same name
\* may be at its destination.
Init ==
    /\ home \in Homes
    /\ \E there \in {"none", "other"} :
          disk = [p \in Places \cup {TempFile} |->
                    IF p = TempFile THEN "partial"
                    ELSE IF p = <<home, 0>> THEN there ELSE "none"]
    /\ dat = "partial"
    /\ pd = NewPart("partial", home) /\ sf = NewShared
    /\ sfEvents = <<>> /\ pdEvents = <<>> /\ moveEvents = <<>> /\ table = "others"
    /\ moves = <<>> /\ copying = "no"
    /\ crashed = FALSE /\ finished = FALSE /\ cancelled = FALSE
    /\ faults = 0 /\ starts = 0

-----------------------------------------------------------------------------
(* Calls that several handlers make.                                         *)

\* PartData::destroy()
PartDestroy ==
    /\ pdEvents' = Append(pdEvents, "destroy")
    /\ pd' = [pd EXCEPT !.doomed = TRUE]

\* Mutation: the temporary file is deleted and its .dat file is left.
DeleteTempOnly ==
    /\ disk' = [disk EXCEPT ![TempFile] = "none"]
    /\ UNCHANGED dat

\* PartData::deleteFiles()
DeleteFiles ==
    /\ disk' = [disk EXCEPT ![TempFile] = "none"]
    /\ dat' = "none"

-----------------------------------------------------------------------------
(* Between the rounds: the download, the user.                               *)

Running == ~crashed /\ table = "others"

\* The last data is flushed; m_complete is saved with it or with a later save.
Fill ==
    /\ Running /\ pd.alive /\ pd.stage = "partial"
    /\ disk[TempFile] # "none"
    /\ disk' = [disk EXCEPT ![TempFile] = "whole"]
    /\ dat' \in {dat, "full"}
    /\ pd' = [pd EXCEPT !.stage = "full"]
    /\ UNCHANGED <<sf, events, mover, crashed, home, past, faults>>

\* The final rehash agrees: onCompleted posts PD_COMPLETE (PartData.tla).
Verify ==
    /\ Running /\ pd.alive /\ pd.stage = "full"
    /\ disk[TempFile] = "whole"
    /\ pd' = [pd EXCEPT !.stage = "verified"]
    /\ pdEvents' = Append(pdEvents, "complete")
    /\ finished' = TRUE
    /\ UNCHANGED <<disk, dat, sf, sfEvents, moveEvents, table, mover, crashed, home,
                   cancelled, starts, faults>>

\* PartData::cancel(), from a shell or the GUI.
Cancel ==
    /\ Running /\ pd.alive
    /\ MayCancel /\ ~cancelled
    /\ DeleteFiles
    /\ PartDestroy
    /\ cancelled' = TRUE
    /\ UNCHANGED <<sf, sfEvents, moveEvents, table, mover, crashed, home, finished,
                   starts, faults>>

\* SharedFile::destroy(): the directory is no longer shared or for temporary
\* files, or the file could not be opened.
Destroy ==
    /\ Running /\ sf.alive /\ Len(sfEvents) < MaxEvents
    /\ sfEvents' = Append(sfEvents, "destroy")
    /\ IF sf.part
       THEN PartDestroy /\ sf' = [sf EXCEPT !.connected = FALSE]
       ELSE UNCHANGED <<pd, pdEvents, sf>>
    /\ UNCHANGED <<disk, dat, moveEvents, table, mover, crashed, home, past, faults>>

-----------------------------------------------------------------------------
(* The IO thread: MoveWork::process().                                       *)

\* Mutation: the loop that puts underscores in front of the name is left out.
FreeAtOnce(to) == to

\* The underscores with which no file exists, from those of the name on.
FreePrefixes(to) == {n \in to[2]..MaxPrefix : disk[<<to[1], n>>] = "none"}

\* The first of these names.
FreePlace(to) == <<to[1], Min(FreePrefixes(to))>>

Answer(ok, to) ==
    /\ moveEvents' = Append(moveEvents, [ok |-> ok, to |-> to])
    /\ moves' = Tail(moves) /\ copying' = "no"

MoveRename ==
    /\ copying = "no" /\ disk[TempFile] # "none"
    /\ LET to == FreePlace(Head(moves))
       IN  /\ disk' = [disk EXCEPT ![to] = disk[TempFile], ![TempFile] = "none"]
           /\ Answer(TRUE, to)
    /\ UNCHANGED faults

\* Another partition: rename() fails and copy_file() begins.
CopyBegin ==
    /\ copying = "no" /\ disk[TempFile] # "none"
    /\ LET to == FreePlace(Head(moves))
       IN  /\ disk' = [disk EXCEPT ![to] = "partial"]
           /\ moves' = <<to>> \o Tail(moves)
    /\ copying' = "begun"
    /\ UNCHANGED <<moveEvents, faults>>

\* Mutation: the source is removed before the copy is complete.
CopyEndRemoving ==
    /\ copying = "begun"
    /\ disk' = [disk EXCEPT ![TempFile] = "none"]
    /\ copying' = "done"
    /\ UNCHANGED <<moves, moveEvents, faults>>

CopyEnd ==
    /\ copying = "begun"
    /\ disk' = [disk EXCEPT ![Head(moves)] = "whole"]
    /\ copying' = "done"
    /\ UNCHANGED <<moves, moveEvents, faults>>

RemoveSource ==
    /\ copying = "done"
    /\ disk' = [disk EXCEPT ![TempFile] = "none"]
    /\ Answer(TRUE, Head(moves))
    /\ UNCHANGED faults

\* An exception at any point: what is at the destination by then stays there.
MoveFails ==
    /\ \/ copying = "no" /\ disk[TempFile] = "none" /\ UNCHANGED faults
       \/ faults < MaxFaults /\ faults' = faults + 1
    /\ Answer(FALSE, IF copying = "no" THEN FreePlace(Head(moves)) ELSE Head(moves))
    /\ UNCHANGED disk

\* Bound: a name is free.
Move ==
    /\ ~crashed /\ moves # <<>>
    /\ copying = "no" => FreePrefixes(Head(moves)) # {}
    /\ MoveRename \/ CopyBegin \/ CopyEnd \/ RemoveSource \/ MoveFails
    /\ UNCHANGED <<dat, pd, sf, sfEvents, pdEvents, table, crashed, home, past>>

-----------------------------------------------------------------------------
(* The handlers.                                                             *)

\* SharedFile::finishDownload(), for the destination to.
FinishDownload(to) ==
    /\ moves' = Append(moves, to)
    /\ sf' = [sf EXCEPT !.moving = TRUE]

\* onPartEvent(PD_DESTROY); isComplete() asks whether every byte is there.
OnPartDestroy ==
    /\ sf' = [sf EXCEPT !.connected = FALSE, !.part = FALSE]
    /\ sfEvents' = IF pd.stage = "partial" THEN Append(sfEvents, "destroy") ELSE sfEvents

\* SharedFile::onPartEvent()
HandlePart ==
    /\ table = "part" /\ pdEvents # <<>>
    /\ pdEvents' = Tail(pdEvents)
    /\ IF ~sf.connected THEN UNCHANGED <<sf, sfEvents, moves>>
       ELSE IF Head(pdEvents) = "complete"
       THEN FinishDownload(pd.dest) /\ UNCHANGED sfEvents
       ELSE OnPartDestroy /\ UNCHANGED moves
    /\ UNCHANGED <<disk, dat, pd, moveEvents, table, copying, crashed, home, past, faults>>

\* Mutation: the file is looked for where it was to be moved.
OnMovedAsPlanned(to) ==
    IF ~sf.part
    THEN crashed' = TRUE /\ UNCHANGED <<disk, dat, pd, sf, sfEvents, pdEvents, mover>>
    ELSE /\ DeleteFiles
         /\ pd' = [pd EXCEPT !.doomed = TRUE]
         /\ pdEvents' = Append(pdEvents, "destroy")
         /\ sfEvents' = Append(sfEvents, "complete")
         /\ sf' = [sf EXCEPT !.location = pd.dest, !.moving = FALSE]
         /\ UNCHANGED <<mover, crashed>>

\* onMoveEvent(EVT_MOVE_OK)
OnMoved(to) ==
    IF ~sf.part
    THEN crashed' = TRUE /\ UNCHANGED <<disk, dat, pd, sf, sfEvents, pdEvents, mover>>
    ELSE /\ DeleteFiles
         /\ pd' = [pd EXCEPT !.dest = to, !.doomed = TRUE]
         /\ pdEvents' = Append(pdEvents, "destroy")
         /\ sfEvents' = Append(sfEvents, "complete")
         /\ sf' = [sf EXCEPT !.location = to, !.moving = FALSE]
         /\ UNCHANGED <<mover, crashed>>

\* Mutation: a move that failed is not tried again.
OnMoveFailedGivingUp(to) ==
    UNCHANGED <<disk, dat, pd, sf, sfEvents, pdEvents, mover, crashed>>

\* onMoveEvent(EVT_MOVE_FAILED): the Incoming directory is tried, if it is
\* another one; otherwise m_moveWork stays set.
OnMoveFailed(to) ==
    /\ IF Incoming \in {NoDir, to[1]} THEN UNCHANGED <<pd, sf, moves, crashed>>
       ELSE IF ~sf.part THEN crashed' = TRUE /\ UNCHANGED <<pd, sf, moves>>
       ELSE /\ pd' = [pd EXCEPT !.dest = <<Incoming, @[2]>>]
            /\ FinishDownload(<<Incoming, pd.dest[2]>>)
            /\ UNCHANGED crashed
    /\ UNCHANGED <<disk, dat, sfEvents, pdEvents, copying>>

\* The handler of a SharedFile that was deleted is disconnected (Trackable).
HandleMove ==
    /\ table = "move" /\ moveEvents # <<>>
    /\ moveEvents' = Tail(moveEvents)
    /\ LET e == Head(moveEvents)
       IN  IF ~sf.alive
           THEN UNCHANGED <<disk, dat, pd, sf, sfEvents, pdEvents, mover, crashed>>
           ELSE IF e.ok THEN OnMoved(e.to) ELSE OnMoveFailed(e.to)
    /\ UNCHANGED <<table, home, past, faults>>

\* FilesList::onSharedFileEvent(): SF_DL_COMPLETE changes only an index.
HandleShared ==
    /\ table = "shared" /\ sfEvents # <<>>
    /\ sfEvents' = Tail(sfEvents)
    /\ sf' = IF Head(sfEvents) = "destroy" THEN [sf EXCEPT !.doomed = TRUE] ELSE sf
    /\ UNCHANGED <<disk, dat, pd, pdEvents, moveEvents, table, mover, crashed, home,
                   past, faults>>

\* Mutation: PartData's table comes before SharedFile's.
AfterReversed ==
    [others |-> "part", part |-> "shared", shared |-> "move", move |-> "others"]

\* The order in which EventMain::process() drains the tables.
After == [others |-> "shared", shared |-> "part", part |-> "move", move |-> "others"]

\* checkDelete() of SharedFile's table: ~SharedFile() has its PartData deleted
\* too, by a pointer it may still have.
DeleteShared ==
    /\ table = "shared" /\ sfEvents = <<>>
    /\ sf' = [sf EXCEPT !.alive = @ /\ ~sf.doomed, !.connected = @ /\ ~sf.doomed,
                        !.doomed = FALSE]
    /\ pd' = [pd EXCEPT !.doomed = @ \/ (sf.doomed /\ sf.part)]
    /\ crashed' = (sf.doomed /\ sf.part /\ ~pd.alive)

DeletePart ==
    /\ table = "part" /\ pdEvents = <<>>
    /\ pd' = [pd EXCEPT !.alive = @ /\ ~pd.doomed, !.doomed = FALSE]
    /\ UNCHANGED <<sf, crashed>>

DeleteNothing ==
    /\ table = "others" \/ (table = "move" /\ moveEvents = <<>>)
    /\ UNCHANGED <<sf, pd, crashed>>

NextTable ==
    /\ DeleteShared \/ DeletePart \/ DeleteNothing
    /\ table' = After[table]
    /\ UNCHANGED <<disk, dat, sfEvents, pdEvents, moveEvents, mover, home, past, faults>>

Round == ~crashed /\ (HandleShared \/ HandlePart \/ HandleMove \/ NextTable)

-----------------------------------------------------------------------------
(* The program ends or dies, and is started again: FilesList::loadTempFile().*)
(* A clean exit saves the destination, which a failed move may have changed. *)

Loadable == dat # "none" /\ disk[TempFile] # "none"

Restart ==
    /\ starts < MaxStarts /\ starts' = starts + 1
    /\ home' \in {home, pd.dest[1]}
    /\ IF Loadable
       THEN /\ pd' = NewPart(IF dat = "full" THEN "full" ELSE "partial", home')
            /\ sf' = NewShared
            /\ UNCHANGED dat
       ELSE /\ pd' = [pd EXCEPT !.alive = FALSE, !.doomed = FALSE]
            /\ sf' = [sf EXCEPT !.alive = FALSE, !.doomed = FALSE, !.connected = FALSE]
            /\ dat' = "none"
    /\ sfEvents' = <<>> /\ pdEvents' = <<>> /\ moveEvents' = <<>> /\ table' = "others"
    /\ moves' = <<>> /\ copying' = "no" /\ crashed' = FALSE
    /\ UNCHANGED <<disk, finished, cancelled, faults>>

Next == Fill \/ Verify \/ Cancel \/ Destroy \/ Move \/ Round \/ Restart

Spec == Init /\ [][Next]_vars

\* Both threads run; a download that is not complete goes on and its final
\* rehash is handled, in some round (PartData.tla says on what grounds).
FairSpec == Spec /\ WF_vars(Move) /\ WF_vars(Round) /\ SF_vars(Fill) /\ SF_vars(Verify)

-----------------------------------------------------------------------------
(* Properties.                                                               *)

Anywhere == {p \in Places \cup {TempFile} : disk[p] = "whole"}

\* A download that was verified is on disk as a whole, under its temporary or
\* its final name, whatever fails or dies, unless the user cancels it.
FileKept == finished /\ ~cancelled => Anywhere # {}

\* read() either says that the file is being moved or finds it where it looks:
\* a file it cannot open is one that read() destroys.
ReadsFind ==
    sf.alive /\ ~sf.moving /\ ~cancelled /\ ~crashed =>
        IF sf.location = TempFile THEN disk[TempFile] # "none"
        ELSE disk[sf.location] = "whole"

\* No handler or destructor uses a PartData that is gone, unless the download
\* was cancelled: it is the order of the tables that keeps m_partData valid.
NoDangling == crashed => cancelled

\* When the SharedFile of a finished download lets go of its PartData nothing
\* is left for the next start to load.
CleanedUp ==
    sf.alive /\ ~sf.part /\ ~cancelled => disk[TempFile] = "none" /\ dat = "none"

\* MoveWork, on whichever way, replaces no file.
NothingReplaced ==
    [][\A p \in Places : disk[p] \in {"other", "whole"} => disk'[p] = disk[p]]_vars

Arrived == sf.alive /\ ~sf.part /\ disk[sf.location] = "whole"

\* A verified download arrives at its destination, or in Incoming if that move
\* fails, and is shared there, also if the program has to start again; unless
\* it is cancelled or no longer shared.
Arrives == (sf.alive /\ pd.alive /\ pd.stage = "verified") ~> (Arrived \/ cancelled \/ ~sf.alive)

\* The code says of PD_DESTROY: "download was canceled - destroy SharedFile
\* also".  This is false of a download whose last byte is there.
CancelDestroys ==
    cancelled /\ ~pd.alive /\ sfEvents = <<>> /\ table = "others" => ~sf.alive
=============================================================================
