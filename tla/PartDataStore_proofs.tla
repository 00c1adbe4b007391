------------------------ MODULE PartDataStore_proofs ------------------------
(***************************************************************************)
(* PartDataStore keeps what was saved, for a file of any number of blocks  *)
(* and any number of failures and deaths: TypeOK, NeverLost, DatReplaced   *)
(* and ClaimsAccounted.                                                    *)
(*                                                                         *)
(* Backed says what NeverLost and DatReplaced rest on: while the program   *)
(* runs, .dat is the description saved last, but for the one step in which *)
(* it is missing; from the moment a backup was made until then, the backup *)
(* is that description too.  Accounted adds to ClaimsAccounted the         *)
(* description that save() holds in memory.                                *)
(***************************************************************************)
EXTENDS PartDataStore, TLAPS

Acts == SaveSteps \/ SaveFails \/ (\E b \in Blocks : Receive(b)) \/ SavePartFiles
        \/ Allocate \/ AllocFailed \/ AllocDone \/ Exit \/ Exited \/ Die \/ Start

\* The actions of Next, one by one.
LEMMA NextActs == Next => Acts
BY DEF Next, Acts, Run

-----------------------------------------------------------------------------
(* Types                                                                   *)

\* A program that ended has nothing in memory, and one that ends counts as a
\* death yet to come.
Ending ==
    /\ up = "down" => pc = "none" /\ buffer = {}
    /\ up = "exit" => deaths < MaxDeaths
TInv   == TypeOK /\ Ending

LEMMA NoDescType == NoDesc \in Descs
BY DEF NoDesc, Descs

LEMMA TypeInit == Init => TInv
<1> SUFFICES ASSUME Init PROVE TInv
    OBVIOUS
<1> USE PartDataStoreAssumption DEF Init
<1>1. desc \in Descs
  BY NoDescType
<1>2. /\ {dat, bak, datTmp, bakTmp} \subseteq Files
      /\ saved \in Descs \cup {NoFile}
  BY DEF Files
<1>3. faults \in 0..MaxFaults /\ deaths \in 0..MaxDeaths
  OBVIOUS
<1>4. TypeOK
  BY <1>1, <1>2, <1>3 DEF TypeOK, SavePcs
<1>5. Ending
  BY DEF Ending
<1> QED BY <1>4, <1>5 DEF TInv

LEMMA TypeStep == TInv /\ [Next]_vars => TInv'
<1> SUFFICES ASSUME TInv, [Next]_vars PROVE TInv'
    OBVIOUS
<1> USE PartDataStoreAssumption DEF TInv, Ending, TypeOK, Files
<1>1. CASE SaveSteps
  <2>1. CASE FlushSkip
    BY <2>1 DEF FlushSkip, At, Goto, Describe, Descs, SavePcs, memory, content, files, seen
  <2>2. CASE FlushAlloc
    BY <2>2 DEF FlushAlloc, At, Goto, Describe, Descs, SavePcs, content, files, seen
  <2>3. CASE Flush
    BY <2>3 DEF Flush, At, Goto, Describe, Descs, SavePcs, Touched, files, seen
  <2>4. CASE CheckDat \/ Copy \/ DropBak \/ MoveBak
    BY <2>4 DEF CheckDat, Copy, DropBak, MoveBak, At, Goto, SavePcs, memory, content, seen
  <2>5. CASE OpenDatTmp \/ Write \/ DropDat
    BY <2>5 DEF OpenDatTmp, Write, DropDat, At, Goto, SavePcs, memory, content, seen
  <2>6. CASE MoveDat
    BY <2>6 DEF MoveDat, At, Goto, SavePcs, content
  <2> QED BY <1>1, <2>1, <2>2, <2>3, <2>4, <2>5, <2>6 DEF SaveSteps
<1>2. CASE SaveFails
  <2>1. CASE FlushFails
    BY <2>1 DEF FlushFails, At, Touched, Failed, Fault, files
  <2>2. CASE CopyFails
    BY <2>2 DEF CopyFails, At, Failed, Fault, content
  <2>3. CASE WriteFails
    BY <2>3 DEF WriteFails, At, Failed, Fault, content
  <2> QED BY <1>2, <2>1, <2>2, <2>3 DEF SaveFails
<1>3. CASE \E b \in Blocks : Receive(b)
  BY <1>3 DEF Receive, Idle, SavePcs, content, files, seen
<1>4. CASE SavePartFiles
  BY <1>4 DEF SavePartFiles, Idle, Goto, SavePcs, memory, content, files, seen
<1>5. CASE Allocate
  <2>1. modTime' \in Nat
    BY <1>5 DEF Allocate, Touched
  <2>2. alloc' \in {"none", "queued", "done", "failed"} /\ full' \in BOOLEAN
    BY <1>5 DEF Allocate
  <2>3. faults' \in 0..MaxFaults
    BY <1>5 DEF Allocate, Fault, NoFault
  <2> QED BY <1>5, <2>1, <2>2, <2>3 DEF Allocate, files
<1>6. CASE AllocFailed \/ AllocDone
  BY <1>6 DEF AllocFailed, AllocDone, Idle, Goto, SavePcs, content, files, seen
<1>7. CASE Exit
  BY <1>7 DEF Exit, Idle, Goto, SavePcs, content, files, seen
<1>8. CASE Exited \/ Die
  <2>1. deaths < MaxDeaths /\ Ended
    BY <1>8 DEF Exited, Die
  <2>2. desc' \in Descs
    BY <2>1, NoDescType DEF Ended
  <2>3. deaths' \in 0..MaxDeaths /\ lost' \in SUBSET Blocks
    BY <2>1 DEF Ended
  <2> QED BY <2>1, <2>2, <2>3 DEF Ended, content, files
<1>9. CASE Start
  <2>1. Found \in Descs
    BY <1>9 DEF Start, Whole
  <2>2. Found.complete \in SUBSET Blocks /\ Found.modDate \in Nat
    BY <2>1 DEF Descs
  <2> QED BY <1>9, <2>2 DEF Start, content, files, seen
<1>10. CASE UNCHANGED vars
  BY <1>10 DEF vars, memory, content, files, seen
<1> QED BY <1>1, <1>2, <1>3, <1>4, <1>5, <1>6, <1>7, <1>8, <1>9, <1>10, NextActs DEF Acts

\* Every variable keeps its type, and a program that ended nothing in memory.
THEOREM TypeCorrect == Spec => []TInv
<1>1. Init => TInv
  BY TypeInit
<1>2. TInv /\ [Next]_vars => TInv'
  BY TypeStep
<1> QED BY <1>1, <1>2, PTL DEF Spec

-----------------------------------------------------------------------------
(* What was saved is kept                                                  *)

\* Where .dat and its backup are while save() goes on, and between its calls.
DatSaved    == up # "down" /\ pc # "move" => dat = saved
DatMissing  == pc = "move" => dat = NoFile
CopySaved   == pc \in {"dropBak", "moveBak"} => bakTmp = saved
BakSaved    == pc \in {"write", "close", "drop", "move"} => saved \in {bak, NoFile}
TmpWritten  == pc \in {"drop", "move"} => datTmp = desc
DatAfterEnd == up = "down" => dat = saved \/ (dat = NoFile /\ bak = saved)
Backed == DatSaved /\ DatMissing /\ CopySaved /\ BakSaved /\ TmpWritten /\ DatAfterEnd

LEMMA BackedInit == Init => Backed
BY DEF Init, Backed, DatSaved, DatMissing, CopySaved, BakSaved, TmpWritten, DatAfterEnd

LEMMA BackedStep == TInv /\ Backed /\ [Next]_vars => Backed'
<1> SUFFICES ASSUME TypeOK, Ending, Backed, [Next]_vars PROVE Backed'
    BY DEF TInv
<1> USE FilesAssumption DEF Ending, Backed, DatSaved, DatMissing, CopySaved, BakSaved,
                            TmpWritten, DatAfterEnd
<1>1. CASE SaveSteps
  <2>1. CASE FlushSkip \/ FlushAlloc \/ Flush
    BY <2>1 DEF FlushSkip, FlushAlloc, Flush, At, Goto, memory, files, seen
  <2>2. CASE CheckDat \/ Copy
    BY <2>2 DEF CheckDat, Copy, At, Goto, memory, seen
  <2>3. CASE DropBak \/ MoveBak
    BY <2>3 DEF DropBak, MoveBak, At, Goto, memory, seen
  <2>4. CASE OpenDatTmp \/ Write \/ DropDat
    BY <2>4 DEF OpenDatTmp, Write, DropDat, At, Goto, memory, seen
  <2>5. CASE MoveDat
    BY <2>5 DEF MoveDat, At, Goto
  <2> QED BY <1>1, <2>1, <2>2, <2>3, <2>4, <2>5 DEF SaveSteps
<1>2. CASE SaveFails
  BY <1>2 DEF SaveFails, FlushFails, CopyFails, WriteFails, At, Failed, files
<1>3. CASE (\E b \in Blocks : Receive(b)) \/ SavePartFiles \/ Allocate
  BY <1>3 DEF Receive, SavePartFiles, Allocate, Idle, Goto, memory, files, seen
<1>4. CASE AllocFailed \/ AllocDone \/ Exit
  BY <1>4 DEF AllocFailed, AllocDone, Exit, Idle, Goto, files, seen
<1>5. CASE Exited \/ Die
  BY <1>5 DEF Exited, Die, Ended, files
<1>6. CASE Start
  <2>1. dat # Torn
    BY DEF TypeOK
  <2>2. Found = dat /\ dat # NoFile
    BY <1>6, <2>1 DEF Start, Found, Whole
  <2> QED BY <1>6, <2>2 DEF Start, files, seen
<1>7. CASE UNCHANGED vars
  BY <1>7 DEF vars, memory, files, seen
<1> QED BY <1>1, <1>2, <1>3, <1>4, <1>5, <1>6, <1>7, NextActs DEF Acts

LEMMA BackedAlways == Spec => []Backed
<1>1. Init => Backed
  BY BackedInit
<1>2. TInv /\ Backed /\ [Next]_vars => Backed'
  BY BackedStep
<1> QED BY <1>1, <1>2, TypeCorrect, PTL DEF Spec

\* Wherever the program dies and the disk is full: the description that was
\* saved last is in .dat, in .dat_ or in .dat.bak.
THEOREM Kept == Spec => []NeverLost
<1>1. TInv /\ Backed => NeverLost
  BY DEF TInv, Backed, DatSaved, BakSaved, DatAfterEnd, NeverLost
<1> QED BY <1>1, TypeCorrect, BackedAlways, PTL

\* The action of DatReplaced.
Replacing == dat' # dat => \/ dat' = NoFile /\ Whole(datTmp) /\ bak = dat
                           \/ dat = NoFile /\ Whole(dat') /\ dat' = datTmp

\* .dat goes only when a complete successor and a backup are there, and comes
\* only as that successor.
THEOREM Replaced == Spec => DatReplaced
<1>1. TInv /\ Backed /\ [Next]_vars => [Replacing]_vars
  <2> SUFFICES ASSUME TypeOK, Backed, [Next]_vars PROVE Replacing
      BY DEF TInv
  <2> USE DEF Replacing
  <2>1. CASE DropDat
    <3>1. dat = saved /\ saved \in {bak, NoFile} /\ datTmp = desc /\ dat' = NoFile
      BY <2>1 DEF DropDat, At, Backed, DatSaved, BakSaved, TmpWritten
    <3>2. Whole(datTmp)
      BY <3>1 DEF TypeOK, Whole
    <3> QED BY <3>1, <3>2
  <2>2. CASE MoveDat
    BY <2>2 DEF MoveDat, At, Backed, DatMissing, TmpWritten, TypeOK, Whole
  <2>3. CASE SaveSteps /\ ~DropDat /\ ~MoveDat
    BY <2>3 DEF SaveSteps, FlushSkip, FlushAlloc, Flush, CheckDat, Copy, DropBak, MoveBak,
                OpenDatTmp, Write, files
  <2>4. CASE SaveFails
    BY <2>4 DEF SaveFails, FlushFails, CopyFails, WriteFails, files
  <2>5. CASE (\E b \in Blocks : Receive(b)) \/ SavePartFiles \/ Allocate
    BY <2>5 DEF Receive, SavePartFiles, Allocate, files
  <2>6. CASE AllocFailed \/ AllocDone \/ Exit \/ Exited \/ Die \/ Start
    BY <2>6 DEF AllocFailed, AllocDone, Exit, Exited, Die, Ended, Start, files
  <2>7. CASE UNCHANGED vars
    BY <2>7 DEF vars, files
  <2> QED BY <2>1, <2>2, <2>3, <2>4, <2>5, <2>6, <2>7, NextActs DEF Acts
<1> QED BY <1>1, TypeCorrect, BackedAlways, PTL DEF Spec, DatReplaced, Replacing

-----------------------------------------------------------------------------
(* What is claimed is accounted for                                        *)

Had(c)    == c \subseteq data \cup buffer \cup lost
HadFile(f) == f \in Descs => Had(f.complete)
Accounted ==
    /\ Had(complete) /\ Had(desc.complete)
    /\ HadFile(dat) /\ HadFile(bak) /\ HadFile(datTmp) /\ HadFile(bakTmp)

LEMMA AccountedInit == Init => Accounted
BY FilesAssumption DEF Init, Accounted, Had, HadFile, NoDesc

LEMMA AccountedStep == TInv /\ Accounted /\ [Next]_vars => Accounted'
<1> SUFFICES ASSUME TypeOK, Ending, Accounted, [Next]_vars PROVE Accounted'
    BY DEF TInv
<1> USE FilesAssumption DEF Accounted, Had, HadFile
<1>1. CASE SaveSteps
  <2>1. CASE FlushSkip \/ FlushAlloc
    BY <2>1 DEF FlushSkip, FlushAlloc, Describe, memory, content, files, seen
  <2>2. CASE Flush
    BY <2>2 DEF Flush, Describe, files, seen
  <2>3. CASE CheckDat \/ Copy
    BY <2>3 DEF CheckDat, Copy, memory, content, seen
  <2>4. CASE DropBak \/ MoveBak
    BY <2>4 DEF DropBak, MoveBak, memory, content, seen
  <2>5. CASE OpenDatTmp \/ Write \/ DropDat
    BY <2>5 DEF OpenDatTmp, Write, DropDat, memory, content, seen
  <2>6. CASE MoveDat
    BY <2>6 DEF MoveDat, content
  <2> QED BY <1>1, <2>1, <2>2, <2>3, <2>4, <2>5, <2>6 DEF SaveSteps
<1>2. CASE SaveFails
  BY <1>2 DEF SaveFails, FlushFails, CopyFails, WriteFails, Failed, content, files
<1>3. CASE \E b \in Blocks : Receive(b)
  BY <1>3 DEF Receive, content, files, seen
<1>4. CASE SavePartFiles \/ Allocate
  BY <1>4 DEF SavePartFiles, Allocate, memory, content, files, seen
<1>5. CASE AllocFailed \/ AllocDone \/ Exit
  BY <1>5 DEF AllocFailed, AllocDone, Exit, content, files, seen
<1>6. CASE Exited \/ Die
  BY <1>6 DEF Exited, Die, Ended, NoDesc, content, files
<1>7. CASE Start
  <2>1. Found \in Descs /\ Had(Found.complete)
    BY <1>7 DEF Start, Found, Whole
  <2> QED BY <1>7, <2>1 DEF Start, content, files, seen
<1>8. CASE UNCHANGED vars
  BY <1>8 DEF vars, memory, content, files, seen
<1> QED BY <1>1, <1>2, <1>3, <1>4, <1>5, <1>6, <1>7, <1>8, NextActs DEF Acts

\* No description claims, and the program does not, a block that is neither on
\* disk nor in the buffer, nor was in the buffer of a program that ended.
THEOREM ClaimsHold == Spec => []ClaimsAccounted
<1>1. Init => Accounted
  BY AccountedInit
<1>2. TInv /\ Accounted /\ [Next]_vars => Accounted'
  BY AccountedStep
<1>3. Accounted => ClaimsAccounted
  BY DEF Accounted, Had, HadFile, ClaimsAccounted
<1> QED BY <1>1, <1>2, <1>3, TypeCorrect, PTL DEF Spec
=============================================================================
