-------------------------- MODULE SharedFile_proofs --------------------------
(***************************************************************************)
(* That a finished download is kept, found and cleaned up after, that no   *)
(* PartData is used that is gone and no file is replaced, for any          *)
(* directories, names, failures of moves, restarts and events.             *)
(***************************************************************************)
EXTENDS SharedFile, FiniteSetTheorems, WellFoundedInduction, TLAPS

Has(s, e)  == \E i \in 1..Len(s) : s[i] = e
Once(s, e) == \A i, j \in 1..Len(s) : s[i] = e /\ s[j] = e => i = j

-----------------------------------------------------------------------------
(* The invariant                                                           *)

FileType ==
    /\ disk \in [Places \cup {TempFile} -> Contents]
    /\ dat \in {"none", "partial", "full"} /\ home \in Dirs

PartType == pd \in [alive : BOOLEAN, doomed : BOOLEAN, stage : Stages, dest : Places]

SharedType ==
    sf \in [alive : BOOLEAN, doomed : BOOLEAN, part : BOOLEAN, connected : BOOLEAN,
            moving : BOOLEAN, location : Places \cup {TempFile}]

EventType ==
    /\ sfEvents \in Seq({"destroy", "complete"}) /\ pdEvents \in Seq({"destroy", "complete"})
    /\ moveEvents \in Seq([ok : BOOLEAN, to : Places]) /\ table \in Tables

MoverType == moves \in Seq(Places) /\ copying \in {"no", "begun", "done"}

PastType ==
    /\ crashed \in BOOLEAN /\ finished \in BOOLEAN /\ cancelled \in BOOLEAN
    /\ faults \in 0..MaxFaults /\ starts \in 0..MaxStarts

Types == FileType /\ PartType /\ SharedType /\ EventType /\ MoverType /\ PastType

\* The order to move the file is in one place at most: an event of PartData, a MoveWork or
\* its result.  It is given when the download is verified.
OneOrder ==
    /\ Once(pdEvents, "complete")
    /\ moves # <<>> =>
          Tail(moves) = <<>> /\ moveEvents = <<>> /\ ~Has(pdEvents, "complete")
    /\ moveEvents # <<>> => Tail(moveEvents) = <<>> /\ ~Has(pdEvents, "complete")
    /\ pd.stage # "verified" =>
          ~Has(pdEvents, "complete") /\ moves = <<>> /\ moveEvents = <<>>

\* A copy is at the first MoveWork's destination.
Copied ==
    /\ copying # "no" => moves # <<>>
    /\ copying = "begun" => disk[Head(moves)] = "partial"
    /\ copying = "done" => disk[Head(moves)] = "whole"

\* What was verified is whole wherever it is, and somewhere it is.
Whole ==
    /\ pd.stage = "verified" => disk[TempFile] \in {"none", "whole"}
    /\ moveEvents # <<>> =>
          (Head(moveEvents).ok => disk[Head(moveEvents).to] = "whole")
    /\ FileKept

\* A SharedFile that listens to its PartData has not been destroyed, and one that was
\* is deleted in the same drain of its table.
Life ==
    /\ sf.connected => sf.alive /\ sf.part /\ ~sf.doomed /\ ~Has(sfEvents, "destroy")
    /\ ~sf.alive => ~sf.doomed /\ ~Has(sfEvents, "destroy")
    /\ sf.doomed => table = "shared"

\* Nothing is left of the download.
Gone ==
    /\ moves = <<>> /\ moveEvents = <<>> /\ ~Has(pdEvents, "complete")
    /\ pd.stage = "verified" /\ disk[TempFile] = "none" /\ dat = "none"

\* m_partData points to something; without its subscription a SharedFile has it no longer
\* than until its own table has been drained.
Pointer ==
    /\ sf.alive /\ sf.part => pd.alive
    /\ sf.alive /\ sf.part /\ ~sf.connected =>
          table \in {"others", "shared"} /\ (sf.doomed \/ Has(sfEvents, "destroy"))
    /\ sf.connected /\ pd.doomed => Has(pdEvents, "destroy")
    /\ sf.connected /\ Has(pdEvents, "destroy") => Gone
    /\ sf.alive /\ ~sf.part => Gone

\* m_location and m_moveWork agree with where the file is.
Located ==
    /\ moves # <<>> \/ moveEvents # <<>> => sf.moving /\ sf.location = TempFile
    /\ sf.location = TempFile /\ ~sf.moving => disk[TempFile] # "none"
    /\ sf.location # TempFile => disk[sf.location] = "whole"
    /\ Has(pdEvents, "complete") \/ pd.stage # "verified" => sf.location = TempFile

Facts ==
    /\ OneOrder /\ Copied /\ Whole /\ Life
    /\ ~cancelled => Pointer /\ ~crashed
    /\ ~cancelled /\ sf.alive => Located

IInv == Types /\ Facts

-----------------------------------------------------------------------------
(* Sequences of events                                                     *)

LEMMA HeadTail ==
    ASSUME NEW T, NEW s \in Seq(T), s # <<>>
    PROVE  Head(s) \in T /\ Tail(s) \in Seq(T)
OBVIOUS

LEMMA HasAppend ==
    ASSUME NEW T, NEW s \in Seq(T), NEW a \in T, NEW e
    PROVE  Has(Append(s, a), e) <=> Has(s, e) \/ a = e
BY DEF Has

LEMMA HasTail ==
    ASSUME NEW T, NEW s \in Seq(T), s # <<>>, NEW e
    PROVE  Has(s, e) <=> Head(s) = e \/ Has(Tail(s), e)
<1>1. /\ Len(s) \in Nat \ {0} /\ Len(Tail(s)) = Len(s) - 1 /\ Head(s) = s[1]
      /\ \A i \in 1..Len(s) - 1 : Tail(s)[i] = s[i + 1]
  OBVIOUS
<1>2. Head(s) = e => Has(s, e)
  BY <1>1 DEF Has
<1>3. ASSUME Has(Tail(s), e) PROVE Has(s, e)
  <2>1. PICK i \in 1..Len(s) - 1 : s[i + 1] = e
    BY <1>1, <1>3 DEF Has
  <2>2. i + 1 \in 1..Len(s)
    BY <1>1
  <2>3. QED BY <2>1, <2>2 DEF Has
<1>4. ASSUME Has(s, e), Head(s) # e PROVE Has(Tail(s), e)
  <2>1. PICK i \in 1..Len(s) : s[i] = e
    BY <1>4 DEF Has
  <2>2. i # 1
    BY <1>1, <1>4, <2>1
  <2>3. i - 1 \in 1..Len(s) - 1 /\ i - 1 + 1 = i
    BY <1>1, <2>2
  <2>4. QED BY <1>1, <2>1, <2>3 DEF Has
<1>5. QED BY <1>2, <1>3, <1>4

LEMMA HasEmpty == ASSUME NEW e PROVE ~Has(<<>>, e) /\ Once(<<>>, e)
BY DEF Has, Once

LEMMA OnceAppend ==
    ASSUME NEW T, NEW s \in Seq(T), NEW a \in T, NEW e, Once(s, e), a = e => ~Has(s, e)
    PROVE  Once(Append(s, a), e)
BY DEF Once, Has

LEMMA OnceTail ==
    ASSUME NEW T, NEW s \in Seq(T), s # <<>>, NEW e, Once(s, e)
    PROVE  Once(Tail(s), e) /\ (Head(s) = e => ~Has(Tail(s), e))
<1>1. /\ Len(s) \in Nat \ {0} /\ Len(Tail(s)) = Len(s) - 1 /\ Head(s) = s[1]
      /\ \A i \in 1..Len(s) - 1 : Tail(s)[i] = s[i + 1]
  OBVIOUS
<1>2. Once(Tail(s), e)
  <2> SUFFICES ASSUME NEW i \in 1..Len(s) - 1, NEW j \in 1..Len(s) - 1,
                      s[i + 1] = e, s[j + 1] = e
               PROVE  i = j
    BY <1>1 DEF Once
  <2>1. i + 1 \in 1..Len(s) /\ j + 1 \in 1..Len(s)
    BY <1>1
  <2>2. i + 1 = j + 1
    BY <2>1 DEF Once
  <2>3. QED BY <2>2
<1>3. ASSUME Head(s) = e, Has(Tail(s), e) PROVE FALSE
  <2>1. PICK i \in 1..Len(s) - 1 : s[i + 1] = e
    BY <1>1, <1>3 DEF Has
  <2>2. i + 1 \in 1..Len(s) /\ 1 \in 1..Len(s) /\ i + 1 # 1
    BY <1>1
  <2>3. QED BY <1>1, <1>3, <2>1, <2>2 DEF Once
<1>4. QED BY <1>2, <1>3

LEMMA One ==
    ASSUME NEW T, NEW a \in T
    PROVE  /\ Append(<<>>, a) \in Seq(T) /\ Append(<<>>, a) # <<>>
           /\ Head(Append(<<>>, a)) = a /\ Tail(Append(<<>>, a)) = <<>>
           /\ <<a>> \o <<>> = Append(<<>>, a)
OBVIOUS

\* A set of numbers that is not empty has a smallest one: among the sets of what is not
\* above one of its elements one is the smallest.
LEMMA MinIn ==
    ASSUME NEW m \in Nat, NEW S \in SUBSET (0..m), S # {}
    PROVE  Min(S) \in S
<1> DEFINE Below(x) == {y \in S : y <= x}
           T == {Below(x) : x \in S}
           R == StrictSubsetOrdering(S)
<1>1. \A y \in S : y \in Int
  OBVIOUS
<1>2. IsFiniteSet(S)
  <2>1. IsFiniteSet(0..m)
    BY FS_Interval
  <2>2. QED BY <2>1, FS_Subset
<1>3. T \subseteq FiniteSubsetsOf(S) /\ T # {}
  <2>1. ASSUME NEW x \in S PROVE Below(x) \in FiniteSubsetsOf(S)
    <3>1. Below(x) \in SUBSET S
      OBVIOUS
    <3> HIDE DEF Below
    <3>2. QED BY <1>2, <3>1, FS_Subset DEF FiniteSubsetsOf
  <2> HIDE DEF Below
  <2>2. QED BY <2>1
<1>4. IsWellFoundedOn(R, FiniteSubsetsOf(S))
  BY <1>2, FS_StrictSubsetOrderingWellFounded
<1>5. PICK t \in T : \A u \in T : ~(<<u, t>> \in R)
  <2> HIDE DEF T, R
  <2>1. QED BY <1>3, <1>4, WFMin
<1>6. PICK x \in S : t = Below(x)
  BY <1>5
<1>7. \A y \in S : x <= y
  <2>1. SUFFICES ASSUME NEW y \in S, ~(x <= y) PROVE FALSE
    OBVIOUS
  <2>2. Below(y) \subseteq Below(x) /\ x \in Below(x) /\ x \notin Below(y)
    <3>1. \A z \in S : z \in Int
      OBVIOUS
    <3>2. x \in Int /\ y \in Int /\ y < x
      BY <2>1, <3>1
    <3>3. \A z \in S : z <= y => z <= x
      BY <3>1, <3>2
    <3>4. Below(y) \subseteq Below(x)
      BY <3>3
    <3>5. x <= x /\ ~(x <= y)
      BY <3>2
    <3>6. QED BY <3>4, <3>5
  <2>3. <<Below(y), Below(x)>> \in R
    BY <2>2 DEF StrictSubsetOrdering
  <2>4. QED BY <1>5, <1>6, <2>3
<1>8. QED BY <1>7, Zenon DEF Min

\* MoveWork's loop ends at a name that is free.
LEMMA FreePlaceFree ==
    ASSUME NEW to \in Places, FreePrefixes(to) # {}
    PROVE  FreePlace(to) \in Places /\ disk[FreePlace(to)] = "none"
<1>1. FreePrefixes(to) \in SUBSET (0..MaxPrefix) /\ MaxPrefix \in Nat /\ to[1] \in Dirs
  BY SharedFileAssumption DEF FreePrefixes, Places
<1>2. Min(FreePrefixes(to)) \in FreePrefixes(to)
  BY <1>1, MinIn
<1>3. QED BY <1>1, <1>2 DEF FreePlace, FreePrefixes, Places

-----------------------------------------------------------------------------
(* Types                                                                   *)

LEMMA TypeParts == TypeOK <=> Types
BY DEF TypeOK, Types, FileType, PartType, SharedType, EventType, MoverType, PastType

LEMMA InitTypes == Init => Types
<1> SUFFICES ASSUME Init PROVE Types
  OBVIOUS
<1>1. home \in Dirs /\ MaxPrefix \in Nat /\ MaxFaults \in Nat /\ MaxStarts \in Nat
  BY SharedFileAssumption DEF Init
<1>2. FileType
  BY <1>1 DEF Init, FileType, Contents
<1>3. PartType
  BY <1>1 DEF Init, PartType, NewPart, Stages, Places
<1>4. SharedType
  BY DEF Init, SharedType, NewShared
<1>5. EventType /\ MoverType
  BY DEF Init, EventType, MoverType, Tables
<1>6. PastType
  <2>1. crashed = FALSE /\ finished = FALSE /\ cancelled = FALSE /\ faults = 0 /\ starts = 0
    BY DEF Init
  <2>2. 0 \in 0..MaxFaults /\ 0 \in 0..MaxStarts
    BY <1>1
  <2>3. QED BY <2>1, <2>2, Zenon DEF PastType
<1>7. QED BY <1>2, <1>3, <1>4, <1>5, <1>6 DEF Types

\* The IO thread's steps.
LEMMA MoveTypes ==
    ASSUME Types, Move
    PROVE  Types'
<1>1. Head(moves) \in Places /\ Tail(moves) \in Seq(Places)
  BY DEF Types, MoverType, Move
<1>2. copying = "no" => FreePlace(Head(moves)) \in Places
  BY <1>1, FreePlaceFree DEF Move
<1>3. PartType' /\ SharedType'
  BY DEF Types, PartType, SharedType, Move
<1>4. \A ok \in BOOLEAN, to \in Places : Answer(ok, to) => EventType' /\ MoverType'
  BY <1>1 DEF Types, EventType, MoverType, Answer, Move
<1>5. UNCHANGED moveEvents => EventType'
  BY DEF Types, EventType, Move
<1>6. PastType'
  <2>1. UNCHANGED <<crashed, finished, cancelled, starts>>
    BY DEF Move, past
  <2>2. UNCHANGED faults \/ (faults < MaxFaults /\ faults' = faults + 1)
    BY DEF Move, MoveRename, CopyBegin, CopyEnd, RemoveSource, MoveFails
  <2>3. MaxFaults \in Nat
    BY SharedFileAssumption
  <2>4. faults' \in 0..MaxFaults
    BY <2>2, <2>3 DEF Types, PastType
  <2>5. QED BY <2>1, <2>4, Zenon DEF Types, PastType
<1>7. disk' \in [Places \cup {TempFile} -> Contents] => FileType'
  BY DEF Types, FileType, Move
<1>8. CASE MoveRename
  BY <1>2, <1>3, <1>4, <1>6, <1>7, <1>8 DEF MoveRename, Types, FileType, Contents
<1>9. CASE CopyBegin
  BY <1>1, <1>2, <1>3, <1>5, <1>6, <1>7, <1>9 DEF CopyBegin, Types, FileType, MoverType, Contents
<1>10. CASE CopyEnd
  BY <1>1, <1>3, <1>5, <1>6, <1>7, <1>10 DEF CopyEnd, Types, FileType, MoverType, Contents
<1>11. CASE RemoveSource
  BY <1>1, <1>3, <1>4, <1>6, <1>7, <1>11 DEF RemoveSource, Types, FileType, Contents
<1>12. CASE MoveFails
  BY <1>1, <1>2, <1>3, <1>4, <1>6, <1>7, <1>12 DEF MoveFails, Types, FileType
<1>13. QED BY <1>8, <1>9, <1>10, <1>11, <1>12 DEF Move

\* The handler of MoveWork's results.
LEMMA HandleMoveTypes ==
    ASSUME Types, HandleMove
    PROVE  Types'
<1>1. /\ moveEvents' = Tail(moveEvents)
      /\ Tail(moveEvents) \in Seq([ok : BOOLEAN, to : Places])
      /\ Head(moveEvents) \in [ok : BOOLEAN, to : Places]
      /\ UNCHANGED <<table, home, finished, cancelled, starts, faults>>
  <2>1. /\ moveEvents # <<>> /\ moveEvents' = Tail(moveEvents)
        /\ UNCHANGED <<table, home, past, faults>>
    BY Zenon DEF HandleMove
  <2>2. moveEvents \in Seq([ok : BOOLEAN, to : Places])
    BY DEF Types, EventType
  <2>3. /\ Tail(moveEvents) \in Seq([ok : BOOLEAN, to : Places])
        /\ Head(moveEvents) \in [ok : BOOLEAN, to : Places]
    BY <2>1, <2>2, HeadTail, Zenon
  <2>4. QED BY <2>1, <2>3, Zenon DEF past
<1> DEFINE to == Head(moveEvents).to
<1>2. to \in Places
  BY <1>1
<1>3. CASE UNCHANGED <<disk, dat, pd, sf, sfEvents, pdEvents, mover, crashed>>
  <2>1. PastType'
    BY <1>1, <1>3, Zenon DEF Types, PastType
  <2>2. QED BY <1>1, <1>3, <2>1
            DEF Types, FileType, PartType, SharedType, EventType, MoverType, mover
<1>4. CASE /\ crashed' = TRUE
           /\ UNCHANGED <<disk, dat, pd, sf, sfEvents, pdEvents, mover>>
  <2>1. PastType'
    BY <1>1, <1>4, Zenon DEF Types, PastType
  <2>2. QED BY <1>1, <1>4, <2>1
            DEF Types, FileType, PartType, SharedType, EventType, MoverType, mover
<1>5. CASE OnMoved(to) /\ sf.part
  <2> HIDE DEF to
  <2>1. PastType' /\ MoverType'
    BY <1>1, <1>5 DEF OnMoved, mover, Types, PastType, MoverType
  <2>2. FileType'
    BY <1>1, <1>5 DEF OnMoved, DeleteFiles, Types, FileType, Contents
  <2>3. PartType'
    BY <1>1, <1>2, <1>5 DEF OnMoved, Types, PartType
  <2>4. SharedType'
    BY <1>1, <1>2, <1>5 DEF OnMoved, Types, SharedType
  <2>5. EventType'
    <3>1. pdEvents' = Append(pdEvents, "destroy") /\ sfEvents' = Append(sfEvents, "complete")
      BY <1>5 DEF OnMoved
    <3>2. QED BY <1>1, <3>1 DEF Types, EventType
  <2>6. QED BY <2>1, <2>2, <2>3, <2>4, <2>5 DEF Types
<1>6. CASE /\ Incoming # NoDir
           /\ pd' = [pd EXCEPT !.dest = <<Incoming, @[2]>>]
           /\ FinishDownload(<<Incoming, pd.dest[2]>>)
           /\ UNCHANGED <<disk, dat, sfEvents, pdEvents, copying, crashed>>
  <2>1. <<Incoming, pd.dest[2]>> \in Places
    BY <1>6, SharedFileAssumption DEF Types, PartType, Places
  <2>2. PastType'
    BY <1>1, <1>6, Zenon DEF Types, PastType
  <2>3. FileType' /\ EventType'
    BY <1>1, <1>6 DEF Types, FileType, EventType
  <2>4. MoverType'
    BY <1>6, <2>1 DEF FinishDownload, Types, MoverType
  <2>7. SharedType'
    BY <1>6 DEF FinishDownload, Types, SharedType
  <2>5. PartType'
    BY <1>6, <2>1 DEF Types, PartType
  <2>6. QED BY <2>2, <2>3, <2>4, <2>5, <2>7 DEF Types
<1>7. OnMoveFailed(to) => <1>3!1 \/ <1>4!1 \/ <1>6!1
  BY DEF OnMoveFailed, mover
<1>8. QED BY <1>3, <1>4, <1>5, <1>6, <1>7 DEF HandleMove, OnMoved

\* The program starts again.
LEMMA RestartTypes ==
    ASSUME Types, Restart
    PROVE  Types'
<1>1. home' \in Dirs /\ pd.dest[1] \in Dirs
  BY DEF Types, FileType, PartType, Restart, Places
<1>2. EventType' /\ MoverType'
  BY DEF Restart, EventType, MoverType, Tables
<1>3. PastType'
  <2>1. starts' \in 0..MaxStarts
    BY SharedFileAssumption DEF Types, PastType, Restart
  <2>2. crashed' = FALSE /\ UNCHANGED <<finished, cancelled, faults>>
    BY DEF Restart
  <2>3. QED BY <2>1, <2>2, Zenon DEF Types, PastType
<1>4. FileType'
  BY <1>1 DEF Restart, Types, FileType
<1>5. CASE Loadable
  <2>1. PartType'
    <3>1. <<home', 0>> \in Places
      BY <1>1, SharedFileAssumption DEF Places
    <3>2. PICK stage \in Stages : pd' = NewPart(stage, home')
      BY <1>5 DEF Restart, Stages
    <3>3. QED BY <3>1, <3>2 DEF NewPart, PartType
  <2>2. SharedType'
    <3>1. sf' = NewShared
      BY <1>5 DEF Restart
    <3>2. QED BY <3>1 DEF NewShared, SharedType
  <2>3. QED BY <1>2, <1>3, <1>4, <2>1, <2>2 DEF Types
<1>6. CASE ~Loadable
  <2>1. PartType'
    BY <1>6 DEF Restart, Types, PartType
  <2>2. SharedType'
    BY <1>6 DEF Restart, Types, SharedType
  <2>3. QED BY <1>2, <1>3, <1>4, <2>1, <2>2 DEF Types
<1>7. QED BY <1>5, <1>6

LEMMA TypesStep == Types /\ [Next]_vars => Types'
<1> SUFFICES ASSUME Types, [Next]_vars PROVE Types'
  OBVIOUS
<1> USE DEF Types
<1>1. CASE Fill
  <2>1. FileType'
    BY <1>1 DEF Fill, FileType, Contents
  <2>2. PartType'
    BY <1>1 DEF Fill, PartType, Stages
  <2>3. QED BY <1>1, <2>1, <2>2
            DEF Fill, SharedType, EventType, MoverType, PastType, events, mover, past
<1>2. CASE Verify
  <2>1. PartType'
    BY <1>2 DEF Verify, PartType, Stages
  <2>2. EventType'
    BY <1>2 DEF Verify, EventType
  <2>3. PastType'
    <3>1. finished' = TRUE /\ UNCHANGED <<crashed, cancelled, faults, starts>>
      BY <1>2 DEF Verify
    <3>2. QED BY <3>1, Zenon DEF PastType
  <2>4. QED BY <1>2, <2>1, <2>2, <2>3 DEF Verify, FileType, SharedType, MoverType, mover
<1>3. CASE Cancel
  <2>1. FileType'
    BY <1>3 DEF Cancel, DeleteFiles, FileType, Contents
  <2>2. PartType'
    BY <1>3 DEF Cancel, PartDestroy, PartType
  <2>3. EventType'
    BY <1>3 DEF Cancel, PartDestroy, EventType
  <2>4. PastType'
    <3>1. cancelled' = TRUE /\ UNCHANGED <<crashed, finished, faults, starts>>
      BY <1>3 DEF Cancel
    <3>2. QED BY <3>1, Zenon DEF PastType
  <2>5. QED BY <1>3, <2>1, <2>2, <2>3, <2>4 DEF Cancel, SharedType, MoverType, mover
<1>4. CASE Destroy
  <2>1. PartType'
    BY <1>4 DEF Destroy, PartDestroy, PartType
  <2>2. SharedType'
    BY <1>4 DEF Destroy, SharedType
  <2>3. EventType'
    <3>1. /\ sfEvents' = Append(sfEvents, "destroy")
          /\ pdEvents' = pdEvents \/ pdEvents' = Append(pdEvents, "destroy")
          /\ UNCHANGED <<moveEvents, table>>
      BY <1>4 DEF Destroy, PartDestroy
    <3>2. sfEvents \in Seq({"destroy", "complete"}) /\ pdEvents \in Seq({"destroy", "complete"})
      BY DEF EventType
    <3>3. sfEvents' \in Seq({"destroy", "complete"})
      BY <3>1, <3>2
    <3>4. pdEvents' \in Seq({"destroy", "complete"})
      BY <3>1, <3>2
    <3>5. QED BY <3>1, <3>3, <3>4, Zenon DEF EventType
  <2>4. QED BY <1>4, <2>1, <2>2, <2>3 DEF Destroy, FileType, MoverType, PastType, mover, past
<1>5. CASE Move
  BY <1>5, MoveTypes
<1>6. CASE HandleShared
  <2>1. SharedType'
    BY <1>6 DEF HandleShared, SharedType
  <2>2. EventType'
    BY <1>6 DEF HandleShared, EventType
  <2>3. QED BY <1>6, <2>1, <2>2
            DEF HandleShared, FileType, PartType, MoverType, PastType, mover, past
<1>7. CASE HandlePart
  <2>1. SharedType'
    BY <1>7 DEF HandlePart, FinishDownload, OnPartDestroy, SharedType
  <2>2. EventType'
    <3>1. /\ pdEvents # <<>> /\ pdEvents' = Tail(pdEvents)
          /\ sfEvents' = sfEvents \/ sfEvents' = Append(sfEvents, "destroy")
          /\ UNCHANGED <<moveEvents, table>>
      BY <1>7 DEF HandlePart, OnPartDestroy
    <3>2. sfEvents \in Seq({"destroy", "complete"}) /\ pdEvents \in Seq({"destroy", "complete"})
      BY DEF EventType
    <3>3. sfEvents' \in Seq({"destroy", "complete"})
      BY <3>1, <3>2
    <3>4. pdEvents' \in Seq({"destroy", "complete"})
      BY <3>1, <3>2
    <3>5. QED BY <3>1, <3>3, <3>4, Zenon DEF EventType
  <2>3. MoverType'
    BY <1>7 DEF HandlePart, FinishDownload, MoverType, PartType
  <2>4. QED BY <1>7, <2>1, <2>2, <2>3 DEF HandlePart, FileType, PartType, PastType, past
<1>8. CASE HandleMove
  BY <1>8, HandleMoveTypes
<1>9. CASE NextTable
  <2>1. /\ UNCHANGED <<disk, dat, sfEvents, pdEvents, moveEvents, mover, home, past, faults>>
        /\ DeleteShared \/ DeletePart \/ DeleteNothing
        /\ table' = After[table]
    BY <1>9, Zenon DEF NextTable
  <2>2. table' \in Tables
    BY <2>1 DEF EventType, Tables, After
  <2>3. FileType' /\ EventType' /\ MoverType'
    BY <2>1, <2>2 DEF FileType, EventType, MoverType, mover
  <2>4. PartType'
    BY <2>1 DEF DeleteShared, DeletePart, DeleteNothing, PartType
  <2>5. SharedType'
    BY <2>1 DEF DeleteShared, DeletePart, DeleteNothing, SharedType
  <2>6. PastType'
    <3>1. crashed' \in BOOLEAN
      BY <2>1 DEF DeleteShared, DeletePart, DeleteNothing, PastType
    <3>2. QED BY <2>1, <3>1, Zenon DEF PastType, past
  <2>7. QED BY <2>3, <2>4, <2>5, <2>6
<1>10. CASE Restart
  BY <1>10, RestartTypes
<1>11. CASE UNCHANGED vars
  BY <1>11 DEF vars, events, mover, past, FileType, PartType, SharedType, EventType,
               MoverType, PastType
<1>12. QED
  BY <1>1, <1>2, <1>3, <1>4, <1>5, <1>6, <1>7, <1>8, <1>9, <1>10, <1>11 DEF Next, Round

-----------------------------------------------------------------------------
(* Events posted and taken                                                 *)

LEMMA PostDestroy ==
    ASSUME NEW s \in Seq({"destroy", "complete"})
    PROVE  LET t == Append(s, "destroy")
           IN  /\ Has(t, "destroy") /\ (Has(t, "complete") <=> Has(s, "complete"))
               /\ Once(s, "complete") => Once(t, "complete")
BY HasAppend, OnceAppend

LEMMA PostComplete ==
    ASSUME NEW s \in Seq({"destroy", "complete"})
    PROVE  LET t == Append(s, "complete")
           IN  /\ Has(t, "complete") /\ (Has(t, "destroy") <=> Has(s, "destroy"))
               /\ ~Has(s, "complete") /\ Once(s, "complete") => Once(t, "complete")
BY HasAppend, OnceAppend

LEMMA Taken ==
    ASSUME NEW s \in Seq({"destroy", "complete"}), s # <<>>
    PROVE  /\ Has(s, "destroy") <=> Head(s) = "destroy" \/ Has(Tail(s), "destroy")
           /\ Has(s, "complete") <=> Head(s) = "complete" \/ Has(Tail(s), "complete")
           /\ Once(s, "complete") =>
                /\ Once(Tail(s), "complete")
                /\ Head(s) = "complete" => ~Has(Tail(s), "complete")
BY HasTail, OnceTail

LEMMA Heads ==
    ASSUME Types
    PROVE  /\ moves # <<>> => Head(moves) \in Places
           /\ moveEvents # <<>> => Head(moveEvents).to \in Places
<1>1. moves \in Seq(Places) /\ moveEvents \in Seq([ok : BOOLEAN, to : Places])
  BY DEF Types, MoverType, EventType
<1>2. moves # <<>> => Head(moves) \in Places
  BY <1>1
<1>3. moveEvents # <<>> => Head(moveEvents) \in [ok : BOOLEAN, to : Places]
  BY <1>1, HeadTail, Zenon
<1>4. QED BY <1>2, <1>3

-----------------------------------------------------------------------------
(* The main thread between the rounds                                      *)

LEMMA InitFacts == Init => Facts
<1> SUFFICES ASSUME Init PROVE Facts
  OBVIOUS
<1>1. /\ pdEvents = <<>> /\ sfEvents = <<>> /\ moveEvents = <<>> /\ moves = <<>>
      /\ copying = "no" /\ finished = FALSE /\ crashed = FALSE /\ table = "others"
      /\ pd.alive /\ ~pd.doomed /\ pd.stage = "partial" /\ disk[TempFile] = "partial"
      /\ sf.alive /\ ~sf.doomed /\ sf.part /\ sf.connected /\ ~sf.moving
      /\ sf.location = TempFile
  BY DEF Init, NewPart, NewShared
<1>2. \A e : ~Has(<<>>, e) /\ Once(<<>>, e)
  BY HasEmpty
<1>3. QED
  BY <1>1, <1>2 DEF Facts, OneOrder, Copied, Whole, FileKept, Life, Pointer, Gone, Located

LEMMA FillFacts == ASSUME IInv, Fill PROVE Facts'
<1>1. /\ pd.alive /\ pd.stage = "partial" /\ disk[TempFile] # "none"
      /\ UNCHANGED <<sf, sfEvents, pdEvents, moveEvents, table, moves, copying, crashed,
                     finished, cancelled>>
  BY DEF Fill, events, mover, past
<1>2. pd'.stage = "full" /\ pd'.alive = pd.alive /\ pd'.doomed = pd.doomed
  BY DEF Fill, IInv, Types, PartType
<1>3. disk'[TempFile] = "whole" /\ \A p \in Places : disk'[p] = disk[p]
  BY SharedFileAssumption DEF Fill, IInv, Types, FileType
<1>4. OneOrder' /\ Copied'
  BY <1>1, <1>2 DEF IInv, Facts, OneOrder, Copied
<1>5. Whole'
  BY <1>1, <1>2, <1>3 DEF IInv, Facts, OneOrder, Whole, FileKept, Anywhere
<1>6. Life'
  BY <1>1 DEF IInv, Facts, Life
<1>7. ~cancelled => Pointer'
  BY <1>1, <1>2 DEF IInv, Facts, Pointer, Gone
<1>8. ~cancelled /\ sf.alive => Located'
  BY <1>1, <1>2, <1>3 DEF IInv, Facts, OneOrder, Located, Types, SharedType
<1>9. QED BY <1>1, <1>4, <1>5, <1>6, <1>7, <1>8 DEF IInv, Facts

LEMMA VerifyFacts == ASSUME IInv, Verify PROVE Facts'
<1>1. /\ pd.alive /\ pd.stage = "full" /\ disk[TempFile] = "whole" /\ ~crashed
      /\ UNCHANGED <<disk, dat, sf, sfEvents, moveEvents, table, moves, copying, crashed,
                     cancelled>>
  BY DEF Verify, mover, Running
<1>2. pd'.stage = "verified" /\ pd'.alive = pd.alive /\ pd'.doomed = pd.doomed
  BY DEF Verify, IInv, Types, PartType
<1>3. ~Has(pdEvents, "complete") /\ Once(pdEvents, "complete") /\ moves = <<>> /\ moveEvents = <<>>
  BY <1>1 DEF IInv, Facts, OneOrder
<1>4. /\ Has(pdEvents', "complete") /\ Once(pdEvents', "complete")
      /\ Has(pdEvents', "destroy") <=> Has(pdEvents, "destroy")
  BY <1>3, PostComplete DEF Verify, IInv, Types, EventType
<1>5. OneOrder' /\ Copied'
  BY <1>1, <1>2, <1>3, <1>4 DEF IInv, Facts, OneOrder, Copied
<1>6. Whole'
  BY <1>1, <1>3 DEF Whole, FileKept, Anywhere
<1>7. Life'
  BY <1>1 DEF IInv, Facts, Life
<1>8. ~cancelled => Pointer'
  BY <1>1, <1>2, <1>4 DEF IInv, Facts, Pointer, Gone
<1>9. ~cancelled /\ sf.alive => Located'
  BY <1>1, <1>3 DEF IInv, Facts, Located
<1>10. QED BY <1>1, <1>5, <1>6, <1>7, <1>8, <1>9 DEF Facts

LEMMA CancelFacts == ASSUME IInv, Cancel PROVE Facts'
<1>1. /\ cancelled' = TRUE
      /\ UNCHANGED <<sf, sfEvents, moveEvents, table, moves, copying, crashed, finished>>
  BY DEF Cancel, mover
<1>2. pd'.stage = pd.stage
  BY DEF Cancel, PartDestroy, IInv, Types, PartType
<1>3. disk'[TempFile] = "none" /\ \A p \in Places : disk'[p] = disk[p]
  BY SharedFileAssumption DEF Cancel, DeleteFiles, IInv, Types, FileType
<1>4. /\ Has(pdEvents', "complete") <=> Has(pdEvents, "complete")
      /\ Once(pdEvents', "complete")
  BY PostDestroy DEF Cancel, PartDestroy, IInv, Types, EventType, Facts, OneOrder
<1>5. OneOrder'
  BY <1>1, <1>2, <1>4 DEF IInv, Facts, OneOrder
<1>6. moves # <<>> => Head(moves) \in Places
  BY Heads DEF IInv
<1>7. Copied'
  BY <1>1, <1>3, <1>6 DEF IInv, Facts, Copied
<1>8. moveEvents # <<>> => Head(moveEvents).to \in Places
  BY Heads DEF IInv
<1>9. Whole'
  BY <1>1, <1>3, <1>8 DEF IInv, Facts, Whole, FileKept
<1>10. Life'
  BY <1>1 DEF IInv, Facts, Life
<1>11. QED BY <1>1, <1>5, <1>7, <1>9, <1>10 DEF Facts

LEMMA DestroyFacts == ASSUME IInv, Destroy PROVE Facts'
<1>1. /\ sf.alive /\ table = "others" /\ sfEvents' = Append(sfEvents, "destroy")
      /\ UNCHANGED <<disk, dat, moveEvents, table, moves, copying, crashed, finished,
                     cancelled>>
  BY DEF Destroy, mover, past, Running
<1>2. /\ sf'.alive = sf.alive /\ sf'.doomed = sf.doomed /\ sf'.part = sf.part
      /\ sf'.moving = sf.moving /\ sf'.location = sf.location
      /\ ~sf'.connected
  BY DEF Destroy, IInv, Types, SharedType, Facts, Life
<1>3. /\ pd'.stage = pd.stage /\ pd'.alive = pd.alive
  BY DEF Destroy, PartDestroy, IInv, Types, PartType
<1>4. /\ Has(pdEvents', "complete") <=> Has(pdEvents, "complete")
      /\ Once(pdEvents', "complete")
  <2>1. pdEvents' = pdEvents \/ pdEvents' = Append(pdEvents, "destroy")
    BY DEF Destroy, PartDestroy
  <2>2. pdEvents \in Seq({"destroy", "complete"}) /\ Once(pdEvents, "complete")
    BY DEF IInv, Types, EventType, Facts, OneOrder
  <2>3. QED BY <2>1, <2>2, PostDestroy
<1>5. Has(sfEvents', "destroy")
  BY <1>1, PostDestroy DEF IInv, Types, EventType
<1>6. OneOrder' /\ Copied'
  BY <1>1, <1>3, <1>4 DEF IInv, Facts, OneOrder, Copied
<1>7. Whole'
  BY <1>1, <1>3 DEF IInv, Facts, Whole, FileKept, Anywhere
<1>8. Life'
  BY <1>1, <1>2 DEF IInv, Facts, Life
<1>9. ~cancelled => Pointer'
  BY <1>1, <1>2, <1>3, <1>4, <1>5 DEF IInv, Facts, Pointer, Gone
<1>10. ~cancelled => Located'
  BY <1>1, <1>2, <1>3, <1>4 DEF IInv, Facts, Located
<1>11. QED BY <1>1, <1>6, <1>7, <1>8, <1>9, <1>10 DEF IInv, Facts

-----------------------------------------------------------------------------
(* The IO thread                                                           *)

\* What a step of MoveWork leaves to be shown: it takes nothing that is not at its place in
\* exchange, and reports only what is there.
LEMMA MoveFacts == ASSUME IInv, Move PROVE Facts'
<1> DEFINE job == Head(moves)
<1>1. /\ ~crashed /\ moves # <<>> /\ job \in Places
      /\ copying = "no" => FreePrefixes(job) # {}
      /\ UNCHANGED <<dat, pd, sf, sfEvents, pdEvents, table, crashed, finished, cancelled>>
  BY Heads DEF Move, past, IInv
<1>2. /\ moveEvents = <<>> /\ Tail(moves) = <<>> /\ ~Has(pdEvents, "complete")
      /\ Once(pdEvents, "complete") /\ pd.stage = "verified"
      /\ disk[TempFile] \in {"none", "whole"} /\ moves \in Seq(Places)
  BY <1>1 DEF IInv, Types, MoverType, Facts, OneOrder, Whole
<1>3. copying = "no" => FreePlace(job) \in Places /\ disk[FreePlace(job)] = "none"
  BY <1>1, FreePlaceFree
<1>4. /\ DOMAIN disk = Places \cup {TempFile} /\ TempFile \notin Places
      /\ disk = [p \in DOMAIN disk |-> disk[p]]
  BY SharedFileAssumption DEF IInv, Types, FileType
<1>5. Life'
  BY <1>1 DEF IInv, Facts, Life
<1>6. sf.alive /\ ~cancelled => sf.moving /\ sf.location = TempFile
  BY <1>1 DEF IInv, Facts, Located
<1>7. ~cancelled => ~(sf.connected /\ Has(pdEvents, "destroy")) /\ ~(sf.alive /\ ~sf.part)
  BY <1>1 DEF IInv, Facts, Pointer, Gone
<1>8. ~cancelled => Pointer'
  BY <1>1, <1>7 DEF IInv, Facts, Pointer
<1>9. ~cancelled /\ sf.alive => Located'
  BY <1>1, <1>2, <1>6 DEF Located
<1>10. ASSUME NEW ok \in BOOLEAN, NEW to \in Places, Answer(ok, to)
       PROVE  /\ moves' = <<>> /\ copying' = "no" /\ OneOrder' /\ Copied'
              /\ moveEvents' # <<>> /\ Head(moveEvents').ok = ok /\ Head(moveEvents').to = to
  <2>1. /\ moves' = <<>> /\ copying' = "no"
        /\ moveEvents' = Append(<<>>, [ok |-> ok, to |-> to])
    BY <1>2, <1>10 DEF Answer
  <2>2. /\ moveEvents' # <<>> /\ Tail(moveEvents') = <<>>
        /\ Head(moveEvents') = [ok |-> ok, to |-> to]
    BY <2>1, One
  <2>3. OneOrder' /\ Copied'
    BY <1>1, <1>2, <2>1, <2>2 DEF OneOrder, Copied
  <2>4. QED BY <2>1, <2>2, <2>3
<1>11. CASE MoveRename
  <2> DEFINE to == FreePlace(job)
  <2>1. /\ to \in Places /\ Answer(TRUE, to) /\ disk[TempFile] = "whole"
        /\ disk' = [disk EXCEPT ![to] = disk[TempFile], ![TempFile] = "none"]
    BY <1>2, <1>3, <1>11 DEF MoveRename
  <2> HIDE DEF to
  <2>2. disk'[to] = "whole" /\ disk'[TempFile] = "none"
    BY <1>4, <2>1
  <2>3. Whole'
    BY <1>10, <2>1, <2>2 DEF Whole, FileKept, Anywhere
  <2>4. QED BY <1>1, <1>5, <1>8, <1>9, <1>10, <2>1, <2>3 DEF Facts
<1>12. CASE CopyBegin
  <2> DEFINE to == FreePlace(job)
  <2>1. /\ to \in Places /\ disk[to] = "none" /\ copying' = "begun"
        /\ disk' = [disk EXCEPT ![to] = "partial"] /\ moves' = <<to>> \o Tail(moves)
        /\ moveEvents' = moveEvents
    BY <1>3, <1>12 DEF CopyBegin
  <2> HIDE DEF to
  <2>2. moves' # <<>> /\ Head(moves') = to /\ Tail(moves') = <<>>
    <3>1. moves' = Append(<<>>, to)
      BY <1>2, <2>1, One
    <3>2. QED BY <2>1, <3>1, One
  <2>3. disk'[to] = "partial" /\ \A p \in Places \cup {TempFile} : p # to => disk'[p] = disk[p]
    BY <1>4, <2>1
  <2>4. OneOrder' /\ Copied'
    BY <1>1, <1>2, <2>1, <2>2, <2>3 DEF OneOrder, Copied
  <2>5. Whole'
    BY <1>1, <1>2, <1>4, <2>1, <2>3 DEF IInv, Facts, Whole, FileKept, Anywhere
  <2>6. QED BY <1>1, <1>5, <1>8, <1>9, <2>4, <2>5 DEF Facts
<1>13. CASE CopyEnd
  <2>1. /\ copying = "begun" /\ copying' = "done" /\ disk' = [disk EXCEPT ![job] = "whole"]
        /\ UNCHANGED <<moves, moveEvents>>
    BY <1>13 DEF CopyEnd
  <2> HIDE DEF job
  <2>2. /\ disk'[job] = "whole"
        /\ \A p \in Places \cup {TempFile} : p # job => disk'[p] = disk[p]
    BY <1>1, <1>4, <2>1
  <2>3. OneOrder' /\ Copied'
    BY <1>1, <1>2, <2>1, <2>2 DEF OneOrder, Copied, job
  <2>4. Whole'
    BY <1>1, <1>2, <1>4, <2>1, <2>2 DEF Whole, FileKept, Anywhere
  <2>5. QED BY <1>1, <1>5, <1>8, <1>9, <2>3, <2>4 DEF Facts
<1>14. CASE RemoveSource
  <2>1. /\ copying = "done" /\ disk' = [disk EXCEPT ![TempFile] = "none"] /\ Answer(TRUE, job)
    BY <1>14 DEF RemoveSource
  <2>2. disk[job] = "whole"
    BY <2>1 DEF IInv, Facts, Copied
  <2> HIDE DEF job
  <2>3. disk'[job] = "whole" /\ disk'[TempFile] = "none"
    BY <1>1, <1>4, <2>1, <2>2
  <2>4. Whole'
    BY <1>1, <1>10, <2>1, <2>3 DEF Whole, FileKept, Anywhere
  <2>5. QED BY <1>1, <1>5, <1>8, <1>9, <1>10, <2>1, <2>4 DEF Facts
<1>15. CASE MoveFails
  <2>1. disk' = disk /\ \E to \in Places : Answer(FALSE, to)
    BY <1>1, <1>3, <1>15 DEF MoveFails
  <2>2. PICK to \in Places : Answer(FALSE, to)
    BY <2>1
  <2>3. Whole'
    BY <1>1, <1>2, <1>10, <2>1, <2>2 DEF IInv, Facts, Whole, FileKept, Anywhere
  <2>4. QED BY <1>1, <1>5, <1>8, <1>9, <1>10, <2>2, <2>3 DEF Facts
<1>16. QED BY <1>11, <1>12, <1>13, <1>14, <1>15 DEF Move

-----------------------------------------------------------------------------
(* The handlers                                                            *)

LEMMA HandleSharedFacts == ASSUME IInv, HandleShared, ~crashed PROVE Facts'
<1>1. /\ table = "shared" /\ sfEvents # <<>> /\ sfEvents' = Tail(sfEvents)
      /\ sf' = IF Head(sfEvents) = "destroy" THEN [sf EXCEPT !.doomed = TRUE] ELSE sf
      /\ UNCHANGED <<disk, dat, pd, pdEvents, moveEvents, table, moves, copying, crashed,
                     finished, cancelled>>
  BY DEF HandleShared, mover, past
<1>2. Has(sfEvents, "destroy") <=> Head(sfEvents) = "destroy" \/ Has(sfEvents', "destroy")
  BY <1>1, Taken DEF IInv, Types, EventType
<1>3. /\ sf'.alive = sf.alive /\ sf'.part = sf.part /\ sf'.connected = sf.connected
      /\ sf'.moving = sf.moving /\ sf'.location = sf.location
      /\ sf'.doomed <=> sf.doomed \/ Head(sfEvents) = "destroy"
  BY <1>1 DEF IInv, Types, SharedType
<1>4. OneOrder' /\ Copied'
  BY <1>1 DEF IInv, Facts, OneOrder, Copied
<1>5. Whole'
  BY <1>1 DEF IInv, Facts, Whole, FileKept, Anywhere
<1>6. Life'
  BY <1>1, <1>2, <1>3 DEF IInv, Facts, Life
<1>7. ~cancelled => Pointer'
  BY <1>1, <1>2, <1>3 DEF IInv, Facts, Pointer, Gone
<1>8. ~cancelled /\ sf.alive => Located'
  BY <1>1, <1>3 DEF IInv, Facts, Located
<1>9. QED BY <1>1, <1>3, <1>4, <1>5, <1>6, <1>7, <1>8 DEF IInv, Facts

LEMMA HandlePartFacts == ASSUME IInv, HandlePart, ~crashed PROVE Facts'
<1>1. /\ table = "part" /\ pdEvents # <<>> /\ pdEvents' = Tail(pdEvents)
      /\ UNCHANGED <<disk, dat, pd, moveEvents, table, copying, crashed, finished, cancelled>>
  BY DEF HandlePart, past
<1>2. /\ Has(pdEvents, "destroy") <=> Head(pdEvents) = "destroy" \/ Has(pdEvents', "destroy")
      /\ Has(pdEvents, "complete") <=> Head(pdEvents) = "complete" \/ Has(pdEvents', "complete")
      /\ Once(pdEvents', "complete")
      /\ Head(pdEvents) = "complete" => ~Has(pdEvents', "complete")
  BY <1>1, Taken DEF IInv, Types, EventType, Facts, OneOrder
<1>3. Head(pdEvents) \in {"destroy", "complete"}
  BY <1>1, HeadTail DEF IInv, Types, EventType
<1>4. Whole'
  BY <1>1 DEF IInv, Facts, Whole, FileKept, Anywhere
<1>5. CASE ~sf.connected
  <2>1. UNCHANGED <<sf, sfEvents, moves>>
    BY <1>5 DEF HandlePart
  <2>2. OneOrder' /\ Copied'
    BY <1>1, <1>2, <2>1 DEF IInv, Facts, OneOrder, Copied
  <2>3. Life'
    BY <1>1, <2>1 DEF IInv, Facts, Life
  <2>4. ~cancelled => Pointer'
    BY <1>1, <1>2, <1>5, <2>1 DEF IInv, Facts, Pointer, Gone
  <2>5. ~cancelled /\ sf.alive => Located'
    BY <1>1, <1>2, <2>1 DEF IInv, Facts, Located
  <2>6. QED BY <1>1, <1>4, <2>1, <2>2, <2>3, <2>4, <2>5 DEF IInv, Facts
<1>6. CASE sf.connected /\ Head(pdEvents) = "complete"
  <2>1. /\ moves' = Append(moves, pd.dest) /\ sf' = [sf EXCEPT !.moving = TRUE]
        /\ sfEvents' = sfEvents
    BY <1>6 DEF HandlePart, FinishDownload
  <2>2. /\ sf'.alive = sf.alive /\ sf'.part = sf.part /\ sf'.connected = sf.connected
        /\ sf'.doomed = sf.doomed /\ sf'.location = sf.location /\ sf'.moving
    BY <2>1 DEF IInv, Types, SharedType
  <2>3. /\ moves = <<>> /\ moveEvents = <<>> /\ pd.stage = "verified" /\ copying = "no"
    BY <1>2, <1>6 DEF IInv, Facts, OneOrder, Copied
  <2>4. moves' # <<>> /\ Tail(moves') = <<>>
    BY <2>1, <2>3, One DEF IInv, Types, PartType
  <2>5. OneOrder' /\ Copied'
    BY <1>1, <1>2, <1>6, <2>3, <2>4 DEF OneOrder, Copied
  <2>6. Life'
    BY <1>1, <2>1, <2>2 DEF IInv, Facts, Life
  <2>7. ~cancelled => Pointer'
    BY <1>1, <1>2, <1>6, <2>2 DEF IInv, Facts, Pointer, Gone
  <2>8. ~cancelled /\ sf.alive => Located'
    BY <1>1, <1>2, <1>6, <2>2, <2>3 DEF IInv, Facts, Located
  <2>9. QED BY <1>1, <1>4, <2>2, <2>5, <2>6, <2>7, <2>8 DEF IInv, Facts
<1>7. CASE sf.connected /\ Head(pdEvents) = "destroy"
  <2>1. /\ moves' = moves /\ sf' = [sf EXCEPT !.connected = FALSE, !.part = FALSE]
        /\ sfEvents' = IF pd.stage = "partial" THEN Append(sfEvents, "destroy") ELSE sfEvents
    BY <1>7 DEF HandlePart, OnPartDestroy
  <2>2. /\ sf'.alive = sf.alive /\ ~sf'.part /\ ~sf'.connected
        /\ sf'.doomed = sf.doomed /\ sf'.location = sf.location /\ sf'.moving = sf.moving
    BY <2>1 DEF IInv, Types, SharedType
  <2>3. OneOrder' /\ Copied'
    BY <1>1, <1>2, <2>1 DEF IInv, Facts, OneOrder, Copied
  <2>4. Life'
    BY <1>1, <1>7, <2>2 DEF IInv, Facts, Life
  <2>5. ~cancelled => Gone /\ Gone'
    BY <1>1, <1>2, <1>7, <2>1 DEF IInv, Facts, Pointer, Gone
  <2>6. ~cancelled => Pointer'
    BY <2>2, <2>5 DEF Pointer
  <2>7. ~cancelled /\ sf.alive => Located'
    BY <1>1, <1>2, <2>1, <2>2 DEF IInv, Facts, Located
  <2>8. QED BY <1>1, <1>4, <2>2, <2>3, <2>4, <2>6, <2>7 DEF IInv, Facts
<1>8. QED BY <1>3, <1>5, <1>6, <1>7

LEMMA HandleMoveFacts == ASSUME IInv, HandleMove, ~crashed PROVE Facts'
<1> DEFINE e == Head(moveEvents)
<1>1. /\ table = "move" /\ moveEvents # <<>> /\ moveEvents' = Tail(moveEvents)
      /\ UNCHANGED <<table, finished, cancelled>>
      /\ e.to \in Places
  BY Heads DEF HandleMove, past, IInv
<1>2. /\ moveEvents' = <<>> /\ moves = <<>> /\ ~Has(pdEvents, "complete")
      /\ Once(pdEvents, "complete") /\ pd.stage = "verified" /\ copying = "no"
      /\ e.ok => disk[e.to] = "whole"
  BY <1>1 DEF IInv, Facts, OneOrder, Copied, Whole
<1>3. ~cancelled /\ sf.alive => sf.part /\ sf.moving /\ sf.location = TempFile
  BY <1>1 DEF IInv, Facts, Pointer, Gone, Located
<1>4. CASE UNCHANGED <<disk, dat, pd, sf, sfEvents, pdEvents, moves, copying>>
  <2>1. OneOrder' /\ Copied'
    BY <1>1, <1>2, <1>4 DEF OneOrder, Copied
  <2>2. Whole'
    BY <1>1, <1>2, <1>4 DEF IInv, Facts, Whole, FileKept, Anywhere
  <2>3. Life'
    BY <1>1, <1>4 DEF IInv, Facts, Life
  <2>4. ~cancelled => Pointer'
    BY <1>1, <1>2, <1>4 DEF IInv, Facts, Pointer, Gone
  <2>5. ~cancelled /\ sf.alive => Located'
    BY <1>1, <1>2, <1>4 DEF IInv, Facts, Located
  <2>6. ~cancelled => ~crashed'
    BY <1>1, <1>3 DEF HandleMove, OnMoved, OnMoveFailed
  <2>7. QED BY <1>1, <1>4, <2>1, <2>2, <2>3, <2>4, <2>5, <2>6 DEF IInv, Facts
<1>5. CASE sf.alive /\ sf.part /\ e.ok
  <2>1. /\ disk' = [disk EXCEPT ![TempFile] = "none"] /\ dat' = "none"
        /\ pd' = [pd EXCEPT !.dest = e.to, !.doomed = TRUE]
        /\ pdEvents' = Append(pdEvents, "destroy")
        /\ sfEvents' = Append(sfEvents, "complete")
        /\ sf' = [sf EXCEPT !.location = e.to, !.moving = FALSE]
        /\ UNCHANGED <<moves, copying, crashed>>
    BY <1>5 DEF HandleMove, OnMoved, DeleteFiles, mover
  <2> HIDE DEF e
  <2>2. pd'.alive = pd.alive /\ pd'.doomed /\ pd'.stage = pd.stage
    BY <2>1 DEF IInv, Types, PartType
  <2>3. /\ sf'.alive = sf.alive /\ sf'.part = sf.part /\ sf'.connected = sf.connected
        /\ sf'.doomed = sf.doomed /\ sf'.location = e.to /\ ~sf'.moving
    BY <2>1 DEF IInv, Types, SharedType
  <2>4. /\ Has(pdEvents', "destroy") /\ Once(pdEvents', "complete")
        /\ ~Has(pdEvents', "complete")
    BY <1>2, <2>1, PostDestroy DEF IInv, Types, EventType
  <2>5. Has(sfEvents', "destroy") <=> Has(sfEvents, "destroy")
    BY <2>1, PostComplete DEF IInv, Types, EventType
  <2>6. disk'[TempFile] = "none" /\ disk'[e.to] = "whole" /\ e.to # TempFile
    BY <1>1, <1>2, <1>5, <2>1, SharedFileAssumption DEF IInv, Types, FileType
  <2>7. OneOrder' /\ Copied'
    BY <1>2, <2>1, <2>2, <2>4 DEF OneOrder, Copied
  <2>8. Whole'
    BY <1>1, <1>2, <2>6 DEF Whole, FileKept, Anywhere
  <2>9. Life'
    BY <1>1, <2>3, <2>5 DEF IInv, Facts, Life
  <2>10. Gone'
    BY <1>2, <2>1, <2>2, <2>4, <2>6 DEF Gone
  <2>11. ~cancelled => Pointer'
    BY <1>1, <1>5, <2>2, <2>3, <2>4, <2>5, <2>10 DEF IInv, Facts, Pointer
  <2>12. Located'
    BY <1>2, <2>1, <2>2, <2>3, <2>4, <2>6 DEF Located
  <2>13. QED BY <1>1, <2>1, <2>7, <2>8, <2>9, <2>11, <2>12 DEF IInv, Facts
<1>6. CASE /\ sf.alive /\ sf.part
           /\ pd' = [pd EXCEPT !.dest = <<Incoming, @[2]>>]
           /\ FinishDownload(<<Incoming, pd.dest[2]>>)
           /\ UNCHANGED <<disk, dat, sfEvents, pdEvents, copying, crashed>>
  <2>1. pd'.alive = pd.alive /\ pd'.doomed = pd.doomed /\ pd'.stage = pd.stage
    BY <1>6 DEF IInv, Types, PartType
  <2>2. /\ sf'.alive = sf.alive /\ sf'.part = sf.part /\ sf'.connected = sf.connected
        /\ sf'.doomed = sf.doomed /\ sf'.location = sf.location /\ sf'.moving
    BY <1>6 DEF FinishDownload, IInv, Types, SharedType
  <2>3. moves' # <<>> /\ Tail(moves') = <<>>
    BY <1>2, <1>6, One DEF FinishDownload
  <2>4. OneOrder' /\ Copied'
    BY <1>2, <1>6, <2>1, <2>3 DEF OneOrder, Copied
  <2>5. Whole'
    BY <1>1, <1>2, <1>6, <2>1 DEF IInv, Facts, Whole, FileKept, Anywhere
  <2>6. Life'
    BY <1>1, <1>6, <2>2 DEF IInv, Facts, Life
  <2>7. ~cancelled => ~(sf.connected /\ Has(pdEvents, "destroy"))
    BY <1>1 DEF IInv, Facts, Pointer, Gone
  <2>8. ~cancelled => Pointer'
    BY <1>1, <1>6, <2>1, <2>2, <2>7 DEF IInv, Facts, Pointer
  <2>9. ~cancelled /\ sf.alive => Located'
    BY <1>2, <1>3, <1>6, <2>1, <2>2 DEF Located
  <2>10. QED BY <1>1, <1>6, <2>2, <2>4, <2>5, <2>6, <2>8, <2>9 DEF IInv, Facts
<1>7. QED
  BY <1>4, <1>5, <1>6 DEF HandleMove, OnMoved, OnMoveFailed, mover

-----------------------------------------------------------------------------
(* The end of a table's drain, and of the program                          *)

LEMMA NextTableFacts == ASSUME IInv, NextTable, ~crashed PROVE Facts'
<1>1. /\ UNCHANGED <<disk, dat, sfEvents, pdEvents, moveEvents, moves, copying, finished,
                     cancelled>>
      /\ table' = After[table] /\ table \in {"others", "shared", "part", "move"}
  BY DEF NextTable, mover, past, IInv, Types, EventType, Tables
<1>2. table' = "shared" <=> table = "others"
  BY <1>1 DEF After
<1>3. table' \in {"others", "shared"} <=> table \in {"others", "move"}
  BY <1>1 DEF After
<1>4. \A e : ~Has(<<>>, e)
  BY HasEmpty
<1>5. pd'.stage = pd.stage
  BY DEF NextTable, DeleteShared, DeletePart, DeleteNothing, IInv, Types, PartType
<1>6. OneOrder' /\ Copied'
  BY <1>1, <1>5 DEF IInv, Facts, OneOrder, Copied
<1>7. Whole'
  BY <1>1, <1>5 DEF IInv, Facts, Whole, FileKept, Anywhere
<1>8. CASE DeleteShared
  <2>1. table = "shared" /\ sfEvents = <<>> /\ ~Has(sfEvents, "destroy")
    BY <1>4, <1>8 DEF DeleteShared
  <2>2. /\ sf'.alive <=> sf.alive /\ ~sf.doomed
        /\ sf'.connected <=> sf.connected /\ ~sf.doomed
        /\ ~sf'.doomed
        /\ sf'.part = sf.part /\ sf'.moving = sf.moving /\ sf'.location = sf.location
    BY <1>8 DEF DeleteShared, IInv, Types, SharedType
  <2>3. /\ pd'.alive = pd.alive
        /\ pd'.doomed <=> pd.doomed \/ (sf.doomed /\ sf.part)
    BY <1>8 DEF DeleteShared, IInv, Types, PartType
  <2>4. crashed' <=> sf.doomed /\ sf.part /\ ~pd.alive
    BY <1>8 DEF DeleteShared
  <2>5. Life'
    BY <1>1, <2>1, <2>2 DEF IInv, Facts, Life
  <2>6. ~cancelled => Pointer' /\ ~crashed'
    BY <1>1, <1>5, <2>1, <2>2, <2>3, <2>4 DEF IInv, Facts, Life, Pointer, Gone
  <2>7. ~cancelled /\ sf.alive => Located'
    BY <1>1, <1>5, <2>2 DEF IInv, Facts, Located
  <2>8. QED BY <1>1, <1>6, <1>7, <2>2, <2>5, <2>6, <2>7 DEF Facts
<1>9. CASE DeletePart
  <2>1. /\ table = "part" /\ pdEvents = <<>> /\ ~Has(pdEvents, "destroy")
        /\ UNCHANGED <<sf, crashed>>
    BY <1>4, <1>9 DEF DeletePart
  <2>2. (pd'.alive <=> pd.alive /\ ~pd.doomed) /\ ~pd'.doomed
    BY <1>9 DEF DeletePart, IInv, Types, PartType
  <2>3. Life'
    BY <1>1, <2>1 DEF IInv, Facts, Life
  <2>4. ~cancelled => Pointer'
    BY <1>1, <1>5, <2>1, <2>2 DEF IInv, Facts, Pointer, Gone
  <2>5. ~cancelled /\ sf.alive => Located'
    BY <1>1, <1>5, <2>1 DEF IInv, Facts, Located
  <2>6. QED BY <1>1, <1>6, <1>7, <2>1, <2>3, <2>4, <2>5 DEF IInv, Facts
<1>10. CASE DeleteNothing
  <2>1. table \in {"others", "move"} /\ UNCHANGED <<sf, pd, crashed>>
    BY <1>10 DEF DeleteNothing
  <2>2. Life'
    BY <1>1, <2>1 DEF IInv, Facts, Life
  <2>3. ~cancelled => Pointer'
    BY <1>1, <1>3, <2>1 DEF IInv, Facts, Life, Pointer, Gone
  <2>4. ~cancelled /\ sf.alive => Located'
    BY <1>1, <2>1 DEF IInv, Facts, Located
  <2>5. QED BY <1>1, <1>6, <1>7, <2>1, <2>2, <2>3, <2>4 DEF IInv, Facts
<1>11. QED BY <1>8, <1>9, <1>10 DEF NextTable

LEMMA RestartFacts == ASSUME IInv, Restart PROVE Facts'
<1>1. /\ sfEvents' = <<>> /\ pdEvents' = <<>> /\ moveEvents' = <<>> /\ table' = "others"
      /\ moves' = <<>> /\ copying' = "no" /\ crashed' = FALSE
      /\ UNCHANGED <<disk, finished, cancelled>>
  BY DEF Restart
<1>2. \A e : ~Has(<<>>, e) /\ Once(<<>>, e)
  BY HasEmpty
<1>3. OneOrder' /\ Copied'
  BY <1>1, <1>2 DEF OneOrder, Copied
<1>4. CASE Loadable
  <2>1. /\ pd'.alive /\ ~pd'.doomed /\ pd'.stage # "verified"
        /\ sf'.alive /\ ~sf'.doomed /\ sf'.part /\ sf'.connected
        /\ ~sf'.moving /\ sf'.location = TempFile /\ disk[TempFile] # "none"
    BY <1>4 DEF Restart, NewPart, NewShared, Loadable
  <2>2. Whole'
    BY <1>1, <2>1 DEF IInv, Facts, Whole, FileKept, Anywhere
  <2>3. Life' /\ Pointer' /\ Located'
    BY <1>1, <1>2, <2>1 DEF Life, Pointer, Located
  <2>4. QED BY <1>1, <1>3, <2>2, <2>3 DEF Facts
<1>5. CASE ~Loadable
  <2>1. pd'.stage = pd.stage
    BY <1>5 DEF Restart, IInv, Types, PartType
  <2>2. ~sf'.alive /\ ~sf'.doomed /\ ~sf'.connected
    BY <1>5 DEF Restart, IInv, Types, SharedType
  <2>3. Whole'
    BY <1>1, <2>1 DEF IInv, Facts, Whole, FileKept, Anywhere
  <2>4. Life' /\ Pointer'
    BY <1>1, <1>2, <2>2 DEF Life, Pointer
  <2>5. QED BY <1>1, <1>3, <2>2, <2>3, <2>4 DEF Facts
<1>6. QED BY <1>4, <1>5

-----------------------------------------------------------------------------

LEMMA InitInv == Init => IInv
BY InitTypes, InitFacts DEF IInv

LEMMA NextInv == IInv /\ [Next]_vars => IInv'
<1> SUFFICES ASSUME IInv, [Next]_vars PROVE Facts'
  BY TypesStep DEF IInv
<1>1. CASE Fill \/ Verify \/ Cancel \/ Destroy
  BY <1>1, FillFacts, VerifyFacts, CancelFacts, DestroyFacts
<1>2. CASE Move
  BY <1>2, MoveFacts
<1>3. CASE Round
  BY <1>3, HandleSharedFacts, HandlePartFacts, HandleMoveFacts, NextTableFacts DEF Round
<1>4. CASE Restart
  BY <1>4, RestartFacts
<1>5. CASE UNCHANGED vars
  BY <1>5 DEF vars, events, mover, past, IInv, Facts, OneOrder, Copied, Whole, FileKept,
              Anywhere, Life, Pointer, Gone, Located
<1>6. QED BY <1>1, <1>2, <1>3, <1>4, <1>5 DEF Next

LEMMA Invariant == Spec => []IInv
BY InitInv, NextInv, PTL DEF Spec

\* Every variable keeps its type, through any number of failed moves and restarts.
THEOREM TypeCorrect == Spec => []TypeOK
<1>1. IInv => TypeOK
  BY TypeParts DEF IInv
<1>2. QED BY <1>1, Invariant, PTL

\* A download that was verified is on disk as a whole until the user cancels it: MoveWork takes
\* the temporary file away when it is somewhere else, and onMoveEvent() deletes it only then.
THEOREM Kept == Spec => []FileKept
<1>1. IInv => FileKept
  BY DEF IInv, Facts, Whole
<1>2. QED BY <1>1, Invariant, PTL

\* Where read() looks for the file it is, but while MoveWork has it.
THEOREM Found == Spec => []ReadsFind
<1>1. IInv => ReadsFind
  BY DEF IInv, Facts, Located, ReadsFind
<1>2. QED BY <1>1, Invariant, PTL

\* m_partData is neither 0 in onMoveEvent() nor dangling in ~SharedFile(), but after cancel().
THEOREM NeverDangling == Spec => []NoDangling
<1>1. IInv => NoDangling
  BY DEF IInv, Facts, NoDangling
<1>2. QED BY <1>1, Invariant, PTL

\* A SharedFile that gave up its PartData has nothing left in the temporary directory.
THEOREM Cleaned == Spec => []CleanedUp
<1>1. IInv => CleanedUp
  BY DEF IInv, Facts, Pointer, Gone, CleanedUp
<1>2. QED BY <1>1, Invariant, PTL

-----------------------------------------------------------------------------

\* MoveWork writes to names that are free and to the copy it has begun.
LEMMA StepReplacesNothing ==
    ASSUME IInv, [Next]_vars
    PROVE  \A p \in Places : disk[p] \in {"other", "whole"} => disk'[p] = disk[p]
<1> SUFFICES ASSUME NEW p \in Places, disk[p] \in {"other", "whole"}
             PROVE  disk'[p] = disk[p]
  OBVIOUS
<1>1. /\ DOMAIN disk = Places \cup {TempFile} /\ p # TempFile
      /\ disk = [q \in DOMAIN disk |-> disk[q]]
  BY SharedFileAssumption DEF IInv, Types, FileType
<1>2. CASE Move
  <2> DEFINE job == Head(moves)
  <2>1. job \in Places
    BY <1>2, Heads DEF Move, IInv
  <2>2. copying = "no" => FreePlace(job) \in Places /\ disk[FreePlace(job)] = "none"
    BY <1>2, <2>1, FreePlaceFree DEF Move
  <2>3. copying = "begun" => disk[job] = "partial"
    BY DEF IInv, Facts, Copied
  <2>4. CASE MoveRename
    BY <1>1, <2>2, <2>4 DEF MoveRename
  <2>5. CASE CopyBegin
    BY <1>1, <2>2, <2>5 DEF CopyBegin
  <2>6. CASE CopyEnd
    BY <1>1, <2>1, <2>3, <2>6 DEF CopyEnd
  <2>7. CASE RemoveSource \/ MoveFails
    BY <1>1, <2>7 DEF RemoveSource, MoveFails
  <2>8. QED BY <1>2, <2>4, <2>5, <2>6, <2>7 DEF Move
<1>3. CASE HandleMove
  BY <1>1, <1>3 DEF HandleMove, OnMoved, OnMoveFailed, DeleteFiles
<1>4. CASE Fill \/ Cancel
  BY <1>1, <1>4 DEF Fill, Cancel, DeleteFiles
<1>5. CASE Verify \/ Destroy \/ HandleShared \/ HandlePart \/ NextTable \/ Restart \/ UNCHANGED vars
  BY <1>5 DEF Verify, Destroy, HandleShared, HandlePart, NextTable, Restart, vars
<1>6. QED BY <1>2, <1>3, <1>4, <1>5 DEF Next, Round

\* Whatever is at a destination, a file of the user's or a finished download, stays as it is,
\* with any number of underscores tried and whichever way the file is moved.
THEOREM Intact == Spec => NothingReplaced
<1>1. IInv /\ [Next]_vars =>
         [\A p \in Places : disk[p] \in {"other", "whole"} => disk'[p] = disk[p]]_vars
  BY StepReplacesNothing
<1>2. QED BY <1>1, Invariant, PTL DEF Spec, NothingReplaced

=============================================================================
