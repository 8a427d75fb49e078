---------------------------- MODULE ReaderProofs ----------------------------
(***************************************************************************)
(* Theorems about Reader, for any number of paths, files, lines, lives of  *)
(* the process and any limits: its types, and what is promised of the      *)
(* lines and of the offsets.                                               *)
(***************************************************************************)
EXTENDS Reader, TLAPS, SequenceTheorems, FunctionTheorems, FiniteSetTheorems

Watchable == DirPaths \cup FilePaths
Reading   == et \in {"read", "sent"}

LEMMA ConstantFacts ==
    /\ DirPaths \subseteq Paths /\ FilePaths \subseteq Paths /\ OtherPaths \subseteq Paths
    /\ DirPaths \cap FilePaths = {} /\ None \notin Paths
    /\ \A S \in SUBSET Paths : IsFiniteSet(S) /\ Cardinality(S) \in Nat
    /\ MaxLines \in Nat /\ MaxFd \in Nat /\ MaxFiles \in Nat /\ MaxSize \in Nat
    /\ MaxMoves \in Nat /\ MaxRefusals \in Nat /\ MaxBoots \in Nat /\ MaxCrashes \in Nat
    /\ NoFile \notin Inodes /\ Inodes \subseteq Nat
    /\ Junk \subseteq BOOLEAN /\ Junk # {}
<1>1. \A S \in SUBSET Paths : IsFiniteSet(S) /\ Cardinality(S) \in Nat
  BY ReaderConstants, FS_Subset, FS_CardinalityType
<1> QED
  BY <1>1, ReaderConstants DEF Paths, Inodes, NoFile

(* A directory is listed in sequences over what it holds.                  *)
LEMMA OrderType ==
    ASSUME NEW S \in SUBSET Paths, NEW s \in Orders(S)
    PROVE  /\ s \in Seq(S) /\ DOMAIN s = 1..Len(s)
           /\ \A i \in DOMAIN s : s[i] \in S
<1>1. Cardinality(S) \in Nat
  BY ConstantFacts
<1>2. s \in [1..Cardinality(S) -> S]
  BY DEF Orders
<1>3. s \in Seq(S)
  BY <1>1, <1>2
<1> QED
  BY <1>3, LenProperties, ElementOfSeq

-----------------------------------------------------------------------------
(***************************************************************************)
(* Types, with what they rest on: a read has an open stream, and fdNum     *)
(* never falls behind the number of streams that are open.                 *)
(***************************************************************************)
FileTypes ==
    /\ dir \in [Paths -> Inodes \cup {NoFile}]
    /\ size \in [Inodes -> 0 .. MaxSize]
    /\ made \in 0 .. MaxFiles

WatchTypes ==
    /\ kernel \in Seq(InotifyEvents)
    /\ watched \subseteq Watchable
    /\ queued \in BOOLEAN
    /\ moveFrom \in DirPaths \cup {None}

EventTypes == events \in Seq(Events)

EntryTypes ==
    /\ moveTime \in [FilePaths -> {"unset", "recent", "expired"}]
    /\ fdMap \in [Paths -> FdItems \cup {None}]
    /\ aliases \in [Paths -> DirPaths \cup {None}]
    /\ fdNum \in 0 .. MaxFd + 1

ThreadTypes ==
    /\ et \in {"wait", "read", "sent", "ended"}
    /\ cur \in [path : Paths \cup {None}, key : Paths \cup {None}, pos : Nat,
                lines : 0 .. MaxLines]
    /\ main \in {"down", "run", "written", "moved"}
    /\ stopping \in BOOLEAN

SavedTypes ==
    /\ swp \in [Paths -> Nat \cup {None}]
    /\ offsets \in [Paths -> Nat \cup {None}]

HandedTypes ==
    /\ handed \subseteq Inodes \X (1 .. MaxSize)
    /\ twice \subseteq handed

BudgetTypes ==
    /\ moves \in 0 .. MaxMoves
    /\ refusals \in 0 .. MaxRefusals
    /\ boots \in 0 .. MaxBoots
    /\ crashes \in 0 .. MaxCrashes

(* What is read is the open stream of an entry.                            *)
ReadsAStream ==
    Reading =>
        /\ Up
        /\ cur.path \in Watchable
        /\ cur.key \in Paths
        /\ fdMap[cur.key] # None
        /\ fdMap[cur.key].stream # NoFile

(* At most fdNum streams are open.                                         *)
OpenCounted == Cardinality(OpenPaths) <= fdNum

TypeInv == TypeOK /\ ReadsAStream /\ OpenCounted

LEMMA TypeParts ==
    TypeOK <=> /\ FileTypes /\ WatchTypes /\ EventTypes /\ EntryTypes /\ ThreadTypes
               /\ SavedTypes /\ HandedTypes /\ BudgetTypes
BY DEF TypeOK, FileTypes, WatchTypes, EventTypes, EntryTypes, ThreadTypes, SavedTypes,
       HandedTypes, BudgetTypes, Watchable

LEMMA PrimedTypeParts ==
    ASSUME FileTypes', WatchTypes', EventTypes', EntryTypes', ThreadTypes', SavedTypes',
           HandedTypes', BudgetTypes'
    PROVE  TypeOK'
BY DEF TypeOK, FileTypes, WatchTypes, EventTypes, EntryTypes, ThreadTypes, SavedTypes,
       HandedTypes, BudgetTypes, Watchable

LEMMA EventsMade ==
    /\ \A p \in Watchable :
          Event("MODIFY", p, None) \in Events /\ Event("DELETE", p, None) \in Events
    /\ \A p \in FilePaths : Event("MOVE_SELF", p, None) \in Events
    /\ \A p, q \in DirPaths : Event("MOVE_TO", p, q) \in Events
    /\ Event("STOP", None, None) \in Events
    /\ \A p \in Watchable, k \in {"MODIFY", "DELETE", "MOVED_FROM", "MOVED_TO"} :
          [kind |-> k, path |-> p] \in InotifyEvents
BY DEF Events, Event, Watchable, InotifyEvents

(* What the event thread finds at the head of its queue.                   *)
LEMMA HeadEvent ==
    ASSUME EventTypes, events # <<>>
    PROVE  /\ Head(events) \in Events /\ Tail(events) \in Seq(Events)
           /\ Head(events).event \in {"MODIFY", "DELETE"} => Path \in Watchable
           /\ Head(events).event = "MOVE_SELF" => Path \in FilePaths
           /\ Head(events).event = "MOVE_TO" => Path \in DirPaths /\ Alias \in DirPaths
<1>1. Head(events) \in Events /\ Tail(events) \in Seq(Events)
  BY HeadTailProperties DEF EventTypes
<1> QED
  BY <1>1 DEF Events, Event, Path, Alias, Watchable

LEMMA HeadKernel ==
    ASSUME WatchTypes, kernel # <<>>
    PROVE  /\ Head(kernel).path \in Watchable /\ Tail(kernel) \in Seq(InotifyEvents)
<1>1. Head(kernel) \in InotifyEvents /\ Tail(kernel) \in Seq(InotifyEvents)
  BY HeadTailProperties DEF WatchTypes
<1> QED
  BY <1>1 DEF InotifyEvents, Watchable

LEMMA ReportType ==
    ASSUME WatchTypes, NEW q \in Seq(InotifyEvents), NEW p,
           NEW k \in {"MODIFY", "DELETE", "MOVED_FROM", "MOVED_TO"}
    PROVE  Report(q, k, p) \in Seq(InotifyEvents)
<1>1. CASE p \in watched
  <2>1. [kind |-> k, path |-> p] \in InotifyEvents
    BY <1>1, EventsMade DEF WatchTypes
  <2> QED
    BY <2>1, AppendProperties DEF Report
<1>2. CASE p \notin watched
  BY <1>2 DEF Report
<1> QED
  BY <1>1, <1>2

(* An entry that is given a stream.                                        *)
WithStream(item, i) == [item EXCEPT !.stream = i, !.good = TRUE]

(* Entries that are there are items.                                       *)
LEMMA ItemUpdates ==
    ASSUME NEW item \in FdItems
    PROVE  /\ item.offset \in Nat /\ item.stream \in Inodes \cup {NoFile}
           /\ item.good \in BOOLEAN /\ item.moveProtected \in BOOLEAN
           /\ [item EXCEPT !.stream = NoFile] \in FdItems
           /\ [item EXCEPT !.offset = @ + 1] \in FdItems
           /\ [item EXCEPT !.good = FALSE] \in FdItems
           /\ [item EXCEPT !.moveProtected = TRUE] \in FdItems
           /\ \A i \in Inodes \cup {NoFile} :
                 WithStream(item, i) \in FdItems
<1>1. item.offset \in Nat /\ item.stream \in Inodes \cup {NoFile}
      /\ item.good \in BOOLEAN /\ item.moveProtected \in BOOLEAN
  BY DEF FdItems
<1>2. [item EXCEPT !.stream = NoFile] \in FdItems
  BY DEF FdItems
<1>3. [item EXCEPT !.offset = @ + 1] \in FdItems
  BY DEF FdItems
<1>4. [item EXCEPT !.good = FALSE] \in FdItems
  BY DEF FdItems
<1>5. [item EXCEPT !.moveProtected = TRUE] \in FdItems
  BY DEF FdItems
<1>6. ASSUME NEW i \in Inodes \cup {NoFile}
      PROVE  WithStream(item, i) \in FdItems
  BY DEF FdItems, WithStream
<1> QED
  BY <1>1, <1>2, <1>3, <1>4, <1>5, <1>6

(* What an update of an item leaves as it was.                             *)
LEMMA ItemFields ==
    ASSUME NEW item \in FdItems
    PROVE  /\ item # None
           /\ \A i \in Inodes \cup {NoFile} :
                 /\ WithStream(item, i) # None
                 /\ WithStream(item, i).stream = i
                 /\ WithStream(item, i).good = TRUE
                 /\ WithStream(item, i).offset = item.offset
                 /\ WithStream(item, i).moveProtected = item.moveProtected
           /\ LET new == [item EXCEPT !.good = FALSE]
              IN  /\ new # None /\ new.stream = item.stream /\ new.good = FALSE
                  /\ new.offset = item.offset /\ new.moveProtected = item.moveProtected
           /\ LET new == [item EXCEPT !.moveProtected = TRUE]
              IN  /\ new # None /\ new.stream = item.stream /\ new.moveProtected = TRUE
                  /\ new.offset = item.offset /\ new.good = item.good
<1>1. item # None
  BY NoneIsNoItem
<1>2. ASSUME NEW i \in Inodes \cup {NoFile}
      PROVE  /\ WithStream(item, i) # None
             /\ WithStream(item, i).stream = i
             /\ WithStream(item, i).good = TRUE
             /\ WithStream(item, i).offset = item.offset
             /\ WithStream(item, i).moveProtected = item.moveProtected
  <2>1. WithStream(item, i) # None
    BY ItemUpdates, NoneIsNoItem
  <2> QED
    BY <2>1 DEF WithStream, FdItems
<1>3. LET new == [item EXCEPT !.good = FALSE]
      IN  /\ new # None /\ new.stream = item.stream /\ new.good = FALSE
          /\ new.offset = item.offset /\ new.moveProtected = item.moveProtected
  <2>1. [item EXCEPT !.good = FALSE] # None
    BY ItemUpdates, NoneIsNoItem
  <2> QED
    BY <2>1 DEF FdItems
<1>4. LET new == [item EXCEPT !.moveProtected = TRUE]
      IN  /\ new # None /\ new.stream = item.stream /\ new.moveProtected = TRUE
          /\ new.offset = item.offset /\ new.good = item.good
  <2>1. [item EXCEPT !.moveProtected = TRUE] # None
    BY ItemUpdates, NoneIsNoItem
  <2> QED
    BY <2>1 DEF FdItems
<1> QED
  BY <1>1, <1>2, <1>3, <1>4

LEMMA ItemTypes ==
    ASSUME EntryTypes, NEW p \in Paths, fdMap[p] # None
    PROVE  fdMap[p] \in FdItems
BY DEF EntryTypes

(* Streams are only closed by gcFstreamNonLock.                            *)
LEMMA GcType ==
    ASSUME EntryTypes, NEW idle \in SUBSET Closable
    PROVE  /\ AfterGc(idle) \in [Paths -> FdItems \cup {None}]
           /\ \A p \in Paths : AfterGc(idle)[p] = None <=> fdMap[p] = None
           /\ \A p \in Paths : fdMap[p] # None =>
                 /\ AfterGc(idle)[p].offset = fdMap[p].offset
                 /\ AfterGc(idle)[p].good = fdMap[p].good
                 /\ AfterGc(idle)[p].moveProtected = fdMap[p].moveProtected
                 /\ AfterGc(idle)[p].stream \in {fdMap[p].stream, NoFile}
                 /\ p \notin idle => AfterGc(idle)[p] = fdMap[p]
<1>1. \A p \in idle : p \in Paths /\ fdMap[p] # None
  BY DEF Closable, OpenPaths
<1>2. \A p \in Paths : AfterGc(idle)[p] =
         IF p \in idle THEN [fdMap[p] EXCEPT !.stream = NoFile] ELSE fdMap[p]
  BY DEF AfterGc
<1>3. \A p \in Paths : fdMap[p] # None => fdMap[p] \in FdItems
  BY DEF EntryTypes
<1>4. \A p \in idle : [fdMap[p] EXCEPT !.stream = NoFile] \in FdItems
  BY <1>1, ItemTypes, ItemUpdates
<1>5. AfterGc(idle) \in [Paths -> FdItems \cup {None}]
  BY <1>1, <1>2, <1>3, <1>4 DEF AfterGc
<1>6. \A p \in Paths : AfterGc(idle)[p] = None <=> fdMap[p] = None
  BY <1>1, <1>2, <1>4, NoneIsNoItem
<1>7. ASSUME NEW p \in Paths, fdMap[p] # None
      PROVE  /\ AfterGc(idle)[p].offset = fdMap[p].offset
             /\ AfterGc(idle)[p].good = fdMap[p].good
             /\ AfterGc(idle)[p].moveProtected = fdMap[p].moveProtected
             /\ AfterGc(idle)[p].stream \in {fdMap[p].stream, NoFile}
             /\ p \notin idle => AfterGc(idle)[p] = fdMap[p]
  BY <1>2, <1>3, <1>7 DEF FdItems
<1> QED
  BY <1>5, <1>6, <1>7

LEMMA OpenSets ==
    /\ OpenPaths \in SUBSET Paths
    /\ \A S, T \in SUBSET Paths : S \subseteq T => Cardinality(S) <= Cardinality(T)
    /\ \A S \in SUBSET Paths, p \in Paths : Cardinality(S \cup {p}) <= Cardinality(S) + 1
<1>1. ASSUME NEW S \in SUBSET Paths, NEW T \in SUBSET Paths, S \subseteq T
      PROVE  Cardinality(S) <= Cardinality(T)
  BY <1>1, ConstantFacts, FS_Subset
<1>2. ASSUME NEW S \in SUBSET Paths, NEW p \in Paths
      PROVE  Cardinality(S \cup {p}) <= Cardinality(S) + 1
  <2>1. IsFiniteSet(S) /\ Cardinality(S) \in Nat
    BY ConstantFacts
  <2>2. Cardinality(S \cup {p}) = IF p \in S THEN Cardinality(S) ELSE Cardinality(S) + 1
    BY <2>1, FS_AddElement
  <2> QED
    BY <2>1, <2>2
<1>3. OpenPaths \in SUBSET Paths
  BY DEF OpenPaths
<1> QED
  BY <1>1, <1>2, <1>3

(* What a step that leaves the entries and the reading alone keeps.        *)
LEMMA IdleKeeps ==
    ASSUME TypeInv, UNCHANGED <<fdMap, fdNum, et, cur>>, Up => Up'
    PROVE  ReadsAStream' /\ OpenCounted'
<1>1. OpenCounted'
  BY DEF TypeInv, OpenCounted, OpenPaths
<1>2. ReadsAStream'
  BY DEF TypeInv, ReadsAStream, Reading
<1> QED
  BY <1>1, <1>2

LEMMA EnvironmentTypes ==
    ASSUME TypeInv, Environment
    PROVE  TypeInv'
<1> USE DEF files, watcher, reader, saving, history, budgets
<1>1. TypeOK
  BY DEF TypeInv
<1>2. /\ UNCHANGED <<watched, queued, moveFrom, events, fdMap, aliases, fdNum, et, cur, main,
                     stopping, saving, history, refusals, boots, crashes>>
      /\ moveTime' \in [FilePaths -> {"unset", "recent", "expired"}]
  <2>1. moveTime \in [FilePaths -> {"unset", "recent", "expired"}]
    BY <1>1, TypeParts DEF EntryTypes
  <2>2. ASSUME NEW f \in FilePaths, WaitOver(f)
        PROVE  moveTime' \in [FilePaths -> {"unset", "recent", "expired"}]
    BY <2>1, <2>2 DEF WaitOver
  <2> QED
    BY <2>1, <2>2 DEF Environment, CreateFile, AppendLine, RemoveFile, RenameFile, WaitOver
<1>3. /\ dir' \in [Paths -> Inodes \cup {NoFile}]
      /\ size' \in [Inodes -> 0 .. MaxSize]
      /\ made' \in 0 .. MaxFiles
      /\ moves' \in 0 .. MaxMoves
  <2>1. /\ dir \in [Paths -> Inodes \cup {NoFile}] /\ size \in [Inodes -> 0 .. MaxSize]
        /\ made \in 0 .. MaxFiles /\ moves \in 0 .. MaxMoves
    BY <1>1, TypeParts DEF FileTypes, BudgetTypes
  <2>2. ASSUME NEW p \in Paths, CreateFile(p) PROVE <1>3!:
    BY <2>1, <2>2, ConstantFacts DEF CreateFile, Inodes
  <2>3. ASSUME NEW p \in Paths, AppendLine(p) PROVE <1>3!:
    <3>1. dir[p] \in Inodes /\ size[dir[p]] \in 0 .. MaxSize
      BY <2>1, <2>3 DEF AppendLine
    <3>2. size[dir[p]] + 1 \in 0 .. MaxSize
      BY <2>3, <3>1, ConstantFacts DEF AppendLine
    <3> QED
      BY <2>1, <2>3, <3>1, <3>2 DEF AppendLine
  <2>4. ASSUME NEW p \in Paths, RemoveFile(p) PROVE <1>3!:
    BY <2>1, <2>4, ConstantFacts DEF RemoveFile
  <2>5. ASSUME NEW p \in Paths, NEW q \in Paths, RenameFile(p, q) PROVE <1>3!:
    BY <2>1, <2>5, ConstantFacts DEF RenameFile
  <2>6. ASSUME NEW f \in FilePaths, WaitOver(f) PROVE <1>3!:
    BY <2>1, <2>6 DEF WaitOver
  <2> QED
    BY <2>2, <2>3, <2>4, <2>5, <2>6 DEF Environment
<1>4. kernel' \in Seq(InotifyEvents)
  <2>1. WatchTypes /\ kernel \in Seq(InotifyEvents)
    BY <1>1, TypeParts DEF WatchTypes
  <2>2. ASSUME NEW p \in Paths, NEW q \in Paths, RenameFile(p, q)
        PROVE  kernel' \in Seq(InotifyEvents)
    <3>1. Report(kernel, "MOVED_FROM", p) \in Seq(InotifyEvents)
      BY <2>1, ReportType
    <3> QED
      BY <2>1, <2>2, <3>1, ReportType DEF RenameFile
  <2>3. ASSUME NEW p \in Paths, AppendLine(p) \/ RemoveFile(p)
        PROVE  kernel' \in Seq(InotifyEvents)
    BY <2>1, <2>3, ReportType DEF AppendLine, RemoveFile
  <2> QED
    BY <2>1, <2>2, <2>3 DEF Environment, CreateFile, WaitOver
<1>5. FileTypes' /\ BudgetTypes'
  BY <1>1, <1>2, <1>3, TypeParts DEF FileTypes, BudgetTypes
<1>6. WatchTypes' /\ EventTypes'
  BY <1>1, <1>2, <1>4, TypeParts DEF WatchTypes, EventTypes
<1>7. EntryTypes'
  BY <1>1, <1>2, TypeParts DEF EntryTypes
<1>8. ThreadTypes' /\ SavedTypes' /\ HandedTypes'
  BY <1>1, <1>2, TypeParts DEF ThreadTypes, SavedTypes, HandedTypes
<1>9. ReadsAStream' /\ OpenCounted'
  BY <1>2, IdleKeeps DEF Up
<1> QED
  BY <1>5, <1>6, <1>7, <1>8, <1>9, PrimedTypeParts DEF TypeInv

LEMMA WatcherTypes ==
    ASSUME TypeInv, WatcherThread
    PROVE  TypeInv'
<1> USE DEF files, watcher, reader, saving, history, budgets
<1>1. TypeOK
  BY DEF TypeInv
<1>2. UNCHANGED <<files, reader, et, cur, main, stopping, saving, history, budgets>>
  BY DEF WatcherThread, CreateWatcher, ParseEvent
<1>3. WatchTypes /\ EventTypes /\ kernel \in Seq(InotifyEvents)
  BY <1>1, TypeParts DEF WatchTypes
<1>4. WatchTypes' /\ EventTypes'
  <2>1. CASE CreateWatcher
    <3>1. PICK s \in Orders(Found) :
             events' = events \o [i \in DOMAIN s |-> Event("MODIFY", s[i], None)]
      BY <2>1 DEF CreateWatcher
    <3>2. Found \in SUBSET Paths /\ Found \subseteq Watchable
      BY ConstantFacts DEF Found, Watchable
    <3>3. s \in Seq(Found) /\ DOMAIN s = 1..Len(s) /\ \A i \in DOMAIN s : s[i] \in Found
      BY <3>2, OrderType
    <3>4. Len(s) \in Nat
      BY <3>3, LenProperties
    <3>5. \A i \in DOMAIN s : Event("MODIFY", s[i], None) \in Events
      BY <3>2, <3>3, EventsMade
    <3>6. [i \in DOMAIN s |-> Event("MODIFY", s[i], None)] \in Seq(Events)
      BY <3>3, <3>4, <3>5
    <3>7. EventTypes'
      BY <1>3, <3>1, <3>6, ConcatProperties DEF EventTypes
    <3> QED
      BY <1>3, <2>1, <3>7 DEF CreateWatcher, WatchTypes, Watchable
  <2>2. CASE ParseEvent
    <3> DEFINE p == Head(kernel).path
    <3>1. p \in Watchable /\ Tail(kernel) \in Seq(InotifyEvents)
      BY <1>3, <2>2, HeadKernel DEF ParseEvent
    <3>2. UNCHANGED <<watched, queued>> /\ kernel' = Tail(kernel)
      BY <2>2 DEF ParseEvent
    <3>3. ParseDelete(p) \/ ParseModify(p) \/ ParseMovedFrom(p) \/ ParseMovedTo(p)
      BY <2>2 DEF ParseEvent
    <3>4. moveFrom' \in DirPaths \cup {None}
      BY <1>3, <3>3 DEF WatchTypes, ParseDelete, ParseModify, ParseMovedFrom, ParseMovedTo
    <3>5. events' \in Seq(Events)
      <4>1. events \in Seq(Events) /\ moveFrom \in DirPaths \cup {None}
        BY <1>3 DEF EventTypes, WatchTypes
      <4>2. CASE ParseDelete(p) \/ ParseModify(p)
        BY <3>1, <4>1, <4>2, EventsMade, AppendProperties DEF ParseDelete, ParseModify
      <4>3. CASE ParseMovedFrom(p)
        BY <3>1, <4>1, <4>3, EventsMade, AppendProperties DEF ParseMovedFrom
      <4>4. CASE ParseMovedTo(p)
        BY <3>1, <4>1, <4>4, EventsMade, AppendProperties DEF ParseMovedTo
      <4> QED
        BY <3>3, <4>2, <4>3, <4>4
    <3> QED
      BY <1>3, <3>1, <3>2, <3>4, <3>5 DEF WatchTypes, EventTypes
  <2> QED
    BY <2>1, <2>2 DEF WatcherThread
<1>5. FileTypes' /\ EntryTypes' /\ ThreadTypes'
  BY <1>1, <1>2, TypeParts DEF FileTypes, EntryTypes, ThreadTypes
<1>6. SavedTypes' /\ HandedTypes' /\ BudgetTypes'
  BY <1>1, <1>2, TypeParts DEF SavedTypes, HandedTypes, BudgetTypes
<1>7. ReadsAStream' /\ OpenCounted'
  BY <1>2, IdleKeeps DEF Up
<1> QED
  BY <1>4, <1>5, <1>6, <1>7, PrimedTypeParts DEF TypeInv

(* A step of the event thread changes its queue, the entries, what it      *)
(* reads and, for every line, the history.                                 *)
LEMMA EventThreadFrame ==
    ASSUME EventThread
    PROVE  UNCHANGED <<dir, size, made, kernel, watched, queued, moveFrom, main, stopping, swp,
                       offsets, moves, boots, crashes>> /\ Up
BY DEF EventThread, HandleDelete, HandleMoveSelf, HandleMoveTo, HandleStop, ReadGivesUp,
       ReadOpens, ReadEnds, SendLine, RefusedLine, SetFileOffset, Pops, files, watcher, reader,
       saving, history, budgets

LEMMA EventThreadRest ==
    ASSUME TypeOK, EventThread
    PROVE  FileTypes' /\ WatchTypes' /\ SavedTypes'
BY EventThreadFrame, TypeParts DEF FileTypes, WatchTypes, SavedTypes

LEMMA HandlerTypes ==
    ASSUME TypeInv, HandleDelete \/ HandleMoveSelf \/ HandleMoveTo \/ HandleStop \/ ReadGivesUp
    PROVE  TypeInv'
<1> USE DEF files, watcher, reader, saving, history, budgets
<1>1. TypeOK /\ EventTypes /\ EntryTypes /\ events \in Seq(Events)
      /\ fdMap \in [Paths -> FdItems \cup {None}]
  BY TypeParts DEF TypeInv, EventTypes, EntryTypes
<1>2. EventThread /\ Up' /\ et = "wait" /\ events # <<>>
  BY EventThreadFrame
     DEF EventThread, HandleDelete, HandleMoveSelf, HandleMoveTo, HandleStop, ReadGivesUp, Pops, Up
<1>3. FileTypes' /\ WatchTypes' /\ SavedTypes'
  BY <1>1, <1>2, EventThreadRest
<1>4. UNCHANGED <<cur, handed, twice, moves, refusals, boots, crashes, main, stopping>>
      /\ et' \in {"wait", "ended"}
  BY <1>2 DEF HandleDelete, HandleMoveSelf, HandleMoveTo, HandleStop, ReadGivesUp
<1>5. ThreadTypes' /\ HandedTypes' /\ BudgetTypes' /\ ReadsAStream'
  BY <1>1, <1>4, TypeParts DEF ThreadTypes, HandedTypes, BudgetTypes, ReadsAStream, Reading
<1>6. OpenPaths \in SUBSET Paths /\ Cardinality(OpenPaths) \in Nat /\ fdNum \in Nat
      /\ Cardinality(OpenPaths) <= fdNum /\ OpenPaths' \in SUBSET Paths
      /\ Cardinality(OpenPaths') \in Nat
  <2>1. OpenPaths \in SUBSET Paths /\ OpenPaths' \in SUBSET Paths
    BY DEF OpenPaths
  <2> QED
    BY <1>1, <2>1, ConstantFacts DEF EntryTypes, TypeInv, OpenCounted
<1>7. CASE HandleDelete
  <2>1. Path \in Watchable /\ Path \in Paths /\ Tail(events) \in Seq(Events)
    BY <1>1, <1>2, <1>7, HeadEvent, ConstantFacts DEF HandleDelete, Pops, Watchable
  <2>2. EventTypes' /\ EntryTypes'
    BY <1>1, <1>7, <2>1 DEF HandleDelete, EventTypes, EntryTypes
  <2>3. OpenPaths' \subseteq OpenPaths
    BY <1>1, <1>7, <2>1 DEF HandleDelete, OpenPaths
  <2>4. Cardinality(OpenPaths') <= Cardinality(OpenPaths)
    BY <1>6, <2>3, OpenSets
  <2>5. OpenCounted'
    BY <1>6, <1>7, <2>4 DEF HandleDelete, OpenCounted
  <2> QED
    BY <1>3, <1>5, <2>2, <2>5, PrimedTypeParts DEF TypeInv
<1>8. CASE HandleMoveSelf
  <2>1. Path \in FilePaths /\ Path \in Watchable /\ Path \in Paths /\ Tail(events) \in Seq(Events)
    BY <1>1, <1>2, <1>8, HeadEvent, ConstantFacts DEF HandleMoveSelf, Pops, Watchable
  <2>2. EventTypes'
    BY <1>1, <1>8, <2>1, EventsMade, AppendProperties DEF HandleMoveSelf, EventTypes
  <2>3. fdMap[Path] # None => [fdMap[Path] EXCEPT !.moveProtected = TRUE] \in FdItems
                              /\ fdMap[Path] \in FdItems
    BY <1>1, <2>1, ItemTypes, ItemUpdates
  <2>4. EntryTypes'
    BY <1>1, <1>8, <2>1, <2>3 DEF HandleMoveSelf, EntryTypes
  <2>5. OpenPaths' \subseteq OpenPaths
    BY <1>1, <1>8, <2>1, <2>3 DEF HandleMoveSelf, OpenPaths, FdItems
  <2>6. Cardinality(OpenPaths') <= Cardinality(OpenPaths)
    BY <1>6, <2>5, OpenSets
  <2>7. OpenCounted'
    BY <1>6, <1>8, <2>6 DEF HandleMoveSelf, OpenCounted
  <2> QED
    BY <1>3, <1>5, <2>2, <2>4, <2>7, PrimedTypeParts DEF TypeInv
<1>9. CASE HandleMoveTo
  <2>1. Path \in DirPaths /\ Alias \in DirPaths /\ Path \in Paths /\ Alias \in Paths
        /\ Path \in Watchable /\ Tail(events) \in Seq(Events)
    BY <1>1, <1>2, <1>9, HeadEvent, ConstantFacts DEF HandleMoveTo, Pops, Watchable
  <2>2. EventTypes'
    BY <1>1, <1>9, <2>1, EventsMade, AppendProperties DEF HandleMoveTo, EventTypes
  <2>3. EntryTypes'
    BY <1>1, <1>9, <2>1 DEF HandleMoveTo, EntryTypes
  <2>4. \/ OpenPaths' \subseteq OpenPaths
        \/ Alias \in OpenPaths /\ OpenPaths' \subseteq (OpenPaths \ {Alias}) \cup {Path}
    BY <1>1, <1>9, <2>1 DEF HandleMoveTo, OpenPaths
  <2>5. Cardinality(OpenPaths') <= Cardinality(OpenPaths)
    <3>1. ASSUME Alias \in OpenPaths, OpenPaths' \subseteq (OpenPaths \ {Alias}) \cup {Path}
          PROVE  Cardinality(OpenPaths') <= Cardinality(OpenPaths)
      <4> DEFINE R == OpenPaths \ {Alias}
      <4>1. R \in SUBSET Paths /\ R \cup {Path} \in SUBSET Paths
        BY <1>6, <2>1
      <4>2. Cardinality(R) = Cardinality(OpenPaths) - 1
        BY <1>6, <3>1, ConstantFacts, FS_RemoveElement
      <4>3. Cardinality(R \cup {Path}) <= Cardinality(R) + 1
        BY <2>1, <4>1, OpenSets
      <4>4. Cardinality(OpenPaths') <= Cardinality(R \cup {Path})
        BY <1>6, <3>1, <4>1, OpenSets
      <4>5. Cardinality(R \cup {Path}) \in Nat /\ Cardinality(R) \in Nat
        BY <4>1, ConstantFacts
      <4> HIDE DEF R
      <4> QED
        BY <1>6, <4>2, <4>3, <4>4, <4>5
    <3> QED
      BY <1>6, <2>4, <3>1, OpenSets
  <2>6. OpenCounted'
    BY <1>6, <1>9, <2>5 DEF HandleMoveTo, OpenCounted
  <2> QED
    BY <1>3, <1>5, <2>2, <2>3, <2>6, PrimedTypeParts DEF TypeInv
<1>10. CASE HandleStop
  <2>1. Tail(events) \in Seq(Events)
    BY <1>1, <1>2, HeadEvent
  <2>2. EventTypes' /\ EntryTypes' /\ OpenPaths' = OpenPaths /\ fdNum' = fdNum
    BY <1>1, <1>10, <2>1 DEF HandleStop, EventTypes, EntryTypes, OpenPaths
  <2> QED
    BY <1>3, <1>5, <1>6, <2>2, PrimedTypeParts DEF TypeInv, OpenCounted
<1>11. CASE ReadGivesUp
  <2>1. Head(events) \in Events /\ Tail(events) \in Seq(Events)
    BY <1>1, <1>2, HeadEvent
  <2>2. EventTypes'
    BY <1>11, <2>1, AppendProperties DEF ReadGivesUp, EventTypes
  <2>3. PICK idle \in SUBSET Closable : fdMap' = AfterGc(idle)
    BY <1>11 DEF ReadGivesUp
  <2>4. Cardinality(OpenPaths) \in 0 .. MaxFd + 1
    BY <1>1, <1>6, ConstantFacts DEF EntryTypes
  <2>5. EntryTypes'
    BY <1>1, <1>11, <2>3, <2>4, GcType DEF ReadGivesUp, EntryTypes
  <2>6. OpenPaths' \subseteq OpenPaths
    BY <1>1, <2>3, GcType DEF OpenPaths
  <2>7. Cardinality(OpenPaths') <= Cardinality(OpenPaths)
    BY <1>6, <2>6, OpenSets
  <2>8. OpenCounted'
    BY <1>11, <2>7 DEF ReadGivesUp, OpenCounted
  <2> QED
    BY <1>3, <1>5, <2>2, <2>5, <2>8, PrimedTypeParts DEF TypeInv
<1> QED
  BY <1>7, <1>8, <1>9, <1>10, <1>11

(* ReadOpens with the choices of gcFstreamNonLock and of initStream named: *)
(* the entry under key is found, reset or new, and gets a stream.          *)
OpensAs(key, idle, item) ==
    LET map    == AfterGc(idle)
        stream == StreamOf(item, key)
    IN  /\ ~Full => idle = {}
        /\ Full => Cardinality(OpenPaths) <= MaxFd
        /\ \/ fdMap[key] = None /\ \E junk \in Junk : item = NewItem(0, junk)
           \/ fdMap[key] # None /\ Expired(Path) /\ item = NewItem(0, FALSE)
           \/ fdMap[key] # None /\ ~Expired(Path) /\ item = map[key]
        /\ fdMap' = [map EXCEPT ![key] = WithStream(item, stream)]
        /\ moveTime' = IF fdMap[key] # None /\ Expired(Path)
                       THEN [moveTime EXCEPT ![Path] = "unset"] ELSE moveTime
        /\ fdNum' = (IF Full THEN Cardinality(OpenPaths) ELSE fdNum)
                    + (IF Usable(item) THEN 0 ELSE 1)
        /\ \/ stream = NoFile /\ UNCHANGED <<et, cur>>
           \/ /\ stream # NoFile
              /\ et' = "read"
              /\ cur' = [path |-> Path, key |-> key, pos |-> item.offset, lines |-> 0]

LEMMA KeyType ==
    ASSUME EntryTypes, NEW p \in Watchable
    PROVE  /\ p \in Paths /\ Key(p) \in Paths
           /\ \/ Key(p) = p
              \/ aliases[p] # None /\ Key(p) = aliases[p] /\ Key(p) \in DirPaths
<1>1. p \in Paths /\ DirPaths \subseteq Paths
  BY ConstantFacts DEF Watchable
<1>2. aliases[p] \in DirPaths \cup {None}
  BY <1>1 DEF EntryTypes
<1>3. CASE aliases[p] = None
  BY <1>1, <1>3 DEF Key
<1>4. CASE aliases[p] # None
  BY <1>1, <1>2, <1>4 DEF Key
<1> QED
  BY <1>3, <1>4

LEMMA NewItemType ==
    \A n \in Nat, j \in BOOLEAN :
        /\ NewItem(n, j) \in FdItems /\ NewItem(n, j) # None
        /\ NewItem(n, j).offset = n /\ NewItem(n, j).stream = NoFile
        /\ NewItem(n, j).good = TRUE /\ NewItem(n, j).moveProtected = j
<1>1. \A n \in Nat, j \in BOOLEAN : NewItem(n, j) \in FdItems
  BY DEF NewItem, FdItems
<1> QED
  BY <1>1, NoneIsNoItem DEF NewItem

LEMMA Opened ==
    ASSUME EventTypes, EntryTypes, ReadOpens
    PROVE  /\ Path \in Watchable /\ Key(Path) \in Paths /\ Tail(events) \in Seq(Events)
           /\ et = "wait" /\ Up /\ events # <<>> /\ events' = Tail(events)
           /\ UNCHANGED <<files, watcher, aliases, main, stopping, saving, history, budgets>>
           /\ \E idle \in SUBSET Closable, item \in FdItems : OpensAs(Key(Path), idle, item)
<1>1. /\ Path \in Watchable /\ Key(Path) \in Paths /\ Tail(events) \in Seq(Events)
      /\ et = "wait" /\ Up /\ events # <<>> /\ events' = Tail(events)
      /\ UNCHANGED <<files, watcher, aliases, main, stopping, saving, history, budgets>>
      /\ Full => Cardinality(OpenPaths) <= MaxFd
  BY HeadEvent, KeyType DEF ReadOpens, Pops
<1> DEFINE key == Key(Path)
           item(idle, junk) == IF AfterGc(idle)[key] = None THEN NewItem(0, junk)
                               ELSE IF Expired(Path) THEN ResetItem(AfterGc(idle)[key])
                               ELSE AfterGc(idle)[key]
<1>2. PICK idle \in SUBSET (IF Full THEN Closable ELSE {}), junk \in Junk :
        /\ fdMap' = [AfterGc(idle) EXCEPT ![key] =
              [item(idle, junk) EXCEPT !.stream = StreamOf(item(idle, junk), key), !.good = TRUE]]
        /\ moveTime' = IF AfterGc(idle)[key] # None /\ Expired(Path)
                       THEN [moveTime EXCEPT ![Path] = "unset"] ELSE moveTime
        /\ fdNum' = (IF Full THEN Cardinality(OpenPaths) ELSE fdNum)
                    + (IF Usable(item(idle, junk)) THEN 0 ELSE 1)
        /\ IF StreamOf(item(idle, junk), key) = NoFile THEN UNCHANGED <<et, cur>>
           ELSE /\ et' = "read"
                /\ cur' = [path |-> Path, key |-> key, pos |-> item(idle, junk).offset,
                           lines |-> 0]
  BY DEF ReadOpens
<1>3. idle \in SUBSET Closable /\ (~Full => idle = {}) /\ junk \in BOOLEAN
  BY ConstantFacts
<1>4. /\ AfterGc(idle)[key] = None <=> fdMap[key] = None
      /\ AfterGc(idle) \in [Paths -> FdItems \cup {None}]
  BY <1>1, <1>3, GcType
<1>5. /\ item(idle, junk) \in FdItems
      /\ fdMap[key] = None => item(idle, junk) = NewItem(0, junk)
      /\ fdMap[key] # None /\ Expired(Path) => item(idle, junk) = NewItem(0, FALSE)
      /\ fdMap[key] # None /\ ~Expired(Path) => item(idle, junk) = AfterGc(idle)[key]
  BY <1>1, <1>3, <1>4, NewItemType DEF ResetItem
<1> HIDE DEF item
<1>6. OpensAs(key, idle, item(idle, junk))
  BY <1>1, <1>2, <1>3, <1>4, <1>5 DEF OpensAs, WithStream
<1> QED
  BY <1>1, <1>3, <1>5, <1>6

(* The stream that is used or opened, and the entry that holds it.         *)
LEMMA StreamType ==
    ASSUME FileTypes, NEW item \in FdItems, NEW key \in Paths
    PROVE  /\ StreamOf(item, key) \in Inodes \cup {NoFile}
           /\ WithStream(item, StreamOf(item, key)) \in FdItems
<1>1. StreamOf(item, key) \in Inodes \cup {NoFile}
  BY ItemUpdates DEF FileTypes, StreamOf
<1> QED
  BY <1>1, ItemUpdates

LEMMA ReadOpensTypes ==
    ASSUME TypeInv, ReadOpens
    PROVE  TypeInv'
<1> USE DEF files, watcher, reader, saving, history, budgets
<1>1. TypeOK /\ FileTypes /\ EventTypes /\ EntryTypes /\ ThreadTypes
  BY TypeParts DEF TypeInv
<1> DEFINE key == Key(Path)
<1>2. PICK idle \in SUBSET Closable, item \in FdItems : OpensAs(key, idle, item)
  BY <1>1, Opened
<1>3. /\ Path \in Watchable /\ Path \in Paths /\ key \in Paths
      /\ Tail(events) \in Seq(Events) /\ events' = Tail(events) /\ Up
      /\ UNCHANGED <<files, watcher, aliases, main, stopping, saving, history, budgets>>
  BY <1>1, Opened, KeyType
<1> DEFINE stream == StreamOf(item, key)
           new    == WithStream(item, stream)
<1>4. /\ stream \in Inodes \cup {NoFile} /\ new \in FdItems
      /\ new.stream = stream /\ item.offset \in Nat
  BY <1>1, <1>3, StreamType, ItemUpdates, ItemFields
<1>5. /\ AfterGc(idle) \in [Paths -> FdItems \cup {None}]
      /\ \A p \in Paths : AfterGc(idle)[p] = None <=> fdMap[p] = None
      /\ \A p \in Paths : fdMap[p] # None =>
            AfterGc(idle)[p].stream \in {fdMap[p].stream, NoFile}
  BY <1>1, GcType
<1>6. fdMap' = [AfterGc(idle) EXCEPT ![key] = new]
  BY <1>2 DEF OpensAs
<1>7. fdMap' \in [Paths -> FdItems \cup {None}] /\ fdMap'[key] = new /\ new # None
  BY <1>3, <1>4, <1>5, <1>6, NoneIsNoItem
<1>8. /\ OpenPaths \in SUBSET Paths /\ Cardinality(OpenPaths) \in Nat /\ fdNum \in Nat
      /\ Cardinality(OpenPaths) <= fdNum /\ OpenPaths' \in SUBSET Paths
      /\ Cardinality(OpenPaths') \in Nat /\ fdNum <= MaxFd + 1 /\ MaxFd \in Nat
  <2>1. OpenPaths \in SUBSET Paths /\ OpenPaths' \in SUBSET Paths
    BY DEF OpenPaths
  <2> QED
    BY <1>1, <2>1, ConstantFacts DEF EntryTypes, TypeInv, OpenCounted
<1>9. /\ fdNum' \in 0 .. MaxFd + 1
      /\ Usable(item) => fdNum' >= Cardinality(OpenPaths)
      /\ ~Usable(item) => fdNum' >= Cardinality(OpenPaths) + 1
  BY <1>2, <1>8 DEF OpensAs, Full
<1>10. /\ OpenPaths' \subseteq OpenPaths \cup {key}
       /\ Usable(item) => key \in OpenPaths
  <2>1. OpenPaths' \subseteq OpenPaths \cup {key}
    BY <1>3, <1>5, <1>6 DEF OpenPaths
  <2>2. \A junk \in Junk \cup {FALSE} : ~Usable(NewItem(0, junk))
    BY ConstantFacts, NewItemType DEF Usable
  <2>3. Usable(item) => fdMap[key] # None /\ item = AfterGc(idle)[key]
    BY <1>2, <2>2 DEF OpensAs
  <2> QED
    BY <1>3, <1>5, <2>1, <2>3 DEF OpenPaths, Usable
<1>11. OpenCounted'
  <2>1. Cardinality(OpenPaths \cup {key}) <= Cardinality(OpenPaths) + 1
    BY <1>3, <1>8, OpenSets
  <2>2. Cardinality(OpenPaths') <= Cardinality(OpenPaths \cup {key})
    BY <1>3, <1>8, <1>10, OpenSets
  <2>3. Usable(item) => OpenPaths \cup {key} = OpenPaths
    BY <1>10
  <2>4. fdNum' \in Int /\ Cardinality(OpenPaths \cup {key}) \in Nat
    BY <1>3, <1>8, <1>9, ConstantFacts
  <2>5. CASE Usable(item)
    BY <1>8, <1>9, <2>2, <2>3, <2>5 DEF OpenCounted
  <2>6. CASE ~Usable(item)
    BY <1>8, <1>9, <2>1, <2>2, <2>4, <2>6 DEF OpenCounted
  <2> QED
    BY <2>5, <2>6
<1>12. EntryTypes'
  <2>1. moveTime' \in [FilePaths -> {"unset", "recent", "expired"}]
    BY <1>1, <1>2 DEF OpensAs, EntryTypes
  <2> QED
    BY <1>1, <1>3, <1>7, <1>9, <2>1 DEF EntryTypes
<1>13. ThreadTypes'
  <2>1. et' \in {"wait", "read", "sent", "ended"}
    BY <1>1, <1>2 DEF OpensAs, ThreadTypes
  <2>2. cur' \in [path : Paths \cup {None}, key : Paths \cup {None}, pos : Nat,
                  lines : 0 .. MaxLines]
    BY <1>1, <1>2, <1>3, <1>4, ConstantFacts DEF OpensAs, ThreadTypes
  <2> QED
    BY <1>1, <1>3, <2>1, <2>2 DEF ThreadTypes
<1>14. ReadsAStream'
  <2>1. CASE stream = NoFile
    BY <1>1, <1>2, <2>1, Opened DEF OpensAs, ReadsAStream, Reading
  <2>2. CASE stream # NoFile
    <3>1. cur'.path = Path /\ cur'.key = key
      BY <1>2, <2>2 DEF OpensAs
    <3> QED
      BY <1>3, <1>4, <1>7, <2>2, <3>1 DEF ReadsAStream, Up
  <2> QED
    BY <2>1, <2>2
<1>15. FileTypes' /\ WatchTypes' /\ EventTypes' /\ SavedTypes' /\ HandedTypes' /\ BudgetTypes'
  BY <1>1, <1>3, TypeParts DEF FileTypes, WatchTypes, EventTypes, SavedTypes, HandedTypes,
     BudgetTypes
<1> QED
  BY <1>11, <1>12, <1>13, <1>14, <1>15, PrimedTypeParts DEF TypeInv

(* While a file is read, the line that is next is one of its lines.        *)
LEMMA LineType ==
    ASSUME TypeInv, et = "read"
    PROVE  /\ Stream \in Inodes /\ cur.pos \in Nat /\ size[Stream] \in 0 .. MaxSize
           /\ cur.path \in Paths /\ cur.path \in Watchable /\ cur.key \in Paths
           /\ fdMap[cur.key] \in FdItems
           /\ ~AtEnd => Line \in Inodes \X (1 .. MaxSize)
<1>1. FileTypes /\ EntryTypes /\ ThreadTypes
  BY TypeParts DEF TypeInv
<1>2. /\ cur.path \in Watchable /\ cur.key \in Paths /\ fdMap[cur.key] # None
      /\ fdMap[cur.key].stream # NoFile
  BY DEF TypeInv, ReadsAStream, Reading
<1>3. fdMap[cur.key] \in FdItems
  BY <1>1, <1>2, ItemTypes
<1>4. Stream \in Inodes
  BY <1>2, <1>3, ItemUpdates DEF Stream
<1>5. size[Stream] \in 0 .. MaxSize /\ cur.pos \in Nat /\ MaxSize \in Nat
  BY <1>1, <1>4, ConstantFacts DEF FileTypes, ThreadTypes
<1>6. ~AtEnd => cur.pos + 1 \in 1 .. MaxSize
  BY <1>5 DEF AtEnd
<1>7. ~AtEnd => Line \in Inodes \X (1 .. MaxSize)
  BY <1>4, <1>6 DEF Line
<1>8. cur.path \in Paths
  BY <1>2, ConstantFacts DEF Watchable
<1> QED
  BY <1>2, <1>3, <1>4, <1>5, <1>7, <1>8

(* The entry of the event's own path, if there is one, is a line further.  *)
LEMMA AdvancedType ==
    ASSUME EntryTypes, NEW q \in Paths
    PROVE  /\ Advanced(q) \in [Paths -> FdItems \cup {None}]
           /\ \A p \in Paths : Advanced(q)[p] = None <=> fdMap[p] = None
           /\ \A p \in Paths \ {q} : Advanced(q)[p] = fdMap[p]
           /\ \A p \in Paths : fdMap[p] # None =>
                 /\ Advanced(q)[p].stream = fdMap[p].stream
                 /\ Advanced(q)[p].good = fdMap[p].good
                 /\ Advanced(q)[p].moveProtected = fdMap[p].moveProtected
                 /\ Advanced(q)[p].offset = fdMap[p].offset + (IF p = q THEN 1 ELSE 0)
<1>1. CASE fdMap[q] = None
  <2>1. Advanced(q) = fdMap
    BY <1>1 DEF Advanced
  <2>2. \A p \in Paths : fdMap[p] # None => fdMap[p].offset \in Nat
    BY ItemTypes, ItemUpdates
  <2>3. \A p \in Paths : fdMap[p] # None => fdMap[p].offset + 0 = fdMap[p].offset
    BY <2>2
  <2> QED
    BY <1>1, <2>1, <2>3 DEF EntryTypes
<1>2. CASE fdMap[q] # None
  <2>1. /\ fdMap[q] \in FdItems /\ fdMap \in [Paths -> FdItems \cup {None}]
        /\ [fdMap[q] EXCEPT !.offset = @ + 1] \in FdItems
    BY <1>2, ItemTypes, ItemUpdates DEF EntryTypes
  <2>2. Advanced(q) = [fdMap EXCEPT ![q] = [fdMap[q] EXCEPT !.offset = @ + 1]]
    BY <1>2 DEF Advanced
  <2>3. \A p \in Paths : fdMap[p] # None => fdMap[p].offset \in Nat
    BY ItemTypes, ItemUpdates
  <2>4. \A p \in Paths \ {q} : Advanced(q)[p] = fdMap[p]
    BY <2>1, <2>2
  <2>5. /\ Advanced(q)[q].offset = fdMap[q].offset + 1
        /\ Advanced(q)[q].stream = fdMap[q].stream
        /\ Advanced(q)[q].good = fdMap[q].good
        /\ Advanced(q)[q].moveProtected = fdMap[q].moveProtected
        /\ Advanced(q)[q] # None
    BY <2>1, <2>2, NoneIsNoItem DEF FdItems
  <2>6. Advanced(q) \in [Paths -> FdItems \cup {None}]
    BY <2>1, <2>2
  <2> QED
    BY <1>2, <2>3, <2>4, <2>5, <2>6
<1> QED
  BY <1>1, <1>2

LEMMA ReadingTypes ==
    ASSUME TypeInv, SendLine \/ RefusedLine \/ SetFileOffset \/ ReadEnds
    PROVE  TypeInv'
<1> USE DEF files, watcher, reader, saving, history, budgets
<1>1. TypeOK /\ FileTypes /\ EventTypes /\ EntryTypes /\ ThreadTypes /\ HandedTypes /\ BudgetTypes
  BY TypeParts DEF TypeInv
<1>2. EventThread /\ Reading
  BY DEF EventThread, Reading, SendLine, RefusedLine, SetFileOffset, ReadEnds
<1>3. FileTypes' /\ WatchTypes' /\ SavedTypes' /\ Up /\ UNCHANGED <<main, stopping>>
  BY <1>1, <1>2, EventThreadRest, EventThreadFrame
<1>4. /\ cur.path \in Watchable /\ cur.path \in Paths /\ cur.key \in Paths
      /\ fdMap[cur.key] # None /\ fdMap[cur.key].stream # NoFile
      /\ fdMap[cur.key] \in FdItems
  BY <1>1, <1>2, ConstantFacts, ItemTypes DEF TypeInv, ReadsAStream, Watchable
<1>5. Event("MODIFY", cur.path, None) \in Events
  BY <1>4, EventsMade
<1>6. EventTypes'
  BY <1>1, <1>5, AppendProperties
     DEF EventTypes, SendLine, RefusedLine, SetFileOffset, ReadEnds, Continue
<1>7. /\ moveTime' = moveTime /\ aliases' = aliases /\ fdNum' = fdNum
      /\ fdMap' \in [Paths -> FdItems \cup {None}]
      /\ \A p \in Paths : fdMap'[p] = None <=> fdMap[p] = None
      /\ \A p \in Paths : fdMap[p] # None => fdMap'[p].stream = fdMap[p].stream
  <2>1. CASE SendLine \/ RefusedLine
    BY <1>1, <2>1 DEF SendLine, RefusedLine, EntryTypes
  <2>2. CASE SetFileOffset
    BY <1>1, <1>4, <2>2, AdvancedType DEF SetFileOffset
  <2>3. CASE ReadEnds
    <3>1. [fdMap[cur.key] EXCEPT !.good = FALSE] \in FdItems
          /\ [fdMap[cur.key] EXCEPT !.good = FALSE].stream = fdMap[cur.key].stream
      BY <1>4, ItemUpdates DEF FdItems
    <3>2. fdMap' = fdMap \/ fdMap' = [fdMap EXCEPT ![cur.key] = [fdMap[cur.key] EXCEPT !.good = FALSE]]
      BY <2>3 DEF ReadEnds
    <3>3. fdMap \in [Paths -> FdItems \cup {None}]
      BY <1>1 DEF EntryTypes
    <3> QED
      BY <1>4, <2>3, <3>1, <3>2, <3>3, NoneIsNoItem DEF ReadEnds
  <2> QED
    BY <2>1, <2>2, <2>3
<1>8. EntryTypes' /\ OpenCounted'
  <2>1. OpenPaths' = OpenPaths
    BY <1>7 DEF OpenPaths
  <2> QED
    BY <1>1, <1>7, <2>1 DEF EntryTypes, TypeInv, OpenCounted
<1>9. Idle \in [path : Paths \cup {None}, key : Paths \cup {None}, pos : Nat, lines : 0 .. MaxLines]
  BY ConstantFacts DEF Idle
<1>10. ThreadTypes' /\ ReadsAStream'
  <2>1. CASE et' = "wait" /\ cur' = Idle
    BY <1>1, <1>3, <1>9, <2>1 DEF ThreadTypes, ReadsAStream, Reading
  <2>2. CASE SendLine
    BY <1>1, <1>3, <1>4, <1>7, <2>2 DEF SendLine, ThreadTypes, ReadsAStream, Reading, Up
  <2>3. CASE /\ SetFileOffset /\ ~TooMany(cur.lines + 1) /\ et' = "read"
             /\ cur' = [cur EXCEPT !.pos = @ + 1, !.lines = @ + 1]
    <3>1. cur.lines + 1 \in 0 .. MaxLines
      BY <1>1, <2>3, ConstantFacts DEF ThreadTypes, TooMany
    <3>2. cur \in [path : Paths \cup {None}, key : Paths \cup {None}, pos : Nat,
                   lines : 0 .. MaxLines]
      BY <1>1 DEF ThreadTypes
    <3>5. cur' = [path |-> cur.path, key |-> cur.key, pos |-> cur.pos + 1,
                  lines |-> cur.lines + 1]
      BY <2>3, <3>2
    <3>3. cur' \in [path : Paths \cup {None}, key : Paths \cup {None}, pos : Nat,
                    lines : 0 .. MaxLines]
      BY <3>1, <3>2, <3>5
    <3>4. cur'.path = cur.path /\ cur'.key = cur.key
      BY <2>3, <3>2
    <3> QED
      BY <1>1, <1>3, <1>4, <1>7, <2>3, <3>3, <3>4 DEF ThreadTypes, ReadsAStream, Reading, Up
  <2> QED
    BY <2>1, <2>2, <2>3 DEF RefusedLine, SetFileOffset, ReadEnds
<1>11. HandedTypes'
  <2>1. CASE SendLine
    <3>1. Line \in Inodes \X (1 .. MaxSize)
      BY <2>1, LineType DEF SendLine
    <3> QED
      BY <1>1, <2>1, <3>1 DEF SendLine, HandedTypes
  <2>2. CASE ~SendLine
    BY <1>1, <2>2 DEF HandedTypes, RefusedLine, SetFileOffset, ReadEnds
  <2> QED
    BY <2>1, <2>2
<1>12. BudgetTypes'
  BY <1>1, ConstantFacts DEF BudgetTypes, SendLine, RefusedLine, SetFileOffset, ReadEnds
<1> QED
  BY <1>3, <1>6, <1>8, <1>10, <1>11, <1>12, PrimedTypeParts DEF TypeInv

(* The main thread: boots, saves, stops and crashes.                       *)
LEMMA EndsTypes ==
    ASSUME Ends
    PROVE  WatchTypes' /\ EventTypes' /\ EntryTypes' /\ ThreadTypes' /\ ReadsAStream' /\ OpenCounted'
<1>1. Idle \in [path : Paths \cup {None}, key : Paths \cup {None}, pos : Nat, lines : 0 .. MaxLines]
  BY ConstantFacts DEF Idle
<1>2. Empty \in [Paths -> {None}]
  BY DEF Empty
<1>3. WatchTypes' /\ EventTypes'
  BY EmptySeq DEF Ends, WatchTypes, EventTypes
<1>4. EntryTypes'
  BY <1>2, ConstantFacts DEF Ends, EntryTypes
<1>5. ThreadTypes' /\ ReadsAStream'
  BY <1>1 DEF Ends, ThreadTypes, ReadsAStream, Reading
<1>6. OpenPaths' = {}
  BY <1>2 DEF Ends, OpenPaths
<1>7. OpenCounted'
  BY <1>6, FS_EmptySet DEF Ends, OpenCounted
<1> QED
  BY <1>3, <1>4, <1>5, <1>7

LEMMA LoadType ==
    ASSUME SavedTypes, NEW junk \in [Paths -> Junk]
    PROVE  /\ LoadOffsets(junk) \in [Paths -> FdItems \cup {None}]
           /\ \A p \in Paths :
                 /\ offsets[p] = None => LoadOffsets(junk)[p] = None
                 /\ offsets[p] # None =>
                       /\ LoadOffsets(junk)[p] # None
                       /\ LoadOffsets(junk)[p].offset = offsets[p]
                       /\ LoadOffsets(junk)[p].stream = NoFile
                       /\ LoadOffsets(junk)[p].good = TRUE
<1>1. \A p \in Paths : LoadOffsets(junk)[p] =
         IF offsets[p] = None THEN None ELSE NewItem(offsets[p], junk[p])
  BY DEF LoadOffsets
<1>2. \A p \in Paths : offsets[p] # None => offsets[p] \in Nat
  BY DEF SavedTypes
<1>3. \A p \in Paths : junk[p] \in BOOLEAN
  BY ConstantFacts
<1>4. LoadOffsets(junk) \in [Paths -> FdItems \cup {None}]
  BY <1>1, <1>2, <1>3, NewItemType DEF LoadOffsets
<1> QED
  BY <1>1, <1>2, <1>3, <1>4, NewItemType

LEMMA MainTypes ==
    ASSUME TypeInv, Boot \/ Save \/ Stop \/ Crash
    PROVE  TypeInv'
<1> USE DEF files, watcher, reader, saving, history, budgets
<1>1. /\ TypeOK /\ FileTypes /\ WatchTypes /\ EventTypes /\ EntryTypes /\ ThreadTypes /\ SavedTypes
      /\ HandedTypes /\ BudgetTypes
  BY TypeParts DEF TypeInv
<1>2. FileTypes' /\ HandedTypes'
  BY <1>1 DEF Boot, Save, SaveWrite, SaveBackup, SaveReplace, Stop, Crash, FileTypes, HandedTypes
<1>3. BudgetTypes'
  BY <1>1, ConstantFacts
     DEF Boot, Save, SaveWrite, SaveBackup, SaveReplace, Stop, Crash, BudgetTypes
<1>4. CASE Boot
  <2>1. PICK junk \in [Paths -> Junk] : fdMap' = LoadOffsets(junk)
    BY <1>4 DEF Boot
  <2>2. EntryTypes'
    BY <1>1, <1>4, <2>1, LoadType DEF Boot, EntryTypes
  <2>3. OpenPaths' = {}
    BY <1>1, <2>1, LoadType DEF OpenPaths
  <2>4. OpenCounted'
    BY <1>1, <1>4, <2>3, FS_EmptySet, ConstantFacts DEF Boot, OpenCounted, EntryTypes
  <2>5. WatchTypes' /\ EventTypes' /\ SavedTypes' /\ ThreadTypes'
    BY <1>1, <1>4 DEF Boot, WatchTypes, EventTypes, SavedTypes, ThreadTypes
  <2>6. ReadsAStream'
    BY <1>4 DEF Boot, TypeInv, ReadsAStream, Reading, Up
  <2> QED
    BY <1>2, <1>3, <2>2, <2>4, <2>5, <2>6, PrimedTypeParts DEF TypeInv
<1>5. CASE SaveWrite \/ SaveBackup \/ Stop \/ (SaveReplace /\ ~stopping)
  <2>1. UNCHANGED <<reader, et, cur>> /\ Up'
    BY <1>5 DEF SaveWrite, SaveBackup, SaveReplace, Stop, Up
  <2>2. ReadsAStream' /\ OpenCounted' /\ EntryTypes'
    BY <1>1, <2>1, IdleKeeps DEF EntryTypes
  <2>3. WatchTypes' /\ ThreadTypes'
    BY <1>1, <1>5 DEF SaveWrite, SaveBackup, SaveReplace, Stop, WatchTypes, ThreadTypes
  <2>4. EventTypes'
    BY <1>1, <1>5, EventsMade, AppendProperties
       DEF SaveWrite, SaveBackup, SaveReplace, Stop, EventTypes
  <2>5. SavedTypes'
    <3>1. Saved \in [Paths -> Nat \cup {None}]
      BY <1>1, ItemTypes, ItemUpdates DEF Saved
    <3>2. Empty \in [Paths -> Nat \cup {None}]
      BY DEF Empty
    <3> QED
      BY <1>1, <1>5, <3>1, <3>2 DEF SaveWrite, SaveBackup, SaveReplace, Stop, SavedTypes
  <2> QED
    BY <1>2, <1>3, <2>2, <2>3, <2>4, <2>5, PrimedTypeParts DEF TypeInv
<1>6. CASE Crash \/ (SaveReplace /\ stopping)
  <2>1. Ends
    BY <1>6 DEF Crash, SaveReplace
  <2>2. Empty \in [Paths -> Nat \cup {None}]
    BY DEF Empty
  <2>3. SavedTypes'
    BY <1>1, <1>6, <2>2 DEF Crash, SaveReplace, SavedTypes
  <2> QED
    BY <1>2, <1>3, <2>1, <2>3, EndsTypes, PrimedTypeParts DEF TypeInv
<1> QED
  BY <1>4, <1>5, <1>6 DEF Save

(* Lines that are handed over are lines of files.                          *)
LEMMA HandedFacts ==
    ASSUME HandedTypes
    PROVE  /\ HandedOf(NoFile) = {}
           /\ \A i, k : k \in HandedOf(i) <=> <<i, k>> \in handed
<1>1. \A i, k : <<i, k>> \in handed => i \in Inodes /\ k \in 1 .. MaxSize
  BY DEF HandedTypes
<1> QED
  BY <1>1, ConstantFacts DEF HandedOf

LEMMA TypesStart ==
    ASSUME Init
    PROVE  TypeInv
<1>1. Idle \in [path : Paths \cup {None}, key : Paths \cup {None}, pos : Nat, lines : 0 .. MaxLines]
  BY ConstantFacts DEF Idle
<1>2. Empty \in [Paths -> {None}]
  BY DEF Empty
<1>3. WatchTypes /\ EventTypes
  BY EmptySeq DEF Init, WatchTypes, EventTypes
<1>4. EntryTypes /\ SavedTypes
  BY <1>2, ConstantFacts DEF Init, EntryTypes, SavedTypes
<1>5. ThreadTypes /\ HandedTypes
  BY <1>1 DEF Init, ThreadTypes, HandedTypes
<1>6. 0 \in 0 .. MaxSize /\ 0 \in 0 .. MaxFiles /\ 0 \in 0 .. MaxMoves
      /\ 0 \in 0 .. MaxRefusals /\ 0 \in 0 .. MaxBoots /\ 0 \in 0 .. MaxCrashes
  BY ConstantFacts
<1>7. FileTypes /\ BudgetTypes
  BY <1>6 DEF Init, FileTypes, BudgetTypes
<1>8. OpenPaths = {}
  BY <1>2 DEF Init, OpenPaths
<1>9. ReadsAStream /\ OpenCounted
  BY <1>8, FS_EmptySet DEF Init, ReadsAStream, Reading, OpenCounted
<1> QED
  BY <1>3, <1>4, <1>5, <1>7, <1>9, TypeParts DEF TypeInv

LEMMA TypesStutter ==
    ASSUME TypeInv, UNCHANGED vars
    PROVE  TypeInv'
BY DEF vars, files, watcher, reader, saving, history, budgets, TypeInv, TypeOK,
   ReadsAStream, Reading, Up, OpenCounted, OpenPaths

LEMMA TypesStep ==
    ASSUME TypeInv, Next
    PROVE  TypeInv'
BY EnvironmentTypes, WatcherTypes, HandlerTypes, ReadOpensTypes, ReadingTypes, MainTypes
   DEF Next, EventThread

LEMMA TypesHold == Spec => []TypeInv
<1>1. TypeInv /\ [Next]_vars => TypeInv'
  BY TypesStep, TypesStutter
<1>2. Init => TypeInv
  BY TypesStart
<1> QED
  BY <1>1, <1>2, PTL DEF Spec

(***************************************************************************)
(* The types of the reader hold for any configuration and any limits: in   *)
(* particular _currentFdNum never exceeds maxfd by more than one stream,   *)
(* and only lines that are in a file are handed over.                      *)
(***************************************************************************)
THEOREM ReaderTypesHold == Spec => []TypeOK
BY TypesHold, PTL DEF TypeInv

-----------------------------------------------------------------------------
(***************************************************************************)
(* Theorems about the lines Reader hands over and the offsets it saves,    *)
(* where files are written and created but never moved or removed: no line *)
(* is skipped, no offset is ahead, and only a crash makes a line be handed *)
(* over twice.  Any number of paths, lines, refusals, lives and crashes.   *)
(***************************************************************************)

(* Files that stay where they are are only reported as modified, and the   *)
(* reader keeps no move, no alias and no time_wait period.                 *)
ModifyReports == [kind : {"MODIFY"}, path : DirPaths \cup FilePaths]

ModifyEvents ==
    [event : {"MODIFY"}, path : DirPaths \cup FilePaths, alias : {None}]
    \cup {Event("STOP", None, None)}

OnlyModified ==
    /\ kernel \in Seq(ModifyReports)
    /\ events \in Seq(ModifyEvents)
    /\ moveFrom = None
    /\ \A p \in Paths : aliases[p] = None
    /\ \A f \in FilePaths : moveTime[f] = "unset"
    /\ moves = 0

(* A stream is the file its path names, and is read under that path.       *)
OwnStream ==
    /\ \A p \in OpenPaths : fdMap[p].stream = dir[p]
    /\ Reading => cur.key = cur.path

(* The first n lines of the file at p have been handed over.               *)
HandedUpTo(p, n) == 1 .. n \subseteq HandedOf(dir[p])

(* What is kept of p, in memory or on disk, is not ahead.                  *)
NotAhead ==
    \A p \in Paths :
        /\ fdMap[p] # None => HandedUpTo(p, fdMap[p].offset)
        /\ swp[p] # None => HandedUpTo(p, swp[p])
        /\ offsets[p] # None => HandedUpTo(p, offsets[p])

(* A read goes on at the offset, which is one line behind between the two  *)
(* halves of the loop.                                                     *)
AtOffset ==
    /\ Reading => cur.pos = fdMap[cur.key].offset
    /\ et = "sent" => Line \in handed

LinesInv == TypeInv /\ OnlyModified /\ OwnStream /\ NotAhead /\ AtOffset /\ NoGap

-----------------------------------------------------------------------------
(* An inode has one name, and one that is not made yet has no lines.       *)
OneName ==
    /\ \A p, q \in Paths : dir[p] = dir[q] /\ dir[p] # NoFile => p = q
    /\ \A p \in Paths : dir[p] <= made
    /\ \A l \in handed : l[1] <= made

Counted(n) == IF n = None THEN 0 ELSE n

(* The lines of the file at p that this life and those before have read.   *)
ReadOf(p) ==
    IF fdMap[p] = None THEN 0
    ELSE fdMap[p].offset + (IF et = "sent" /\ cur.path = p THEN 1 ELSE 0)

Saving == stopping /\ main \in {"written", "moved"}

(* Without a crash, what is handed over of a file is exactly what the      *)
(* reader remembers: in memory while it is up, on disk while it is down,   *)
(* and both during the last save, when the event thread has ended.         *)
Remembered ==
    /\ Saving => et = "ended"
    /\ crashes = 0 =>
          /\ twice = {}
          /\ \A p \in Paths :
                /\ Up => HandedOf(dir[p]) = 1 .. ReadOf(p)
                /\ Saving => HandedOf(dir[p]) = 1 .. Counted(swp[p])
                /\ ~Up => HandedOf(dir[p]) = 1 .. Counted(offsets[p])

RepeatsInv == LinesInv /\ OneName /\ Remembered

-----------------------------------------------------------------------------
LEMMA InvParts ==
    ASSUME LinesInv
    PROVE  /\ TypeInv /\ OnlyModified /\ OwnStream /\ NotAhead /\ AtOffset /\ NoGap
           /\ FileTypes /\ WatchTypes /\ EventTypes /\ EntryTypes /\ ThreadTypes /\ SavedTypes
           /\ HandedTypes /\ BudgetTypes
BY TypeParts DEF LinesInv, TypeInv

(* What no handler but setFileOffset can break: offsets stay, start at 0,  *)
(* or are copied between memory and disk, and handed lines stay handed.    *)
LEMMA KeepsNotAhead ==
    ASSUME NotAhead,
           \A p \in Paths : HandedOf(dir[p]) \subseteq HandedOf(dir[p])',
           \A p \in Paths : fdMap'[p] # None =>
              \/ fdMap[p] # None /\ fdMap'[p].offset = fdMap[p].offset
              \/ fdMap'[p].offset = 0
              \/ offsets[p] # None /\ fdMap'[p].offset = offsets[p],
           \A p \in Paths : swp'[p] # None =>
              \/ swp'[p] = swp[p]
              \/ fdMap[p] # None /\ swp'[p] = fdMap[p].offset,
           \A p \in Paths : offsets'[p] # None => offsets'[p] \in {offsets[p], swp[p]}
    PROVE  NotAhead'
<1> SUFFICES ASSUME NEW p \in Paths
             PROVE  /\ fdMap'[p] # None => 1 .. fdMap'[p].offset \subseteq HandedOf(dir[p])'
                    /\ swp'[p] # None => 1 .. swp'[p] \subseteq HandedOf(dir[p])'
                    /\ offsets'[p] # None => 1 .. offsets'[p] \subseteq HandedOf(dir[p])'
  BY DEF NotAhead, HandedUpTo
<1>1. /\ fdMap[p] # None => 1 .. fdMap[p].offset \subseteq HandedOf(dir[p])
      /\ swp[p] # None => 1 .. swp[p] \subseteq HandedOf(dir[p])
      /\ offsets[p] # None => 1 .. offsets[p] \subseteq HandedOf(dir[p])
  BY DEF NotAhead, HandedUpTo
<1>2. 1 .. 0 = {}
  OBVIOUS
<1> QED
  BY <1>1, <1>2

(* Nothing is renamed or removed.                                          *)
LEMMA FilesStay ==
    ASSUME MaxMoves = 0, LinesInv, Environment
    PROVE  \E p \in Paths : CreateFile(p) \/ AppendLine(p)
<1>1. ~(moves < MaxMoves)
  BY InvParts DEF OnlyModified
<1>2. \A f \in FilePaths : moveTime[f] # "recent"
  BY InvParts DEF OnlyModified
<1> QED
  BY <1>1, <1>2 DEF Environment, RemoveFile, RenameFile, WaitOver

LEMMA ModifyMade ==
    /\ \A p \in Watchable : Event("MODIFY", p, None) \in ModifyEvents
    /\ Event("STOP", None, None) \in ModifyEvents
    /\ \A p \in Watchable : [kind |-> "MODIFY", path |-> p] \in ModifyReports
BY DEF ModifyEvents, ModifyReports, Event, Watchable

LEMMA HeadModify ==
    ASSUME OnlyModified
    PROVE  /\ events # <<>> =>
                 /\ Head(events) \in ModifyEvents /\ Tail(events) \in Seq(ModifyEvents)
                 /\ Head(events).event \in {"MODIFY", "STOP"}
           /\ kernel # <<>> =>
                 /\ Head(kernel).path \in Watchable /\ Tail(kernel) \in Seq(ModifyReports)
                 /\ Head(kernel).kind = "MODIFY"
<1>1. events # <<>> => Head(events) \in ModifyEvents /\ Tail(events) \in Seq(ModifyEvents)
  BY HeadTailProperties DEF OnlyModified
<1>2. kernel # <<>> => Head(kernel) \in ModifyReports /\ Tail(kernel) \in Seq(ModifyReports)
  BY HeadTailProperties DEF OnlyModified
<1> QED
  BY <1>1, <1>2 DEF ModifyEvents, ModifyReports, Event, Watchable

LEMMA EnvironmentLines ==
    ASSUME MaxMoves = 0, LinesInv, Environment
    PROVE  LinesInv'
<1> USE DEF files, watcher, reader, saving, history, budgets
<1>1. /\ TypeInv /\ OnlyModified /\ OwnStream /\ NotAhead /\ AtOffset /\ NoGap /\ FileTypes
      /\ WatchTypes /\ HandedTypes /\ EntryTypes
  BY InvParts
<1>2. PICK p \in Paths : CreateFile(p) \/ AppendLine(p)
  BY FilesStay
<1>3. UNCHANGED <<watched, queued, moveFrom, events, moveTime, fdMap, aliases, fdNum, et, cur,
                  main, stopping, swp, offsets, handed, twice, moves, refusals, boots, crashes>>
  BY <1>2 DEF CreateFile, AppendLine
<1>4. TypeInv'
  BY <1>1, EnvironmentTypes
<1>5. \A q \in Paths : dir'[q] = dir[q] \/ dir[q] = NoFile
  BY <1>1, <1>2 DEF CreateFile, AppendLine, FileTypes
<1>6. OnlyModified'
  <2>1. kernel' \in Seq(ModifyReports)
    <3>1. CASE CreateFile(p)
      BY <1>1, <3>1 DEF CreateFile, OnlyModified
    <3>2. CASE AppendLine(p)
      <4>1. p \in watched => [kind |-> "MODIFY", path |-> p] \in ModifyReports
        BY <1>1, ModifyMade DEF WatchTypes
      <4>2. \/ kernel' = kernel
            \/ p \in watched /\ kernel' = Append(kernel, [kind |-> "MODIFY", path |-> p])
        BY <3>2 DEF AppendLine, Report
      <4> QED
        BY <1>1, <4>1, <4>2, AppendProperties DEF OnlyModified
    <3> QED
      BY <1>2, <3>1, <3>2
  <2> QED
    BY <1>1, <1>3, <2>1 DEF OnlyModified
<1>7. OwnStream'
  BY <1>1, <1>3, <1>5 DEF OwnStream, OpenPaths, Reading
<1>8. NotAhead'
  <2>1. \A q \in Paths : HandedOf(dir[q]) \subseteq HandedOf(dir[q])'
    BY <1>1, <1>3, <1>5, HandedFacts DEF HandedOf
  <2> QED
    BY <1>1, <1>3, <2>1, KeepsNotAhead
<1>9. AtOffset'
  BY <1>1, <1>3 DEF AtOffset, Reading, Line, Stream
<1>10. NoGap'
  BY <1>1, <1>3 DEF NoGap
<1> QED
  BY <1>4, <1>6, <1>7, <1>8, <1>9, <1>10 DEF LinesInv

LEMMA WatcherLines ==
    ASSUME LinesInv, WatcherThread
    PROVE  LinesInv'
<1> USE DEF files, watcher, reader, saving, history, budgets
<1>1. /\ TypeInv /\ OnlyModified /\ OwnStream /\ NotAhead /\ AtOffset /\ NoGap
  BY InvParts
<1>2. UNCHANGED <<files, reader, et, cur, main, stopping, saving, history, budgets>>
  BY DEF WatcherThread, CreateWatcher, ParseEvent
<1>3. OnlyModified'
  <2>1. CASE CreateWatcher
    <3>1. PICK s \in Orders(Found) :
             events' = events \o [i \in DOMAIN s |-> Event("MODIFY", s[i], None)]
      BY <2>1 DEF CreateWatcher
    <3>2. Found \in SUBSET Paths /\ Found \subseteq Watchable
      BY ConstantFacts DEF Found, Watchable
    <3>3. s \in Seq(Found) /\ DOMAIN s = 1..Len(s) /\ \A i \in DOMAIN s : s[i] \in Found
      BY <3>2, OrderType
    <3>4. Len(s) \in Nat
      BY <3>3, LenProperties
    <3>5. \A i \in DOMAIN s : Event("MODIFY", s[i], None) \in ModifyEvents
      BY <3>2, <3>3, ModifyMade
    <3>6. [i \in DOMAIN s |-> Event("MODIFY", s[i], None)] \in Seq(ModifyEvents)
      BY <3>3, <3>4, <3>5
    <3>7. events' \in Seq(ModifyEvents)
      BY <1>1, <3>1, <3>6, ConcatProperties DEF OnlyModified
    <3> QED
      BY <1>1, <1>2, <2>1, <3>7 DEF CreateWatcher, OnlyModified
  <2>2. CASE ParseEvent
    <3> DEFINE p == Head(kernel).path
    <3>1. /\ p \in Watchable /\ Tail(kernel) \in Seq(ModifyReports)
          /\ Head(kernel).kind = "MODIFY"
      BY <1>1, <2>2, HeadModify DEF ParseEvent
    <3>2. kernel' = Tail(kernel)
          /\ (ParseDelete(p) \/ ParseModify(p) \/ ParseMovedFrom(p) \/ ParseMovedTo(p))
      BY <2>2 DEF ParseEvent
    <3>3. ParseModify(p)
      BY <3>1, <3>2 DEF ParseDelete, ParseMovedFrom, ParseMovedTo, Parsed
    <3>4. events' \in Seq(ModifyEvents) /\ moveFrom' = moveFrom
      BY <1>1, <3>1, <3>3, ModifyMade, AppendProperties DEF ParseModify, OnlyModified
    <3> QED
      BY <1>1, <1>2, <3>1, <3>2, <3>4 DEF OnlyModified
  <2> QED
    BY <2>1, <2>2 DEF WatcherThread
<1>4. OwnStream' /\ AtOffset' /\ NoGap'
  BY <1>1, <1>2 DEF OwnStream, OpenPaths, AtOffset, Reading, Line, Stream, NoGap
<1>5. NotAhead'
  BY <1>1, <1>2 DEF NotAhead, HandedUpTo, HandedOf
<1>6. TypeInv'
  BY <1>1, WatcherTypes
<1> QED
  BY <1>3, <1>4, <1>5, <1>6 DEF LinesInv

(* The handlers that are left: STOP, and a read that finds no room.        *)
LEMMA HandlerLines ==
    ASSUME LinesInv,
           HandleDelete \/ HandleMoveSelf \/ HandleMoveTo \/ HandleStop \/ ReadGivesUp
    PROVE  LinesInv'
<1> USE DEF files, watcher, reader, saving, history, budgets
<1>1. /\ TypeInv /\ OnlyModified /\ OwnStream /\ NotAhead /\ AtOffset /\ NoGap /\ EntryTypes
  BY InvParts
<1>2. HandleStop \/ ReadGivesUp
  BY <1>1, HeadModify DEF HandleDelete, HandleMoveSelf, HandleMoveTo, Pops
<1>3. /\ events # <<>> /\ ~Reading /\ ~Reading'
      /\ UNCHANGED <<files, watcher, moveTime, aliases, cur, main, stopping, saving, history,
                     budgets>>
  BY <1>2 DEF HandleStop, ReadGivesUp, Pops, Reading
<1>4. \E idle \in SUBSET Closable : fdMap' = fdMap \/ fdMap' = AfterGc(idle)
  BY <1>2 DEF HandleStop, ReadGivesUp
<1>5. \A p \in Paths :
         /\ fdMap'[p] = None <=> fdMap[p] = None
         /\ fdMap[p] # None =>
               /\ fdMap'[p].offset = fdMap[p].offset
               /\ fdMap'[p].stream \in {fdMap[p].stream, NoFile}
  BY <1>1, <1>4, GcType
<1>6. OnlyModified'
  <2>1. /\ Head(events) \in ModifyEvents /\ Tail(events) \in Seq(ModifyEvents)
    BY <1>1, <1>3, HeadModify
  <2>2. events' \in Seq(ModifyEvents)
    BY <1>2, <2>1, AppendProperties DEF HandleStop, ReadGivesUp
  <2> QED
    BY <1>1, <1>3, <2>2 DEF OnlyModified
<1>7. OwnStream'
  BY <1>1, <1>3, <1>5 DEF OwnStream, OpenPaths
<1>8. NotAhead'
  <2>1. \A p \in Paths : HandedOf(dir[p]) \subseteq HandedOf(dir[p])'
    BY <1>3 DEF HandedOf
  <2> QED
    BY <1>1, <1>3, <1>5, <2>1, KeepsNotAhead
<1>9. AtOffset' /\ NoGap'
  BY <1>1, <1>3 DEF AtOffset, NoGap, Reading
<1>10. TypeInv'
  BY <1>1, HandlerTypes
<1> QED
  BY <1>6, <1>7, <1>8, <1>9, <1>10 DEF LinesInv

(* A file that is opened goes on at its offset, a new one at its first     *)
(* line; the stream that is kept or opened is the file's own.              *)
LEMMA OpensOwn ==
    ASSUME LinesInv, ReadOpens
    PROVE  /\ Path \in Watchable /\ Path \in Paths /\ events # <<>> /\ events' = Tail(events)
           /\ Up /\ et = "wait" /\ moveTime' = moveTime
           /\ UNCHANGED <<files, watcher, aliases, main, stopping, saving, history, budgets>>
           /\ \A p \in Paths \ {Path} :
                 /\ fdMap'[p] = None <=> fdMap[p] = None
                 /\ fdMap[p] # None =>
                       /\ fdMap'[p].offset = fdMap[p].offset
                       /\ fdMap'[p].stream \in {fdMap[p].stream, NoFile}
           /\ fdMap'[Path] # None /\ fdMap'[Path].stream \in {dir[Path], NoFile}
           /\ fdMap'[Path].offset = IF fdMap[Path] = None THEN 0 ELSE fdMap[Path].offset
           /\ \/ UNCHANGED <<et, cur>>
              \/ /\ et' = "read" /\ cur'.key = Path /\ cur'.path = Path
                 /\ cur'.pos = fdMap'[Path].offset
<1>1. /\ TypeInv /\ OnlyModified /\ OwnStream /\ FileTypes /\ EventTypes /\ EntryTypes
  BY InvParts
<1>2. PICK idle \in SUBSET Closable, item \in FdItems : OpensAs(Key(Path), idle, item)
  BY <1>1, Opened
<1>3. /\ Path \in Watchable /\ Path \in Paths /\ events # <<>> /\ events' = Tail(events) /\ Up
      /\ et = "wait"
      /\ UNCHANGED <<files, watcher, aliases, main, stopping, saving, history, budgets>>
  BY <1>1, Opened, KeyType
<1>4. Key(Path) = Path
  BY <1>1, <1>3 DEF Key, OnlyModified
<1>5. ~Expired(Path)
  BY <1>1, <1>3 DEF Expired, OnlyModified
<1> DEFINE stream == StreamOf(item, Path)
           entry  == WithStream(item, stream)
<1>6. entry # None /\ entry.stream = stream /\ entry.offset = item.offset
  <2>1. stream \in Inodes \cup {NoFile}
    BY <1>1, <1>3, StreamType
  <2>2. \A i \in Inodes \cup {NoFile} :
           WithStream(item, i) # None /\ WithStream(item, i).stream = i
           /\ WithStream(item, i).offset = item.offset
    BY ItemUpdates, ItemFields
  <2> QED
    BY <2>1, <2>2
<1>7. /\ AfterGc(idle) \in [Paths -> FdItems \cup {None}]
      /\ \A p \in Paths : AfterGc(idle)[p] = None <=> fdMap[p] = None
      /\ \A p \in Paths : fdMap[p] # None =>
            /\ AfterGc(idle)[p].offset = fdMap[p].offset
            /\ AfterGc(idle)[p].stream \in {fdMap[p].stream, NoFile}
  BY <1>1, GcType
<1>8. fdMap' = [AfterGc(idle) EXCEPT ![Path] = entry] /\ moveTime' = moveTime
  BY <1>2, <1>4, <1>5 DEF OpensAs
<1>9. /\ fdMap'[Path] = entry
      /\ \A p \in Paths \ {Path} : fdMap'[p] = AfterGc(idle)[p]
  BY <1>3, <1>7, <1>8
<1>10. \/ fdMap[Path] = None /\ item.offset = 0 /\ item.stream = NoFile
       \/ /\ fdMap[Path] # None /\ item.offset = fdMap[Path].offset
          /\ item.stream \in {fdMap[Path].stream, NoFile}
  <2>1. CASE fdMap[Path] = None
    <3>1. PICK junk \in Junk : item = NewItem(0, junk)
      BY <1>2, <1>4, <2>1 DEF OpensAs
    <3> QED
      BY <2>1, <3>1, ConstantFacts, NewItemType
  <2>2. CASE fdMap[Path] # None
    BY <1>2, <1>3, <1>4, <1>5, <1>7, <2>2 DEF OpensAs
  <2> QED
    BY <2>1, <2>2
<1>11. stream \in {dir[Path], NoFile}
  BY <1>1, <1>3, <1>10 DEF StreamOf, Usable, OwnStream, OpenPaths
<1>12. \/ UNCHANGED <<et, cur>>
       \/ et' = "read" /\ cur'.key = Path /\ cur'.path = Path /\ cur'.pos = item.offset
  BY <1>2, <1>4 DEF OpensAs
<1> QED
  BY <1>3, <1>6, <1>7, <1>8, <1>9, <1>10, <1>11, <1>12

LEMMA ReadOpensLines ==
    ASSUME LinesInv, ReadOpens
    PROVE  LinesInv'
<1> USE DEF files, watcher, reader, saving, history, budgets
<1>1. /\ TypeInv /\ OnlyModified /\ OwnStream /\ NotAhead /\ AtOffset /\ NoGap
  BY InvParts
<1>2. /\ Path \in Paths /\ events # <<>> /\ events' = Tail(events) /\ moveTime' = moveTime
      /\ ~Reading
      /\ UNCHANGED <<files, watcher, aliases, main, stopping, saving, history, budgets>>
      /\ \/ UNCHANGED <<et, cur>>
         \/ /\ et' = "read" /\ cur'.key = Path /\ cur'.path = Path
            /\ cur'.pos = fdMap'[Path].offset
  BY OpensOwn DEF Reading
<1>3. /\ fdMap'[Path] # None /\ fdMap'[Path].stream \in {dir[Path], NoFile}
      /\ fdMap'[Path].offset = IF fdMap[Path] = None THEN 0 ELSE fdMap[Path].offset
      /\ \A p \in Paths \ {Path} :
            /\ fdMap'[p] = None <=> fdMap[p] = None
            /\ fdMap[p] # None =>
                  /\ fdMap'[p].offset = fdMap[p].offset
                  /\ fdMap'[p].stream \in {fdMap[p].stream, NoFile}
  BY OpensOwn
<1>4. OnlyModified'
  BY <1>1, <1>2, HeadModify DEF OnlyModified
<1>5. OwnStream'
  BY <1>1, <1>2, <1>3 DEF OwnStream, OpenPaths, Reading
<1>6. NotAhead'
  <2>1. \A p \in Paths : HandedOf(dir[p]) \subseteq HandedOf(dir[p])'
    BY <1>2 DEF HandedOf
  <2>2. \A p \in Paths : fdMap'[p] # None =>
           \/ fdMap[p] # None /\ fdMap'[p].offset = fdMap[p].offset
           \/ fdMap'[p].offset = 0
    BY <1>3
  <2> QED
    BY <1>1, <1>2, <2>1, <2>2, KeepsNotAhead
<1>7. AtOffset'
  BY <1>2 DEF AtOffset, Reading
<1>8. NoGap'
  BY <1>1, <1>2 DEF NoGap
<1>9. TypeInv'
  BY <1>1, ReadOpensTypes
<1> QED
  BY <1>4, <1>5, <1>6, <1>7, <1>8, <1>9 DEF LinesInv

(* The line behind the offset is handed over, and those before it were.    *)
LEMMA SendLineLines ==
    ASSUME LinesInv, SendLine
    PROVE  LinesInv'
<1> USE DEF files, watcher, reader, saving, history, budgets
<1>1. /\ TypeInv /\ OnlyModified /\ OwnStream /\ NotAhead /\ AtOffset /\ NoGap
      /\ EntryTypes /\ HandedTypes
  BY InvParts
<1>2. /\ UNCHANGED <<files, watcher, events, reader, cur, main, stopping, saving, budgets>>
      /\ et = "read" /\ et' = "sent" /\ handed' = handed \cup {Line} /\ Reading /\ ~AtEnd
  BY DEF SendLine, Reading
<1>3. /\ Stream \in Inodes /\ cur.pos \in Nat /\ cur.key \in Paths /\ fdMap[cur.key] # None
      /\ Stream # NoFile
  BY <1>1, <1>2, LineType, ConstantFacts DEF TypeInv, ReadsAStream
<1>4. 1 .. cur.pos \subseteq HandedOf(Stream)
  <2>1. cur.key \in OpenPaths /\ Stream = dir[cur.key]
    BY <1>1, <1>3 DEF OwnStream, OpenPaths, Stream
  <2> QED
    BY <1>1, <1>2, <1>3, <2>1 DEF NotAhead, HandedUpTo, AtOffset
<1>5. NoGap'
  <2> SUFFICES ASSUME NEW l \in handed', NEW k \in 1 .. l[2] - 1
               PROVE  <<l[1], k>> \in handed'
    BY DEF NoGap
  <2>1. CASE l \in handed
    BY <1>1, <1>2, <2>1 DEF NoGap
  <2>2. CASE l = Line
    <3>1. l[1] = Stream /\ l[2] = cur.pos + 1 /\ k \in 1 .. cur.pos
      BY <1>3, <2>2 DEF Line
    <3> QED
      BY <1>1, <1>2, <1>4, <3>1, HandedFacts
  <2> QED
    BY <1>2, <2>1, <2>2
<1>6. NotAhead'
  <2>1. \A p \in Paths : HandedOf(dir[p]) \subseteq HandedOf(dir[p])'
    BY <1>2 DEF HandedOf
  <2> QED
    BY <1>1, <1>2, <2>1, KeepsNotAhead
<1>7. AtOffset' /\ OwnStream' /\ OnlyModified'
  BY <1>1, <1>2 DEF AtOffset, OwnStream, OnlyModified, Reading, OpenPaths, Line, Stream
<1>8. TypeInv'
  BY <1>1, ReadingTypes
<1> QED
  BY <1>5, <1>6, <1>7, <1>8 DEF LinesInv

LEMMA SetFileOffsetLines ==
    ASSUME LinesInv, SetFileOffset
    PROVE  LinesInv'
<1> USE DEF files, watcher, reader, saving, history, budgets
<1>1. /\ TypeInv /\ OnlyModified /\ OwnStream /\ NotAhead /\ AtOffset /\ NoGap
      /\ EntryTypes /\ ThreadTypes
  BY InvParts
<1>2. /\ UNCHANGED <<files, watcher, moveTime, aliases, fdNum, main, stopping, saving, history,
                     budgets>>
      /\ et = "sent" /\ Reading /\ fdMap' = Advanced(cur.path)
  BY DEF SetFileOffset, Reading
<1>3. /\ cur.path \in Paths /\ cur.key = cur.path /\ fdMap[cur.path] # None
      /\ cur.path \in Watchable /\ cur.path \in OpenPaths /\ cur.pos \in Nat
  BY <1>1, <1>2 DEF TypeInv, ReadsAStream, OwnStream, OpenPaths, ThreadTypes
<1>4. /\ \A p \in Paths : fdMap'[p] = None <=> fdMap[p] = None
      /\ \A p \in Paths \ {cur.path} : fdMap'[p] = fdMap[p]
      /\ \A p \in Paths : fdMap[p] # None =>
            /\ fdMap'[p].stream = fdMap[p].stream
            /\ fdMap'[p].offset = fdMap[p].offset + (IF p = cur.path THEN 1 ELSE 0)
  BY <1>1, <1>2, <1>3, AdvancedType
<1>5. \/ ~Reading' /\ cur' = Idle /\ Continue
      \/ /\ et' = "read" /\ events' = events
         /\ cur'.pos = cur.pos + 1 /\ cur'.key = cur.key /\ cur'.path = cur.path
  BY <1>1 DEF SetFileOffset, Reading, ThreadTypes
<1>6. OnlyModified'
  <2>1. events' \in Seq(ModifyEvents)
    BY <1>1, <1>3, <1>5, ModifyMade, AppendProperties DEF OnlyModified, Continue
  <2> QED
    BY <1>1, <1>2, <2>1 DEF OnlyModified
<1>7. OwnStream'
  BY <1>1, <1>2, <1>3, <1>4, <1>5 DEF OwnStream, OpenPaths, Reading
<1>8. fdMap[cur.path].offset = cur.pos /\ fdMap'[cur.path].offset = cur.pos + 1
  BY <1>1, <1>2, <1>3, <1>4 DEF AtOffset
<1>9. NotAhead'
  <2>1. dir[cur.path] = Stream /\ cur.pos + 1 \in HandedOf(Stream)
    BY <1>1, <1>2, <1>3, InvParts, HandedFacts DEF OwnStream, AtOffset, Line, Stream
  <2>2. 1 .. cur.pos + 1 \subseteq HandedOf(dir[cur.path])
    BY <1>1, <1>3, <1>8, <2>1 DEF NotAhead, HandedUpTo
  <2>3. \A i : HandedOf(i)' = HandedOf(i)
    BY <1>2 DEF HandedOf
  <2>4. \A p \in Paths : fdMap'[p] # None => 1 .. fdMap'[p].offset \subseteq HandedOf(dir[p])
    BY <1>1, <1>3, <1>4, <1>8, <2>2 DEF NotAhead, HandedUpTo
  <2> QED
    BY <1>1, <1>2, <2>4 DEF NotAhead, HandedUpTo, HandedOf
<1>10. AtOffset'
  BY <1>3, <1>5, <1>8 DEF AtOffset, Reading
<1>11. NoGap'
  BY <1>1, <1>2 DEF NoGap
<1>12. TypeInv'
  BY <1>1, ReadingTypes
<1> QED
  BY <1>6, <1>7, <1>9, <1>10, <1>11, <1>12 DEF LinesInv

(* A read that is refused or comes to the end of the file.                 *)
LEMMA ReadStopsLines ==
    ASSUME LinesInv, RefusedLine \/ ReadEnds
    PROVE  LinesInv'
<1> USE DEF files, watcher, reader, saving, history
<1>1. /\ TypeInv /\ OnlyModified /\ OwnStream /\ NotAhead /\ AtOffset /\ NoGap /\ EntryTypes
  BY InvParts
<1>2. /\ UNCHANGED <<files, watcher, moveTime, aliases, fdNum, main, stopping, saving, history,
                     moves>>
      /\ Reading /\ ~Reading'
  BY DEF RefusedLine, ReadEnds, Reading, budgets
<1>3. /\ cur.key \in Paths /\ fdMap[cur.key] # None /\ cur.path \in Watchable
  BY <1>1, <1>2 DEF TypeInv, ReadsAStream
<1>4. \A p \in Paths :
         /\ fdMap'[p] = None <=> fdMap[p] = None
         /\ fdMap[p] # None =>
               fdMap'[p].offset = fdMap[p].offset /\ fdMap'[p].stream = fdMap[p].stream
  <2>1. /\ [fdMap[cur.key] EXCEPT !.good = FALSE] # None
        /\ [fdMap[cur.key] EXCEPT !.good = FALSE].stream = fdMap[cur.key].stream
        /\ [fdMap[cur.key] EXCEPT !.good = FALSE].offset = fdMap[cur.key].offset
    BY <1>1, <1>3, ItemTypes, ItemFields
  <2>2. \/ fdMap' = fdMap
        \/ fdMap' = [fdMap EXCEPT ![cur.key] = [fdMap[cur.key] EXCEPT !.good = FALSE]]
    BY DEF RefusedLine, ReadEnds
  <2> QED
    BY <1>1, <1>3, <2>1, <2>2 DEF EntryTypes
<1>5. OnlyModified'
  <2>1. events' \in Seq(ModifyEvents)
    BY <1>1, <1>3, ModifyMade, AppendProperties DEF OnlyModified, RefusedLine, ReadEnds, Continue
  <2> QED
    BY <1>1, <1>2, <2>1 DEF OnlyModified
<1>6. OwnStream'
  BY <1>1, <1>2, <1>4 DEF OwnStream, OpenPaths
<1>7. NotAhead'
  <2>1. \A p \in Paths : HandedOf(dir[p]) \subseteq HandedOf(dir[p])'
    BY <1>2 DEF HandedOf
  <2> QED
    BY <1>1, <1>2, <1>4, <2>1, KeepsNotAhead
<1>8. AtOffset' /\ NoGap'
  BY <1>1, <1>2 DEF AtOffset, Reading, NoGap
<1>9. TypeInv'
  BY <1>1, ReadingTypes
<1> QED
  BY <1>5, <1>6, <1>7, <1>8, <1>9 DEF LinesInv

LEMMA MainLines ==
    ASSUME LinesInv, Boot \/ Save \/ Stop \/ Crash
    PROVE  LinesInv'
<1> USE DEF files, watcher, reader, saving, history, budgets
<1>1. /\ TypeInv /\ OnlyModified /\ OwnStream /\ NotAhead /\ AtOffset /\ NoGap
      /\ EntryTypes /\ SavedTypes
  BY InvParts
<1>2. UNCHANGED <<dir, handed, twice, moves>>
  BY DEF Boot, Save, SaveWrite, SaveBackup, SaveReplace, Stop, Crash
<1>3. TypeInv' /\ NoGap'
  BY <1>1, <1>2, MainTypes DEF NoGap
<1>4. \A p \in Paths : HandedOf(dir[p]) \subseteq HandedOf(dir[p])'
  BY <1>2 DEF HandedOf
<1>5. Empty \in [Paths -> {None}]
  BY DEF Empty
<1>6. CASE Boot
  <2>1. PICK junk \in [Paths -> Junk] : fdMap' = LoadOffsets(junk)
    BY <1>6 DEF Boot
  <2>2. \A p \in Paths :
           fdMap'[p] # None =>
              /\ offsets[p] # None /\ fdMap'[p].offset = offsets[p] /\ fdMap'[p].stream = NoFile
    BY <1>1, <2>1, LoadType
  <2>3. UNCHANGED <<kernel, events, moveFrom, aliases, moveTime, swp, offsets, et, cur>> /\ ~Reading
    BY <1>1, <1>6 DEF Boot, TypeInv, ReadsAStream, Up
  <2>4. OnlyModified'
    BY <1>1, <1>2, <2>3 DEF OnlyModified
  <2>5. OwnStream' /\ AtOffset'
    BY <2>2, <2>3 DEF OwnStream, OpenPaths, AtOffset, Reading
  <2>6. NotAhead'
    BY <1>1, <1>4, <2>2, <2>3, KeepsNotAhead
  <2> QED
    BY <1>3, <2>4, <2>5, <2>6 DEF LinesInv
<1>7. CASE SaveWrite \/ SaveBackup \/ Stop \/ (SaveReplace /\ ~stopping)
  <2>1. UNCHANGED <<kernel, moveFrom, fdMap, aliases, moveTime, et, cur>>
    BY <1>7 DEF SaveWrite, SaveBackup, SaveReplace, Stop
  <2>2. OnlyModified'
    <3>1. events' \in Seq(ModifyEvents)
      BY <1>1, <1>7, ModifyMade, AppendProperties
         DEF SaveWrite, SaveBackup, SaveReplace, Stop, OnlyModified
    <3> QED
      BY <1>1, <1>2, <2>1, <3>1 DEF OnlyModified
  <2>3. OwnStream' /\ AtOffset'
    BY <1>1, <1>2, <2>1 DEF OwnStream, OpenPaths, AtOffset, Reading, Line, Stream
  <2>4. /\ \A p \in Paths : swp'[p] # None =>
              swp'[p] = swp[p] \/ (fdMap[p] # None /\ swp'[p] = fdMap[p].offset)
        /\ \A p \in Paths : offsets'[p] # None => offsets'[p] \in {offsets[p], swp[p]}
    BY <1>5, <1>7 DEF SaveWrite, SaveBackup, SaveReplace, Stop, Saved
  <2>5. NotAhead'
    BY <1>1, <1>4, <2>1, <2>4, KeepsNotAhead
  <2> QED
    BY <1>3, <2>2, <2>3, <2>5 DEF LinesInv
<1>8. CASE Crash \/ (SaveReplace /\ stopping)
  <2>1. Ends
    BY <1>8 DEF Crash, SaveReplace
  <2>2. OnlyModified'
    BY <1>1, <1>2, <1>5, <2>1, EmptySeq DEF Ends, OnlyModified
  <2>3. OwnStream' /\ AtOffset'
    BY <1>5, <2>1 DEF Ends, OwnStream, OpenPaths, AtOffset, Reading
  <2>4. /\ \A p \in Paths : fdMap'[p] = None /\ swp'[p] = None
        /\ \A p \in Paths : offsets'[p] # None => offsets'[p] \in {offsets[p], swp[p]}
    BY <1>5, <1>8, <2>1 DEF Crash, SaveReplace, Ends
  <2>5. NotAhead'
    BY <1>1, <1>4, <2>4, KeepsNotAhead
  <2> QED
    BY <1>3, <2>2, <2>3, <2>5 DEF LinesInv
<1> QED
  BY <1>6, <1>7, <1>8 DEF Save

LEMMA LinesHold ==
    ASSUME MaxMoves = 0
    PROVE  Spec => []LinesInv
<1>1. Init => LinesInv
  <2> SUFFICES ASSUME Init PROVE LinesInv
    OBVIOUS
  <2>1. Empty \in [Paths -> {None}]
    BY DEF Empty
  <2>2. TypeInv
    BY TypesStart
  <2>3. OnlyModified
    BY <2>1, EmptySeq DEF Init, OnlyModified
  <2>4. OwnStream /\ NotAhead /\ AtOffset /\ NoGap
    BY <2>1 DEF Init, OwnStream, OpenPaths, NotAhead, AtOffset, NoGap, Reading
  <2> QED
    BY <2>2, <2>3, <2>4 DEF LinesInv
<1>2. LinesInv /\ [Next]_vars => LinesInv'
  <2>1. ASSUME LinesInv, Next PROVE LinesInv'
    BY <2>1, EnvironmentLines, WatcherLines, HandlerLines, ReadOpensLines, SendLineLines,
       SetFileOffsetLines, ReadStopsLines, MainLines DEF Next, EventThread
  <2>2. ASSUME LinesInv, UNCHANGED vars PROVE LinesInv'
    <3>1. TypeInv'
      BY <2>2, TypesStutter DEF LinesInv
    <3>2. OnlyModified' /\ OwnStream' /\ NotAhead' /\ AtOffset' /\ NoGap'
      BY <2>2 DEF LinesInv, vars, files, watcher, reader, saving, history, budgets, OnlyModified,
         OwnStream, OpenPaths, NotAhead, HandedUpTo, HandedOf, AtOffset, Reading, Line, Stream,
         NoGap
    <3> QED
      BY <3>1, <3>2 DEF LinesInv
  <2> QED
    BY <2>1, <2>2
<1> QED
  BY <1>1, <1>2, PTL DEF Spec

(***************************************************************************)
(* While files are made, extended and read, and none is renamed or removed *)
(* (MaxMoves = 0), no line is skipped: whatever reads were cut short by a  *)
(* refused line, by MaxLines or by the end of a life, the lines before a   *)
(* line that was handed over were handed over too.                         *)
(***************************************************************************)
THEOREM NoLineIsSkipped ==
    ASSUME MaxMoves = 0
    PROVE  Spec => []NoGap
<1>1. LinesInv => NoGap
  BY DEF LinesInv
<1> QED
  BY <1>1, LinesHold, PTL

(***************************************************************************)
(* While no file is renamed or removed, the offset file is never ahead of  *)
(* what was handed over, whatever moment the process ends at: a restart    *)
(* skips nothing.  A file removed and made again while the process is down *)
(* would be read from the offset of the one before it: its inode is saved  *)
(* and never compared.                                                     *)
(***************************************************************************)
THEOREM SavedOffsetsAreBehind ==
    ASSUME MaxMoves = 0
    PROVE  Spec => []SavedNotAhead
<1>1. LinesInv => SavedNotAhead
  BY DEF LinesInv, NotAhead, HandedUpTo, SavedNotAhead
<1> QED
  BY <1>1, LinesHold, PTL

(***************************************************************************)
(* Nor, while no file is renamed or removed, are the offsets of open       *)
(* files, in any life of the process and with any number of streams closed *)
(* and opened again.                                                       *)
(***************************************************************************)
THEOREM OpenOffsetsAreBehind ==
    ASSUME MaxMoves = 0
    PROVE  Spec => []OffsetNotAhead
<1>1. LinesInv => OffsetNotAhead
  BY DEF LinesInv, NotAhead, OwnStream, HandedUpTo, OffsetNotAhead, OpenPaths
<1> QED
  BY <1>1, LinesHold, PTL

-----------------------------------------------------------------------------
(* A step that hands nothing over, and leaves what is kept in memory and   *)
(* on disk, keeps what is remembered.                                      *)
LEMMA KeepsRemembered ==
    ASSUME Remembered, UNCHANGED <<twice, crashes, swp, offsets, main, stopping>>,
           \A p \in Paths : HandedOf(dir[p])' = HandedOf(dir[p]) /\ ReadOf(p)' = ReadOf(p),
           et' = et \/ ~Saving \/ et' = "ended"
    PROVE  Remembered'
<1>1. Saving' => et' = "ended"
  BY DEF Remembered, Saving
<1> QED
  BY <1>1 DEF Remembered, Saving, Up

LEMMA RepeatsStep ==
    ASSUME MaxMoves = 0, RepeatsInv, Next
    PROVE  OneName' /\ Remembered'
<1> USE DEF files, watcher, reader, saving, history, budgets
<1>1. /\ LinesInv /\ OneName /\ Remembered /\ TypeInv /\ OnlyModified /\ OwnStream /\ AtOffset
      /\ FileTypes /\ EntryTypes /\ ThreadTypes /\ SavedTypes /\ HandedTypes /\ BudgetTypes
  BY InvParts DEF RepeatsInv
<1>2. CASE Environment
  <2>1. PICK p \in Paths : CreateFile(p) \/ AppendLine(p)
    BY <1>1, <1>2, FilesStay
  <2>2. UNCHANGED <<fdMap, et, cur, main, stopping, swp, offsets, handed, twice, crashes>>
    BY <2>1 DEF CreateFile, AppendLine
  <2>3. CASE AppendLine(p)
    <3>1. UNCHANGED <<dir, made>>
      BY <2>3 DEF AppendLine
    <3> QED
      BY <1>1, <2>2, <3>1, KeepsRemembered DEF OneName, ReadOf, HandedOf
  <2>4. CASE CreateFile(p)
    <3>1. /\ dir[p] = NoFile /\ made' = made + 1 /\ dir' = [dir EXCEPT ![p] = made + 1]
          /\ made \in Nat
      BY <1>1, <2>4, ConstantFacts DEF CreateFile, FileTypes
    <3>2. \A q \in Paths : dir[q] \in Nat
      BY <1>1, ConstantFacts DEF FileTypes, NoFile
    <3>3. \A l \in handed : l[1] \in Nat
      BY <1>1, ConstantFacts DEF HandedTypes
    <3>4. OneName'
      BY <1>1, <2>2, <3>1, <3>2, <3>3 DEF OneName, FileTypes
    <3>5. HandedOf(made + 1) = {}
      <4>1. ASSUME NEW k, <<made + 1, k>> \in handed PROVE FALSE
        <5>1. <<made + 1, k>>[1] <= made
          BY <1>1, <4>1 DEF OneName
        <5> QED
          BY <3>1, <5>1
      <4> QED
        BY <4>1 DEF HandedOf
    <3>6. \A q \in Paths : HandedOf(dir[q])' = HandedOf(dir[q])
      BY <1>1, <2>2, <3>1, <3>5, HandedFacts DEF FileTypes, HandedOf
    <3> QED
      BY <1>1, <2>2, <3>4, <3>6, KeepsRemembered DEF ReadOf
  <2> QED
    BY <2>1, <2>3, <2>4
<1>3. CASE WatcherThread
  <2>1. UNCHANGED <<files, fdMap, et, cur, main, stopping, saving, history, crashes>>
    BY <1>3 DEF WatcherThread, CreateWatcher, ParseEvent
  <2> QED
    BY <1>1, <2>1, KeepsRemembered DEF OneName, ReadOf, HandedOf
<1>4. CASE HandleDelete \/ HandleMoveSelf \/ HandleMoveTo \/ HandleStop \/ ReadGivesUp
  <2>1. HandleStop \/ ReadGivesUp
    BY <1>1, <1>4, HeadModify DEF HandleDelete, HandleMoveSelf, HandleMoveTo, Pops
  <2>2. /\ UNCHANGED <<files, cur, main, stopping, saving, history, crashes>>
        /\ et = "wait" /\ et' \in {"wait", "ended"}
    BY <2>1 DEF HandleStop, ReadGivesUp, Pops
  <2>3. \E idle \in SUBSET Closable : fdMap' = fdMap \/ fdMap' = AfterGc(idle)
    BY <2>1 DEF HandleStop, ReadGivesUp
  <2>4. \A p \in Paths :
           /\ fdMap'[p] = None <=> fdMap[p] = None
           /\ fdMap[p] # None => fdMap'[p].offset = fdMap[p].offset
    BY <1>1, <2>3, GcType
  <2>5. \A p \in Paths : ReadOf(p)' = ReadOf(p)
    BY <2>2, <2>4 DEF ReadOf
  <2> QED
    BY <1>1, <2>2, <2>5, KeepsRemembered DEF OneName, HandedOf, Remembered
<1>5. CASE ReadOpens
  <2>1. /\ UNCHANGED <<files, main, stopping, saving, history, crashes>>
        /\ et = "wait" /\ et' \in {"wait", "read"}
    BY <1>1, <1>5, OpensOwn
  <2>2. \A p \in Paths :
           \/ fdMap[p] = None /\ fdMap'[p] = None
           \/ fdMap[p] = None /\ fdMap'[p] # None /\ fdMap'[p].offset = 0
           \/ fdMap[p] # None /\ fdMap'[p] # None /\ fdMap'[p].offset = fdMap[p].offset
    BY <1>1, <1>5, OpensOwn
  <2>3. \A p \in Paths : ReadOf(p)' = ReadOf(p)
    BY <2>1, <2>2 DEF ReadOf
  <2> QED
    BY <1>1, <2>1, <2>3, KeepsRemembered DEF OneName, HandedOf, Remembered
<1>6. CASE SendLine
  <2>1. /\ UNCHANGED <<files, fdMap, cur, main, stopping, saving, crashes>>
        /\ et = "read" /\ et' = "sent" /\ handed' = handed \cup {Line} /\ ~AtEnd
        /\ twice' = twice \cup ({Line} \cap handed) /\ Reading /\ Up
    BY <1>6 DEF SendLine, Reading
  <2>2. /\ Stream \in Inodes /\ cur.pos \in Nat /\ cur.key \in Paths /\ cur.key = cur.path
        /\ fdMap[cur.key] # None /\ Stream = dir[cur.key] /\ Stream # NoFile
        /\ Line \in Inodes \X (1 .. MaxSize) /\ fdMap[cur.key].offset = cur.pos
    <3>1. fdMap[cur.key] # None /\ fdMap[cur.key].stream # NoFile /\ Stream = fdMap[cur.key].stream
      BY <1>1, <2>1 DEF TypeInv, ReadsAStream, Stream
    <3>2. cur.key \in OpenPaths
      BY <1>1, <2>1, <3>1, LineType DEF OpenPaths
    <3> QED
      BY <1>1, <2>1, <3>1, <3>2, LineType DEF OwnStream, AtOffset
  <2>3. OneName'
    <3>1. Line[1] <= made
      BY <1>1, <2>2 DEF OneName, Line
    <3> QED
      BY <1>1, <2>1, <3>1 DEF OneName
  <2>4. ~Saving /\ ~Saving'
    BY <1>1, <2>1 DEF Remembered, Saving
  <2>5. ASSUME crashes = 0
        PROVE  twice' = {} /\ \A p \in Paths : HandedOf(dir[p])' = 1 .. ReadOf(p)'
    <3>1. twice = {} /\ \A p \in Paths : HandedOf(dir[p]) = 1 .. ReadOf(p)
      BY <1>1, <2>1, <2>5 DEF Remembered
    <3>2. ReadOf(cur.key) = cur.pos /\ ReadOf(cur.key)' = cur.pos + 1
      BY <2>1, <2>2 DEF ReadOf
    <3>3. \A p \in Paths \ {cur.key} : ReadOf(p)' = ReadOf(p)
      BY <2>1, <2>2 DEF ReadOf
    <3>4. HandedOf(Stream) = 1 .. cur.pos
      BY <2>2, <3>1, <3>2
    <3>5. Line \notin handed
      BY <1>1, <2>2, <3>4, HandedFacts DEF Line
    <3>6. HandedOf(dir[cur.key])' = HandedOf(dir[cur.key]) \cup {cur.pos + 1}
      BY <2>1, <2>2 DEF HandedOf, Line
    <3>10. (1 .. cur.pos) \cup {cur.pos + 1} = 1 .. cur.pos + 1
      BY <2>2
    <3>7. HandedOf(dir[cur.key])' = 1 .. cur.pos + 1
      BY <2>2, <3>4, <3>6, <3>10
    <3>8. \A p \in Paths \ {cur.key} : HandedOf(dir[p])' = HandedOf(dir[p])
      <4>1. \A p \in Paths \ {cur.key} : dir[p] # Stream
        BY <1>1, <2>2 DEF OneName
      <4> QED
        BY <2>1, <4>1 DEF HandedOf, Line
    <3>9. \A p \in Paths : HandedOf(dir[p])' = 1 .. ReadOf(p)'
      BY <2>1, <2>2, <3>1, <3>2, <3>3, <3>7, <3>8
    <3> QED
      BY <2>1, <3>1, <3>5, <3>9
  <2> QED
    BY <2>1, <2>3, <2>4, <2>5 DEF Remembered, Up
<1>7. CASE SetFileOffset
  <2>1. /\ UNCHANGED <<files, main, stopping, saving, history, crashes>>
        /\ et = "sent" /\ et' \in {"read", "wait"} /\ Reading /\ fdMap' = Advanced(cur.path)
    BY <1>7 DEF SetFileOffset, Reading
  <2>2. /\ cur.path \in Paths /\ fdMap[cur.path] # None
    BY <1>1, <2>1 DEF TypeInv, ReadsAStream, OwnStream
  <2>3. \A p \in Paths :
           /\ fdMap'[p] = None <=> fdMap[p] = None
           /\ fdMap[p] # None =>
                 /\ fdMap'[p].offset = fdMap[p].offset + (IF p = cur.path THEN 1 ELSE 0)
                 /\ fdMap[p].offset \in Nat /\ fdMap'[p].offset \in Nat
    <3>1. \A p \in Paths : fdMap[p] # None => fdMap[p].offset \in Nat
      BY <1>1, ItemTypes, ItemUpdates
    <3>2. \A p \in Paths :
             /\ fdMap'[p] = None <=> fdMap[p] = None
             /\ fdMap[p] # None =>
                   fdMap'[p].offset = fdMap[p].offset + (IF p = cur.path THEN 1 ELSE 0)
      BY <1>1, <2>1, <2>2, AdvancedType
    <3> QED
      BY <3>1, <3>2
  <2>4. \A p \in Paths : ReadOf(p)' = ReadOf(p)
    BY <2>1, <2>3 DEF ReadOf
  <2> QED
    BY <1>1, <2>1, <2>4, KeepsRemembered DEF OneName, HandedOf, Remembered
<1>8. CASE RefusedLine \/ ReadEnds
  <2>1. /\ UNCHANGED <<files, main, stopping, saving, history, crashes>>
        /\ et = "read" /\ et' = "wait" /\ Reading
    BY <1>8 DEF RefusedLine, ReadEnds, Reading
  <2>2. cur.key \in Paths /\ fdMap[cur.key] # None
    BY <1>1, <2>1 DEF TypeInv, ReadsAStream
  <2>3. \A p \in Paths :
           /\ fdMap'[p] = None <=> fdMap[p] = None
           /\ fdMap[p] # None => fdMap'[p].offset = fdMap[p].offset
    <3>1. /\ [fdMap[cur.key] EXCEPT !.good = FALSE] # None
          /\ [fdMap[cur.key] EXCEPT !.good = FALSE].offset = fdMap[cur.key].offset
      BY <1>1, <2>2, ItemTypes, ItemFields
    <3>2. \/ fdMap' = fdMap
          \/ fdMap' = [fdMap EXCEPT ![cur.key] = [fdMap[cur.key] EXCEPT !.good = FALSE]]
      BY <1>8 DEF RefusedLine, ReadEnds
    <3> QED
      BY <1>1, <2>2, <3>1, <3>2 DEF EntryTypes
  <2>4. \A p \in Paths : ReadOf(p)' = ReadOf(p)
    BY <2>1, <2>3 DEF ReadOf
  <2> QED
    BY <1>1, <2>1, <2>4, KeepsRemembered DEF OneName, HandedOf, Remembered
<1>9. CASE Boot \/ Save \/ Stop \/ Crash
  <2>1. UNCHANGED <<files, history>>
    BY <1>9 DEF Boot, Save, SaveWrite, SaveBackup, SaveReplace, Stop, Crash
  <2>2. OneName'
    BY <1>1, <2>1 DEF OneName
  <2>3. \A p \in Paths : HandedOf(dir[p])' = HandedOf(dir[p])
    BY <2>1 DEF HandedOf
  <2>4. CASE Boot
    <3>1. ~Up /\ main' = "run" /\ UNCHANGED <<et, cur, stopping, crashes>>
      BY <2>4 DEF Boot, Up
    <3>2. PICK junk \in [Paths -> Junk] : fdMap' = LoadOffsets(junk)
      BY <2>4 DEF Boot
    <3>3. \A p \in Paths :
             \/ offsets[p] = None /\ fdMap'[p] = None
             \/ /\ offsets[p] # None /\ offsets[p] \in Nat
                /\ fdMap'[p] # None /\ fdMap'[p].offset = offsets[p]
      BY <1>1, <3>2, LoadType DEF SavedTypes
    <3>4. et # "sent"
      BY <1>1, <3>1 DEF TypeInv, ReadsAStream, Reading
    <3>5. \A p \in Paths : ReadOf(p)' = Counted(offsets[p])
      BY <3>1, <3>3, <3>4 DEF ReadOf, Counted
    <3> QED
      BY <1>1, <2>1, <2>2, <2>3, <3>1, <3>5 DEF Remembered, Saving, Up
  <2>5. CASE Stop \/ SaveBackup \/ (SaveReplace /\ ~stopping)
    <3>1. /\ UNCHANGED <<fdMap, et, cur, crashes>> /\ Up /\ Up'
          /\ Saving' => Saving /\ swp' = swp
      BY <2>5 DEF Stop, SaveBackup, SaveReplace, Saving, Up
    <3>2. \A p \in Paths : ReadOf(p)' = ReadOf(p)
      BY <3>1 DEF ReadOf
    <3> QED
      BY <1>1, <2>1, <2>2, <2>3, <3>1, <3>2 DEF Remembered
  <2>6. CASE SaveWrite
    <3>1. /\ UNCHANGED <<fdMap, et, cur, crashes>> /\ Up /\ Up' /\ swp' = Saved
          /\ Saving' => et = "ended"
      BY <2>6 DEF SaveWrite, Saving, Up
    <3>2. \A p \in Paths : ReadOf(p)' = ReadOf(p)
      BY <3>1 DEF ReadOf
    <3>3. ASSUME NEW p \in Paths, crashes = 0, et = "ended"
          PROVE  HandedOf(dir[p]) = 1 .. Counted(Saved[p])
      <4>1. HandedOf(dir[p]) = 1 .. ReadOf(p)
        BY <1>1, <3>1, <3>3 DEF Remembered
      <4>2. CASE fdMap[p] # None /\ dir[p] # NoFile
        <5>1. fdMap[p].offset \in Nat
          BY <1>1, <4>2, ItemTypes, ItemUpdates
        <5>2. ReadOf(p) = fdMap[p].offset /\ Counted(Saved[p]) = fdMap[p].offset
          BY <3>3, <4>2, <5>1, NoneIsNoItem DEF ReadOf, Saved, Counted
        <5> QED
          BY <4>1, <5>2
      <4>3. CASE fdMap[p] = None
        BY <4>1, <4>3 DEF ReadOf, Saved, Counted
      <4>4. CASE dir[p] = NoFile
        <5>1. HandedOf(dir[p]) = {} /\ Counted(Saved[p]) = 0
          BY <1>1, <4>4, HandedFacts DEF Saved, Counted
        <5> QED
          BY <5>1
      <4> QED
        BY <4>2, <4>3, <4>4
    <3> QED
      BY <1>1, <2>1, <2>2, <2>3, <3>1, <3>2, <3>3 DEF Remembered
  <2>7. CASE SaveReplace /\ stopping
    <3>1. Ends /\ crashes' = crashes /\ offsets' = swp /\ Saving
      BY <2>7 DEF SaveReplace, Saving
    <3>2. ~Up' /\ ~Saving'
      BY <3>1 DEF Ends, Up, Saving
    <3> QED
      BY <1>1, <2>1, <2>2, <2>3, <3>1, <3>2 DEF Remembered
  <2>8. CASE Crash
    <3>1. crashes' # 0 /\ Ends
      BY <1>1, <2>8, ConstantFacts DEF Crash, BudgetTypes
    <3>2. ~Saving'
      BY <3>1 DEF Ends, Saving
    <3> QED
      BY <2>2, <3>1, <3>2 DEF Remembered
  <2> QED
    BY <1>9, <2>4, <2>5, <2>6, <2>7, <2>8 DEF Save
<1> QED
  BY <1>2, <1>3, <1>4, <1>5, <1>6, <1>7, <1>8, <1>9 DEF Next, EventThread

LEMMA RepeatsHold ==
    ASSUME MaxMoves = 0
    PROVE  Spec => []RepeatsInv
<1>1. Init => OneName /\ Remembered
  <2> SUFFICES ASSUME Init PROVE OneName /\ Remembered
    OBVIOUS
  <2>1. \A p \in Paths : HandedOf(dir[p]) = {} /\ offsets[p] = None
    BY DEF Init, HandedOf, Empty
  <2>2. 1 .. 0 = {}
    OBVIOUS
  <2>3. Remembered
    BY <2>1, <2>2 DEF Init, Remembered, Saving, Up, Counted
  <2>4. OneName
    BY DEF Init, OneName, NoFile
  <2> QED
    BY <2>3, <2>4
<1>2. LinesInv /\ LinesInv' /\ OneName /\ Remembered /\ [Next]_vars => OneName' /\ Remembered'
  <2>1. ASSUME UNCHANGED vars, OneName, Remembered PROVE OneName' /\ Remembered'
    BY <2>1 DEF vars, files, reader, saving, history, budgets, OneName, Remembered, Saving, Up,
       HandedOf, ReadOf, Counted
  <2> QED
    BY <2>1, RepeatsStep DEF RepeatsInv
<1> QED
  BY <1>1, <1>2, LinesHold, PTL DEF Spec, RepeatsInv

(***************************************************************************)
(* While no file is renamed or removed, only a crash makes the reader hand *)
(* a line over a second time: in every other life, and from each to the    *)
(* next, the offsets are exactly where the event thread stopped.           *)
(***************************************************************************)
THEOREM RepeatsNeedACrash ==
    ASSUME MaxMoves = 0
    PROVE  Spec => []RepeatsOnlyAfterCrash
<1>1. RepeatsInv => RepeatsOnlyAfterCrash
  BY DEF RepeatsInv, Remembered, RepeatsOnlyAfterCrash
<1> QED
  BY <1>1, RepeatsHold, PTL

-----------------------------------------------------------------------------
(***************************************************************************)
(* Theorems about Reader where files are moved and removed: text files, in *)
(* the first life of the process, as long as the limit of open streams is  *)
(* not reached.  (Beyond these the offset of one file is used for another: *)
(* a stream that is closed, loaded or at its end is opened by its name.)   *)
(***************************************************************************)

(* In directories names are moved from Old to other names, so that no name *)
(* is moved to and later moved from.                                       *)
OneWay(Old) ==
    \A p, q \in Paths : RenameFile(p, q) => (p \in DirPaths => p \in Old) /\ q \notin Old

(* The events that such moves can cause.                                   *)
MoveReports(Old) ==
    {e \in InotifyEvents :
        /\ e.kind = "MOVED_FROM" /\ e.path \in DirPaths => e.path \in Old
        /\ e.kind = "MOVED_TO" => e.path \notin Old}

MoveEvents(Old) ==
    {e \in Events : e.event = "MOVE_TO" => e.path \notin Old /\ e.alias \in Old}

(* A name with an alias is an old one, its alias is not, and its entry has *)
(* gone to the alias.                                                      *)
MovesFit(Old) ==
    /\ kernel \in Seq(MoveReports(Old))
    /\ moveFrom \in Old \cup {None}
    /\ events \in Seq(MoveEvents(Old))
    /\ \A p \in Paths : aliases[p] # None =>
          p \in Old /\ aliases[p] \notin Old /\ fdMap[p] = None

(* An entry keeps the offset and the stream of one file together; one that *)
(* has no stream is at the first line.                                     *)
EntryBehind ==
    \A p \in Paths : fdMap[p] # None =>
        /\ fdMap[p].good
        /\ 1 .. fdMap[p].offset \subseteq HandedOf(fdMap[p].stream)

(* A read under an old name advances no entry.                             *)
ReadFits ==
    /\ Reading =>
          /\ cur.path = cur.key \/ fdMap[cur.path] = None
          /\ cur.path = cur.key => cur.pos = fdMap[cur.key].offset
          /\ 1 .. cur.pos \subseteq HandedOf(Stream)
    /\ et = "sent" => Line \in handed

(* Before the first life there is nothing to load.                         *)
FirstLife == boots = 0 => ~Up /\ \A p \in Paths : offsets[p] = None

MovesInv(Old) == TypeInv /\ MovesFit(Old) /\ EntryBehind /\ ReadFits /\ FirstLife /\ NoGap

(* Between two lives nothing is open; the streams of text files stay good; *)
(* only names in directories have aliases.                                 *)
StreamsFit ==
    /\ ~Up => OpenPaths = {}
    /\ \A p \in Paths : fdMap[p] # None => fdMap[p].good
    /\ \A p \in Paths : aliases[p] # None => p \in DirPaths

-----------------------------------------------------------------------------
LEMMA MovesParts ==
    ASSUME NEW Old, MovesInv(Old)
    PROVE  /\ TypeInv /\ MovesFit(Old) /\ EntryBehind /\ ReadFits /\ FirstLife /\ NoGap
           /\ FileTypes /\ WatchTypes /\ EventTypes /\ EntryTypes /\ ThreadTypes /\ SavedTypes
           /\ HandedTypes /\ BudgetTypes
BY TypeParts DEF MovesInv, TypeInv

(* A step that leaves every entry, or copies it whole to another name, or  *)
(* starts it at its first line.                                            *)
LEMMA KeepsBehind ==
    ASSUME EntryBehind, handed \subseteq handed',
           \A p \in Paths : fdMap'[p] # None =>
              /\ fdMap'[p].good
              /\ \/ fdMap'[p].offset = 0
                 \/ \E q \in Paths :
                       /\ fdMap[q] # None
                       /\ fdMap'[p].offset = fdMap[q].offset
                       /\ fdMap'[p].stream = fdMap[q].stream
    PROVE  EntryBehind'
<1> SUFFICES ASSUME NEW p \in Paths, fdMap'[p] # None
             PROVE  1 .. fdMap'[p].offset \subseteq HandedOf(fdMap[p].stream)'
  BY DEF EntryBehind
<1>1. \A i : HandedOf(i) \subseteq HandedOf(i)'
  BY DEF HandedOf
<1>2. CASE fdMap'[p].offset = 0
  <2>1. 1 .. 0 = {}
    OBVIOUS
  <2> QED
    BY <1>2, <2>1
<1>3. ASSUME NEW q \in Paths, fdMap[q] # None, fdMap'[p].offset = fdMap[q].offset,
             fdMap'[p].stream = fdMap[q].stream
      PROVE  1 .. fdMap'[p].offset \subseteq HandedOf(fdMap[p].stream)'
  <2>1. 1 .. fdMap[q].offset \subseteq HandedOf(fdMap[q].stream)
    BY <1>3 DEF EntryBehind
  <2>2. HandedOf(fdMap'[p].stream) \subseteq HandedOf(fdMap[p].stream)'
    BY DEF HandedOf
  <2> QED
    BY <1>3, <2>1, <2>2
<1> QED
  BY <1>2, <1>3

(* Events that are not of a move fit any names.                            *)
LEMMA FittingEvents ==
    ASSUME NEW Old
    PROVE  /\ \A p \in Watchable :
                 /\ Event("MODIFY", p, None) \in MoveEvents(Old)
                 /\ Event("DELETE", p, None) \in MoveEvents(Old)
                 /\ [kind |-> "MODIFY", path |-> p] \in MoveReports(Old)
                 /\ [kind |-> "DELETE", path |-> p] \in MoveReports(Old)
                 /\ (p \in DirPaths => p \in Old) =>
                       [kind |-> "MOVED_FROM", path |-> p] \in MoveReports(Old)
                 /\ p \notin Old => [kind |-> "MOVED_TO", path |-> p] \in MoveReports(Old)
           /\ \A p \in FilePaths : Event("MOVE_SELF", p, None) \in MoveEvents(Old)
           /\ Event("STOP", None, None) \in MoveEvents(Old)
           /\ \A p \in DirPaths, q \in DirPaths :
                 p \notin Old /\ q \in Old => Event("MOVE_TO", p, q) \in MoveEvents(Old)
<1>1. \A p \in Watchable :
         /\ Event("MODIFY", p, None) \in MoveEvents(Old)
         /\ Event("DELETE", p, None) \in MoveEvents(Old)
  BY EventsMade DEF MoveEvents, Event
<1>2. /\ \A p \in FilePaths : Event("MOVE_SELF", p, None) \in MoveEvents(Old)
      /\ Event("STOP", None, None) \in MoveEvents(Old)
      /\ \A p \in DirPaths, q \in DirPaths :
            p \notin Old /\ q \in Old => Event("MOVE_TO", p, q) \in MoveEvents(Old)
  BY EventsMade DEF MoveEvents, Event
<1>3. \A p \in Watchable :
         /\ [kind |-> "MODIFY", path |-> p] \in MoveReports(Old)
         /\ [kind |-> "DELETE", path |-> p] \in MoveReports(Old)
         /\ (p \in DirPaths => p \in Old) =>
               [kind |-> "MOVED_FROM", path |-> p] \in MoveReports(Old)
         /\ p \notin Old => [kind |-> "MOVED_TO", path |-> p] \in MoveReports(Old)
  BY EventsMade DEF MoveReports
<1> QED
  BY <1>1, <1>2, <1>3

LEMMA HeadsFit ==
    ASSUME NEW Old, MovesFit(Old)
    PROVE  /\ events # <<>> =>
                 /\ Head(events) \in MoveEvents(Old) /\ Tail(events) \in Seq(MoveEvents(Old))
                 /\ Head(events).event = "MOVE_TO" => Path \notin Old /\ Alias \in Old
           /\ kernel # <<>> =>
                 /\ Tail(kernel) \in Seq(MoveReports(Old))
                 /\ Head(kernel).kind = "MOVED_FROM" /\ Head(kernel).path \in DirPaths
                       => Head(kernel).path \in Old
                 /\ Head(kernel).kind = "MOVED_TO" => Head(kernel).path \notin Old
<1>1. events # <<>> => Head(events) \in MoveEvents(Old) /\ Tail(events) \in Seq(MoveEvents(Old))
  BY HeadTailProperties DEF MovesFit
<1>2. kernel # <<>> => Head(kernel) \in MoveReports(Old) /\ Tail(kernel) \in Seq(MoveReports(Old))
  BY HeadTailProperties DEF MovesFit
<1> QED
  BY <1>1, <1>2 DEF MoveEvents, MoveReports, Path, Alias

LEMMA ReportFits ==
    ASSUME NEW Old, NEW q \in Seq(MoveReports(Old)), NEW p, NEW k,
           p \in watched => [kind |-> k, path |-> p] \in MoveReports(Old)
    PROVE  Report(q, k, p) \in Seq(MoveReports(Old))
BY AppendProperties DEF Report

(* The environment moves files along Old; everything else is untouched.    *)
LEMMA EnvironmentMoves ==
    ASSUME NEW Old, MovesInv(Old), Environment, OneWay(Old)
    PROVE  MovesInv(Old)'
<1> USE DEF files, watcher, reader, saving, history, budgets
<1>1. /\ TypeInv /\ MovesFit(Old) /\ EntryBehind /\ ReadFits /\ FirstLife /\ NoGap /\ WatchTypes
  BY MovesParts
<1>2. UNCHANGED <<watched, queued, moveFrom, events, fdMap, aliases, fdNum, et, cur, main,
                  stopping, swp, offsets, handed, twice, refusals, boots, crashes>>
  BY DEF Environment, CreateFile, AppendLine, RemoveFile, RenameFile, WaitOver
<1>3. kernel' \in Seq(MoveReports(Old))
  <2>1. kernel \in Seq(MoveReports(Old)) /\ watched \subseteq Watchable
    BY <1>1 DEF MovesFit, WatchTypes
  <2>2. ASSUME NEW p \in Paths, AppendLine(p) \/ RemoveFile(p)
        PROVE  kernel' \in Seq(MoveReports(Old))
    <3>1. /\ Report(kernel, "MODIFY", p) \in Seq(MoveReports(Old))
          /\ Report(kernel, "DELETE", p) \in Seq(MoveReports(Old))
      BY <2>1, FittingEvents, ReportFits
    <3> QED
      BY <2>2, <3>1 DEF AppendLine, RemoveFile
  <2>3. ASSUME NEW p \in Paths, NEW q \in Paths, RenameFile(p, q)
        PROVE  kernel' \in Seq(MoveReports(Old))
    <3>1. (p \in DirPaths => p \in Old) /\ q \notin Old
      BY <2>3 DEF OneWay
    <3>2. Report(kernel, "MOVED_FROM", p) \in Seq(MoveReports(Old))
      BY <2>1, <3>1, FittingEvents, ReportFits
    <3>3. Report(Report(kernel, "MOVED_FROM", p), "MOVED_TO", q) \in Seq(MoveReports(Old))
      BY <2>1, <3>1, <3>2, FittingEvents, ReportFits
    <3> QED
      BY <2>3, <3>3 DEF RenameFile
  <2> QED
    BY <2>1, <2>2, <2>3 DEF Environment, CreateFile, WaitOver
<1>4. TypeInv'
  BY <1>1, EnvironmentTypes
<1>5. MovesFit(Old)'
  BY <1>1, <1>2, <1>3 DEF MovesFit
<1>6. EntryBehind' /\ ReadFits' /\ FirstLife' /\ NoGap'
  BY <1>1, <1>2 DEF EntryBehind, ReadFits, FirstLife, NoGap, HandedOf, Reading, Line, Stream, Up
<1> QED
  BY <1>4, <1>5, <1>6 DEF MovesInv

LEMMA WatcherMoves ==
    ASSUME NEW Old \in SUBSET DirPaths, MovesInv(Old), WatcherThread
    PROVE  MovesInv(Old)'
<1> USE DEF files, watcher, reader, saving, history, budgets
<1>1. /\ TypeInv /\ MovesFit(Old) /\ EntryBehind /\ ReadFits /\ FirstLife /\ NoGap /\ WatchTypes
  BY MovesParts
<1>2. UNCHANGED <<files, reader, et, cur, main, stopping, saving, history, budgets>>
  BY DEF WatcherThread, CreateWatcher, ParseEvent
<1>3. /\ kernel' \in Seq(MoveReports(Old)) /\ events' \in Seq(MoveEvents(Old))
      /\ moveFrom' \in Old \cup {None}
  <2>1. /\ kernel \in Seq(MoveReports(Old)) /\ events \in Seq(MoveEvents(Old))
        /\ moveFrom \in Old \cup {None}
    BY <1>1 DEF MovesFit
  <2>2. CASE CreateWatcher
    <3>1. PICK s \in Orders(Found) :
             events' = events \o [i \in DOMAIN s |-> Event("MODIFY", s[i], None)]
      BY <2>2 DEF CreateWatcher
    <3>2. Found \in SUBSET Paths /\ Found \subseteq Watchable
      BY ConstantFacts DEF Found, Watchable
    <3>3. s \in Seq(Found) /\ DOMAIN s = 1..Len(s) /\ \A i \in DOMAIN s : s[i] \in Found
      BY <3>2, OrderType
    <3>4. Len(s) \in Nat
      BY <3>3, LenProperties
    <3>5. \A i \in DOMAIN s : Event("MODIFY", s[i], None) \in MoveEvents(Old)
      BY <3>2, <3>3, FittingEvents
    <3>6. [i \in DOMAIN s |-> Event("MODIFY", s[i], None)] \in Seq(MoveEvents(Old))
      BY <3>3, <3>4, <3>5
    <3>7. events' \in Seq(MoveEvents(Old))
      BY <2>1, <3>1, <3>6, ConcatProperties
    <3> QED
      BY <2>1, <2>2, <3>7 DEF CreateWatcher
  <2>3. CASE ParseEvent
    <3> DEFINE p == Head(kernel).path
    <3>1. /\ kernel # <<>> /\ kernel' = Tail(kernel)
          /\ (ParseDelete(p) \/ ParseModify(p) \/ ParseMovedFrom(p) \/ ParseMovedTo(p))
      BY <2>3 DEF ParseEvent
    <3>2. /\ p \in Watchable /\ Tail(kernel) \in Seq(MoveReports(Old))
          /\ Head(kernel).kind = "MOVED_FROM" /\ p \in DirPaths => p \in Old
          /\ Head(kernel).kind = "MOVED_TO" => p \notin Old
      BY <1>1, <3>1, HeadKernel, HeadsFit
    <3>3. \/ events' = events \/ events' = Append(events, Event("MODIFY", p, None))
          \/ events' = Append(events, Event("DELETE", p, None))
          \/ p \in FilePaths /\ events' = Append(events, Event("MOVE_SELF", p, None))
          \/ /\ p \in DirPaths /\ p \notin Old /\ moveFrom # None
             /\ events' = Append(events, Event("MOVE_TO", p, moveFrom))
      BY <3>1, <3>2 DEF ParseDelete, ParseModify, ParseMovedFrom, ParseMovedTo, Parsed
    <3>4. moveFrom' \in Old \cup {None}
      BY <2>1, <3>1, <3>2 DEF ParseDelete, ParseModify, ParseMovedFrom, ParseMovedTo, Parsed
    <3>5. /\ Event("MODIFY", p, None) \in MoveEvents(Old)
          /\ Event("DELETE", p, None) \in MoveEvents(Old)
          /\ p \in FilePaths => Event("MOVE_SELF", p, None) \in MoveEvents(Old)
      BY <3>2, FittingEvents
    <3>6. p \in DirPaths /\ p \notin Old /\ moveFrom # None
             => Event("MOVE_TO", p, moveFrom) \in MoveEvents(Old)
      BY <2>1, FittingEvents
    <3>7. \A e \in MoveEvents(Old) : Append(events, e) \in Seq(MoveEvents(Old))
      BY <2>1, AppendProperties
    <3>8. events' \in Seq(MoveEvents(Old))
      BY <2>1, <3>3, <3>5, <3>6, <3>7
    <3> QED
      BY <3>1, <3>2, <3>4, <3>8
  <2> QED
    BY <2>2, <2>3 DEF WatcherThread
<1>4. TypeInv'
  BY <1>1, WatcherTypes
<1>5. MovesFit(Old)'
  BY <1>1, <1>2, <1>3 DEF MovesFit
<1>6. EntryBehind' /\ ReadFits' /\ FirstLife' /\ NoGap'
  BY <1>1, <1>2 DEF EntryBehind, ReadFits, FirstLife, NoGap, HandedOf, Reading, Line, Stream, Up
<1> QED
  BY <1>4, <1>5, <1>6 DEF MovesInv

(* DELETE, MOVE_SELF and STOP: entries stay or go, no name gets another's. *)
LEMMA HandlerMoves ==
    ASSUME NEW Old \in SUBSET DirPaths, MovesInv(Old),
           HandleDelete \/ HandleMoveSelf \/ HandleStop
    PROVE  MovesInv(Old)'
<1> USE DEF files, watcher, reader, saving, history, budgets
<1>1. /\ TypeInv /\ MovesFit(Old) /\ EntryBehind /\ ReadFits /\ FirstLife /\ NoGap
      /\ EventTypes /\ EntryTypes
  BY MovesParts
<1>2. /\ events # <<>> /\ ~Reading /\ ~Reading'
      /\ UNCHANGED <<files, watcher, cur, main, stopping, saving, history, budgets>>
  BY DEF HandleDelete, HandleMoveSelf, HandleStop, Pops, Reading
<1>3. /\ Tail(events) \in Seq(MoveEvents(Old))
      /\ Head(events).event \in {"MODIFY", "DELETE"} => Path \in Watchable
      /\ Head(events).event = "MOVE_SELF" => Path \in FilePaths
  BY <1>1, <1>2, HeadsFit, HeadEvent
<1>4. events' \in Seq(MoveEvents(Old))
  <2>1. \A e \in MoveEvents(Old) : Append(Tail(events), e) \in Seq(MoveEvents(Old))
    BY <1>3, AppendProperties
  <2>2. HandleMoveSelf => Event("MODIFY", Path, None) \in MoveEvents(Old)
    BY <1>3, FittingEvents DEF HandleMoveSelf, Pops, Watchable
  <2> QED
    BY <1>3, <2>1, <2>2 DEF HandleDelete, HandleMoveSelf, HandleStop
<1>5. \A p \in Paths :
         /\ fdMap'[p] # None =>
               /\ fdMap[p] # None /\ fdMap'[p].good = fdMap[p].good
               /\ fdMap'[p].offset = fdMap[p].offset /\ fdMap'[p].stream = fdMap[p].stream
         /\ aliases'[p] # None => aliases'[p] = aliases[p]
  <2>1. CASE HandleDelete
    <3>1. Path \in Paths
      BY <1>3, <2>1, ConstantFacts DEF HandleDelete, Pops, Watchable
    <3> QED
      BY <1>1, <2>1, <3>1 DEF HandleDelete, EntryTypes
  <2>2. CASE HandleMoveSelf
    <3>1. Path \in Paths
      BY <1>3, <2>2, ConstantFacts DEF HandleMoveSelf, Pops
    <3>2. fdMap[Path] # None =>
             /\ [fdMap[Path] EXCEPT !.moveProtected = TRUE].stream = fdMap[Path].stream
             /\ [fdMap[Path] EXCEPT !.moveProtected = TRUE].offset = fdMap[Path].offset
             /\ [fdMap[Path] EXCEPT !.moveProtected = TRUE].good = fdMap[Path].good
      BY <1>1, <3>1, ItemTypes, ItemFields
    <3>3. \/ fdMap' = fdMap
          \/ /\ fdMap[Path] # None
             /\ fdMap' = [fdMap EXCEPT ![Path] = [fdMap[Path] EXCEPT !.moveProtected = TRUE]]
      BY <2>2 DEF HandleMoveSelf
    <3> QED
      BY <1>1, <2>2, <3>1, <3>2, <3>3 DEF HandleMoveSelf, EntryTypes
  <2>3. CASE HandleStop
    BY <2>3 DEF HandleStop
  <2> QED
    BY <2>1, <2>2, <2>3
<1>6. MovesFit(Old)'
  <2>1. kernel' \in Seq(MoveReports(Old)) /\ moveFrom' \in Old \cup {None}
    BY <1>1, <1>2 DEF MovesFit
  <2>2. \A p \in Paths : aliases'[p] # None =>
           p \in Old /\ aliases'[p] \notin Old /\ fdMap'[p] = None
    BY <1>1, <1>5 DEF MovesFit
  <2> QED
    BY <1>4, <2>1, <2>2 DEF MovesFit
<1>7. EntryBehind'
  <2>1. \A p \in Paths : fdMap'[p] # None => fdMap'[p].good
    BY <1>1, <1>5 DEF EntryBehind
  <2> QED
    BY <1>1, <1>2, <1>5, <2>1, KeepsBehind
<1>8. ReadFits' /\ FirstLife' /\ NoGap'
  BY <1>1, <1>2 DEF ReadFits, FirstLife, NoGap, Reading, Up
<1>9. TypeInv'
  BY <1>1, HandlerTypes
<1> QED
  BY <1>6, <1>7, <1>8, <1>9 DEF MovesInv

(* MOVE_TO: the entry goes whole from an old name to one that is not old.  *)
LEMMA HandleMoveToMoves ==
    ASSUME NEW Old \in SUBSET DirPaths, MovesInv(Old), HandleMoveTo
    PROVE  MovesInv(Old)'
<1> USE DEF files, watcher, reader, saving, history, budgets
<1>1. /\ TypeInv /\ MovesFit(Old) /\ EntryBehind /\ ReadFits /\ FirstLife /\ NoGap
      /\ EventTypes /\ EntryTypes
  BY MovesParts
<1>2. /\ events # <<>> /\ ~Reading /\ ~Reading'
      /\ UNCHANGED <<files, watcher, cur, main, stopping, saving, history, budgets>>
  BY DEF HandleMoveTo, Pops, Reading
<1>3. /\ Tail(events) \in Seq(MoveEvents(Old))
      /\ Path \in Paths /\ Alias \in Paths /\ Path \in Watchable
      /\ Path \notin Old /\ Alias \in Old /\ Path # Alias /\ Path # None
  BY <1>1, <1>2, HeadsFit, HeadEvent, ConstantFacts DEF HandleMoveTo, Pops, Watchable
<1>4. events' \in Seq(MoveEvents(Old))
  <2>1. \A e \in MoveEvents(Old) : Append(Tail(events), e) \in Seq(MoveEvents(Old))
    BY <1>3, AppendProperties
  <2>2. Event("MODIFY", Path, None) \in MoveEvents(Old)
    BY <1>3, FittingEvents
  <2> QED
    BY <2>1, <2>2 DEF HandleMoveTo
<1>5. \/ UNCHANGED <<fdMap, aliases>>
      \/ /\ fdMap[Alias] # None /\ fdMap'[Path] = fdMap[Alias] /\ fdMap'[Alias] = None
         /\ \A p \in Paths \ {Path, Alias} : fdMap'[p] = fdMap[p]
         /\ aliases'[Alias] = Path
         /\ \A p \in Paths \ {Alias} : aliases'[p] = aliases[p]
  BY <1>1, <1>3 DEF HandleMoveTo, EntryTypes
<1>6. MovesFit(Old)'
  <2>1. kernel' \in Seq(MoveReports(Old)) /\ moveFrom' \in Old \cup {None}
    BY <1>1, <1>2 DEF MovesFit
  <2>2. \A p \in Paths : aliases'[p] # None =>
           p \in Old /\ aliases'[p] \notin Old /\ fdMap'[p] = None
    BY <1>1, <1>3, <1>5 DEF MovesFit
  <2> QED
    BY <1>4, <2>1, <2>2 DEF MovesFit
<1>7. EntryBehind'
  <2>1. \A p \in Paths : fdMap'[p] # None =>
           \E q \in Paths :
              /\ fdMap[q] # None /\ fdMap'[p].good = fdMap[q].good
              /\ fdMap'[p].offset = fdMap[q].offset /\ fdMap'[p].stream = fdMap[q].stream
    BY <1>3, <1>5
  <2>2. \A p \in Paths : fdMap'[p] # None => fdMap'[p].good
    BY <1>1, <2>1 DEF EntryBehind
  <2> QED
    BY <1>1, <1>2, <2>1, <2>2, KeepsBehind
<1>8. ReadFits' /\ FirstLife' /\ NoGap'
  BY <1>1, <1>2 DEF ReadFits, FirstLife, NoGap, Reading, Up
<1>9. TypeInv'
  BY <1>1, HandlerTypes
<1> QED
  BY <1>6, <1>7, <1>8, <1>9 DEF MovesInv

(* An entry is opened under its own name, or under the name it has moved   *)
(* to, and only an entry at its first line has its stream opened.          *)
LEMMA OpensFit ==
    ASSUME NEW Old \in SUBSET DirPaths, MovesInv(Old), ~Full, ReadOpens
    PROVE  /\ Path \in Paths /\ Key(Path) \in Paths /\ events # <<>> /\ events' = Tail(events)
           /\ Up /\ et = "wait" /\ aliases[Key(Path)] = None
           /\ Key(Path) = Path \/ aliases[Path] = Key(Path)
           /\ UNCHANGED <<files, watcher, aliases, main, stopping, saving, history, budgets>>
           /\ \A p \in Paths \ {Key(Path)} : fdMap'[p] = fdMap[p]
           /\ fdMap'[Key(Path)] # None /\ fdMap'[Key(Path)].good
           /\ \/ fdMap'[Key(Path)].offset = 0
              \/ /\ fdMap[Key(Path)] # None
                 /\ fdMap'[Key(Path)].offset = fdMap[Key(Path)].offset
                 /\ fdMap'[Key(Path)].stream = fdMap[Key(Path)].stream
           /\ \/ UNCHANGED <<et, cur>>
              \/ /\ et' = "read" /\ cur'.key = Key(Path) /\ cur'.path = Path
                 /\ cur'.pos = fdMap'[Key(Path)].offset
<1>1. /\ TypeInv /\ MovesFit(Old) /\ EntryBehind /\ FileTypes /\ EventTypes /\ EntryTypes
      /\ HandedTypes
  BY MovesParts
<1> DEFINE key == Key(Path)
<1>2. PICK idle \in SUBSET Closable, item \in FdItems : OpensAs(key, idle, item)
  BY <1>1, Opened
<1>3. /\ Path \in Watchable /\ Path \in Paths /\ key \in Paths /\ events # <<>>
      /\ events' = Tail(events) /\ Up /\ et = "wait"
      /\ UNCHANGED <<files, watcher, aliases, main, stopping, saving, history, budgets>>
      /\ key = Path \/ aliases[Path] = key
  BY <1>1, Opened, KeyType
<1>4. aliases[key] = None
  BY <1>1, <1>3, ConstantFacts DEF MovesFit, Key
<1>5. idle = {}
  BY <1>2 DEF OpensAs
<1>6. /\ AfterGc(idle) = fdMap
      /\ fdMap \in [Paths -> FdItems \cup {None}]
  BY <1>1, <1>5 DEF AfterGc, EntryTypes
<1> DEFINE stream == StreamOf(item, key)
           entry  == WithStream(item, stream)
<1>7. entry # None /\ entry.stream = stream /\ entry.offset = item.offset /\ entry.good = TRUE
  <2>1. stream \in Inodes \cup {NoFile}
    BY <1>1, <1>3, StreamType
  <2>2. \A i \in Inodes \cup {NoFile} :
           WithStream(item, i) # None /\ WithStream(item, i).stream = i
           /\ WithStream(item, i).offset = item.offset /\ WithStream(item, i).good = TRUE
    BY ItemUpdates, ItemFields
  <2> QED
    BY <2>1, <2>2
<1>8. fdMap' = [fdMap EXCEPT ![key] = entry]
  BY <1>2, <1>6 DEF OpensAs
<1>9. fdMap'[key] = entry /\ \A p \in Paths \ {key} : fdMap'[p] = fdMap[p]
  BY <1>3, <1>6, <1>8
<1>10. \/ item.offset = 0
       \/ fdMap[key] # None /\ item = fdMap[key] /\ stream = item.stream
  <2>1. ASSUME NEW junk \in Junk \cup {FALSE}, item = NewItem(0, junk)
        PROVE  item.offset = 0
    BY <2>1 DEF NewItem
  <2>2. \/ \E junk \in Junk \cup {FALSE} : item = NewItem(0, junk)
        \/ fdMap[key] # None /\ item = fdMap[key]
    BY <1>2, <1>6 DEF OpensAs
  <2>3. ASSUME fdMap[key] # None, item = fdMap[key]
        PROVE  item.offset = 0 \/ stream = item.stream
    <3>1. item.good /\ 1 .. item.offset \subseteq HandedOf(item.stream) /\ item.offset \in Nat
      BY <1>1, <1>3, <2>3, ItemUpdates DEF EntryBehind
    <3>2. CASE item.stream = NoFile
      <4>1. 1 .. item.offset = {}
        BY <1>1, <3>1, <3>2, HandedFacts
      <4>2. ~(1 \in 1 .. item.offset)
        BY <4>1
      <4> QED
        BY <3>1, <4>2
    <3>3. CASE item.stream # NoFile
      BY <3>1, <3>3 DEF StreamOf, Usable
    <3> QED
      BY <3>2, <3>3
  <2> QED
    BY <2>1, <2>2, <2>3
<1>11. \/ UNCHANGED <<et, cur>>
       \/ et' = "read" /\ cur'.key = key /\ cur'.path = Path /\ cur'.pos = item.offset
  BY <1>2 DEF OpensAs
<1> QED
  BY <1>3, <1>4, <1>7, <1>9, <1>10, <1>11

LEMMA ReadOpensMoves ==
    ASSUME NEW Old \in SUBSET DirPaths, MovesInv(Old), ~Full, ReadOpens
    PROVE  MovesInv(Old)'
<1> USE DEF files, watcher, reader, saving, history, budgets
<1>1. /\ TypeInv /\ MovesFit(Old) /\ EntryBehind /\ FirstLife /\ NoGap /\ EntryTypes
  BY MovesParts
<1> DEFINE key == Key(Path)
<1>2. /\ Path \in Paths /\ key \in Paths /\ events # <<>> /\ events' = Tail(events)
      /\ Up /\ ~Reading /\ aliases[key] = None /\ (key = Path \/ aliases[Path] = key)
      /\ UNCHANGED <<files, watcher, aliases, main, stopping, saving, history, budgets>>
  BY OpensFit DEF Reading
<1>3. /\ \A p \in Paths \ {key} : fdMap'[p] = fdMap[p]
      /\ fdMap'[key] # None /\ fdMap'[key].good
      /\ \/ fdMap'[key].offset = 0
         \/ /\ fdMap[key] # None /\ fdMap'[key].offset = fdMap[key].offset
            /\ fdMap'[key].stream = fdMap[key].stream
  BY OpensFit
<1>4. \/ UNCHANGED <<et, cur>>
      \/ et' = "read" /\ cur'.key = key /\ cur'.path = Path /\ cur'.pos = fdMap'[key].offset
  BY OpensFit
<1> HIDE DEF key
<1>5. MovesFit(Old)'
  <2>1. /\ kernel' \in Seq(MoveReports(Old)) /\ moveFrom' \in Old \cup {None}
        /\ events' \in Seq(MoveEvents(Old))
    BY <1>1, <1>2, HeadsFit DEF MovesFit
  <2>2. \A p \in Paths : aliases'[p] # None =>
           p \in Old /\ aliases'[p] \notin Old /\ fdMap'[p] = None
    BY <1>1, <1>2, <1>3 DEF MovesFit
  <2> QED
    BY <2>1, <2>2 DEF MovesFit
<1>6. EntryBehind'
  <2>1. \A p \in Paths : fdMap'[p] # None =>
           /\ fdMap'[p].good
           /\ \/ fdMap'[p].offset = 0
              \/ /\ fdMap[p] # None /\ fdMap'[p].offset = fdMap[p].offset
                 /\ fdMap'[p].stream = fdMap[p].stream
    BY <1>1, <1>3 DEF EntryBehind
  <2> QED
    BY <1>1, <1>2, <2>1, KeepsBehind
<1>7. ReadFits'
  <2>1. CASE UNCHANGED <<et, cur>>
    BY <1>2, <2>1 DEF ReadFits, Reading
  <2>2. CASE et' = "read" /\ cur'.key = key /\ cur'.path = Path /\ cur'.pos = fdMap'[key].offset
    <3>1. key = Path \/ fdMap'[Path] = None
      BY <1>1, <1>2, <1>3, ConstantFacts DEF MovesFit
    <3>2. 1 .. fdMap'[key].offset \subseteq HandedOf(fdMap'[key].stream)
      BY <1>2, <1>3, <1>6 DEF EntryBehind, HandedOf
    <3> QED
      BY <1>2, <2>2, <3>1, <3>2 DEF ReadFits, Reading, Stream, HandedOf
  <2> QED
    BY <1>4, <2>1, <2>2
<1>8. FirstLife' /\ NoGap'
  BY <1>1, <1>2 DEF FirstLife, NoGap, Up
<1>9. TypeInv'
  BY <1>1, ReadOpensTypes
<1> QED
  BY <1>5, <1>6, <1>7, <1>8, <1>9 DEF MovesInv

(* The line that is handed over is the one behind those that were.         *)
LEMMA SendLineMoves ==
    ASSUME NEW Old, MovesInv(Old), SendLine
    PROVE  MovesInv(Old)'
<1> USE DEF files, watcher, reader, saving, history, budgets
<1>1. /\ TypeInv /\ MovesFit(Old) /\ EntryBehind /\ ReadFits /\ FirstLife /\ NoGap /\ HandedTypes
  BY MovesParts
<1>2. /\ UNCHANGED <<files, watcher, events, reader, cur, main, stopping, saving, budgets>>
      /\ et = "read" /\ et' = "sent" /\ handed' = handed \cup {Line} /\ Reading
  BY DEF SendLine, Reading
<1>3. cur.pos \in Nat /\ 1 .. cur.pos \subseteq HandedOf(Stream)
  BY <1>1, <1>2, LineType DEF ReadFits
<1>4. NoGap'
  <2> SUFFICES ASSUME NEW l \in handed', NEW k \in 1 .. l[2] - 1
               PROVE  <<l[1], k>> \in handed'
    BY DEF NoGap
  <2>1. CASE l \in handed
    BY <1>1, <1>2, <2>1 DEF NoGap
  <2>2. CASE l = Line
    <3>1. l[1] = Stream /\ l[2] = cur.pos + 1 /\ k \in 1 .. cur.pos
      BY <1>3, <2>2 DEF Line
    <3> QED
      BY <1>1, <1>2, <1>3, <3>1, HandedFacts
  <2> QED
    BY <1>2, <2>1, <2>2
<1>5. EntryBehind'
  BY <1>1, <1>2 DEF EntryBehind, HandedOf
<1>6. ReadFits'
  BY <1>1, <1>2 DEF ReadFits, Reading, Line, Stream, HandedOf
<1>7. MovesFit(Old)' /\ FirstLife'
  BY <1>1, <1>2 DEF MovesFit, FirstLife, Up
<1>8. TypeInv'
  BY <1>1, ReadingTypes
<1> QED
  BY <1>4, <1>5, <1>6, <1>7, <1>8 DEF MovesInv

(* setFileOffset: the entry that is read has its next line handed over.    *)
LEMMA SetFileOffsetMoves ==
    ASSUME NEW Old, MovesInv(Old), SetFileOffset
    PROVE  MovesInv(Old)'
<1> USE DEF files, watcher, reader, saving, history, budgets
<1>1. /\ TypeInv /\ MovesFit(Old) /\ EntryBehind /\ ReadFits /\ FirstLife /\ NoGap
      /\ EntryTypes /\ ThreadTypes /\ HandedTypes
  BY MovesParts
<1>2. /\ UNCHANGED <<files, watcher, moveTime, aliases, fdNum, main, stopping, saving, history,
                     budgets>>
      /\ et = "sent" /\ Reading /\ fdMap' = Advanced(cur.path)
  BY DEF SetFileOffset, Reading
<1>3. /\ cur.path \in Watchable /\ cur.path \in Paths /\ cur.key \in Paths
      /\ fdMap[cur.key] # None /\ cur.pos \in Nat
  BY <1>1, <1>2, ConstantFacts DEF TypeInv, ReadsAStream, Watchable, ThreadTypes
<1>4. /\ \A p \in Paths : fdMap'[p] = None <=> fdMap[p] = None
      /\ \A p \in Paths \ {cur.path} : fdMap'[p] = fdMap[p]
      /\ \A p \in Paths : fdMap[p] # None =>
            /\ fdMap'[p].stream = fdMap[p].stream
            /\ fdMap'[p].good = fdMap[p].good
            /\ fdMap'[p].offset = fdMap[p].offset + (IF p = cur.path THEN 1 ELSE 0)
  BY <1>1, <1>2, <1>3, AdvancedType
<1>5. \/ ~Reading' /\ Continue
      \/ /\ et' = "read" /\ events' = events
         /\ cur'.pos = cur.pos + 1 /\ cur'.key = cur.key /\ cur'.path = cur.path
  BY <1>1 DEF SetFileOffset, Reading, ThreadTypes
<1>6. MovesFit(Old)'
  <2>1. events' \in Seq(MoveEvents(Old))
    <3>1. \A e \in MoveEvents(Old) : Append(events, e) \in Seq(MoveEvents(Old))
      BY <1>1, AppendProperties DEF MovesFit
    <3>2. Event("MODIFY", cur.path, None) \in MoveEvents(Old)
      BY <1>3, FittingEvents
    <3> QED
      BY <1>1, <1>5, <3>1, <3>2 DEF MovesFit, Continue
  <2> QED
    BY <1>1, <1>2, <1>4, <2>1 DEF MovesFit
<1>7. 1 .. cur.pos + 1 \subseteq HandedOf(Stream)
  <2>1. 1 .. cur.pos \subseteq HandedOf(Stream) /\ <<Stream, cur.pos + 1>> \in handed
    BY <1>1, <1>2 DEF ReadFits, Line
  <2>2. cur.pos + 1 \in HandedOf(Stream)
    BY <1>1, <2>1, HandedFacts
  <2> QED
    BY <1>3, <2>1, <2>2
<1>8. \/ cur.path = cur.key /\ fdMap[cur.key].offset = cur.pos
      \/ cur.path # cur.key /\ fdMap[cur.path] = None
  BY <1>1, <1>2 DEF ReadFits
<1>9. EntryBehind'
  <2> SUFFICES ASSUME NEW p \in Paths, fdMap'[p] # None
               PROVE  fdMap'[p].good /\ 1 .. fdMap'[p].offset \subseteq HandedOf(fdMap'[p].stream)
    BY <1>2 DEF EntryBehind, HandedOf
  <2>1. /\ fdMap[p] # None /\ fdMap[p].good
        /\ 1 .. fdMap[p].offset \subseteq HandedOf(fdMap[p].stream)
    BY <1>1, <1>4 DEF EntryBehind
  <2>2. CASE p = cur.path
    <3>1. p = cur.key /\ fdMap'[p].offset = cur.pos + 1 /\ fdMap'[p].stream = Stream
      BY <1>4, <1>8, <2>1, <2>2 DEF Stream
    <3> QED
      BY <1>4, <1>7, <2>1, <3>1
  <2>3. CASE p # cur.path
    BY <1>4, <2>1, <2>3
  <2> QED
    BY <2>2, <2>3
<1>10. ReadFits'
  <2>1. CASE ~Reading'
    BY <2>1 DEF ReadFits, Reading
  <2>2. CASE /\ et' = "read" /\ cur'.pos = cur.pos + 1 /\ cur'.key = cur.key
             /\ cur'.path = cur.path
    <3>1. fdMap'[cur.key].stream = Stream
      BY <1>3, <1>4 DEF Stream
    <3>2. cur.path = cur.key \/ fdMap'[cur.path] = None
      BY <1>3, <1>4, <1>8
    <3>3. cur.path = cur.key => fdMap'[cur.key].offset = cur.pos + 1
      BY <1>3, <1>4, <1>8
    <3> QED
      BY <1>2, <1>7, <2>2, <3>1, <3>2, <3>3 DEF ReadFits, Stream, HandedOf
  <2> QED
    BY <1>5, <2>1, <2>2
<1>11. FirstLife' /\ NoGap'
  BY <1>1, <1>2 DEF FirstLife, NoGap, Up
<1>12. TypeInv'
  BY <1>1, ReadingTypes
<1> QED
  BY <1>6, <1>9, <1>10, <1>11, <1>12 DEF MovesInv

LEMMA ReadStopsMoves ==
    ASSUME IsBinary = FALSE, NEW Old, MovesInv(Old), RefusedLine \/ ReadEnds
    PROVE  MovesInv(Old)'
<1> USE DEF files, watcher, reader, saving, history, budgets
<1>1. /\ TypeInv /\ MovesFit(Old) /\ EntryBehind /\ ReadFits /\ FirstLife /\ NoGap
  BY MovesParts
<1>2. /\ UNCHANGED <<files, watcher, reader, main, stopping, saving, history, boots>>
      /\ Reading /\ ~Reading' /\ (events' = events \/ Continue)
  BY DEF RefusedLine, ReadEnds, Reading
<1>3. cur.path \in Watchable
  BY <1>1, <1>2 DEF TypeInv, ReadsAStream
<1>4. events' \in Seq(MoveEvents(Old))
  <2>1. \A e \in MoveEvents(Old) : Append(events, e) \in Seq(MoveEvents(Old))
    BY <1>1, AppendProperties DEF MovesFit
  <2>2. Event("MODIFY", cur.path, None) \in MoveEvents(Old)
    BY <1>3, FittingEvents
  <2> QED
    BY <1>1, <1>2, <2>1, <2>2 DEF MovesFit, Continue
<1>5. MovesFit(Old)' /\ EntryBehind'
  BY <1>1, <1>2, <1>4 DEF MovesFit, EntryBehind, HandedOf
<1>6. ReadFits'
  BY <1>2 DEF ReadFits, Reading
<1>7. FirstLife' /\ NoGap'
  BY <1>1, <1>2 DEF FirstLife, NoGap, Up
<1>8. TypeInv'
  BY <1>1, ReadingTypes
<1> QED
  BY <1>5, <1>6, <1>7, <1>8 DEF MovesInv

(* In the first life there is nothing to load.                             *)
LEMMA MainMoves ==
    ASSUME MaxBoots <= 1, NEW Old, MovesInv(Old), Boot \/ Save \/ Stop \/ Crash
    PROVE  MovesInv(Old)'
<1> USE DEF files, watcher, reader, saving, history, budgets
<1>1. /\ TypeInv /\ MovesFit(Old) /\ EntryBehind /\ ReadFits /\ FirstLife /\ NoGap
      /\ SavedTypes /\ BudgetTypes
  BY MovesParts
<1>2. UNCHANGED history
  BY DEF Boot, Save, SaveWrite, SaveBackup, SaveReplace, Stop, Crash
<1>3. TypeInv' /\ NoGap'
  BY <1>1, <1>2, MainTypes DEF NoGap
<1>4. CASE Boot
  <2>1. PICK junk \in [Paths -> Junk] : fdMap' = LoadOffsets(junk)
    BY <1>4 DEF Boot
  <2>2. ~Up /\ boots = 0 /\ boots' = 1
    BY <1>1, <1>4, ConstantFacts DEF Boot, BudgetTypes, Up
  <2>3. \A p \in Paths : fdMap'[p] = None
    BY <1>1, <2>1, <2>2 DEF FirstLife, LoadOffsets
  <2>4. UNCHANGED <<kernel, moveFrom, events, aliases, et, cur>> /\ ~Reading
    BY <1>1, <1>4, <2>2 DEF Boot, TypeInv, ReadsAStream
  <2>5. MovesFit(Old)' /\ EntryBehind' /\ ReadFits' /\ FirstLife'
    BY <1>1, <2>2, <2>3, <2>4 DEF MovesFit, EntryBehind, ReadFits, Reading, FirstLife
  <2> QED
    BY <1>3, <2>5 DEF MovesInv
<1>5. CASE SaveWrite \/ SaveBackup \/ Stop \/ (SaveReplace /\ ~stopping)
  <2>1. UNCHANGED <<kernel, moveFrom, fdMap, aliases, et, cur, boots>> /\ Up
    BY <1>5 DEF SaveWrite, SaveBackup, SaveReplace, Stop, Up
  <2>2. events' \in Seq(MoveEvents(Old))
    <3>1. \A e \in MoveEvents(Old) : Append(events, e) \in Seq(MoveEvents(Old))
      BY <1>1, AppendProperties DEF MovesFit
    <3>2. Event("STOP", None, None) \in MoveEvents(Old)
      BY FittingEvents
    <3> QED
      BY <1>1, <1>5, <3>1, <3>2 DEF SaveWrite, SaveBackup, SaveReplace, Stop, MovesFit
  <2>3. MovesFit(Old)' /\ EntryBehind' /\ ReadFits'
    BY <1>1, <1>2, <2>1, <2>2
       DEF MovesFit, EntryBehind, ReadFits, Reading, Line, Stream, HandedOf
  <2>4. FirstLife'
    BY <1>1, <2>1 DEF FirstLife
  <2> QED
    BY <1>3, <2>3, <2>4 DEF MovesInv
<1>6. CASE Crash \/ (SaveReplace /\ stopping)
  <2>1. Ends /\ Up /\ boots' = boots
    BY <1>6 DEF Crash, SaveReplace, Up
  <2>2. \A p \in Paths : fdMap'[p] = None /\ aliases'[p] = None
    BY <2>1 DEF Ends, Empty
  <2>3. MovesFit(Old)'
    BY <2>1, <2>2, EmptySeq DEF Ends, MovesFit
  <2>4. EntryBehind' /\ ReadFits' /\ FirstLife'
    BY <1>1, <2>1, <2>2 DEF Ends, EntryBehind, ReadFits, Reading, FirstLife
  <2> QED
    BY <1>3, <2>3, <2>4 DEF MovesInv
<1> QED
  BY <1>4, <1>5, <1>6 DEF Save

LEMMA MovesStart ==
    ASSUME NEW Old, Init
    PROVE  MovesInv(Old)
<1>1. TypeInv
  BY TypesStart
<1>2. Empty \in [Paths -> {None}]
  BY DEF Empty
<1>3. MovesFit(Old)
  BY <1>2, EmptySeq DEF Init, MovesFit
<1>4. EntryBehind /\ ReadFits /\ FirstLife /\ NoGap
  BY <1>2 DEF Init, EntryBehind, ReadFits, Reading, FirstLife, NoGap, Up
<1> QED
  BY <1>1, <1>3, <1>4 DEF MovesInv

LEMMA MovesStep ==
    ASSUME IsBinary = FALSE, MaxBoots <= 1, NEW Old \in SUBSET DirPaths,
           MovesInv(Old), ~Full, Next, OneWay(Old)
    PROVE  MovesInv(Old)'
<1>1. ~ReadGivesUp
  BY DEF ReadGivesUp
<1> QED
  BY <1>1, EnvironmentMoves, WatcherMoves, HandlerMoves, HandleMoveToMoves, ReadOpensMoves,
     SendLineMoves, SetFileOffsetMoves, ReadStopsMoves, MainMoves DEF Next, EventThread

LEMMA MovesStutter ==
    ASSUME NEW Old, MovesInv(Old), UNCHANGED vars
    PROVE  MovesInv(Old)'
<1>1. TypeInv'
  BY TypesStutter DEF MovesInv
<1>2. MovesFit(Old)' /\ EntryBehind' /\ ReadFits' /\ FirstLife' /\ NoGap'
  BY DEF MovesInv, vars, files, watcher, reader, saving, history, budgets, MovesFit, EntryBehind,
     ReadFits, FirstLife, NoGap, Reading, Line, Stream, HandedOf, Up
<1> QED
  BY <1>1, <1>2 DEF MovesInv

LEMMA MovesHold ==
    ASSUME IsBinary = FALSE, MaxBoots <= 1, NEW Old \in SUBSET DirPaths
    PROVE  Spec /\ []~Full /\ [][OneWay(Old)]_vars => []MovesInv(Old)
<1>1. Init => MovesInv(Old)
  BY MovesStart
<1>2. MovesInv(Old) /\ ~Full /\ [Next]_vars /\ [OneWay(Old)]_vars => MovesInv(Old)'
  BY MovesStep, MovesStutter
<1> QED
  BY <1>1, <1>2, PTL DEF Spec

LEMMA MovesShow ==
    ASSUME NEW Old, MovesInv(Old)
    PROVE  NoGap /\ OffsetNotAhead
BY DEF MovesInv, EntryBehind, OffsetNotAhead, OpenPaths

(***************************************************************************)
(* Reader::moveto and the alias it leaves: when files of a directory are   *)
(* renamed and removed, in any number and in any order with reads, no line *)
(* of theirs is skipped.                                                   *)
(***************************************************************************)
THEOREM MovedLinesAreNotSkipped ==
    ASSUME IsBinary = FALSE, MaxBoots <= 1, NEW Old \in SUBSET DirPaths
    PROVE  Spec /\ []~Full /\ [][OneWay(Old)]_vars => []NoGap
<1>1. MovesInv(Old) => NoGap
  BY MovesShow
<1> QED
  BY <1>1, MovesHold, PTL

(***************************************************************************)
(* Nor does the offset of an open file run ahead when its entry takes      *)
(* another name, when its name is given to a new file, or when an event    *)
(* comes under the old name: setFileOffset then finds no entry to advance. *)
(***************************************************************************)
THEOREM MovedOffsetsAreBehind ==
    ASSUME IsBinary = FALSE, MaxBoots <= 1, NEW Old \in SUBSET DirPaths
    PROVE  Spec /\ []~Full /\ [][OneWay(Old)]_vars => []OffsetNotAhead
<1>1. MovesInv(Old) => OffsetNotAhead
  BY MovesShow
<1> QED
  BY <1>1, MovesHold, PTL

(***************************************************************************)
(* Files watched on their own, as a log that is rotated: what name they    *)
(* are moved to, or are replaced from, does not matter, nor the time_wait  *)
(* period.                                                                 *)
(***************************************************************************)
THEOREM RotatedOffsetsAreBehind ==
    ASSUME IsBinary = FALSE, MaxBoots <= 1, DirPaths = {}
    PROVE  Spec /\ []~Full => [](NoGap /\ OffsetNotAhead)
<1>1. Init => MovesInv({})
  BY MovesStart
<1>2. MovesInv({}) /\ ~Full /\ [Next]_vars => MovesInv({})'
  BY MovesStep, MovesStutter DEF OneWay
<1>3. MovesInv({}) => NoGap /\ OffsetNotAhead
  BY MovesShow
<1> QED
  BY <1>1, <1>2, <1>3, PTL DEF Spec

-----------------------------------------------------------------------------
(* A single move or removal is always one way.                             *)
MovesOnce ==
    /\ \E Old \in SUBSET DirPaths : MovesInv(Old)
    /\ moves = 0 => \A Old \in SUBSET DirPaths : MovesInv(Old)

LEMMA MovesOnceStep ==
    ASSUME IsBinary = FALSE, MaxBoots <= 1, MaxMoves <= 1, MovesOnce, ~Full, Next
    PROVE  MovesOnce'
<1> USE DEF files, watcher, reader, saving, history, budgets
<1>1. moves \in 0 .. MaxMoves /\ moves' \in Nat /\ FileTypes
  <2>1. PICK Old \in SUBSET DirPaths : MovesInv(Old)
    BY DEF MovesOnce
  <2>2. moves \in 0 .. MaxMoves /\ FileTypes /\ TypeInv
    BY <2>1, MovesParts DEF BudgetTypes
  <2>3. TypeInv'
    BY <2>2, TypesStep
  <2>4. moves' \in 0 .. MaxMoves
    BY <2>3 DEF TypeInv, TypeOK
  <2> QED
    BY <2>2, <2>4, ConstantFacts
<1>2. CASE \E p, q \in Paths : RenameFile(p, q)
  <2>1. PICK p \in Paths, q \in Paths : RenameFile(p, q)
    BY <1>2
  <2>2. moves = 0 /\ moves' = 1
    BY <1>1, <2>1, ConstantFacts DEF RenameFile
  <2> DEFINE Old == DirPaths \cap {p}
  <2>3. ASSUME NEW r \in Paths, NEW s \in Paths, RenameFile(r, s)
        PROVE  r = p
    <3>1. dir[r] # NoFile /\ dir'[r] = NoFile
      BY <1>1, <2>3 DEF RenameFile, FileTypes
    <3>2. \A t \in Paths \ {p, q} : dir'[t] = dir[t]
      BY <1>1, <2>1 DEF RenameFile, FileTypes
    <3>3. dir'[q] # NoFile
      BY <1>1, <2>1 DEF RenameFile, FileTypes
    <3> QED
      BY <3>1, <3>2, <3>3
  <2>4. \A r, s \in Paths : RenameFile(r, s) => r # s
    BY DEF RenameFile
  <2>5. OneWay(Old)
    BY <2>3, <2>4 DEF OneWay
  <2>6. MovesInv(Old)
    BY <2>2 DEF MovesOnce
  <2>7. Old \in SUBSET DirPaths
    OBVIOUS
  <2> HIDE DEF Old
  <2>8. MovesInv(Old)'
    BY <2>5, <2>6, <2>7, MovesStep
  <2> QED
    BY <2>2, <2>7, <2>8 DEF MovesOnce
<1>3. CASE ~ \E p, q \in Paths : RenameFile(p, q)
  <2>1. \A Old : OneWay(Old)
    BY <1>3 DEF OneWay
  <2>2. \A Old \in SUBSET DirPaths : MovesInv(Old) => MovesInv(Old)'
    BY <2>1, MovesStep
  <2>3. moves' \in {moves, moves + 1}
    <3>1. ASSUME Environment PROVE moves' \in {moves, moves + 1}
      BY <3>1 DEF Environment, CreateFile, AppendLine, RemoveFile, RenameFile, WaitOver
    <3>2. ASSUME WatcherThread \/ EventThread PROVE moves' = moves
      BY <3>2, EventThreadFrame DEF WatcherThread, CreateWatcher, ParseEvent
    <3>3. ASSUME Boot \/ Save \/ Stop \/ Crash PROVE moves' = moves
      BY <3>3 DEF Boot, Save, SaveWrite, SaveBackup, SaveReplace, Stop, Crash
    <3> QED
      BY <3>1, <3>2, <3>3 DEF Next
  <2>4. moves' = 0 => moves = 0
    BY <1>1, <2>3, ConstantFacts
  <2> QED
    BY <2>2, <2>4 DEF MovesOnce
<1> QED
  BY <1>2, <1>3

(***************************************************************************)
(* With a single rename or removal, in directories or of files watched on  *)
(* their own, nothing need be assumed of the names.                        *)
(***************************************************************************)
THEOREM OneMoveIsFollowed ==
    ASSUME IsBinary = FALSE, MaxBoots <= 1, MaxMoves <= 1
    PROVE  Spec /\ []~Full => [](NoGap /\ OffsetNotAhead)
<1>1. Init => MovesOnce
  BY MovesStart DEF MovesOnce
<1>2. MovesOnce /\ ~Full /\ [Next]_vars => MovesOnce'
  <2>1. ASSUME MovesOnce, UNCHANGED vars PROVE MovesOnce'
    <3>1. \A Old \in SUBSET DirPaths : MovesInv(Old) => MovesInv(Old)'
      BY <2>1, MovesStutter
    <3> QED
      BY <2>1, <3>1 DEF MovesOnce, vars, budgets
  <2> QED
    BY <2>1, MovesOnceStep
<1>3. MovesOnce => NoGap /\ OffsetNotAhead
  BY MovesShow DEF MovesOnce
<1> QED
  BY <1>1, <1>2, <1>3, PTL DEF Spec

-----------------------------------------------------------------------------
(* What a step does to the entry of a file transfer: a handler leaves its  *)
(* stream, or forgets the entry on a DELETE.  A stream that is open and    *)
(* good is read on, so that only a reset or gc would open another file.    *)
LEMMA StreamStays ==
    ASSUME IsBinary = FALSE, TypeInv, StreamsFit, ~Full, EventThread, ~HandleDelete,
           NEW f \in FilePaths \cap OpenPaths, moveTime[f] = "recent"
    PROVE  fdMap'[f].stream = fdMap[f].stream
<1> USE DEF files, watcher, reader, saving, history, budgets
<1>1. EventTypes /\ EntryTypes /\ FileTypes /\ ThreadTypes
  BY TypeParts DEF TypeInv
<1>2. f \in Paths /\ f \notin DirPaths /\ fdMap[f] # None /\ fdMap[f].stream # NoFile
  BY ConstantFacts DEF OpenPaths
<1>3. fdMap[f] \in FdItems /\ fdMap[f].good
  BY <1>1, <1>2 DEF EntryTypes, StreamsFit
<1>4. CASE HandleMoveSelf
  <2>1. Path \in FilePaths
    BY <1>1, <1>4, HeadEvent DEF HandleMoveSelf, Pops
  <2>2. [fdMap[f] EXCEPT !.moveProtected = TRUE].stream = fdMap[f].stream
    BY <1>3, ItemFields
  <2> QED
    BY <1>1, <1>2, <1>4, <2>1, <2>2, ConstantFacts DEF HandleMoveSelf, EntryTypes
<1>5. CASE HandleMoveTo
  <2>1. Path \in DirPaths /\ Alias \in DirPaths
    BY <1>1, <1>5, HeadEvent DEF HandleMoveTo, Pops
  <2> QED
    BY <1>1, <1>2, <1>5, <2>1, ConstantFacts DEF HandleMoveTo, EntryTypes
<1>6. CASE HandleStop \/ SendLine \/ RefusedLine \/ ReadEnds
  BY <1>6 DEF HandleStop, SendLine, RefusedLine, ReadEnds
<1>7. CASE SetFileOffset
  <2>1. cur.path \in Paths /\ fdMap' = Advanced(cur.path)
    BY <1>7, ConstantFacts DEF SetFileOffset, TypeInv, ReadsAStream, Reading, Watchable
  <2> QED
    BY <1>1, <1>2, <2>1, AdvancedType
<1>8. CASE ReadOpens
  <2> DEFINE key == Key(Path)
  <2>1. PICK idle \in SUBSET Closable, item \in FdItems : OpensAs(key, idle, item)
    BY <1>1, <1>8, Opened
  <2>2. key \in Paths /\ (key = Path \/ key \in DirPaths)
    BY <1>1, <1>8, Opened, KeyType
  <2>3. idle = {} /\ AfterGc(idle) = fdMap
    BY <1>1, <2>1 DEF OpensAs, AfterGc, EntryTypes
  <2>4. fdMap' = [fdMap EXCEPT ![key] = WithStream(item, StreamOf(item, key))]
    BY <2>1, <2>3 DEF OpensAs
  <2>5. CASE f # key
    BY <1>1, <1>2, <2>2, <2>4, <2>5 DEF EntryTypes
  <2>6. CASE f = key
    <3>1. ~Expired(Path)
      BY <1>2, <2>2, <2>6 DEF Expired
    <3>2. item = fdMap[f]
      BY <1>2, <2>1, <2>3, <2>6, <3>1 DEF OpensAs
    <3>3. StreamOf(item, key) = fdMap[f].stream
      BY <1>2, <1>3, <3>2 DEF StreamOf, Usable
    <3>4. WithStream(item, fdMap[f].stream).stream = fdMap[f].stream
      BY <1>3, <3>2, ItemUpdates, ItemFields
    <3> QED
      BY <1>1, <2>2, <2>4, <2>6, <3>3, <3>4 DEF EntryTypes
  <2> QED
    BY <2>5, <2>6
<1> QED
  BY <1>4, <1>5, <1>6, <1>7, <1>8 DEF EventThread, ReadGivesUp

LEMMA StreamsFitEvents ==
    ASSUME IsBinary = FALSE, TypeInv, StreamsFit, EventThread
    PROVE  StreamsFit'
<1> USE DEF files, watcher, reader, saving, history, budgets
<1>1. EventTypes /\ EntryTypes /\ FileTypes /\ ThreadTypes
  BY TypeParts DEF TypeInv
<1>2. Up'
  BY EventThreadFrame DEF Up
<1>3. \A p \in Paths : aliases'[p] # None => p \in DirPaths
  <2>1. CASE HandleMoveTo
    <3>1. Alias \in DirPaths
      BY <1>1, <2>1, HeadEvent DEF HandleMoveTo, Pops
    <3> QED
      BY <1>1, <2>1, <3>1 DEF HandleMoveTo, StreamsFit, EntryTypes
  <2>2. CASE HandleDelete
    BY <2>2 DEF HandleDelete, StreamsFit
  <2>3. CASE ~HandleMoveTo /\ ~HandleDelete
    BY <2>3 DEF StreamsFit, EventThread, HandleMoveSelf, HandleStop, ReadGivesUp, ReadOpens,
       ReadEnds, SendLine, RefusedLine, SetFileOffset
  <2> QED
    BY <2>1, <2>2, <2>3
<1>4. \A p \in Paths : fdMap'[p] # None => fdMap'[p].good
  <2>1. \A p \in Paths : fdMap[p] # None => fdMap[p].good
    BY DEF StreamsFit
  <2>2. CASE HandleDelete
    <3>1. Path \in Paths
      BY <1>1, <2>2, HeadEvent, ConstantFacts DEF HandleDelete, Pops, Watchable
    <3> QED
      BY <1>1, <2>1, <2>2, <3>1 DEF HandleDelete, EntryTypes
  <2>3. CASE HandleMoveSelf
    <3>1. Path \in Paths
      BY <1>1, <2>3, HeadEvent, ConstantFacts DEF HandleMoveSelf, Pops
    <3>2. fdMap[Path] # None =>
             [fdMap[Path] EXCEPT !.moveProtected = TRUE].good = fdMap[Path].good
      BY <1>1, <3>1, ItemTypes, ItemFields
    <3>3. \/ fdMap' = fdMap
          \/ /\ fdMap[Path] # None
             /\ fdMap' = [fdMap EXCEPT ![Path] = [fdMap[Path] EXCEPT !.moveProtected = TRUE]]
      BY <2>3 DEF HandleMoveSelf
    <3> QED
      BY <1>1, <2>1, <3>1, <3>2, <3>3 DEF EntryTypes
  <2>4. CASE HandleMoveTo
    <3>1. Path \in Paths /\ Alias \in Paths
      BY <1>1, <2>4, HeadEvent, ConstantFacts DEF HandleMoveTo, Pops
    <3>2. \A p \in Paths : fdMap'[p] \in {fdMap[p], fdMap[Alias], None}
      BY <1>1, <2>4, <3>1 DEF HandleMoveTo, EntryTypes
    <3> QED
      BY <2>1, <3>1, <3>2
  <2>5. CASE ReadGivesUp
    <3>1. PICK idle \in SUBSET Closable : fdMap' = AfterGc(idle)
      BY <2>5 DEF ReadGivesUp
    <3> QED
      BY <1>1, <2>1, <3>1, GcType
  <2>6. CASE ReadOpens
    <3> DEFINE key == Key(Path)
    <3>1. PICK idle \in SUBSET Closable, item \in FdItems : OpensAs(key, idle, item)
      BY <1>1, <2>6, Opened
    <3>2. key \in Paths
      BY <1>1, <2>6, Opened
    <3>3. fdMap' = [AfterGc(idle) EXCEPT ![key] = WithStream(item, StreamOf(item, key))]
      BY <3>1 DEF OpensAs
    <3>4. WithStream(item, StreamOf(item, key)).good
      BY <1>1, <3>2, StreamType, ItemFields
    <3>5. /\ AfterGc(idle) \in [Paths -> FdItems \cup {None}]
          /\ \A p \in Paths : AfterGc(idle)[p] # None => AfterGc(idle)[p].good
      BY <1>1, <2>1, GcType
    <3> QED
      BY <3>2, <3>3, <3>4, <3>5
  <2>7. CASE SetFileOffset
    <3>1. cur.path \in Paths /\ fdMap' = Advanced(cur.path)
      BY <2>7, ConstantFacts DEF SetFileOffset, TypeInv, ReadsAStream, Reading, Watchable
    <3> QED
      BY <1>1, <2>1, <3>1, AdvancedType
  <2>8. CASE HandleStop \/ SendLine \/ RefusedLine \/ ReadEnds
    BY <2>1, <2>8 DEF HandleStop, SendLine, RefusedLine, ReadEnds
  <2> QED
    BY <2>2, <2>3, <2>4, <2>5, <2>6, <2>7, <2>8 DEF EventThread
<1> QED
  BY <1>2, <1>3, <1>4 DEF StreamsFit

LEMMA StreamsFitStep ==
    ASSUME IsBinary = FALSE, TypeInv, StreamsFit, Next
    PROVE  StreamsFit'
<1> USE DEF files, watcher, reader, saving, history, budgets
<1>1. CASE Environment \/ WatcherThread
  <2>1. UNCHANGED <<main, fdMap, aliases>>
    BY <1>1 DEF Environment, CreateFile, AppendLine, RemoveFile, RenameFile, WaitOver,
       WatcherThread, CreateWatcher, ParseEvent
  <2> QED
    BY <2>1 DEF StreamsFit, OpenPaths, Up
<1>2. CASE EventThread
  BY <1>2, StreamsFitEvents
<1>3. CASE Boot
  <2>1. PICK junk \in [Paths -> Junk] : fdMap' = LoadOffsets(junk)
    BY <1>3 DEF Boot
  <2>2. \A p \in Paths : fdMap'[p] # None => fdMap'[p].good
    BY <2>1, LoadType, TypeParts DEF TypeInv
  <2> QED
    BY <1>3, <2>2 DEF Boot, StreamsFit, Up
<1>4. CASE SaveWrite \/ SaveBackup \/ Stop \/ (SaveReplace /\ ~stopping)
  <2>1. UNCHANGED <<fdMap, aliases>> /\ Up'
    BY <1>4 DEF SaveWrite, SaveBackup, SaveReplace, Stop, Up
  <2> QED
    BY <2>1 DEF StreamsFit
<1>5. CASE Crash \/ (SaveReplace /\ stopping)
  <2>1. \A p \in Paths : fdMap'[p] = None /\ aliases'[p] = None
    BY <1>5 DEF Crash, SaveReplace, Ends, Empty
  <2> QED
    BY <2>1 DEF StreamsFit, OpenPaths
<1> QED
  BY <1>1, <1>2, <1>3, <1>4, <1>5 DEF Next, Save

LEMMA KeepsOpen ==
    ASSUME IsBinary = FALSE, TypeInv, StreamsFit, ~Full, Next, Up', ~HandleDelete,
           NEW f \in FilePaths \cap OpenPaths, moveTime[f] = "recent"
    PROVE  fdMap'[f].stream = fdMap[f].stream
<1> USE DEF files, watcher, reader, saving, history, budgets
<1>1. Up
  BY DEF StreamsFit
<1>2. CASE EventThread
  BY <1>2, StreamStays
<1>3. CASE Environment \/ WatcherThread
  BY <1>3 DEF Environment, CreateFile, AppendLine, RemoveFile, RenameFile, WaitOver,
     WatcherThread, CreateWatcher, ParseEvent
<1>4. CASE Boot \/ Save \/ Stop \/ Crash
  BY <1>1, <1>4 DEF Boot, Save, SaveWrite, SaveBackup, SaveReplace, Stop, Crash, Ends, Up
<1> QED
  BY <1>2, <1>3, <1>4 DEF Next

(***************************************************************************)
(* openStream keeps a good stream: a file that is moved away is read to    *)
(* the end of its time_wait period, in every life of the process and       *)
(* however often its name is given to another file meanwhile.              *)
(***************************************************************************)
THEOREM MovedFilesStayOpen ==
    ASSUME IsBinary = FALSE
    PROVE  Spec /\ []~Full => MovedStaysOpen
<1>1. Init => StreamsFit
  <2>1. Empty \in [Paths -> {None}]
    BY DEF Empty
  <2> QED
    BY <2>1 DEF Init, StreamsFit, OpenPaths
<1>2. TypeInv /\ StreamsFit /\ [Next]_vars => StreamsFit'
  <2>1. ASSUME StreamsFit, UNCHANGED vars PROVE StreamsFit'
    BY <2>1 DEF StreamsFit, vars, reader, OpenPaths, Up
  <2> QED
    BY <2>1, StreamsFitStep
<1>3. TypeInv /\ StreamsFit /\ ~Full /\ [Next]_vars =>
      [\A f \in FilePaths \cap OpenPaths :
         moveTime[f] = "recent" /\ fdMap[f].stream # dir[f] /\ Up' /\ ~HandleDelete
         => fdMap'[f].stream = fdMap[f].stream]_vars
  BY KeepsOpen
<1> QED
  BY <1>1, <1>2, <1>3, TypesHold, PTL DEF Spec, MovedStaysOpen
=============================================================================
