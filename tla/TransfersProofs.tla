-------------------------- MODULE TransfersProofs --------------------------
(***************************************************************************)
(* Theorems about Transfers, for every tree of directories, every          *)
(* aidt.yml and every limit of the kernel: its types, that no event is     *)
(* parsed under the name of another directory, and that no configured      *)
(* transfer is forgotten on its way to inotify.                            *)
(***************************************************************************)
EXTENDS Transfers, TLAPS, SequenceTheorems, FunctionTheorems, FiniteSetTheorems

(***************************************************************************)
(* Sequences that list a set, and numbers for its elements.                *)
(***************************************************************************)

(* What SetToSeqs returns are sequences over the set, which all of its     *)
(* elements are in.                                                        *)
LEMMA ListsOfASet ==
    ASSUME NEW S, IsFiniteSet(S), NEW q \in SetToSeqs(S)
    PROVE  /\ q \in Seq(S) /\ Len(q) = Cardinality(S) /\ Range(q) = S
           /\ q = <<>> <=> S = {}
<1> DEFINE D == 1..Cardinality(S)
<1>1. Cardinality(S) \in Nat
  BY FS_CardinalityType
<1>2. q \in [D -> S] /\ \A i, j \in D : i # j => q[i] # q[j]
  BY DEF SetToSeqs
<1>3. q \in Seq(S) /\ Len(q) = Cardinality(S)
  BY <1>1, <1>2
<1>4. q \in Injection(D, S)
  BY <1>2, Fun_IsInj
<1>5. Cardinality(D) = Cardinality(S)
  BY <1>1, FS_Interval
<1>6. q \in Surjection(D, S)
  BY <1>4, <1>5, FS_Injection
<1>7. Range(q) = S
  BY <1>2, <1>6, Fun_SurjectionProperties
<1>8. S = {} <=> Cardinality(S) = 0
  BY FS_EmptySet
<1> QED
  BY <1>1, <1>3, <1>7, <1>8, EmptySeq

(* The numbers of a finite set of directories are different and within     *)
(* its size.                                                               *)
LEMMA NumbersDiffer ==
    ASSUME NEW S, IsFiniteSet(S)
    PROVE  /\ Cardinality(S) \in Nat
           /\ Numbers(S) \in [S -> 1..Cardinality(S)]
           /\ \A a, b \in S : Numbers(S)[a] = Numbers(S)[b] => a = b
<1>1. Cardinality(S) \in Nat /\ ExistsBijection(1..Cardinality(S), S)
  BY FS_CardinalityType
<1>2. PICK f \in Bijection(1..Cardinality(S), S) : TRUE
  BY <1>1 DEF ExistsBijection
<1>3. Inverse(f, 1..Cardinality(S), S) \in Bijection(S, 1..Cardinality(S))
  BY <1>2, Fun_BijInverse
<1>4. Numbers(S) \in Injection(S, 1..Cardinality(S))
  BY <1>3, Fun_BijectionProperties DEF Numbers
<1> QED
  BY <1>1, <1>4, Fun_InjectionProperties

-----------------------------------------------------------------------------
(***************************************************************************)
(* The inductive invariant.                                                *)
(***************************************************************************)

(* What is configured fits what is at its path.                            *)
Fits(choice) ==
    \A t \in Transfers :
        /\ choice[t] = "file" => t \in Files
        /\ choice[t] \in {"dir", "recursive"} => t \in Dirs

(* The locals of createWatcher belong to one path from consumerConfig, or  *)
(* from the event of a new directory, to the scan.                         *)
JobFits ==
    /\ Fits(fileMap)
    /\ at \in {"lookup", "create", "walk"} => job.path \in Paths
    /\ at \in {"config", "next", "parse", "find"} => job.path = None
    /\ at = "lookup" => job.path \in Transfers
    /\ at \in {"create", "walk"} => job.kind # None
    /\ job.kind = "file" => job.path \in Files
    /\ job.kind \in {"dir", "recursive"} => job.path \in Dirs

(* An event is an overflow, or has a path.                                 *)
EventFits ==
    at \in {"parse", "find"} =>
        \/ event.wd = Overflow /\ at = "parse"
        \/ event.path \in Paths /\ event.mask \in {"CREATE", "DELETE", "MODIFY"}

(* Two directories that exist have two numbers, a watch of the kernel has  *)
(* a name in tree_wd, and the name of a directory that exists is its own.  *)
NumbersFit ==
    /\ \A d, e \in Dirs : dirs[d] = dirs[e] /\ dirs[d] # 0 => d = e
    /\ watching \subseteq DOMAIN byWd
    /\ \A d \in Dirs : dirs[d] \in DOMAIN byWd => byWd[dirs[d]] = d

(* While the handler goes through the new transfers it holds the mutex, so *)
(* the one it has queued cannot have been looked up.                       *)
HandlerFits ==
    /\ main \in {"push", "assign"} => left # <<>>
    /\ main = "assign" =>
          \/ Head(left) \in Range(cfgQueue)
          \/ at = "lookup" /\ job.path = Head(left)

(* The directory a transfer watches, whatever its kind.                    *)
HomeOf(t) == IF t \in Files THEN Parent[t] ELSE t

(* The walk ends with the directory of the transfer.                       *)
WalkFits ==
    at = "walk" =>
        /\ todo # <<>> =>
              \/ todo[Len(todo)] = <<"add", HomeOf(job.path)>>
              \/ todo[Len(todo)] = <<"visit", job.path>> /\ job.path \in Dirs
        /\ todo = <<>> /\ job.path \in Transfers =>
              Watched(HomeOf(job.path)) \/ job.path \in logged

NameInv == TypeOK /\ JobFits /\ EventFits /\ NumbersFit /\ EventsAreNamed

-----------------------------------------------------------------------------
(***************************************************************************)
(* The kernel's queue.                                                     *)
(***************************************************************************)

Named(e) == e.wd # Overflow => e.wd \in DOMAIN byWd /\ byWd[e.wd] = Parent[e.path]

LEMMA ConstantFacts ==
    /\ Overflow \notin Nat /\ None \notin Paths /\ None \notin Transfers /\ Root \notin Paths
    /\ Dirs \subseteq Paths /\ Files \subseteq Paths /\ Paths = Dirs \union Files
    /\ Dirs \intersect Files = {} /\ Transfers \subseteq Paths
    /\ IsFiniteSet(Paths) /\ IsFiniteSet(Dirs) /\ IsFiniteSet(Files) /\ IsFiniteSet(Transfers)
    /\ \A p \in Paths : Parent[p] \in Dirs \union {Root}
<1>1. IsFiniteSet(Paths) /\ Dirs \subseteq Paths /\ Files \subseteq Paths /\ Transfers \subseteq Paths
  BY TreeOfPaths DEF Paths
<1>2. IsFiniteSet(Dirs) /\ IsFiniteSet(Files) /\ IsFiniteSet(Transfers)
  BY <1>1, FS_Subset
<1> QED
  BY <1>1, <1>2, TreeOfPaths DEF Paths, Overflow

(* A full queue gets the event of the overflow in place of the new one.    *)
LEMMA QueuedType ==
    ASSUME NEW q \in Seq(KernelEvents), NEW e \in KernelEvents
    PROVE  /\ Queued(q, e) \in Seq(KernelEvents)
           /\ Range(Queued(q, e)) \subseteq Range(q) \union {e, Lost}
<1>1. Lost \in KernelEvents
  BY DEF KernelEvents
<1>2. ASSUME NEW x \in KernelEvents
      PROVE  Append(q, x) \in Seq(KernelEvents) /\ Range(Append(q, x)) \subseteq Range(q) \union {x}
  BY AppendProperties DEF Range
<1> QED
  BY <1>1, <1>2 DEF Queued

(* What Report queues has the number of the directory of its path, which   *)
(* is in tree_wd under its name.                                           *)
LEMMA ReportNamed ==
    ASSUME TypeOK, NumbersFit, NEW q \in Seq(KernelEvents), \A e \in Range(q) : Named(e),
           NEW mask \in {"CREATE", "DELETE", "MODIFY"}, NEW p \in Paths
    PROVE  /\ Report(q, mask, p) \in Seq(KernelEvents)
           /\ \A e \in Range(Report(q, mask, p)) : Named(e)
<1>1. CASE ~Watched(Parent[p])
  BY <1>1 DEF Report
<1>2. CASE Watched(Parent[p])
  <2> DEFINE e == [wd |-> dirs[Parent[p]], path |-> p, mask |-> mask]
  <2>1. dirs[Parent[p]] \in DOMAIN byWd /\ byWd[dirs[Parent[p]]] = Parent[p]
    BY <1>2 DEF Watched, NumbersFit
  <2>2. e \in KernelEvents
    <3>1. dirs[Parent[p]] \in Nat
      <4>1. dirs \in [Dirs -> 0..made] /\ made \in Nat
        BY DEF TypeOK, DiskTypes
      <4>2. Parent[p] \in Dirs
        BY <1>2 DEF Watched
      <4> QED
        BY <4>1, <4>2
    <3> QED
      BY <3>1 DEF KernelEvents
  <2>3. Named(e) /\ Named(Lost)
    BY <2>1 DEF Named, Lost
  <2> HIDE DEF e
  <2>4. Report(q, mask, p) = Queued(q, e)
    BY <1>2 DEF Report, e
  <2>5. /\ Queued(q, e) \in Seq(KernelEvents)
        /\ Range(Queued(q, e)) \subseteq Range(q) \union {e, Lost}
    BY <2>2, QueuedType
  <2> QED
    BY <2>3, <2>4, <2>5
<1> QED
  BY <1>1, <1>2

(* The same, when the queue is the kernel's.                               *)
LEMMA QueueNamed ==
    ASSUME NameInv, NEW mask \in {"CREATE", "DELETE", "MODIFY"}, NEW p \in Paths
    PROVE  /\ Report(kqueue, mask, p) \in Seq(KernelEvents)
           /\ \A e \in Range(Report(kqueue, mask, p)) : Named(e)
<1>1. TypeOK /\ NumbersFit /\ kqueue \in Seq(KernelEvents)
  BY DEF NameInv, TypeOK, WatchTypes
<1>2. \A e \in Range(kqueue) : Named(e)
  BY DEF NameInv, EventsAreNamed, Named
<1> QED
  BY <1>1, <1>2, ReportNamed

-----------------------------------------------------------------------------
(***************************************************************************)
(* The programs that write under the watched directories.                  *)
(***************************************************************************)

(* What these programs do is not seen by the threads before the kernel     *)
(* reports it.                                                             *)
LEMMA ThreadsUntouched ==
    ASSUME NameInv, UNCHANGED <<config, watcher, handler, gauging, alive, eventQueue>>,
           yml' \in YmlChoices \union {Broken}
    PROVE  ConfigTypes' /\ ThreadTypes' /\ JobFits' /\ EventFits'
<1>1. ConfigTypes'
  BY DEF NameInv, TypeOK, ConfigTypes, config, handler
<1>2. ThreadTypes'
  BY DEF NameInv, TypeOK, ThreadTypes, watcher
<1> QED
  BY <1>1, <1>2 DEF NameInv, JobFits, Fits, EventFits, config, watcher

LEMMA YmlType ==
    ASSUME NameInv PROVE yml \in YmlChoices \union {Broken}
  BY DEF NameInv, TypeOK, ConfigTypes

(* A new queue of named events, with the watches as they were.             *)
LEMMA QueueGrows ==
    ASSUME NameInv, UNCHANGED <<watching, byWd, byName, batch, at, event>>, made' \in Nat, made' >= made,
           kqueue' \in Seq(KernelEvents), \A e \in Range(kqueue') : Named(e)
    PROVE  WatchTypes' /\ EventsAreNamed'
<1>1. made \in Nat /\ 1..made \subseteq 1..made'
  BY DEF NameInv, TypeOK, DiskTypes
<1> QED
  BY <1>1 DEF NameInv, TypeOK, WatchTypes, EventsAreNamed, Named

LEMMA WriteKeeps ==
    ASSUME NameInv, NEW f \in Files, Write(f)
    PROVE  NameInv'
<1>1. f \in Paths
  BY ConstantFacts
<1>2. kqueue' \in Seq(KernelEvents) /\ \A e \in Range(kqueue') : Named(e)
  <2> DEFINE q == IF f \in files THEN kqueue ELSE Report(kqueue, "CREATE", f)
  <2>1. q \in Seq(KernelEvents) /\ \A e \in Range(q) : Named(e)
    BY <1>1, QueueNamed DEF NameInv, TypeOK, WatchTypes, EventsAreNamed, Named
  <2>2. kqueue' = Report(q, "MODIFY", f)
    BY DEF Write
  <2> HIDE DEF q
  <2> QED
    BY <1>1, <2>1, <2>2, ReportNamed DEF NameInv
<1>3. DiskTypes'
  BY DEF NameInv, TypeOK, DiskTypes, Write
<1>4. WatchTypes' /\ EventsAreNamed'
  <2>1. made' \in Nat /\ made' >= made
    BY DEF NameInv, TypeOK, DiskTypes, Write
  <2> QED
    BY <1>2, <2>1, QueueGrows DEF Write, inotify, watcher
<1>5. ConfigTypes' /\ ThreadTypes' /\ JobFits' /\ EventFits'
  BY YmlType, ThreadsUntouched DEF Write
<1>6. NumbersFit'
  BY DEF NameInv, NumbersFit, Write, inotify
<1> QED
  BY <1>3, <1>4, <1>5, <1>6 DEF NameInv, TypeOK

LEMMA RemoveFileKeeps ==
    ASSUME NameInv, NEW f \in Files, RemoveFile(f)
    PROVE  NameInv'
<1>1. f \in Paths
  BY ConstantFacts
<1>2. kqueue' \in Seq(KernelEvents) /\ \A e \in Range(kqueue') : Named(e)
  BY <1>1, QueueNamed DEF RemoveFile
<1>3. DiskTypes'
  BY DEF NameInv, TypeOK, DiskTypes, RemoveFile
<1>4. WatchTypes' /\ EventsAreNamed'
  <2>1. made' \in Nat /\ made' >= made
    BY DEF NameInv, TypeOK, DiskTypes, RemoveFile
  <2> QED
    BY <1>2, <2>1, QueueGrows DEF RemoveFile, inotify, watcher
<1>5. ConfigTypes' /\ ThreadTypes' /\ JobFits' /\ EventFits'
  BY YmlType, ThreadsUntouched DEF RemoveFile
<1>6. NumbersFit'
  BY DEF NameInv, NumbersFit, RemoveFile, inotify
<1> QED
  BY <1>3, <1>4, <1>5, <1>6 DEF NameInv, TypeOK

(* A new directory has a number no watch was ever made for.                *)
LEMMA MakeDirKeeps ==
    ASSUME NameInv, NEW d \in Dirs, MakeDir(d)
    PROVE  NameInv'
<1>1. d \in Paths
  BY ConstantFacts
<1>2. kqueue' \in Seq(KernelEvents) /\ \A e \in Range(kqueue') : Named(e)
  BY <1>1, QueueNamed DEF MakeDir
<1>3. made \in Nat /\ made' = made + 1 /\ dirs \in [Dirs -> 0..made]
      /\ dirs' = [dirs EXCEPT ![d] = made + 1]
  BY DEF NameInv, TypeOK, DiskTypes, MakeDir
<1>4. DiskTypes'
  <2>1. dirs' \in [Dirs -> 0..made'] /\ made' \in Nat
    BY <1>3
  <2> QED
    BY <1>1, <2>1 DEF NameInv, TypeOK, DiskTypes, MakeDir
<1>5. WatchTypes' /\ EventsAreNamed'
  <2>1. made' \in Nat /\ made' >= made
    BY <1>3
  <2> QED
    BY <1>2, <2>1, QueueGrows DEF MakeDir, inotify, watcher
<1>6. ConfigTypes' /\ ThreadTypes' /\ JobFits' /\ EventFits'
  BY YmlType, ThreadsUntouched DEF MakeDir
<1>7. NumbersFit'
  <2>1. DOMAIN byWd \subseteq 1..made /\ byWd' = byWd /\ watching' = watching
    BY DEF NameInv, TypeOK, WatchTypes, MakeDir, inotify
  <2>2. dirs'[d] = made + 1 /\ \A e \in Dirs : e # d => dirs'[e] = dirs[e] /\ dirs[e] \in 0..made
    BY <1>3
  <2> QED
    BY <1>3, <2>1, <2>2 DEF NameInv, NumbersFit
<1> QED
  BY <1>4, <1>5, <1>6, <1>7 DEF NameInv, TypeOK

(* The name of a directory that is removed stays in tree_wd.               *)
LEMMA RemoveDirKeeps ==
    ASSUME NameInv, NEW d \in Dirs, RemoveDir(d)
    PROVE  NameInv'
<1>1. d \in Paths
  BY ConstantFacts
<1>2. kqueue' \in Seq(KernelEvents) /\ \A e \in Range(kqueue') : Named(e)
  BY <1>1, QueueNamed DEF RemoveDir
<1>3. made \in Nat /\ made' = made /\ dirs \in [Dirs -> 0..made]
      /\ dirs' = [dirs EXCEPT ![d] = 0]
  BY DEF NameInv, TypeOK, DiskTypes, RemoveDir
<1>4. DiskTypes'
  <2>1. dirs' \in [Dirs -> 0..made'] /\ made' \in Nat
    BY <1>3
  <2> QED
    BY <2>1 DEF NameInv, TypeOK, DiskTypes, RemoveDir
<1>5. WatchTypes' /\ EventsAreNamed'
  BY <1>2, <1>3 DEF NameInv, TypeOK, WatchTypes, EventsAreNamed, Named, RemoveDir, watcher
<1>6. ConfigTypes' /\ ThreadTypes' /\ JobFits' /\ EventFits'
  BY YmlType, ThreadsUntouched DEF RemoveDir
<1>7. NumbersFit'
  <2>1. DOMAIN byWd \subseteq 1..made /\ byWd' = byWd /\ watching' \subseteq watching
    BY DEF NameInv, TypeOK, WatchTypes, RemoveDir
  <2>2. dirs'[d] = 0 /\ \A e \in Dirs : e # d => dirs'[e] = dirs[e]
    BY <1>3
  <2> QED
    BY <1>3, <2>1, <2>2 DEF NameInv, NumbersFit
<1> QED
  BY <1>4, <1>5, <1>6, <1>7 DEF NameInv, TypeOK

LEMMA EditYmlKeeps ==
    ASSUME NameInv, EditYml
    PROVE  NameInv'
<1>1. ConfigTypes' /\ ThreadTypes' /\ JobFits' /\ EventFits'
  BY ThreadsUntouched DEF EditYml
<1>2. DiskTypes' /\ WatchTypes'
  BY DEF NameInv, TypeOK, DiskTypes, WatchTypes, EditYml, disk, inotify, watcher, history
<1>3. NumbersFit' /\ EventsAreNamed'
  BY DEF NameInv, NumbersFit, EventsAreNamed, EditYml, disk, inotify, watcher
<1> QED
  BY <1>1, <1>2, <1>3 DEF NameInv, TypeOK

-----------------------------------------------------------------------------
(***************************************************************************)
(* The main thread.                                                        *)
(***************************************************************************)

(* The order an unordered map is walked in has every transfer of it.       *)
LEMMA OrdersList ==
    ASSUME NEW choice \in Choice, NEW q \in Orders(choice)
    PROVE  /\ q \in Seq(Transfers) /\ Range(q) = Keys(choice)
           /\ q = <<>> <=> Keys(choice) = {}
<1>1. Keys(choice) \subseteq Transfers /\ IsFiniteSet(Keys(choice))
  BY ConstantFacts, FS_Subset DEF Keys
<1>2. q \in Seq(Keys(choice)) /\ Range(q) = Keys(choice) /\ (q = <<>> <=> Keys(choice) = {})
  BY <1>1, ListsOfASet DEF Orders
<1> QED
  BY <1>1, <1>2, SeqMonotonic

LEMMA YmlFits ==
    ASSUME NEW y \in YmlChoices
    PROVE  y \in Choice /\ Fits(y)
  BY TreeOfPaths, KindsFit DEF Choice, Fits

LEMMA WatcherUntouched ==
    ASSUME NameInv, UNCHANGED others, ConfigTypes', Fits(fileMap)'
    PROVE  NameInv'
<1>1. DiskTypes' /\ WatchTypes'
  BY DEF NameInv, TypeOK, DiskTypes, WatchTypes, others, disk, inotify, watcher, history
<1>2. ThreadTypes'
  BY DEF NameInv, TypeOK, ThreadTypes, others, watcher
<1>3. JobFits' /\ EventFits'
  BY DEF NameInv, JobFits, EventFits, others, watcher
<1>4. NumbersFit' /\ EventsAreNamed'
  BY DEF NameInv, NumbersFit, EventsAreNamed, others, disk, inotify, watcher
<1> QED
  BY <1>1, <1>2, <1>3, <1>4 DEF NameInv, TypeOK

LEMMA SignalKeeps ==
    ASSUME NameInv, Gauge \/ GaugeDone \/ Reload \/ check \/ paser
    PROVE  NameInv'
<1>1. CASE Gauge \/ GaugeDone
  <2>1. ConfigTypes'
    BY <1>1 DEF NameInv, TypeOK, ConfigTypes, Gauge, GaugeDone, handler, config, others
  <2> QED
    BY <1>1, <2>1, WatcherUntouched DEF NameInv, JobFits, Fits, Gauge, GaugeDone, config
<1>2. CASE Reload
  <2>1. ConfigTypes'
    BY <1>2 DEF NameInv, TypeOK, ConfigTypes, Reload, config, others
  <2> QED
    BY <1>2, <2>1, WatcherUntouched DEF NameInv, JobFits, Fits, Reload, config
<1>3. CASE check \/ paser
  <2>1. UNCHANGED <<others, left, config, gauging>>
    BY <1>3 DEF check, paser, Load
  <2>2. alive' \in BOOLEAN /\ main' \in {main, "parse", "lock"}
    BY <1>3 DEF check, paser, Load, NameInv, TypeOK, ConfigTypes
  <2>3. infos' \in YmlChoices
    BY <1>3 DEF check, paser, Load, NameInv, TypeOK, ConfigTypes
  <2>4. ConfigTypes'
    BY <2>1, <2>2, <2>3 DEF NameInv, TypeOK, ConfigTypes, config, others
  <2> QED
    BY <2>1, <2>4, WatcherUntouched DEF NameInv, JobFits, Fits, config
<1> QED
  BY <1>1, <1>2, <1>3

LEMMA UpdateKeeps ==
    ASSUME NameInv, HandlerFits, UpdateBegin \/ UpdatePush \/ UpdateAssign
    PROVE  NameInv'
<1>1. /\ fileMap \in Choice /\ Fits(fileMap) /\ infos \in Choice /\ Fits(infos)
      /\ infos \in YmlChoices /\ cfgQueue \in Seq(Transfers) /\ left \in Seq(Transfers)
  BY YmlFits DEF NameInv, TypeOK, ConfigTypes, JobFits
<1>2. CASE UpdateBegin
  <2>1. fileMap' \in Choice /\ Fits(fileMap)'
    BY <1>1, <1>2 DEF UpdateBegin, Choice, Fits
  <2>2. left' \in Seq(Transfers)
    BY <1>1, <1>2, OrdersList DEF UpdateBegin
  <2>3. ConfigTypes'
    BY <1>2, <2>1, <2>2 DEF NameInv, TypeOK, ConfigTypes, UpdateBegin, others
  <2> QED
    BY <1>2, <2>1, <2>3, WatcherUntouched DEF UpdateBegin
<1>3. CASE UpdatePush
  <2>1. Head(left) \in Transfers
    BY <1>1, <1>3 DEF HandlerFits, UpdatePush
  <2>2. cfgQueue' \in Seq(Transfers)
    BY <1>1, <1>3, <2>1 DEF UpdatePush
  <2>3. ConfigTypes'
    BY <1>3, <2>2 DEF NameInv, TypeOK, ConfigTypes, UpdatePush, others
  <2> QED
    BY <1>3, <2>3, WatcherUntouched DEF UpdatePush, NameInv, JobFits, Fits
<1>4. CASE UpdateAssign
  <2>1. Head(left) \in Transfers /\ left' \in Seq(Transfers)
    BY <1>1, <1>4 DEF HandlerFits, UpdateAssign
  <2>2. fileMap' \in Choice /\ Fits(fileMap)'
    BY <1>1, <1>4, <2>1 DEF UpdateAssign, Choice, Fits
  <2>3. ConfigTypes'
    BY <1>4, <2>1, <2>2 DEF NameInv, TypeOK, ConfigTypes, UpdateAssign, others
  <2> QED
    BY <1>4, <2>2, <2>3, WatcherUntouched DEF UpdateAssign
<1> QED
  BY <1>2, <1>3, <1>4

-----------------------------------------------------------------------------
(***************************************************************************)
(* The watcher thread.                                                     *)
(***************************************************************************)

LEMMA DiskUntouched ==
    ASSUME NameInv, at' # "parse", slipped' = slipped \/ slipped' \subseteq Paths,
           UNCHANGED <<files, unread, seen, dirs, made, inotify, kqueue, batch>>
    PROVE  DiskTypes' /\ WatchTypes' /\ NumbersFit' /\ EventsAreNamed'
<1>1. DiskTypes' /\ WatchTypes'
  BY DEF NameInv, TypeOK, DiskTypes, WatchTypes, inotify
<1> QED
  BY <1>1 DEF NameInv, NumbersFit, EventsAreNamed, inotify

LEMMA HandlerUntouched ==
    ASSUME NameInv, UNCHANGED <<yml, handler, gauging, fileMap>>, alive' \in BOOLEAN,
           cfgQueue' \in Seq(Transfers)
    PROVE  ConfigTypes' /\ Fits(fileMap)'
  BY DEF NameInv, TypeOK, ConfigTypes, JobFits, Fits, handler

LEMMA ConfigIsTyped ==
    ASSUME NameInv
    PROVE  /\ alive \in BOOLEAN /\ cfgQueue \in Seq(Transfers) /\ fileMap \in Choice
           /\ Fits(fileMap)
  BY DEF NameInv, TypeOK, ConfigTypes, JobFits

LEMMA ConsumeKeeps ==
    ASSUME NameInv, ConsumePop \/ ConsumeLookup
    PROVE  NameInv'
<1>1. DiskTypes' /\ WatchTypes' /\ NumbersFit' /\ EventsAreNamed'
  BY DiskUntouched DEF ConsumePop, ConsumeLookup, Goto, keepFs
<1>2. CASE ConsumePop
  <2>1. cfgQueue' \in Seq(Transfers)
    BY <1>2, ConfigIsTyped DEF ConsumePop
  <2>2. ConfigTypes' /\ Fits(fileMap)'
    BY <1>2, <2>1, ConfigIsTyped, HandlerUntouched DEF ConsumePop, keepFs
  <2>3. CASE cfgQueue = <<>>
    <3>1. at' = "next" /\ job' = job /\ at = "config"
      BY <1>2, <2>3 DEF ConsumePop, Goto
    <3>2. ThreadTypes'
      BY <1>2, <3>1 DEF NameInv, TypeOK, ThreadTypes, ConsumePop, keepFs
    <3> QED
      BY <1>1, <2>2, <3>1, <3>2 DEF NameInv, TypeOK, JobFits, EventFits
  <2>4. CASE cfgQueue # <<>>
    <3>1. at' = "lookup" /\ job' = [NoJob EXCEPT !.path = Head(cfgQueue)] /\ Head(cfgQueue) \in Transfers
      BY <1>2, <2>4, ConfigIsTyped DEF ConsumePop, Goto
    <3>2. job' = [path |-> Head(cfgQueue), kind |-> None, back |-> "next"]
      BY <3>1 DEF NoJob
    <3>3. job'.path \in Transfers /\ job'.path \in Paths /\ job'.kind = None
          /\ job' \in [path : Paths \union {None}, kind : Kinds \union {None}, back : {"next", "config"}]
      <4>1. Head(cfgQueue) \in Paths /\ Head(cfgQueue) \in Transfers
        BY <3>1, ConstantFacts
      <4> QED
        BY <3>2, <4>1
    <3>4. ThreadTypes'
      BY <1>2, <3>1, <3>3 DEF NameInv, TypeOK, ThreadTypes, ConsumePop, keepFs
    <3>5. None \notin Kinds
      BY TreeOfPaths DEF Kinds
    <3> QED
      BY <1>1, <2>2, <3>1, <3>3, <3>4, <3>5 DEF NameInv, TypeOK, JobFits, EventFits, Kinds
  <2> QED
    BY <2>3, <2>4
<1>3. CASE ConsumeLookup
  <2>1. ConfigTypes' /\ Fits(fileMap)'
    BY <1>3, ConfigIsTyped, HandlerUntouched DEF ConsumeLookup, keepFs
  <2>2. CASE Found(job.path)
    <3>1. at' = "create" /\ job' = [job EXCEPT !.kind = fileMap[job.path]] /\ job.path \in Transfers
      BY <1>3, <2>2 DEF ConsumeLookup, Goto, NameInv, JobFits
    <3>2. fileMap[job.path] \in Kinds /\ fileMap[job.path] # None
      BY <2>2, <3>1, ConfigIsTyped DEF Found, Choice
    <3>3. job \in [path : Paths \union {None}, kind : Kinds \union {None}, back : {"next", "config"}]
      BY DEF NameInv, TypeOK, ThreadTypes
    <3>4. job'.path = job.path /\ job'.kind = fileMap[job.path]
          /\ job' \in [path : Paths \union {None}, kind : Kinds \union {None}, back : {"next", "config"}]
      BY <3>1, <3>2, <3>3
    <3>5. ThreadTypes'
      BY <1>3, <3>1, <3>4 DEF NameInv, TypeOK, ThreadTypes, ConsumeLookup, keepFs
    <3>6. JobFits'
      BY <2>1, <3>1, <3>2, <3>4, ConfigIsTyped, ConstantFacts DEF JobFits, Fits
    <3> QED
      BY <1>1, <2>1, <3>1, <3>5, <3>6 DEF NameInv, TypeOK, EventFits
  <2>3. CASE ~Found(job.path)
    <3>1. at' = "next" /\ job' = NoJob
      BY <1>3, <2>3 DEF ConsumeLookup, Goto
    <3>2. ThreadTypes'
      BY <1>3, <3>1 DEF NameInv, TypeOK, ThreadTypes, ConsumeLookup, keepFs, NoJob
    <3>3. JobFits'
      BY <2>1, <3>1, TreeOfPaths DEF JobFits, NoJob, Fits, Kinds
    <3> QED
      BY <1>1, <2>1, <3>1, <3>2, <3>3 DEF NameInv, TypeOK, EventFits
  <2> QED
    BY <2>2, <2>3
<1> QED
  BY <1>2, <1>3

(* The directories mkdirRecursive makes have numbers of their own.         *)
LEMMA MkdirKeeps ==
    ASSUME NameInv, NEW d \in Dirs, mkdirRecursive(d), at' # "parse",
           UNCHANGED <<files, unread, seen, slipped, inotify, batch>>
    PROVE  DiskTypes' /\ WatchTypes' /\ NumbersFit' /\ EventsAreNamed'
<1> DEFINE new   == Missing(d)
           noted == {e \in new : Watched(Parent[e])}
           n     == Numbers(new)
           size  == Cardinality(new)
<1>1. new \subseteq Dirs /\ \A e \in new : dirs[e] = 0
  BY DEF Missing, Exists
<1>2. /\ size \in Nat /\ n \in [new -> 1..size]
      /\ \A a, b \in new : n[a] = n[b] => a = b
  <2>1. IsFiniteSet(new)
    BY <1>1, ConstantFacts, FS_Subset
  <2> QED
    BY <2>1, NumbersDiffer
<1>3. /\ dirs' = [e \in Dirs |-> IF e \in new THEN made + n[e] ELSE dirs[e]]
      /\ made' = made + size
      /\ kqueue' = IF noted = {} THEN kqueue ELSE Report(kqueue, "CREATE", CHOOSE e \in noted : TRUE)
  BY DEF mkdirRecursive
<1>4. dirs \in [Dirs -> 0..made] /\ made \in Nat
  BY DEF NameInv, TypeOK, DiskTypes
<1> HIDE DEF new, n, size
<1>5. kqueue' \in Seq(KernelEvents) /\ \A e \in Range(kqueue') : Named(e)
  <2>1. CASE noted = {}
    BY <1>3, <2>1 DEF NameInv, TypeOK, WatchTypes, EventsAreNamed, Named
  <2>2. CASE noted # {}
    <3> DEFINE top == CHOOSE e \in noted : TRUE
    <3>1. top \in noted
      BY <2>2
    <3>2. top \in Paths
      BY <1>1, <3>1, ConstantFacts
    <3> QED
      BY <1>3, <2>2, <3>2, QueueNamed
  <2> QED
    BY <2>1, <2>2
<1>6. /\ \A e \in new : dirs'[e] = made + n[e] /\ n[e] \in 1..size
      /\ \A e \in Dirs \ new : dirs'[e] = dirs[e] /\ dirs[e] \in 0..made
  BY <1>1, <1>2, <1>3, <1>4
<1>7. DiskTypes'
  <2>1. dirs' \in [Dirs -> 0..made'] /\ made' \in Nat
    BY <1>1, <1>2, <1>3, <1>4
  <2> QED
    BY <2>1 DEF NameInv, TypeOK, DiskTypes
<1>8. WatchTypes' /\ EventsAreNamed'
  <2>1. 1..made \subseteq 1..made'
    BY <1>2, <1>3, <1>4
  <2> QED
    BY <1>5, <2>1 DEF NameInv, TypeOK, WatchTypes, EventsAreNamed, Named, inotify
<1>9. NumbersFit'
  <2>1. DOMAIN byWd \subseteq 1..made /\ byWd' = byWd /\ watching' = watching
    BY DEF NameInv, TypeOK, WatchTypes, inotify
  <2>2. \A a, b \in Dirs : dirs'[a] = dirs'[b] /\ dirs'[a] # 0 => a = b
    BY <1>2, <1>4, <1>6 DEF NameInv, NumbersFit
  <2>3. \A a \in Dirs : dirs'[a] \in DOMAIN byWd => byWd[dirs'[a]] = a
    BY <1>2, <1>4, <1>6, <2>1 DEF NameInv, NumbersFit
  <2> QED
    BY <2>1, <2>2, <2>3 DEF NameInv, NumbersFit
<1> QED
  BY <1>7, <1>8, <1>9

(* createWatcher makes a directory and what is missing above it, or what is *)
(* missing above it when it cannot make it.                                *)
LEMMA CreateMakes ==
    ASSUME NameInv, CreateWatcher
    PROVE  /\ UNCHANGED <<dirs, made, kqueue>> \/ \E d \in Dirs : mkdirRecursive(d)
           /\ UNCHANGED <<files, unread, seen, slipped, inotify, batch, event, eventQueue>>
<1>1. job.kind # "file" => job.path \in Dirs
  BY DEF CreateWatcher, NameInv, TypeOK, ThreadTypes, JobFits, Kinds
<1>2. job.path \in Dirs => Above[job.path] \subseteq Dirs \union {Root}
  <2>1. job.path \in Dirs => job.path \in Paths /\ job.path # Root
    BY ConstantFacts
  <2> QED
    BY <2>1 DEF Above
<1> QED
  BY <1>1, <1>2 DEF CreateWatcher, mkdirFails, keepFs

LEMMA CreateKeeps ==
    ASSUME NameInv, CreateWatcher
    PROVE  NameInv'
<1>1. ConfigTypes' /\ Fits(fileMap)'
  BY ConfigIsTyped, HandlerUntouched DEF CreateWatcher, keepFs
<1>2. /\ at = "create" /\ job.path \in Paths /\ job.kind \in Kinds
      /\ job.kind = "file" => job.path \in Files
      /\ job.kind # "file" => job.path \in Dirs
      /\ job \in [path : Paths \union {None}, kind : Kinds \union {None}, back : {"next", "config"}]
  BY DEF CreateWatcher, NameInv, TypeOK, ThreadTypes, JobFits, Kinds
<1>3. /\ UNCHANGED <<event, batch, cache, eventQueue>>
      /\ \/ at' \in {"next", "config"} /\ job' = NoJob /\ todo' = todo
         \/ /\ at' = "walk" /\ job' = job
            /\ todo' = <<CASE job.kind = "file"      -> <<"add", Parent[job.path]>>
                           [] job.kind = "recursive" -> <<"visit", job.path>>
                           [] OTHER                  -> <<"add", job.path>>>>
  BY <1>2 DEF CreateWatcher, Goto
<1>4. DiskTypes' /\ WatchTypes' /\ NumbersFit' /\ EventsAreNamed'
  <2>1. at' # "parse" /\ at # "parse"
    BY <1>2, <1>3
  <2>2. CASE UNCHANGED <<dirs, made, kqueue>>
    BY <2>1, <2>2, CreateMakes, DiskUntouched
  <2>3. ASSUME NEW d \in Dirs, mkdirRecursive(d)
        PROVE  DiskTypes' /\ WatchTypes' /\ NumbersFit' /\ EventsAreNamed'
    BY <2>1, <2>3, CreateMakes, MkdirKeeps
  <2> QED
    BY <2>2, <2>3, CreateMakes
<1>5. CASE at' \in {"next", "config"} /\ job' = NoJob /\ todo' = todo
  <2>1. ThreadTypes'
    BY <1>3, <1>5 DEF NameInv, TypeOK, ThreadTypes, NoJob
  <2>2. JobFits' /\ EventFits'
    BY <1>1, <1>5, TreeOfPaths DEF JobFits, EventFits, NoJob, Kinds, Fits
  <2> QED
    BY <1>1, <1>4, <2>1, <2>2 DEF NameInv, TypeOK
<1>6. CASE ~(at' \in {"next", "config"} /\ job' = NoJob /\ todo' = todo)
  <2> DEFINE step == CASE job.kind = "file"      -> <<"add", Parent[job.path]>>
                       [] job.kind = "recursive" -> <<"visit", job.path>>
                       [] OTHER                  -> <<"add", job.path>>
  <2>1. at' = "walk" /\ job' = job /\ todo' = <<step>>
    BY <1>3, <1>6
  <2>2. step \in WalkSteps
    BY <1>2, ConstantFacts DEF WalkSteps
  <2> HIDE DEF step
  <2>3. todo' \in Seq(WalkSteps)
    BY <2>1, <2>2
  <2>4. ThreadTypes'
    BY <1>3, <2>1, <2>3 DEF NameInv, TypeOK, ThreadTypes
  <2> QED
    BY <1>1, <1>2, <1>4, <2>1, <2>4 DEF NameInv, TypeOK, JobFits, EventFits
<1> QED
  BY <1>5, <1>6

-----------------------------------------------------------------------------
(* The walk.                                                               *)

LEMMA FirstStep ==
    ASSUME TypeOK, todo # <<>>
    PROVE  /\ Head(todo) \in WalkSteps /\ Tail(todo) \in Seq(WalkSteps) /\ todo \in Seq(WalkSteps)
           /\ Head(todo)[1] = "visit" => Head(todo)[2] \in Paths /\ Head(todo) = <<"visit", Head(todo)[2]>>
           /\ Head(todo)[1] = "add" => Head(todo)[2] \in Dirs \union {Root}
                                        /\ Head(todo) = <<"add", Head(todo)[2]>>
<1>1. todo \in Seq(WalkSteps)
  BY DEF TypeOK, ThreadTypes
<1>2. Head(todo) \in WalkSteps /\ Tail(todo) \in Seq(WalkSteps)
  BY <1>1
<1> QED
  BY <1>1, <1>2 DEF WalkSteps

(* Giving up the walk of a directory leaves the end of what was to do.     *)
LEMMA GivenUpEnd ==
    ASSUME TypeOK, NEW d
    PROVE  /\ GivenUp(d) \in Seq(WalkSteps)
           /\ GivenUp(d) # <<>> => todo # <<>> /\ GivenUp(d)[Len(GivenUp(d))] = todo[Len(todo)]
<1>1. todo \in Seq(WalkSteps)
  BY DEF TypeOK, ThreadTypes
<1>2. CASE <<"add", d>> \notin Range(todo)
  <2>1. GivenUp(d) = <<>>
    BY <1>2 DEF GivenUp
  <2> QED
    BY <2>1
<1>3. CASE <<"add", d>> \in Range(todo)
  <2> DEFINE i == CHOOSE j \in DOMAIN todo : todo[j] = <<"add", d>>
  <2>1. i \in DOMAIN todo
    BY <1>3 DEF Range
  <2>2. GivenUp(d) = SubSeq(todo, 1 + i, Len(todo))
    BY <1>3 DEF GivenUp
  <2> HIDE DEF i
  <2>5. Len(todo) \in Nat /\ i \in 1..Len(todo) /\ 1 + i \in 1..(Len(todo) + 1)
    BY <1>1, <2>1
  <2>3. GivenUp(d) \in Seq(WalkSteps) /\ Len(GivenUp(d)) = Len(todo) - i
        /\ \A k \in 1..(Len(todo) - i) : GivenUp(d)[k] = todo[i + k]
    BY <1>1, <2>2, <2>5, SubSeqProperties
  <2>4. ASSUME GivenUp(d) # <<>>
        PROVE  todo # <<>> /\ GivenUp(d)[Len(GivenUp(d))] = todo[Len(todo)]
    <3>1. Len(GivenUp(d)) # 0
      BY <2>3, <2>4, EmptySeq
    <3>2. Len(todo) - i \in 1..(Len(todo) - i) /\ i + (Len(todo) - i) = Len(todo)
      BY <2>3, <2>5, <3>1
    <3>3. GivenUp(d)[Len(todo) - i] = todo[Len(todo)]
      BY <2>3, <3>2
    <3>4. todo # <<>>
      BY <1>1, <2>5
    <3> QED
      BY <2>3, <3>3, <3>4
  <2> QED
    BY <2>3, <2>4
<1> QED
  BY <1>2, <1>3

(* A directory that is listed is itself the last that is watched.          *)
LEMMA ListedEnd ==
    ASSUME NEW d \in Dirs, NEW q \in Listed(d)
    PROVE  q \in Seq(WalkSteps) /\ q # <<>> /\ q[Len(q)] = <<"add", d>>
<1>1. Children(d) \subseteq Paths /\ IsFiniteSet(Children(d))
  BY ConstantFacts, FS_Subset DEF Children
<1>2. PICK c \in SetToSeqs(Children(d)) : q = [i \in 1..Len(c) |-> <<"visit", c[i]>>] \o <<<<"add", d>>>>
  BY DEF Listed
<1>3. c \in Seq(Paths)
  BY <1>1, ListsOfASet, SeqMonotonic
<1> DEFINE visits == [i \in 1..Len(c) |-> <<"visit", c[i]>>]
<1>4. visits \in Seq(WalkSteps)
  <2>1. Len(c) \in Nat /\ \A i \in 1..Len(c) : c[i] \in Paths
    BY <1>3
  <2>2. \A i \in 1..Len(c) : <<"visit", c[i]>> \in WalkSteps
    BY <2>1 DEF WalkSteps
  <2> QED
    BY <2>1, <2>2
<1>5. <<"add", d>> \in WalkSteps
  BY DEF WalkSteps
<1> HIDE DEF visits
<1>6. q = Append(visits, <<"add", d>>)
  BY <1>2, <1>4, <1>5, AppendIsConcat DEF visits
<1> QED
  BY <1>4, <1>5, <1>6, AppendProperties

(* The steps of the walk take nothing from the disk.                       *)
LEMMA VisitKeeps ==
    ASSUME NameInv, Visit
    PROVE  NameInv'
<1> DEFINE p == Head(todo)[2]
<1>1. at = "walk" /\ todo # <<>> /\ p \in Paths /\ Tail(todo) \in Seq(WalkSteps)
  BY FirstStep DEF Visit, NameInv
<1>2. todo' \in Seq(WalkSteps) /\ slipped' \subseteq Paths
  <2>0. slipped \subseteq Paths
    BY DEF NameInv, TypeOK, DiskTypes
  <2>1. CASE ~Exists(p) /\ todo' = GivenUp(Parent[p]) /\ slipped' = slipped \union Dropped(todo')
    <3>1. Dropped(todo') \subseteq Paths
      BY ConstantFacts DEF Dropped
    <3> QED
      BY <1>1, <2>0, <2>1, <3>1, GivenUpEnd, ConstantFacts DEF NameInv
  <2>2. CASE todo' = Tail(todo) /\ slipped' = slipped
    BY <1>1, <2>0, <2>2
  <2>3. CASE p \in Dirs /\ todo' \in {q \o Tail(todo) : q \in Listed(p)} /\ slipped' = slipped
    <3>1. PICK q \in Listed(p) : todo' = q \o Tail(todo)
      BY <2>3
    <3>2. q \in Seq(WalkSteps)
      BY <2>3, ListedEnd
    <3> QED
      BY <1>1, <2>0, <2>3, <3>1, <3>2
  <2> QED
    BY <2>1, <2>2, <2>3 DEF Visit
<1>3. UNCHANGED <<files, unread, seen, dirs, made, inotify, kqueue, batch, at, job, event, cache, eventQueue,
                  yml, handler, gauging, fileMap, alive, cfgQueue>>
  BY DEF Visit, walkUnchanged, keepFs
<1>4. ThreadTypes'
  BY <1>2, <1>3 DEF NameInv, TypeOK, ThreadTypes
<1>5. ConfigTypes' /\ Fits(fileMap)'
  BY <1>3, ConfigIsTyped, HandlerUntouched
<1>6. DiskTypes' /\ WatchTypes'
  BY <1>2, <1>3 DEF NameInv, TypeOK, DiskTypes, WatchTypes, inotify
<1>7. JobFits' /\ EventFits' /\ NumbersFit' /\ EventsAreNamed'
  BY <1>3, <1>5 DEF NameInv, JobFits, EventFits, NumbersFit, EventsAreNamed, inotify
<1> QED
  BY <1>4, <1>5, <1>6, <1>7 DEF NameInv, TypeOK

(* A watch that is new gets the name of its directory; one that is found   *)
(* again keeps it, under which the events that wait for it are parsed.     *)
LEMMA CreateWatchKeeps ==
    ASSUME NameInv, NEW d \in Dirs, dirs[d] # 0,
           watching' = watching \union {dirs[d]}, create_watch(dirs[d], d),
           UNCHANGED <<dirs, made, kqueue, batch, at, event>>
    PROVE  WatchTypes' /\ NumbersFit' /\ EventsAreNamed'
<1> DEFINE wd == dirs[d]
<1>1. dirs \in [Dirs -> 0..made] /\ made \in Nat
  BY DEF NameInv, TypeOK, DiskTypes
<1>2. wd \in 1..made
  BY <1>1
<1>3. /\ DOMAIN byWd \subseteq 1..made /\ \A w \in DOMAIN byWd : byWd[w] \in Dirs
      /\ DOMAIN byName \subseteq Dirs /\ \A e \in DOMAIN byName : byName[e] \in 1..made
  BY DEF NameInv, TypeOK, WatchTypes, Range
<1>4. wd \in DOMAIN byWd => byWd[wd] = d
  BY DEF NameInv, NumbersFit
<1> HIDE DEF wd
<1>5. /\ DOMAIN byWd' = DOMAIN byWd \union {wd} /\ byWd'[wd] = d
      /\ \A w \in DOMAIN byWd : byWd'[w] = byWd[w]
  <2>1. byWd' = WithWatch(byWd, wd, d)
    BY DEF create_watch, wd
  <2> QED
    BY <1>4, <2>1 DEF WithWatch
<1>6. /\ DOMAIN byName' = DOMAIN byName \union {d}
      /\ \A e \in DOMAIN byName' : byName'[e] \in 1..made
  <2>1. byName' = WithWatch(byName, d, wd)
    BY DEF create_watch, wd
  <2> QED
    BY <1>2, <1>3, <2>1 DEF WithWatch
<1>7. WatchTypes'
  <2>1. DOMAIN byWd' \subseteq 1..made /\ Range(byWd') \subseteq Dirs
    BY <1>2, <1>3, <1>5 DEF Range
  <2>2. DOMAIN byName' \subseteq Dirs /\ Range(byName') \subseteq 1..made
    BY <1>3, <1>6 DEF Range
  <2>3. watching' \subseteq 1..made
    BY <1>2 DEF NameInv, TypeOK, WatchTypes, wd
  <2> QED
    BY <2>1, <2>2, <2>3 DEF NameInv, TypeOK, WatchTypes
<1>8. NumbersFit'
  <2>1. watching' \subseteq DOMAIN byWd'
    BY <1>5 DEF NameInv, NumbersFit, wd
  <2>2. ASSUME NEW e \in Dirs, dirs[e] \in DOMAIN byWd' PROVE byWd'[dirs[e]] = e
    <3>1. CASE dirs[e] = wd
      BY <1>2, <1>5, <3>1 DEF NameInv, NumbersFit, wd
    <3>2. CASE dirs[e] # wd
      BY <1>5, <2>2, <3>2 DEF NameInv, NumbersFit
    <3> QED
      BY <3>1, <3>2
  <2> QED
    BY <2>1, <2>2 DEF NameInv, NumbersFit
<1>9. EventsAreNamed'
  BY <1>5 DEF NameInv, EventsAreNamed
<1> QED
  BY <1>7, <1>8, <1>9

LEMMA AddKeeps ==
    ASSUME NameInv, Add
    PROVE  NameInv'
<1> DEFINE d == Head(todo)[2]
<1>1. at = "walk" /\ todo # <<>> /\ d \in Dirs \union {Root} /\ Tail(todo) \in Seq(WalkSteps)
  BY FirstStep DEF Add, NameInv
<1>2. UNCHANGED <<files, unread, seen, slipped, dirs, made, kqueue, batch, at, job, event, cache, eventQueue,
                  yml, handler, gauging, fileMap, alive, cfgQueue>>
  BY DEF Add, walkUnchanged, keepFs
<1>3. todo' \in Seq(WalkSteps)
  <2>1. todo' \in {Tail(todo), <<>>}
    BY DEF Add
  <2>2. <<>> \in Seq(WalkSteps)
    BY EmptySeq
  <2> QED
    BY <1>1, <2>1, <2>2
<1>4. ThreadTypes'
  BY <1>2, <1>3 DEF NameInv, TypeOK, ThreadTypes
<1>5. ConfigTypes' /\ Fits(fileMap)'
  BY <1>2, ConfigIsTyped, HandlerUntouched
<1>6. DiskTypes' /\ JobFits' /\ EventFits'
  BY <1>2, <1>5 DEF NameInv, TypeOK, DiskTypes, JobFits, EventFits
<1>7. WatchTypes' /\ NumbersFit' /\ EventsAreNamed'
  <2>1. CASE UNCHANGED inotify
    BY <1>1, <1>2, <2>1, DiskUntouched
  <2>2. CASE /\ d # Root /\ Exists(d)
             /\ watching' = watching \union {dirs[d]} /\ create_watch(dirs[d], d)
    BY <1>1, <1>2, <2>2, CreateWatchKeeps DEF Exists
  <2> QED
    BY <2>1, <2>2 DEF Add
<1> QED
  BY <1>4, <1>5, <1>6, <1>7 DEF NameInv, TypeOK

(* The scan queues files of the transfer.                                  *)
LEMMA ScanKeeps ==
    ASSUME NameInv, Scan
    PROVE  NameInv'
<1> DEFINE S == IF IsTransfer(job.path) THEN ScannedFiles(job.path) ELSE {}
           E == [event : {"MODIFY", "DELETE"}, transfer : Transfers, path : Paths]
<1>1. at = "walk" /\ at' \in {"next", "config"} /\ job' = NoJob
  BY DEF Scan, Goto, NameInv, TypeOK, ThreadTypes
<1>2. S \subseteq Paths /\ IsFiniteSet(S)
  <2>1. S \subseteq files /\ files \subseteq Files
    BY DEF ScannedFiles, NameInv, TypeOK, DiskTypes
  <2> QED
    BY <2>1, ConstantFacts, FS_Subset
<1>3. PICK q \in SetToSeqs(S) :
         eventQueue' = eventQueue \o [i \in 1..Len(q) |-> Event("MODIFY", job.path, q[i])]
  BY DEF Scan
<1>4. q \in Seq(Paths) /\ (q # <<>> => job.path \in Transfers)
  <2>1. q \in Seq(S) /\ (q = <<>> <=> S = {})
    BY <1>2, ListsOfASet
  <2> QED
    BY <1>2, <2>1, SeqMonotonic DEF IsTransfer
<1> HIDE DEF S
<1>5. [i \in 1..Len(q) |-> Event("MODIFY", job.path, q[i])] \in Seq(E)
  <2>1. Len(q) \in Nat /\ \A i \in 1..Len(q) : q[i] \in Paths /\ job.path \in Transfers
    <3>1. Len(q) \in Nat /\ \A i \in 1..Len(q) : q[i] \in Paths /\ q # <<>>
      BY <1>4
    <3> QED
      BY <1>4, <3>1
  <2>2. \A i \in 1..Len(q) : Event("MODIFY", job.path, q[i]) \in E
    BY <2>1 DEF Event
  <2> QED
    BY <2>1, <2>2
<1>6. eventQueue' \in Seq(E)
  <2>1. eventQueue \in Seq(E)
    BY DEF NameInv, TypeOK, ThreadTypes
  <2> HIDE DEF E
  <2> QED
    BY <1>3, <1>5, <2>1
<1>7. ThreadTypes'
  <2>1. job' \in [path : Paths \union {None}, kind : Kinds \union {None}, back : {"next", "config"}]
    BY <1>1 DEF NoJob
  <2>2. UNCHANGED <<todo, event, cache>>
    BY DEF Scan
  <2> QED
    BY <1>1, <1>6, <2>1, <2>2 DEF NameInv, TypeOK, ThreadTypes
<1>8. ConfigTypes' /\ Fits(fileMap)'
  BY ConfigIsTyped, HandlerUntouched DEF Scan, keepFs
<1>9. DiskTypes' /\ WatchTypes' /\ NumbersFit' /\ EventsAreNamed'
  BY <1>1, DiskUntouched DEF Scan, keepFs
<1>10. JobFits' /\ EventFits'
  BY <1>1, <1>8, TreeOfPaths DEF JobFits, EventFits, NoJob, Kinds, Fits
<1> QED
  BY <1>7, <1>8, <1>9, <1>10 DEF NameInv, TypeOK

-----------------------------------------------------------------------------
(* The events.                                                             *)

EventType == [wd : Nat \union {Overflow}, path : Paths \union {None},
              mask : {"CREATE", "DELETE", "MODIFY", "OVERFLOW", ""}, found : Transfers \union {None}]

LEMMA TakenFits ==
    ASSUME NEW e \in KernelEvents
    PROVE  /\ Taken(e) \in EventType /\ Taken(e).wd = e.wd /\ Taken(e).path = e.path
           /\ \/ Taken(e).wd = Overflow
              \/ Taken(e).path \in Paths /\ Taken(e).mask \in {"CREATE", "DELETE", "MODIFY"}
<1>1. CASE e = Lost
  BY <1>1 DEF Lost, Taken, EventType
<1>2. CASE e \in [wd : Nat, path : Paths, mask : {"CREATE", "DELETE", "MODIFY"}]
  BY <1>2 DEF Taken, EventType
<1> QED
  BY <1>1, <1>2 DEF KernelEvents

LEMMA NextEventKeeps ==
    ASSUME NameInv, NextEvent
    PROVE  NameInv'
<1> DEFINE ready == IF batch # <<>> THEN batch ELSE kqueue
<1>1. ready \in Seq(KernelEvents) /\ (\A e \in Range(ready) : Named(e))
      /\ kqueue \in Seq(KernelEvents) /\ batch \in Seq(KernelEvents)
  BY DEF NameInv, TypeOK, WatchTypes, EventsAreNamed, Named
<1>2. ConfigTypes' /\ Fits(fileMap)'
  BY ConfigIsTyped, HandlerUntouched DEF NextEvent, keepFs
<1>3. CASE ready = <<>>
  <2>1. at' = "config" /\ UNCHANGED <<event, batch, kqueue>>
    BY <1>3 DEF NextEvent, Goto
  <2>2. DiskTypes' /\ WatchTypes' /\ NumbersFit' /\ EventsAreNamed'
    BY <2>1, DiskUntouched DEF NextEvent, keepFs
  <2>3. ThreadTypes'
    BY <2>1 DEF NameInv, TypeOK, ThreadTypes, NextEvent
  <2>4. JobFits' /\ EventFits'
    BY <1>2, <2>1 DEF NameInv, JobFits, EventFits, NextEvent
  <2> QED
    BY <1>2, <2>2, <2>3, <2>4 DEF NameInv, TypeOK
<1>4. CASE ready # <<>>
  <2>1. /\ at' = "parse" /\ event' = Taken(ready[1]) /\ batch' = Tail(ready)
        /\ kqueue' = IF batch # <<>> THEN kqueue ELSE <<>>
    BY <1>4 DEF NextEvent, Goto
  <2> HIDE DEF ready
  <2>2. ready[1] \in KernelEvents /\ ready[1] \in Range(ready) /\ batch' \in Seq(KernelEvents)
        /\ Range(batch') \subseteq Range(ready)
    <3>1. Len(ready) \in Nat /\ Len(ready) >= 1 /\ 1 \in DOMAIN ready
      BY <1>1, <1>4, EmptySeq
    <3>2. Tail(ready) \in Seq(KernelEvents) /\ Len(Tail(ready)) = Len(ready) - 1
          /\ \A i \in 1..Len(Tail(ready)) : Tail(ready)[i] = ready[i + 1] /\ i + 1 \in 1..Len(ready)
      BY <1>1, <1>4, <3>1, HeadTailProperties
    <3>3. ready[1] \in KernelEvents /\ ready[1] \in Range(ready)
      BY <1>1, <3>1 DEF Range
    <3>4. Range(Tail(ready)) \subseteq Range(ready)
      BY <1>1, <3>2 DEF Range
    <3> QED
      BY <2>1, <3>2, <3>3, <3>4
  <2>3. event' \in EventType /\ event'.wd = ready[1].wd /\ event'.path = ready[1].path
        /\ \/ event'.wd = Overflow
           \/ event'.path \in Paths /\ event'.mask \in {"CREATE", "DELETE", "MODIFY"}
    BY <2>1, <2>2, TakenFits
  <2>4. kqueue' \in Seq(KernelEvents) /\ Range(kqueue') \subseteq Range(kqueue)
    <3>1. Range(<<>>) = {} /\ <<>> \in Seq(KernelEvents)
      BY EmptySeq DEF Range
    <3> QED
      BY <1>1, <2>1, <3>1
  <2>5. UNCHANGED <<files, unread, seen, slipped, dirs, made, inotify, job, todo, cache, eventQueue>>
    BY DEF NextEvent, keepFs
  <2>6. DiskTypes' /\ WatchTypes'
    BY <2>2, <2>4, <2>5 DEF NameInv, TypeOK, DiskTypes, WatchTypes, inotify
  <2>7. ThreadTypes'
    BY <2>1, <2>3, <2>5 DEF NameInv, TypeOK, ThreadTypes, EventType
  <2>8. JobFits' /\ EventFits' /\ NumbersFit'
    <3>1. at = "next"
      BY DEF NextEvent
    <3> QED
      BY <1>2, <2>1, <2>3, <2>5, <3>1 DEF NameInv, JobFits, EventFits, NumbersFit, inotify
  <2>9. EventsAreNamed'
    <3>1. \A e \in Range(kqueue') \union Range(batch') : Named(e)
      BY <1>1, <2>2, <2>4 DEF NameInv, EventsAreNamed, Named
    <3>2. Named(ready[1])
      BY <1>1, <2>2
    <3> QED
      BY <2>3, <2>5, <3>1, <3>2 DEF EventsAreNamed, Named, inotify
  <2> QED
    BY <1>2, <2>6, <2>7, <2>8, <2>9 DEF NameInv, TypeOK
<1> QED
  BY <1>3, <1>4

(* Without a name for the watch the process is gone.                       *)
LEMMA ParseUnnamedKeeps ==
    ASSUME NameInv, ParseUnnamed
    PROVE  NameInv'
<1>1. ConfigTypes' /\ Fits(fileMap)'
  BY ConfigIsTyped, HandlerUntouched DEF ParseUnnamed, keepFs
<1>2. UNCHANGED <<disk, inotify, kqueue, watcher, eventQueue, unread, seen, slipped>>
  BY DEF ParseUnnamed, keepFs, disk
<1>3. DiskTypes' /\ WatchTypes'
  BY <1>2 DEF NameInv, TypeOK, DiskTypes, WatchTypes, disk, inotify, watcher
<1>4. ThreadTypes'
  BY <1>2 DEF NameInv, TypeOK, ThreadTypes, watcher
<1>5. JobFits' /\ EventFits' /\ NumbersFit' /\ EventsAreNamed'
  BY <1>1, <1>2 DEF NameInv, JobFits, EventFits, NumbersFit, EventsAreNamed, disk, inotify, watcher
<1> QED
  BY <1>1, <1>3, <1>4, <1>5 DEF NameInv, TypeOK

(* The transfer found for an event is one of the transfers, or none.       *)
LEMMA ParseEventKeeps ==
    ASSUME NameInv, ParseEvent
    PROVE  NameInv'
<1>1. at = "parse" /\ at' = "find" /\ event.path \in Paths /\ event.mask \in {"CREATE", "DELETE", "MODIFY"}
      /\ event \in EventType
  <2>1. event.wd # Overflow
    BY DEF ParseEvent, NameInv, TypeOK, WatchTypes, Overflow
  <2> QED
    BY <2>1 DEF ParseEvent, Goto, NameInv, EventFits, TypeOK, ThreadTypes, EventType
<1>2. PICK old \in SUBSET DOMAIN cache :
        LET kept == DOMAIN cache \ old
        IN  \E t \in Known(kept, event.path) :
               /\ cache' = [p \in kept \union {event.path} |-> IF p = event.path THEN t ELSE cache[p]]
               /\ event' = [event EXCEPT !.found = t]
  <2>1. (IF Cardinality(DOMAIN cache) > CacheLimit THEN SUBSET DOMAIN cache ELSE {{}})
           \subseteq SUBSET DOMAIN cache
    OBVIOUS
  <2> QED
    BY <2>1 DEF ParseEvent
<1> DEFINE kept == DOMAIN cache \ old
<1>3. PICK t \in Known(kept, event.path) :
         /\ cache' = [p \in kept \union {event.path} |-> IF p = event.path THEN t ELSE cache[p]]
         /\ event' = [event EXCEPT !.found = t]
  BY <1>2
<1>4. DOMAIN cache \subseteq Paths /\ \A p \in DOMAIN cache : cache[p] \in Transfers \union {None}
  BY DEF NameInv, TypeOK, ThreadTypes, Range
<1>5. t \in Transfers \union {None}
  <2>1. CASE event.path \in kept
    BY <1>3, <1>4, <2>1 DEF Known
  <2>2. CASE event.path \notin kept
    BY <1>3, <2>2 DEF Known, patternPath
  <2> QED
    BY <2>1, <2>2
<1>6. DOMAIN cache' \subseteq Paths /\ Range(cache') \subseteq Transfers \union {None}
  BY <1>1, <1>3, <1>4, <1>5 DEF Range
<1>7. event' \in EventType /\ event'.path = event.path /\ event'.mask = event.mask
  BY <1>1, <1>3, <1>5 DEF EventType
<1>8. UNCHANGED <<job, todo, eventQueue>>
  BY DEF ParseEvent
<1>9. ThreadTypes'
  BY <1>1, <1>6, <1>7, <1>8 DEF NameInv, TypeOK, ThreadTypes, EventType
<1>10. ConfigTypes' /\ Fits(fileMap)'
  BY ConfigIsTyped, HandlerUntouched DEF ParseEvent, keepFs
<1>11. DiskTypes' /\ WatchTypes' /\ NumbersFit' /\ EventsAreNamed'
  BY <1>1, DiskUntouched DEF ParseEvent, keepFs
<1>12. JobFits' /\ EventFits'
  BY <1>1, <1>7, <1>8, <1>10 DEF NameInv, JobFits, EventFits
<1> QED
  BY <1>9, <1>10, <1>11, <1>12 DEF NameInv, TypeOK

LEMMA DispatchKeeps ==
    ASSUME NameInv, Dispatch
    PROVE  NameInv'
<1>1. at = "find" /\ event.path \in Paths /\ event.mask \in {"CREATE", "DELETE", "MODIFY"}
      /\ event.found \in Transfers \union {None} /\ job.path = None
  BY DEF Dispatch, NameInv, EventFits, JobFits, TypeOK, ThreadTypes
<1>2. at' \in {"config", "create"} /\ event' = NoEvent /\ UNCHANGED <<todo, cache>>
  BY DEF Dispatch, Goto
<1>3. ConfigTypes' /\ Fits(fileMap)'
  BY ConfigIsTyped, HandlerUntouched DEF Dispatch, keepFs
<1>4. DiskTypes' /\ WatchTypes' /\ NumbersFit' /\ EventsAreNamed'
  <2>1. slipped' = slipped \/ slipped' \subseteq Paths
    BY <1>1 DEF Dispatch, NameInv, TypeOK, DiskTypes
  <2> QED
    BY <1>2, <2>1, DiskUntouched DEF Dispatch, keepFs
<1>5. event' \in EventType
  BY <1>2 DEF NoEvent, EventType
<1>6. CASE at' = "config" /\ job' = job
  <2>1. eventQueue' \in Seq([event : {"MODIFY", "DELETE"}, transfer : Transfers, path : Paths])
    <3> DEFINE E == [event : {"MODIFY", "DELETE"}, transfer : Transfers, path : Paths]
    <3>1. eventQueue \in Seq(E)
      BY DEF NameInv, TypeOK, ThreadTypes
    <3>2. CASE eventQueue' = eventQueue
      BY <3>1, <3>2
    <3>3. CASE /\ Found(event.found) /\ event.mask # "CREATE"
               /\ eventQueue' = Append(eventQueue, Event(event.mask, event.found, event.path))
      <4>1. Event(event.mask, event.found, event.path) \in E
        BY <1>1, <3>3 DEF Event, Found
      <4> HIDE DEF E
      <4>2. Append(eventQueue, Event(event.mask, event.found, event.path)) \in Seq(E)
        BY <3>1, <4>1, AppendProperties
      <4> QED
        BY <3>3, <4>2 DEF E
    <3> QED
      BY <3>2, <3>3, <1>6 DEF Dispatch, Goto
  <2>2. ThreadTypes'
    BY <1>2, <1>5, <1>6, <2>1 DEF NameInv, TypeOK, ThreadTypes, EventType
  <2>3. JobFits' /\ EventFits'
    BY <1>1, <1>3, <1>6 DEF NameInv, JobFits, EventFits
  <2> QED
    BY <1>3, <1>4, <2>2, <2>3 DEF NameInv, TypeOK
<1>7. CASE /\ at' = "create" /\ IsNewDir /\ UNCHANGED eventQueue
           /\ job' = [path |-> event.path, kind |-> "recursive", back |-> "config"]
  <2>1. event.path \in Dirs
    BY <1>7 DEF IsNewDir
  <2>2. job' \in [path : Paths \union {None}, kind : Kinds \union {None}, back : {"next", "config"}]
    BY <1>1, <1>7 DEF Kinds
  <2>3. ThreadTypes'
    BY <1>2, <1>5, <1>7, <2>2 DEF NameInv, TypeOK, ThreadTypes, EventType
  <2>4. JobFits' /\ EventFits'
    BY <1>1, <1>3, <1>7, <2>1, TreeOfPaths DEF JobFits, EventFits, Kinds
  <2> QED
    BY <1>3, <1>4, <2>3, <2>4 DEF NameInv, TypeOK
<1> QED
  BY <1>6, <1>7 DEF Dispatch, Goto

(* The event thread.                                                       *)
LEMMA EventStepKeeps ==
    ASSUME NameInv, EventStep
    PROVE  NameInv'
<1>1. unread' \subseteq unread /\ seen' \subseteq unread' /\ slipped' \subseteq slipped
  BY DEF EventStep, NameInv, TypeOK, DiskTypes
<1>2. UNCHANGED <<disk, inotify, kqueue, config, watcher, handler, gauging, yml, alive>>
  BY DEF EventStep
<1>3. DiskTypes' /\ WatchTypes'
  BY <1>1, <1>2 DEF NameInv, TypeOK, DiskTypes, WatchTypes, disk, inotify, watcher
<1>4. ConfigTypes'
  BY <1>2 DEF NameInv, TypeOK, ConfigTypes, config, handler
<1>5. ThreadTypes'
  <2> DEFINE E == [event : {"MODIFY", "DELETE"}, transfer : Transfers, path : Paths]
  <2>1. eventQueue \in Seq(E)
    BY DEF NameInv, TypeOK, ThreadTypes
  <2> HIDE DEF E
  <2>2. eventQueue' \in Seq(E)
    BY <2>1 DEF EventStep
  <2> USE DEF E
  <2> QED
    BY <1>2, <2>2 DEF NameInv, TypeOK, ThreadTypes, watcher
<1>6. JobFits' /\ EventFits' /\ NumbersFit' /\ EventsAreNamed'
  BY <1>2 DEF NameInv, JobFits, Fits, EventFits, NumbersFit, EventsAreNamed, disk, inotify, config, watcher
<1> QED
  BY <1>3, <1>4, <1>5, <1>6 DEF NameInv, TypeOK

-----------------------------------------------------------------------------
(***************************************************************************)
(* Types and names.                                                        *)
(***************************************************************************)

LEMMA InitNames ==
    ASSUME Init
    PROVE  NameInv /\ HandlerFits
<1>1. PICK some \in AtStart :
         /\ dirs = [d \in Dirs |-> IF d \in some THEN Numbers(some \intersect Dirs)[d] ELSE 0]
         /\ made = Cardinality(some \intersect Dirs)
         /\ files = some \intersect Files
  BY DEF Init
<1> DEFINE S == some \intersect Dirs
<1>2. /\ Cardinality(S) \in Nat /\ Numbers(S) \in [S -> 1..Cardinality(S)]
      /\ \A a, b \in S : Numbers(S)[a] = Numbers(S)[b] => a = b
  <2>1. IsFiniteSet(S)
    BY ConstantFacts, FS_Subset
  <2> QED
    BY <2>1, NumbersDiffer
<1>3. /\ unread = files /\ seen = {} /\ slipped = {} /\ watching = {} /\ byWd = <<>> /\ byName = <<>>
      /\ kqueue = <<>> /\ batch = <<>> /\ cache = <<>> /\ eventQueue = <<>>
      /\ yml \in YmlChoices /\ fileMap = yml /\ infos = yml /\ cfgQueue \in Orders(yml) /\ left = <<>>
      /\ at = "config" /\ job = NoJob /\ todo = <<>> /\ event = NoEvent
      /\ main = "run" /\ gauging = FALSE /\ alive = TRUE
  BY DEF Init
<1>4. DOMAIN <<>> = {} /\ Range(<<>>) = {}
  BY DEF Range
<1>5. yml \in Choice /\ Fits(yml) /\ cfgQueue \in Seq(Transfers)
  BY <1>3, YmlFits, OrdersList
<1>6. DiskTypes
  <2>1. dirs \in [Dirs -> 0..made] /\ made \in Nat
    BY <1>1, <1>2
  <2> QED
    BY <1>1, <1>3, <2>1 DEF DiskTypes
<1>7. WatchTypes
  BY <1>3, <1>4 DEF WatchTypes
<1>8. ConfigTypes
  <2>1. /\ main \in {"run", "check", "parse", "lock", "push", "assign", "stuck"}
        /\ gauging \in BOOLEAN /\ alive \in BOOLEAN
    BY <1>3
  <2>2. left \in Seq(Transfers) /\ infos \in YmlChoices /\ yml \in YmlChoices \union {Broken}
    BY <1>3
  <2> QED
    BY <1>3, <1>5, <2>1, <2>2 DEF ConfigTypes
<1>9. ThreadTypes
  <2>1. job \in [path : Paths \union {None}, kind : Kinds \union {None}, back : {"next", "config"}]
    BY <1>3 DEF NoJob
  <2>2. event \in EventType
    BY <1>3 DEF NoEvent, EventType
  <2>3. eventQueue \in Seq([event : {"MODIFY", "DELETE"}, transfer : Transfers, path : Paths])
    BY <1>3
  <2>4. todo \in Seq(WalkSteps) /\ DOMAIN cache = {} /\ Range(cache) = {}
    BY <1>3, <1>4
  <2> QED
    BY <1>3, <2>1, <2>2, <2>3, <2>4 DEF ThreadTypes, EventType
<1>10. JobFits /\ EventFits
  BY <1>3, <1>5, TreeOfPaths DEF JobFits, EventFits, NoJob, Kinds
<1>11. NumbersFit
  <2>1. \A d \in Dirs : dirs[d] # 0 => d \in S /\ dirs[d] = Numbers(S)[d]
    BY <1>1
  <2> QED
    BY <1>2, <1>3, <1>4, <2>1 DEF NumbersFit
<1>12. EventsAreNamed
  BY <1>3, <1>4 DEF EventsAreNamed
<1>13. HandlerFits
  BY <1>3 DEF HandlerFits
<1> QED
  BY <1>6, <1>7, <1>8, <1>9, <1>10, <1>11, <1>12, <1>13 DEF NameInv, TypeOK

LEMMA NameStep ==
    ASSUME NameInv, HandlerFits, [Next]_vars
    PROVE  NameInv'
<1>1. ASSUME NEW f \in Files, Write(f) \/ RemoveFile(f) PROVE NameInv'
  BY <1>1, WriteKeeps, RemoveFileKeeps
<1>2. ASSUME NEW d \in Dirs, MakeDir(d) \/ RemoveDir(d) PROVE NameInv'
  BY <1>2, MakeDirKeeps, RemoveDirKeeps
<1>3. CASE EditYml
  BY <1>3, EditYmlKeeps
<1>4. CASE Gauge \/ Reload \/ MainStep
  BY <1>4, SignalKeeps, UpdateKeeps DEF MainStep
<1>5. CASE WatcherStep
  BY <1>5, ConsumeKeeps, CreateKeeps, VisitKeeps, AddKeeps, ScanKeeps,
     NextEventKeeps, ParseUnnamedKeeps, ParseEventKeeps, DispatchKeeps DEF WatcherStep
<1>6. CASE EventStep
  BY <1>6, EventStepKeeps
<1>7. CASE UNCHANGED vars
  <2>1. DiskTypes' /\ WatchTypes'
    BY <1>7 DEF NameInv, TypeOK, DiskTypes, WatchTypes, vars, disk, inotify, watcher, history
  <2>2. NumbersFit' /\ EventsAreNamed'
    BY <1>7 DEF NameInv, NumbersFit, EventsAreNamed, vars, disk, inotify, watcher
  <2> QED
    BY <1>7, <2>1, <2>2, YmlType, ThreadsUntouched DEF vars, NameInv, TypeOK
<1> QED
  BY <1>1, <1>2, <1>3, <1>4, <1>5, <1>6, <1>7 DEF Next

LEMMA HandlerStep ==
    ASSUME NameInv, HandlerFits, [Next]_vars
    PROVE  HandlerFits'
<1>1. cfgQueue \in Seq(Transfers) /\ left \in Seq(Transfers) /\ infos \in Choice
  BY YmlFits DEF NameInv, TypeOK, ConfigTypes
<1>2. CASE UpdateBegin
  BY <1>1, <1>2, OrdersList DEF UpdateBegin, HandlerFits
<1>3. CASE UpdatePush
  <2>1. left # <<>> /\ left' = left /\ main' = "assign" /\ cfgQueue' = Append(cfgQueue, Head(left))
    BY <1>3 DEF UpdatePush, HandlerFits
  <2>2. Head(left) \in Range(cfgQueue')
    <3>1. Head(left) \in Transfers
      BY <1>1, <2>1
    <3>2. Len(cfgQueue') = Len(cfgQueue) + 1 /\ cfgQueue'[Len(cfgQueue) + 1] = Head(left)
          /\ cfgQueue' \in Seq(Transfers) /\ Len(cfgQueue) \in Nat
      BY <1>1, <2>1, <3>1, AppendProperties
    <3> QED
      BY <3>2 DEF Range
  <2> QED
    BY <2>1, <2>2 DEF HandlerFits
<1>4. CASE UpdateAssign
  <2>1. left # <<>> /\ left' = Tail(left) /\ main' = IF Len(left) = 1 THEN "run" ELSE "push"
    BY <1>4 DEF UpdateAssign, HandlerFits
  <2>2. Len(left) # 1 => left' # <<>>
    <3>1. Len(left') = Len(left) - 1
      BY <1>1, <2>1, HeadTailProperties
    <3>2. Len(<<>>) = 0
      BY EmptySeq
    <3> QED
      BY <1>1, <3>1, <3>2
  <2> QED
    BY <2>1, <2>2 DEF HandlerFits
<1>5. CASE ConsumePop
  <2>1. main' = main /\ left' = left /\ at = "config"
    BY <1>5 DEF ConsumePop, keepFs, handler
  <2>2. CASE cfgQueue = <<>>
    BY <1>1, <1>5, <2>1, <2>2 DEF ConsumePop, HandlerFits, Range
  <2>3. CASE cfgQueue # <<>>
    <3>1. at' = "lookup" /\ job' = [NoJob EXCEPT !.path = Head(cfgQueue)] /\ cfgQueue' = Tail(cfgQueue)
      BY <1>5, <2>3 DEF ConsumePop, Goto
    <3>2. job'.path = Head(cfgQueue)
      BY <3>1 DEF NoJob
    <3>3. ASSUME NEW t \in Range(cfgQueue) PROVE t = Head(cfgQueue) \/ t \in Range(cfgQueue')
      <4>1. PICK i \in 1..Len(cfgQueue) : t = cfgQueue[i]
        BY <1>1 DEF Range
      <4>2. i # 1 => i - 1 \in 1..Len(Tail(cfgQueue)) /\ Tail(cfgQueue)[i - 1] = t
        BY <1>1, <2>3, <4>1
      <4> QED
        BY <1>1, <2>3, <3>1, <4>1, <4>2 DEF Range
    <3> QED
      BY <2>1, <3>1, <3>2, <3>3 DEF HandlerFits
  <2> QED
    BY <2>2, <2>3
<1>6. CASE ConsumeLookup
  BY <1>6 DEF ConsumeLookup, HandlerFits, LockHeld, keepFs, handler
<1>7. CASE Gauge \/ GaugeDone \/ Reload \/ check \/ paser
  BY <1>7 DEF Gauge, GaugeDone, Reload, check, paser, Load, HandlerFits, others, watcher, handler, config
<1>8. ASSUME UNCHANGED <<main, left, cfgQueue>>, at # "lookup" \/ UNCHANGED <<at, job>>
      PROVE  HandlerFits'
  BY <1>8 DEF HandlerFits
<1>9. CASE CreateWatcher \/ Visit \/ Add \/ Scan \/ NextEvent \/ ParseUnnamed \/ ParseEvent \/ Dispatch
  <2>1. UNCHANGED <<main, left, cfgQueue>>
    BY <1>9 DEF CreateWatcher, Visit, Add, walkUnchanged, Scan, NextEvent, ParseUnnamed, ParseEvent, Dispatch,
       keepFs, handler
  <2>2. at # "lookup"
    BY <1>9 DEF CreateWatcher, Visit, Add, Scan, NextEvent, ParseUnnamed, ParseEvent, Dispatch
  <2> QED
    BY <1>8, <2>1, <2>2
<1>10. ASSUME NEW f \in Files, Write(f) \/ RemoveFile(f) PROVE HandlerFits'
  BY <1>8, <1>10 DEF Write, RemoveFile, config, handler, watcher
<1>11. ASSUME NEW d \in Dirs, MakeDir(d) \/ RemoveDir(d) PROVE HandlerFits'
  BY <1>8, <1>11 DEF MakeDir, RemoveDir, config, handler, watcher
<1>12. CASE EditYml \/ EventStep \/ UNCHANGED vars
  BY <1>8, <1>12 DEF EditYml, EventStep, vars, config, handler, watcher
<1> QED
  BY <1>2, <1>3, <1>4, <1>5, <1>6, <1>7, <1>9, <1>10, <1>11, <1>12 DEF Next, MainStep, WatcherStep

LEMMA NamesHold == Spec => [](NameInv /\ HandlerFits)
<1>1. Init => NameInv /\ HandlerFits
  BY InitNames
<1>2. NameInv /\ HandlerFits /\ [Next]_vars => (NameInv /\ HandlerFits)'
  BY NameStep, HandlerStep
<1> QED
  BY <1>1, <1>2, PTL DEF Spec

(* Type correctness of Transfers.                                          *)
THEOREM TransferTypes == Spec => []TypeOK
<1>1. NameInv /\ HandlerFits => TypeOK
  BY DEF NameInv
<1> QED
  BY <1>1, NamesHold, PTL

(* The names in tree_wd never attribute an event to another directory: no  *)
(* number is given twice, and a name stays while an event may need it.     *)
THEOREM NoWrongName == Spec => []EventsAreNamed
<1>1. NameInv /\ HandlerFits => EventsAreNamed
  BY DEF NameInv
<1> QED
  BY <1>1, NamesHold, PTL

-----------------------------------------------------------------------------
(***************************************************************************)
(* No transfer is forgotten.                                               *)
(***************************************************************************)

LEMMA HomeFacts ==
    ASSUME NEW t \in Transfers
    PROVE  /\ HomeOf(t) \in Steady /\ HomeOf(t) \in Dirs
           /\ Fits(fileMap) /\ t \in Keys(fileMap) /\ fileMap \in Choice => Home(t) = HomeOf(t)
<1>1. HomeOf(t) \in Steady
  BY HomesStay DEF HomeOf
<1>2. Steady \subseteq Dirs
  BY TreeOfPaths
<1>3. ASSUME Fits(fileMap), t \in Keys(fileMap), fileMap \in Choice
      PROVE  Home(t) = HomeOf(t)
  BY <1>3, ConstantFacts DEF Fits, Keys, Choice, Kinds, Home, HomeOf
<1> QED
  BY <1>1, <1>2, <1>3

(* The watch of a transfer's directory stays, and a failure that was       *)
(* logged stays so.                                                        *)
LEMMA HomeStaysWatched ==
    ASSUME NameInv, [Next]_vars, NEW t \in Transfers
    PROVE  /\ Watched(HomeOf(t)) => Watched(HomeOf(t))'
           /\ logged \subseteq logged'
<1> DEFINE h == HomeOf(t)
<1>1. h \in Steady /\ Root \notin Dirs
  BY HomeFacts, ConstantFacts
<1>2. dirs \in [Dirs -> 0..made] /\ made \in Nat /\ watching \subseteq 1..made
  BY DEF NameInv, TypeOK, DiskTypes, WatchTypes
<1> HIDE DEF h
<1>3. CASE UNCHANGED <<dirs, watching, logged>>
  BY <1>3 DEF Watched
<1>4. ASSUME NEW d \in Dirs, MakeDir(d)
      PROVE  (Watched(h) => Watched(h)') /\ logged \subseteq logged'
  BY <1>2, <1>4 DEF MakeDir, Watched, inotify
<1>5. ASSUME NEW d \in Dirs, RemoveDir(d)
      PROVE  (Watched(h) => Watched(h)') /\ logged \subseteq logged'
  <2>1. d \notin Steady /\ dirs[d] # 0 /\ watching' = watching \ {dirs[d]}
        /\ dirs' = [dirs EXCEPT ![d] = 0] /\ logged' = logged
    BY <1>5 DEF RemoveDir
  <2>2. Watched(h) => h \in Dirs /\ h # d /\ dirs[h] # 0
    BY <1>1, <1>2, <2>1 DEF Watched
  <2>3. Watched(h) => dirs[h] # dirs[d]
    BY <2>2 DEF NameInv, NumbersFit
  <2> QED
    BY <1>2, <2>1, <2>2, <2>3 DEF Watched
<1>6. CASE CreateWatcher
  <2>1. watching' = watching /\ logged \subseteq logged'
    BY <1>6 DEF CreateWatcher, inotify
  <2>2. ASSUME NEW d \in Dirs, dirs[d] # 0 PROVE dirs'[d] = dirs[d]
    <3>1. CASE UNCHANGED dirs
      BY <3>1
    <3>2. ASSUME NEW e \in Dirs, mkdirRecursive(e) PROVE dirs'[d] = dirs[d]
      <4>1. d \notin Missing(e)
        BY <2>2 DEF Missing, Exists
      <4> QED
        BY <3>2, <4>1 DEF mkdirRecursive
    <3> QED
      BY <1>6, <3>1, <3>2, CreateMakes
  <2> QED
    BY <1>2, <2>1, <2>2 DEF Watched
<1>7. CASE Add
  BY <1>7 DEF Add, walkUnchanged, inotify, Watched
<1>8. CASE Visit
  BY <1>8 DEF Visit, walkUnchanged, inotify, Watched
<1>9. ASSUME NEW f \in Files, Write(f) \/ RemoveFile(f) PROVE UNCHANGED <<dirs, watching, logged>>
  BY <1>9 DEF Write, RemoveFile, inotify
<1>10. CASE EditYml \/ EventStep \/ UNCHANGED vars
  BY <1>10, <1>3 DEF EditYml, EventStep, vars, disk, inotify, history
<1>11. CASE Gauge \/ Reload \/ MainStep
  BY <1>11, <1>3 DEF Gauge, Reload, MainStep, check, paser, Load, UpdateBegin, UpdatePush, UpdateAssign,
     GaugeDone, others, disk, inotify, history
<1>12. CASE ConsumePop \/ ConsumeLookup \/ Scan \/ NextEvent \/ ParseUnnamed \/ ParseEvent \/ Dispatch
  BY <1>12, <1>3 DEF ConsumePop, ConsumeLookup, Scan, NextEvent, ParseUnnamed, ParseEvent, Dispatch, inotify
<1> QED
  BY <1>3, <1>4, <1>5, <1>6, <1>7, <1>8, <1>9, <1>10, <1>11, <1>12 DEF Next, WatcherStep, h

LEMMA TailEnd ==
    ASSUME NEW S, NEW q \in Seq(S), q # <<>>
    PROVE  /\ Tail(q) # <<>> => Tail(q)[Len(Tail(q))] = q[Len(q)]
           /\ Tail(q) = <<>> => Head(q) = q[Len(q)]
<1>1. Len(q) \in Nat /\ Len(q) >= 1 /\ Head(q) = q[1]
  BY EmptySeq
<1>2. Tail(q) \in Seq(S) /\ Len(Tail(q)) = Len(q) - 1
      /\ \A i \in 1..Len(Tail(q)) : Tail(q)[i] = q[i + 1]
  BY HeadTailProperties
<1>3. \A r \in Seq(S) : r = <<>> <=> Len(r) = 0
  BY EmptySeq
<1>4. Tail(q) = <<>> <=> Len(Tail(q)) = 0
  BY <1>2, <1>3
<1>5. ASSUME Tail(q) = <<>> PROVE Head(q) = q[Len(q)]
  BY <1>1, <1>2, <1>4, <1>5
<1>6. ASSUME Tail(q) # <<>> PROVE Tail(q)[Len(Tail(q))] = q[Len(q)]
  <2>1. Len(Tail(q)) \in 1..Len(Tail(q)) /\ Len(Tail(q)) + 1 = Len(q)
    BY <1>1, <1>2, <1>4, <1>6
  <2> QED
    BY <1>2, <2>1
<1> QED
  BY <1>5, <1>6

LEMMA ConcatEnd ==
    ASSUME NEW S, NEW p \in Seq(S), NEW q \in Seq(S), q # <<>>
    PROVE  p \o q # <<>> /\ (p \o q)[Len(p \o q)] = q[Len(q)]
<1>1. Len(q) \in Nat /\ Len(q) >= 1 /\ Len(p) \in Nat
  BY EmptySeq
<1>2. Len(p \o q) = Len(p) + Len(q) /\ p \o q \in Seq(S)
      /\ \A i \in 1..Len(p \o q) : (p \o q)[i] = IF i <= Len(p) THEN p[i] ELSE q[i - Len(p)]
  BY ConcatProperties
<1>3. Len(p \o q) \in 1..Len(p \o q) /\ ~(Len(p \o q) <= Len(p)) /\ Len(p \o q) - Len(p) = Len(q)
  BY <1>1, <1>2
<1>4. (p \o q)[Len(p \o q)] = q[Len(p \o q) - Len(p)]
  BY <1>2, <1>3
<1>5. Len(p \o q) # 0 /\ Len(<<>>) = 0
  BY <1>1, <1>2
<1> QED
  BY <1>3, <1>4, <1>5

(* The last step of the walk.                                              *)
Ending == \/ todo[Len(todo)] = <<"add", HomeOf(job.path)>>
          \/ todo[Len(todo)] = <<"visit", job.path>> /\ job.path \in Dirs

LEMMA VisitEnd ==
    ASSUME NameInv, WalkFits, Visit
    PROVE  WalkFits'
<1> DEFINE p == Head(todo)[2]
<1>1. /\ at = "walk" /\ todo # <<>> /\ p \in Paths /\ Head(todo) = <<"visit", p>>
      /\ todo \in Seq(WalkSteps) /\ Tail(todo) \in Seq(WalkSteps)
  BY FirstStep DEF Visit, NameInv
<1>2. Ending
  BY <1>1 DEF WalkFits, Ending
<1>3. job' = job /\ at' = at
  BY DEF Visit, walkUnchanged
<1>4. CASE ~Exists(p) /\ todo' = GivenUp(Parent[p]) /\ (todo' = <<>> => job.path \in logged')
  BY <1>1, <1>2, <1>3, <1>4, GivenUpEnd DEF NameInv, WalkFits, Ending
<1>5. CASE p \in files /\ todo' = Tail(todo)
  <2>1. p \notin Dirs
    BY <1>5, ConstantFacts DEF NameInv, TypeOK, DiskTypes
  <2>2. todo' # <<>>
    <3>1. SUFFICES ASSUME Tail(todo) = <<>> PROVE FALSE
      BY <1>5
    <3>2. todo[Len(todo)] = <<"visit", p>>
      BY <1>1, <3>1, TailEnd
    <3> QED
      BY <1>2, <2>1, <3>2 DEF Ending
  <2>3. todo'[Len(todo')] = todo[Len(todo)]
    BY <1>1, <1>5, <2>2, TailEnd
  <2> QED
    BY <1>2, <1>3, <2>2, <2>3 DEF WalkFits, Ending
<1>6. CASE p \in Dirs /\ todo' \in {q \o Tail(todo) : q \in Listed(p)}
  <2>1. PICK q \in Listed(p) : todo' = q \o Tail(todo)
    BY <1>6
  <2>2. q \in Seq(WalkSteps) /\ q # <<>> /\ q[Len(q)] = <<"add", p>>
    BY <1>6, ListedEnd
  <2>3. CASE Tail(todo) = <<>>
    <3>1. todo' = q
      BY <2>1, <2>2, <2>3, ConcatEmptySeq
    <3>2. todo[Len(todo)] = <<"visit", p>>
      BY <1>1, <2>3, TailEnd
    <3>3. p = job.path
      BY <1>2, <3>2 DEF Ending
    <3>4. HomeOf(p) = p
      BY <1>6, ConstantFacts DEF HomeOf
    <3> QED
      BY <1>3, <2>2, <3>1, <3>3, <3>4 DEF WalkFits
  <2>4. CASE Tail(todo) # <<>>
    <3>1. todo' # <<>> /\ todo'[Len(todo')] = Tail(todo)[Len(Tail(todo))]
      BY <1>1, <2>1, <2>2, <2>4, ConcatEnd
    <3>2. Tail(todo)[Len(Tail(todo))] = todo[Len(todo)]
      BY <1>1, <2>4, TailEnd
    <3> QED
      BY <1>2, <1>3, <3>1, <3>2 DEF WalkFits, Ending
  <2> QED
    BY <2>3, <2>4
<1> QED
  BY <1>4, <1>5, <1>6 DEF Visit

LEMMA AddEnd ==
    ASSUME NameInv, WalkFits, Add
    PROVE  WalkFits'
<1>0. PICK d : d = Head(todo)[2]
  OBVIOUS
<1>1. /\ at = "walk" /\ todo # <<>> /\ d \in Dirs \union {Root} /\ Head(todo) = <<"add", d>>
      /\ todo \in Seq(WalkSteps) /\ Tail(todo) \in Seq(WalkSteps)
  BY <1>0, FirstStep DEF Add, NameInv
<1>2. Ending
  BY <1>1 DEF WalkFits, Ending
<1>3. job' = job /\ at' = at /\ dirs' = dirs
  BY DEF Add, walkUnchanged
<1>4. ASSUME Tail(todo) # <<>> PROVE Tail(todo)[Len(Tail(todo))] = todo[Len(todo)]
  BY <1>1, <1>4, TailEnd
<1>5. ASSUME Tail(todo) = <<>> PROVE d = HomeOf(job.path)
  <2>1. todo[Len(todo)] = <<"add", d>>
    BY <1>1, <1>5, TailEnd
  <2> QED
    BY <1>2, <2>1 DEF Ending
<1>6. CASE todo' = Tail(todo) /\ (d = Root \/ (d # Root /\ watching' = watching \union {dirs[d]}))
  <2>1. d = Root \/ Watched(d)'
    BY <1>1, <1>3, <1>6 DEF Watched
  <2>2. CASE Tail(todo) # <<>>
    BY <1>2, <1>3, <1>4, <1>6, <2>2 DEF WalkFits, Ending
  <2>3. CASE Tail(todo) = <<>>
    <3>1. job.path \in Transfers => d # Root
      BY <1>5, <2>3, HomeFacts, ConstantFacts
    <3> QED
      BY <1>3, <1>6, <2>1, <2>3, <3>1, <1>5 DEF WalkFits
  <2> QED
    BY <2>2, <2>3
<1>7. CASE todo' \in {Tail(todo), <<>>} /\ (todo' = <<>> => job.path \in logged')
  BY <1>2, <1>3, <1>4, <1>7 DEF WalkFits, Ending
<1> QED
  BY <1>0, <1>6, <1>7 DEF Add

LEMMA CreateEnd ==
    ASSUME NameInv, CreateWatcher
    PROVE  WalkFits'
<1>1. /\ job.path \in Paths /\ job.kind \in Kinds
      /\ job.kind = "file" => job.path \in Files
      /\ job.kind # "file" => job.path \in Dirs
      /\ job.back \in {"next", "config"}
  BY DEF CreateWatcher, NameInv, TypeOK, ThreadTypes, JobFits, Kinds
<1>2. CASE at' # "walk"
  BY <1>2 DEF WalkFits
<1>3. CASE at' = "walk"
  <2>1. job' = job /\ todo' = <<CASE job.kind = "file"      -> <<"add", Parent[job.path]>>
                                  [] job.kind = "recursive" -> <<"visit", job.path>>
                                  [] OTHER                  -> <<"add", job.path>>>>
    BY <1>1, <1>3 DEF CreateWatcher, Goto
  <2>2. job.path \in Dirs => HomeOf(job.path) = job.path
    BY ConstantFacts DEF HomeOf
  <2>3. todo' # <<>> /\ \/ todo'[Len(todo')] = <<"add", HomeOf(job'.path)>>
                        \/ todo'[Len(todo')] = <<"visit", job'.path>>
    BY <1>1, <2>1, <2>2 DEF HomeOf
  <2> QED
    BY <1>1, <2>1, <2>3 DEF WalkFits
<1> QED
  BY <1>2, <1>3

LEMMA WalkStep ==
    ASSUME NameInv, WalkFits, [Next]_vars
    PROVE  WalkFits'
<1>1. CASE CreateWatcher
  BY <1>1, CreateEnd
<1>2. CASE Visit \/ Add
  BY <1>2, VisitEnd, AddEnd
<1>3. CASE at' # "walk"
  BY <1>3 DEF WalkFits
<1>4. CASE UNCHANGED <<at, todo, job>>
  <2>1. \A t \in Transfers : (Watched(HomeOf(t)) => Watched(HomeOf(t))') /\ logged \subseteq logged'
    BY HomeStaysWatched
  <2> QED
    BY <1>4, <2>1 DEF WalkFits
<1>5. CASE Scan
  <2>1. at' # "walk"
    BY <1>5 DEF Scan, Goto, NameInv, TypeOK, ThreadTypes
  <2> QED
    BY <1>3, <2>1
<1>6. CASE ConsumePop \/ ConsumeLookup \/ NextEvent \/ ParseEvent \/ Dispatch
  BY <1>3, <1>6 DEF ConsumePop, ConsumeLookup, NextEvent, ParseEvent, Dispatch, Goto
<1>7. CASE ParseUnnamed \/ EditYml \/ EventStep \/ UNCHANGED vars
  BY <1>4, <1>7 DEF ParseUnnamed, EditYml, EventStep, vars, watcher
<1>8. CASE Gauge \/ Reload \/ MainStep
  BY <1>4, <1>8 DEF Gauge, Reload, MainStep, check, paser, Load, UpdateBegin, UpdatePush, UpdateAssign,
     GaugeDone, others, watcher
<1>9. ASSUME NEW f \in Files, Write(f) \/ RemoveFile(f) PROVE UNCHANGED <<at, todo, job>>
  BY <1>9 DEF Write, RemoveFile, watcher
<1>10. ASSUME NEW d \in Dirs, MakeDir(d) \/ RemoveDir(d) PROVE UNCHANGED <<at, todo, job>>
  BY <1>10 DEF MakeDir, RemoveDir, watcher
<1> QED
  BY <1>1, <1>2, <1>4, <1>5, <1>6, <1>7, <1>8, <1>9, <1>10 DEF Next, WatcherStep

(* What is queued is still queued after the first is taken.                *)
LEMMA TailRange ==
    ASSUME NEW S, NEW q \in Seq(S), NEW x \in Range(q), q # <<>>
    PROVE  x = Head(q) \/ x \in Range(Tail(q))
<1>1. PICK i \in 1..Len(q) : x = q[i]
  BY DEF Range
<1>2. i # 1 => i - 1 \in 1..Len(Tail(q)) /\ Tail(q)[i - 1] = x
  BY <1>1
<1>3. i = 1 => x = Head(q)
  BY <1>1
<1>4. i # 1 => x \in Range(Tail(q))
  <2>1. DOMAIN Tail(q) = 1..Len(Tail(q))
    BY LenProperties
  <2> QED
    BY <1>2, <2>1 DEF Range
<1> QED
  BY <1>3, <1>4

(* A transfer that waits for createWatcher goes on waiting, until it is    *)
(* looked up and is no transfer any more, or createWatcher ends.           *)
LEMMA AwaitedStays ==
    ASSUME NameInv, HandlerFits, [Next]_vars, ~CreateWatcher, ~Scan,
           NEW t \in Transfers, Awaited(t), fileMap'[t] # None
    PROVE  Awaited(t)'
<1>1. cfgQueue \in Seq(Transfers) /\ left \in Seq(Transfers) /\ infos \in Choice /\ t # None
  BY YmlFits, ConstantFacts DEF NameInv, TypeOK, ConfigTypes
<1>2. CASE UNCHANGED <<main, left, cfgQueue, job>>
  BY <1>2 DEF Awaited
<1>3. CASE Reload \/ check \/ paser \/ UpdateBegin
  <2>1. main \notin {"push", "assign"} /\ cfgQueue' = cfgQueue /\ job' = job
    BY <1>3 DEF Reload, check, paser, Load, UpdateBegin, others, watcher, config
  <2> QED
    BY <2>1 DEF Awaited
<1>4. CASE UpdatePush
  <2>1. main' = "assign" /\ left' = left /\ job' = job /\ cfgQueue' = Append(cfgQueue, Head(left))
        /\ main = "push" /\ Head(left) \in Transfers
    BY <1>1, <1>4 DEF UpdatePush, HandlerFits, others, watcher
  <2>2. Range(cfgQueue) \subseteq Range(cfgQueue')
    <3>1. Len(cfgQueue') = Len(cfgQueue) + 1 /\ cfgQueue' \in Seq(Transfers) /\ Len(cfgQueue) \in Nat
          /\ \A i \in 1..Len(cfgQueue) : cfgQueue'[i] = cfgQueue[i]
      BY <1>1, <2>1, AppendProperties
    <3> QED
      BY <1>1, <3>1 DEF Range
  <2> QED
    BY <2>1, <2>2 DEF Awaited
<1>5. CASE UpdateAssign
  <2>1. main = "assign" /\ left # <<>> /\ left' = Tail(left) /\ cfgQueue' = cfgQueue /\ job' = job
        /\ main' = IF Len(left) = 1 THEN "run" ELSE "push"
    BY <1>5 DEF UpdateAssign, HandlerFits, others, watcher
  <2>2. CASE t = Head(left)
    BY <2>1, <2>2 DEF HandlerFits, Awaited
  <2>3. CASE t # Head(left) /\ t \in Range(left)
    <3>1. t \in Range(Tail(left))
      BY <1>1, <2>1, <2>3, TailRange
    <3>2. Len(left) # 1
      <4>1. SUFFICES ASSUME Len(left) = 1 PROVE FALSE
        OBVIOUS
      <4>2. Tail(left) = <<>>
        BY <1>1, <2>1, <4>1, HeadTailProperties, EmptySeq
      <4> QED
        BY <3>1, <4>2 DEF Range
    <3> QED
      BY <2>1, <3>1, <3>2 DEF Awaited
  <2> QED
    BY <2>1, <2>2, <2>3 DEF Awaited
<1>6. CASE ConsumePop
  <2>1. main' = main /\ left' = left /\ job.path = None
    BY <1>6 DEF ConsumePop, keepFs, handler, NameInv, JobFits
  <2>2. CASE cfgQueue = <<>>
    BY <1>1, <1>2, <1>6, <2>1, <2>2 DEF ConsumePop
  <2>3. CASE cfgQueue # <<>>
    <3>1. job' = [NoJob EXCEPT !.path = Head(cfgQueue)] /\ cfgQueue' = Tail(cfgQueue)
      BY <1>6, <2>3 DEF ConsumePop
    <3>2. job'.path = Head(cfgQueue)
      BY <3>1 DEF NoJob
    <3>3. t \in Range(cfgQueue) => t = Head(cfgQueue) \/ t \in Range(cfgQueue')
      BY <1>1, <2>3, <3>1, TailRange
    <3> QED
      BY <1>1, <2>1, <3>2, <3>3 DEF Awaited
  <2> QED
    BY <2>2, <2>3
<1>7. CASE ConsumeLookup
  <2>1. UNCHANGED <<main, left, cfgQueue, fileMap>>
    BY <1>7 DEF ConsumeLookup, keepFs, handler
  <2>2. job'.path = job.path \/ ~Found(job.path)
    <3>1. job \in [path : Paths \union {None}, kind : Kinds \union {None}, back : {"next", "config"}]
      BY DEF NameInv, TypeOK, ThreadTypes
    <3> QED
      BY <1>7, <3>1 DEF ConsumeLookup
  <2>3. ~Found(job.path) => job.path # t
    BY <1>1, <2>1 DEF Found
  <2> QED
    BY <2>1, <2>2, <2>3 DEF Awaited
<1>8. CASE Dispatch
  <2>1. UNCHANGED <<main, left, cfgQueue>> /\ job.path = None
    BY <1>8 DEF Dispatch, keepFs, handler, NameInv, JobFits
  <2> QED
    BY <1>1, <2>1 DEF Awaited
<1>9. CASE Visit \/ Add \/ NextEvent \/ ParseUnnamed \/ ParseEvent
  BY <1>2, <1>9 DEF Visit, Add, walkUnchanged, NextEvent, ParseUnnamed, ParseEvent, keepFs, handler, watcher
<1>10. CASE Gauge \/ GaugeDone \/ EditYml \/ EventStep \/ UNCHANGED vars
  BY <1>2, <1>10 DEF Gauge, GaugeDone, EditYml, EventStep, vars, others, watcher, handler, config
<1>11. ASSUME NEW f \in Files, Write(f) \/ RemoveFile(f) PROVE UNCHANGED <<main, left, cfgQueue, job>>
  BY <1>11 DEF Write, RemoveFile, watcher, handler, config
<1>12. ASSUME NEW d \in Dirs, MakeDir(d) \/ RemoveDir(d) PROVE UNCHANGED <<main, left, cfgQueue, job>>
  BY <1>12 DEF MakeDir, RemoveDir, watcher, handler, config
<1> QED
  BY <1>2, <1>3, <1>4, <1>5, <1>6, <1>7, <1>8, <1>9, <1>10, <1>11, <1>12 DEF Next, MainStep, WatcherStep

(* When createWatcher ends, its directory is watched or a failure was      *)
(* logged.                                                                 *)
LEMMA AwaitedStep ==
    ASSUME NameInv, HandlerFits, WalkFits, [Next]_vars,
           NEW t \in Transfers, Awaited(t), fileMap'[t] # None
    PROVE  \/ Awaited(t)' \/ t \in logged'
           \/ Watched(HomeOf(t))
<1>1. CASE CreateWatcher
  <2>1. UNCHANGED <<main, left, cfgQueue>> /\ (job' = job \/ job.path \in logged')
    BY <1>1 DEF CreateWatcher, keepFs, handler
  <2> QED
    BY <2>1 DEF Awaited
<1>2. CASE Scan
  <2>1. UNCHANGED <<main, left, cfgQueue, logged>> /\ at = "walk" /\ todo = <<>>
    BY <1>2 DEF Scan, keepFs, handler
  <2> QED
    BY <2>1 DEF Awaited, WalkFits
<1> QED
  BY <1>1, <1>2, AwaitedStays

(* Only the handler of SIGUSR1 changes the transfers.                      *)
LEMMA ConfigStays ==
    ASSUME [Next]_vars
    PROVE  fileMap' = fileMap \/ UpdateBegin \/ UpdateAssign
<1>1. ASSUME NEW f \in Files, Write(f) \/ RemoveFile(f) PROVE fileMap' = fileMap
  BY <1>1 DEF Write, RemoveFile, config
<1>2. ASSUME NEW d \in Dirs, MakeDir(d) \/ RemoveDir(d) PROVE fileMap' = fileMap
  BY <1>2 DEF MakeDir, RemoveDir, config
<1>3. CASE EditYml \/ EventStep \/ Gauge \/ Reload \/ check \/ paser \/ GaugeDone \/ UpdatePush
           \/ UNCHANGED vars
  BY <1>3 DEF EditYml, EventStep, Gauge, Reload, check, paser, Load, GaugeDone, UpdatePush, vars, config
<1>4. CASE WatcherStep
  BY <1>4 DEF WatcherStep, ConsumePop, ConsumeLookup, CreateWatcher, Visit, Add, walkUnchanged, Scan,
     NextEvent, ParseUnnamed, ParseEvent, Dispatch, keepFs
<1> QED
  BY <1>1, <1>2, <1>3, <1>4 DEF Next, MainStep

LEMMA WatchedStep ==
    ASSUME NameInv, HandlerFits, WalkFits, TransferIsWatched, [Next]_vars
    PROVE  TransferIsWatched'
<1>1. fileMap \in Choice /\ Fits(fileMap) /\ infos \in Choice /\ left \in Seq(Transfers)
  BY YmlFits DEF NameInv, TypeOK, ConfigTypes, JobFits
<1>2. fileMap' \in Choice /\ Fits(fileMap)'
  BY NameStep DEF NameInv, TypeOK, ConfigTypes, JobFits
<1> SUFFICES ASSUME NEW t \in Transfers, fileMap'[t] # None
             PROVE  Awaited(t)' \/ Watched(HomeOf(t))' \/ t \in logged'
  <2>1. ASSUME NEW t \in Keys(fileMap') PROVE Home(t)' = HomeOf(t)
    BY <1>2, <2>1, ConstantFacts DEF Fits, Keys, Choice, Kinds, Home, HomeOf
  <2> QED
    BY <2>1 DEF TransferIsWatched, Keys
<1>3. (Watched(HomeOf(t)) => Watched(HomeOf(t))') /\ logged \subseteq logged'
  BY HomeStaysWatched
<1>4. CASE Awaited(t)
  BY <1>3, <1>4, AwaitedStep
<1>5. CASE fileMap[t] # None /\ ~Awaited(t)
  <2>1. Home(t) = HomeOf(t) /\ t \in Keys(fileMap)
    BY <1>1, <1>5, HomeFacts DEF Keys
  <2> QED
    BY <1>3, <1>5, <2>1 DEF TransferIsWatched
<1>6. CASE fileMap[t] = None
  \* Only the handler stores a transfer, after it has queued it.
  <2>1. UpdateAssign \/ fileMap' = fileMap \/ UpdateBegin
    BY ConfigStays
  <2>2. ~UpdateBegin
    BY <1>1, <1>6 DEF UpdateBegin
  <2>3. UpdateAssign
    BY <1>6, <2>1, <2>2
  <2>4. t = Head(left)
    BY <1>1, <1>6, <2>3 DEF UpdateAssign, Choice
  <2>5. Awaited(t)
    BY <2>3, <2>4 DEF UpdateAssign, HandlerFits, Awaited
  <2> QED
    BY <1>3, <2>5, AwaitedStep
<1> QED
  BY <1>4, <1>5, <1>6

LEMMA InitWatched ==
    ASSUME Init
    PROVE  WalkFits /\ TransferIsWatched
<1>1. yml \in YmlChoices /\ fileMap = yml /\ cfgQueue \in Orders(yml) /\ at = "config"
  BY DEF Init
<1>2. Range(cfgQueue) = Keys(fileMap)
  BY <1>1, YmlFits, OrdersList
<1> QED
  BY <1>1, <1>2 DEF WalkFits, TransferIsWatched, Awaited

(* A transfer that is configured is with createWatcher, or will be, or its *)
(* directory is watched, or the log says why not: updateFileInfo queues it *)
(* before it stores it, and consumerConfig cannot look it up in between.   *)
THEOREM NoTransferForgotten == Spec => []TransferIsWatched
<1> DEFINE I == (NameInv /\ HandlerFits) /\ WalkFits /\ TransferIsWatched
<1>1. Init => I
  BY InitNames, InitWatched
<1>2. I /\ [Next]_vars => I'
  BY NameStep, HandlerStep, WalkStep, WatchedStep
<1>3. I => TransferIsWatched
  OBVIOUS
<1> HIDE DEF I
<1> QED
  BY <1>1, <1>2, <1>3, PTL DEF Spec

-----------------------------------------------------------------------------
(***************************************************************************)
(* Theorems about Transfers: a change of a configured file has a carrier   *)
(* to the reader until it is read, and a subdirectory of a recursive       *)
(* transfer is watched or will be.                                         *)
(***************************************************************************)

(***************************************************************************)
(* What is in a sequence.                                                  *)
(***************************************************************************)

LEMMA RangeJoin ==
    ASSUME NEW S, NEW p \in Seq(S), NEW q \in Seq(S)
    PROVE  Range(p \o q) = Range(p) \union Range(q)
<1>1. /\ Len(p) \in Nat /\ Len(q) \in Nat /\ DOMAIN p = 1..Len(p) /\ DOMAIN q = 1..Len(q)
      /\ Len(p \o q) = Len(p) + Len(q) /\ DOMAIN (p \o q) = 1..Len(p \o q)
      /\ \A i \in 1..Len(p \o q) : (p \o q)[i] = IF i <= Len(p) THEN p[i] ELSE q[i - Len(p)]
  <2>1. p \o q \in Seq(S)
    BY ConcatProperties
  <2> QED
    BY <2>1, ConcatProperties, LenProperties
<1>2. ASSUME NEW x \in Range(p \o q) PROVE x \in Range(p) \union Range(q)
  <2>1. PICK i \in 1..Len(p \o q) : x = (p \o q)[i]
    BY <1>1 DEF Range
  <2>2. CASE i <= Len(p)
    BY <1>1, <2>1, <2>2 DEF Range
  <2>3. CASE ~(i <= Len(p))
    <3>1. i - Len(p) \in 1..Len(q)
      BY <1>1, <2>1, <2>3
    <3> QED
      BY <1>1, <2>1, <2>3, <3>1 DEF Range
  <2> QED
    BY <2>2, <2>3
<1>3. ASSUME NEW x \in Range(p) PROVE x \in Range(p \o q)
  <2>1. PICK i \in 1..Len(p) : x = p[i]
    BY <1>1 DEF Range
  <2>2. i \in 1..Len(p \o q) /\ i <= Len(p)
    BY <1>1, <2>1
  <2> QED
    BY <1>1, <2>1, <2>2 DEF Range
<1>4. ASSUME NEW x \in Range(q) PROVE x \in Range(p \o q)
  <2>1. PICK i \in 1..Len(q) : x = q[i]
    BY <1>1 DEF Range
  <2>2. i + Len(p) \in 1..Len(p \o q) /\ ~(i + Len(p) <= Len(p)) /\ (i + Len(p)) - Len(p) = i
    BY <1>1, <2>1
  <2>3. (p \o q)[i + Len(p)] = q[i]
    BY <1>1, <2>2
  <2> QED
    BY <1>1, <2>1, <2>2, <2>3 DEF Range
<1> QED
  BY <1>2, <1>3, <1>4

LEMMA RangeAppend ==
    ASSUME NEW S, NEW q \in Seq(S), NEW x \in S
    PROVE  Range(Append(q, x)) = Range(q) \union {x}
<1> DEFINE one == <<x>>
<1>1. one \in Seq(S) /\ Append(q, x) = q \o one /\ Range(one) = {x}
  BY AppendIsConcat DEF Range
<1> HIDE DEF one
<1>2. Range(q \o one) = Range(q) \union Range(one)
  BY <1>1, RangeJoin
<1> QED
  BY <1>1, <1>2, Zenon

LEMMA RangeTail ==
    ASSUME NEW S, NEW q \in Seq(S), q # <<>>
    PROVE  Range(q) = {Head(q)} \union Range(Tail(q)) /\ Head(q) = q[1] /\ Head(q) \in S
<1>1. Len(q) \in Nat /\ Len(q) >= 1 /\ Head(q) = q[1] /\ DOMAIN q = 1..Len(q)
  BY EmptySeq, LenProperties
<1>2. Head(q) \in Range(q) /\ Head(q) \in S
  BY <1>1 DEF Range
<1>3. Tail(q) \in Seq(S) /\ Len(Tail(q)) = Len(q) - 1 /\ DOMAIN Tail(q) = 1..Len(Tail(q))
      /\ \A i \in 1..Len(Tail(q)) : Tail(q)[i] = q[i + 1]
  BY HeadTailProperties, LenProperties
<1>4. ASSUME NEW x \in Range(Tail(q)) PROVE x \in Range(q)
  <2>1. PICK i \in 1..Len(Tail(q)) : x = Tail(q)[i]
    BY <1>3 DEF Range
  <2>2. i + 1 \in 1..Len(q) /\ x = q[i + 1]
    BY <1>1, <1>3, <2>1
  <2> QED
    BY <1>1, <2>2 DEF Range
<1>5. \A x \in Range(q) : x = Head(q) \/ x \in Range(Tail(q))
  BY TailRange
<1> QED
  BY <1>1, <1>2, <1>4, <1>5

-----------------------------------------------------------------------------
(***************************************************************************)
(* The kernel's queue.                                                     *)
(***************************************************************************)

(* What is queued stays, and what comes is queued, or lost as the last     *)
(* event says.                                                             *)
LEMMA QueuedGrows ==
    ASSUME NEW q \in Seq(KernelEvents), NEW e \in KernelEvents
    PROVE  /\ Range(q) \subseteq Range(Queued(q, e))
           /\ e \in Range(Queued(q, e)) \/ Lost \in Range(Queued(q, e))
<1>1. Lost \in KernelEvents
  BY DEF KernelEvents
<1>2. CASE q # <<>> /\ q[Len(q)] \in {e, Lost}
  <2>1. q[Len(q)] \in Range(q)
    BY <1>2, EmptySeq DEF Range
  <2> QED
    BY <1>2, <2>1 DEF Queued
<1>3. CASE ~(q # <<>> /\ q[Len(q)] \in {e, Lost})
  BY <1>1, <1>3, RangeAppend DEF Queued
<1> QED
  BY <1>2, <1>3

LEMMA ReportGrows ==
    ASSUME TypeOK, NEW q \in Seq(KernelEvents), NEW mask \in {"CREATE", "DELETE", "MODIFY"}, NEW p \in Paths
    PROVE  /\ Range(q) \subseteq Range(Report(q, mask, p))
           /\ Watched(Parent[p]) =>
                 \E e \in Range(Report(q, mask, p)) : e.wd = Overflow \/ (e.mask = mask /\ e.path = p)
<1>1. CASE ~Watched(Parent[p])
  BY <1>1 DEF Report
<1>2. CASE Watched(Parent[p])
  <2> DEFINE e == [wd |-> dirs[Parent[p]], path |-> p, mask |-> mask]
  <2>1. dirs[Parent[p]] \in Nat
    <3>1. dirs \in [Dirs -> 0..made] /\ made \in Nat
      BY DEF TypeOK, DiskTypes
    <3>2. Parent[p] \in Dirs
      BY <1>2 DEF Watched
    <3> QED
      BY <3>1, <3>2
  <2>2. e \in KernelEvents /\ e.mask = mask /\ e.path = p /\ Lost.wd = Overflow
    BY <2>1 DEF KernelEvents, Lost
  <2>3. Report(q, mask, p) = Queued(q, e)
    BY <1>2 DEF Report
  <2> HIDE DEF e
  <2> QED
    BY <2>2, <2>3, QueuedGrows
<1> QED
  BY <1>1, <1>2

-----------------------------------------------------------------------------
(***************************************************************************)
(* The tree.                                                               *)
(***************************************************************************)

LEMMA AboveIs ==
    ASSUME NEW p \in Paths
    PROVE  Above[p] \subseteq Dirs \union {Root} /\ Parent[p] \in Above[p] /\ Rising(Above[p])
<1> DEFINE D == Dirs \union {Root}
<1>1. p # Root /\ Parent[p] \in D /\ Dirs \subseteq Paths /\ \A x \in Dirs : Parent[x] \in D
  BY ConstantFacts
<1>2. Above[p] = {x \in D : \A S \in SUBSET D : Parent[p] \in S /\ Rising(S) => x \in S}
  BY <1>1 DEF Above
<1>3. ASSUME NEW x \in Above[p] \ {Root} PROVE Parent[x] \in Above[p]
  <2>1. x \in Dirs /\ \A S \in SUBSET D : Parent[p] \in S /\ Rising(S) => x \in S
    BY <1>2, <1>3
  <2>2. ASSUME NEW S \in SUBSET D, Parent[p] \in S, Rising(S) PROVE Parent[x] \in S
    BY <1>3, <2>1, <2>2 DEF Rising
  <2> QED
    BY <1>1, <1>2, <2>1, <2>2
<1> QED
  BY <1>1, <1>2, <1>3 DEF Rising

LEMMA AboveLeast ==
    ASSUME NEW p \in Paths, NEW S, Parent[p] \in S, \A x \in S : x \in Dirs => Parent[x] \in S
    PROVE  Above[p] \subseteq S
<1> DEFINE D == Dirs \union {Root}
<1>1. p # Root /\ Parent[p] \in D /\ Dirs \subseteq Paths /\ \A x \in Dirs : Parent[x] \in D
  BY ConstantFacts
<1>2. Above[p] = {x \in D : \A T \in SUBSET D : Parent[p] \in T /\ Rising(T) => x \in T}
  BY <1>1 DEF Above
<1>3. S \intersect D \in SUBSET D /\ Parent[p] \in S \intersect D /\ Rising(S \intersect D)
  BY <1>1 DEF Rising
<1> QED
  BY <1>2, <1>3

LEMMA AboveUp ==
    ASSUME NEW p \in Paths, NEW x \in Above[p], x \in Dirs
    PROVE  Above[x] \subseteq Above[p]
<1>1. x \in Paths /\ Root \notin Dirs /\ Rising(Above[p])
  BY ConstantFacts, AboveIs
<1>2. Parent[x] \in Above[p] /\ \A y \in Above[p] : y \in Dirs => Parent[y] \in Above[p]
  BY <1>1 DEF Rising
<1> QED
  BY <1>1, <1>2, AboveLeast

LEMMA AboveStep ==
    ASSUME NEW p \in Paths, NEW x \in Above[p]
    PROVE  x = Parent[p] \/ (Parent[p] \in Dirs /\ x \in Above[Parent[p]])
<1>1. CASE Parent[p] \in Dirs
  <2> DEFINE S == {Parent[p]} \union Above[Parent[p]]
  <2>1. Parent[p] \in Paths /\ Parent[Parent[p]] \in S /\ Rising(Above[Parent[p]]) /\ Root \notin Dirs
    BY <1>1, ConstantFacts, AboveIs
  <2>2. \A y \in S : y \in Dirs => Parent[y] \in S
    BY <2>1 DEF Rising
  <2>3. Above[p] \subseteq S
    BY <2>2, AboveLeast
  <2> QED
    BY <1>1, <2>3
<1>2. CASE Parent[p] \notin Dirs
  <2>1. Above[p] \subseteq {Parent[p]}
    BY <1>2, AboveLeast
  <2> QED
    BY <2>1
<1> QED
  BY <1>1, <1>2

(* Every directory above p has a child that p is, or lies under.           *)
LEMMA AboveChild ==
    ASSUME NEW p \in Paths, NEW x \in Above[p]
    PROVE  \E c \in Paths : c \in Above[p] \union {p} /\ Parent[c] = x
<1> DEFINE S == {y \in Above[p] : \E c \in Paths : c \in Above[p] \union {p} /\ Parent[c] = y}
<1>1. Parent[p] \in Above[p] /\ Rising(Above[p]) /\ Dirs \subseteq Paths /\ Root \notin Dirs
  BY AboveIs, ConstantFacts
<1>2. Parent[p] \in S
  BY <1>1
<1>3. ASSUME NEW y \in S, y \in Dirs PROVE Parent[y] \in S
  <2>1. y \in Above[p] /\ y \in Paths /\ Parent[y] \in Above[p]
    BY <1>1, <1>3 DEF Rising
  <2> QED
    BY <2>1
<1> HIDE DEF S
<1>4. Above[p] \subseteq S
  BY <1>2, <1>3, AboveLeast
<1> QED
  BY <1>4 DEF S

(* Of two directories above p, one lies under the other.                   *)
LEMMA AboveOrdered ==
    ASSUME NEW p \in Paths, NEW a \in Paths, a \in Above[p] \union {p}
    PROVE  \A b \in Above[p] \union {p} : b = a \/ b \in Above[a] \/ (b \in Paths /\ a \in Above[b])
<1> DEFINE S == Above[a] \union {a} \union {x \in Paths : a \in Above[x]}
<1>1. p \in S
  BY DEF S
<1>2. Parent[a] \in Above[a] /\ Rising(Above[a]) /\ Root \notin Dirs /\ Dirs \subseteq Paths
  BY AboveIs, ConstantFacts
<1>3. ASSUME NEW x \in S, x \in Paths PROVE Parent[x] \in S
  <2>1. CASE x = a
    BY <1>2, <2>1
  <2>2. CASE x \in Above[a]
    <3>1. x # Root
      BY <1>3, ConstantFacts
    <3> QED
      BY <1>2, <2>2, <3>1 DEF Rising
  <2>3. CASE a \in Above[x]
    <3>1. a = Parent[x] \/ (Parent[x] \in Dirs /\ a \in Above[Parent[x]])
      BY <1>3, <2>3, AboveStep
    <3> QED
      BY <1>2, <3>1
  <2> QED
    BY <1>3, <2>1, <2>2, <2>3
<1> HIDE DEF S
<1>4. Parent[p] \in S /\ \A x \in S : x \in Dirs => Parent[x] \in S
  BY <1>1, <1>2, <1>3
<1>5. Above[p] \subseteq S
  BY <1>4, AboveLeast
<1> QED
  BY <1>1, <1>5 DEF S

(* Directories in the same directory lie under the same ones.              *)
LEMMA AboveSame ==
    ASSUME NEW p \in Paths, NEW q \in Paths, Parent[p] = Parent[q]
    PROVE  Above[p] = Above[q]
<1>1. /\ Parent[p] \in Above[q] /\ Rising(Above[q]) /\ Parent[q] \in Above[p] /\ Rising(Above[p])
      /\ Root \notin Dirs
  BY AboveIs, ConstantFacts
<1>2. /\ \A x \in Above[q] : x \in Dirs => Parent[x] \in Above[q]
      /\ \A x \in Above[p] : x \in Dirs => Parent[x] \in Above[p]
  BY <1>1 DEF Rising
<1>3. Above[p] \subseteq Above[q]
  BY <1>1, <1>2, AboveLeast
<1>4. Above[q] \subseteq Above[p]
  BY <1>1, <1>2, AboveLeast
<1> QED
  BY <1>3, <1>4

-----------------------------------------------------------------------------
(***************************************************************************)
(* What the steps leave alone.                                             *)
(***************************************************************************)

LEMMA MainTouches ==
    ASSUME Gauge \/ Reload \/ MainStep
    PROVE  UNCHANGED <<dirs, files, watching, kqueue, at, job, todo, event, batch, cache, eventQueue,
                       slipped, logged>>
  BY DEF Gauge, Reload, MainStep, check, paser, Load, UpdateBegin, UpdatePush, UpdateAssign, GaugeDone,
     others, disk, inotify, watcher, history

LEMMA WritersTouch ==
    ASSUME \/ \E f \in Files : Write(f) \/ RemoveFile(f)
           \/ \E d \in Dirs : MakeDir(d) \/ RemoveDir(d)
           \/ EditYml \/ UNCHANGED vars
    PROVE  UNCHANGED <<at, job, todo, event, batch, cache, eventQueue, main, left, infos, fileMap,
                       cfgQueue, alive, logged>>
<1>1. ASSUME NEW f \in Files, Write(f) \/ RemoveFile(f)
      PROVE  UNCHANGED <<at, job, todo, event, batch, cache, eventQueue, main, left, infos, fileMap,
                         cfgQueue, alive, logged>>
  BY <1>1 DEF Write, RemoveFile, watcher, handler, config
<1>2. ASSUME NEW d \in Dirs, MakeDir(d) \/ RemoveDir(d)
      PROVE  UNCHANGED <<at, job, todo, event, batch, cache, eventQueue, main, left, infos, fileMap,
                         cfgQueue, alive, logged>>
  BY <1>2 DEF MakeDir, RemoveDir, watcher, handler, config
<1>3. EditYml \/ UNCHANGED vars => UNCHANGED <<at, job, todo, event, batch, cache, eventQueue, main, left,
                                               infos, fileMap, cfgQueue, alive, logged>>
  BY DEF EditYml, vars, watcher, handler, config, history
<1> QED
  BY <1>1, <1>2, <1>3

LEMMA EventTouches ==
    ASSUME EventStep
    PROVE  UNCHANGED <<dirs, files, watching, kqueue, at, job, todo, event, batch, cache, main, left, infos,
                       fileMap, cfgQueue, alive, logged>>
  BY DEF EventStep, disk, inotify, watcher, handler, config

(* The watcher thread leaves the transfers alone, and mostly the disk.     *)
LEMMA WatcherTouches ==
    ASSUME WatcherStep
    PROVE  /\ UNCHANGED <<files, main, left, infos, fileMap>>
           /\ ~CreateWatcher => UNCHANGED <<dirs>>
           /\ ~Add => UNCHANGED <<watching>>
           /\ ~ConsumePop => UNCHANGED <<cfgQueue>>
           /\ ~ParseEvent => UNCHANGED <<cache>>
           /\ ~(ConsumePop \/ ConsumeLookup \/ CreateWatcher \/ Scan \/ Dispatch) => UNCHANGED <<job>>
           /\ ~(CreateWatcher \/ Visit \/ Add) => UNCHANGED <<todo, logged>>
           /\ ~(Visit \/ Dispatch) => UNCHANGED <<slipped>>
  BY DEF WatcherStep, ConsumePop, ConsumeLookup, CreateWatcher, Visit, Add, walkUnchanged, Scan,
     NextEvent, ParseUnnamed, ParseEvent, Dispatch, keepFs, handler, inotify, watcher

LEMMA StepSplit ==
    ASSUME [Next]_vars
    PROVE  \/ \E f \in Files : Write(f) \/ RemoveFile(f)
           \/ \E d \in Dirs : MakeDir(d) \/ RemoveDir(d)
           \/ EditYml \/ UNCHANGED vars
           \/ Gauge \/ Reload \/ MainStep \/ WatcherStep \/ EventStep
  BY DEF Next

-----------------------------------------------------------------------------
(***************************************************************************)
(* Directories are in directories.                                         *)
(***************************************************************************)

(* What exists is in a directory that exists.                              *)
Standing == \A p \in Paths : Exists(p) => Parent[p] = Root \/ Exists(Parent[p])

(* Above what exists there is nothing missing.                             *)
LEMMA ExistsAbove ==
    ASSUME Standing, NEW p \in Paths, Exists(p)
    PROVE  \A x \in Above[p] : x = Root \/ (x \in Dirs /\ Exists(x))
<1> DEFINE S == {x \in Dirs \union {Root} : x = Root \/ Exists(x)}
<1>1. Parent[p] \in S
  BY ConstantFacts DEF Standing
<1>2. ASSUME NEW x \in S, x \in Dirs PROVE Parent[x] \in S
  <2>1. x \in Paths /\ x # Root /\ Exists(x)
    BY <1>2, ConstantFacts
  <2> QED
    BY <2>1, ConstantFacts DEF Standing
<1> HIDE DEF S
<1>3. Above[p] \subseteq S
  BY <1>1, <1>2, AboveLeast
<1> QED
  BY <1>3 DEF S

(* mkdirRecursive gives what is missing new numbers.                       *)
LEMMA MkdirMakes ==
    ASSUME TypeOK, NEW d \in Dirs, mkdirRecursive(d)
    PROVE  /\ \A e \in Missing(d) : dirs'[e] \in Nat /\ dirs'[e] > made
           /\ \A e \in Dirs \ Missing(d) : dirs'[e] = dirs[e]
<1> DEFINE new == Missing(d)
           n   == Numbers(new)
<1>1. new \subseteq Dirs
  BY DEF Missing
<1>2. n \in [new -> 1..Cardinality(new)] /\ Cardinality(new) \in Nat
  <2>1. IsFiniteSet(new)
    BY <1>1, ConstantFacts, FS_Subset
  <2> QED
    BY <2>1, NumbersDiffer
<1>3. dirs' = [e \in Dirs |-> IF e \in new THEN made + n[e] ELSE dirs[e]] /\ made \in Nat
  BY DEF mkdirRecursive, TypeOK, DiskTypes
<1> HIDE DEF new, n
<1>4. \A e \in new : dirs'[e] \in Nat /\ dirs'[e] > made
  BY <1>1, <1>2, <1>3
<1>5. \A e \in Dirs \ new : dirs'[e] = dirs[e]
  BY <1>3
<1> QED
  BY <1>4, <1>5 DEF new

LEMMA InitStanding ==
    ASSUME Init
    PROVE  Standing
<1>1. PICK some \in AtStart :
        /\ dirs = [d \in Dirs |-> IF d \in some THEN Numbers(some \intersect Dirs)[d] ELSE 0]
        /\ files = some \intersect Files
  BY DEF Init
<1>2. some \subseteq Paths /\ \A p \in some : Parent[p] \in some \union {Root}
  BY TreeOfPaths
<1>3. \A d \in some \intersect Dirs : Numbers(some \intersect Dirs)[d] # 0
  <2>1. IsFiniteSet(some \intersect Dirs)
    BY ConstantFacts, FS_Subset
  <2> DEFINE n == Numbers(some \intersect Dirs)
             k == Cardinality(some \intersect Dirs)
  <2>2. n \in [some \intersect Dirs -> 1..k] /\ k \in Nat
    BY <2>1, NumbersDiffer
  <2> HIDE DEF n, k
  <2>3. \A d \in some \intersect Dirs : n[d] # 0
    BY <2>2
  <2> QED
    BY <2>3 DEF n
<1>4. \A p \in Paths : Exists(p) <=> p \in some
  BY <1>1, <1>3, ConstantFacts DEF Exists
<1> QED
  BY <1>2, <1>4, ConstantFacts DEF Standing

LEMMA StandingStep ==
    ASSUME NameInv, Standing, [Next]_vars
    PROVE  Standing'
<1>1. /\ \A p \in Paths : Parent[p] \in Dirs \union {Root}
      /\ Root \notin Paths /\ Paths = Dirs \union Files /\ Dirs \intersect Files = {}
      /\ dirs \in [Dirs -> 0..made] /\ made \in Nat
  BY ConstantFacts DEF NameInv, TypeOK, DiskTypes
<1>2. CASE UNCHANGED <<dirs, files>>
  BY <1>2 DEF Standing, Exists
<1>3. ASSUME NEW f \in Files, Write(f) PROVE Standing'
  <2>1. dirs' = dirs /\ files' = files \union {f} /\ (Parent[f] \in Dirs => Exists(Parent[f]))
    BY <1>3 DEF Write
  <2> QED
    BY <1>1, <2>1 DEF Standing, Exists
<1>4. ASSUME NEW f \in Files, RemoveFile(f) PROVE Standing'
  <2>1. dirs' = dirs /\ files' \subseteq files
    BY <1>4 DEF RemoveFile
  <2> QED
    BY <1>1, <2>1 DEF Standing, Exists
<1>5. ASSUME NEW d \in Dirs, MakeDir(d) PROVE Standing'
  <2>1. files' = files /\ dirs' = [dirs EXCEPT ![d] = made + 1] /\ (Parent[d] \in Dirs => Exists(Parent[d]))
    BY <1>5 DEF MakeDir
  <2>2. dirs'[d] # 0 /\ \A e \in Dirs : e # d => dirs'[e] = dirs[e]
    BY <1>1, <2>1
  <2> QED
    BY <1>1, <2>1, <2>2 DEF Standing, Exists
<1>6. ASSUME NEW d \in Dirs, RemoveDir(d) PROVE Standing'
  <2>1. files' = files /\ dirs' = [dirs EXCEPT ![d] = 0] /\ \A p \in Paths : Parent[p] = d => ~Exists(p)
    BY <1>6 DEF RemoveDir
  <2>2. dirs'[d] = 0 /\ \A e \in Dirs : e # d => dirs'[e] = dirs[e]
    BY <1>1, <2>1
  <2> QED
    BY <1>1, <2>1, <2>2 DEF Standing, Exists
<1>7. ASSUME CreateWatcher, NEW h \in Dirs, mkdirRecursive(h) PROVE Standing'
  <2>1. files' = files /\ Dirs \subseteq Paths
    BY <1>1, <1>7 DEF CreateWatcher, keepFs
  <2>2. /\ \A e \in Missing(h) : dirs'[e] # 0
        /\ \A e \in Dirs \ Missing(h) : dirs'[e] = dirs[e]
    BY <1>1, <1>7, MkdirMakes DEF NameInv
  <2>3. ASSUME NEW e \in Missing(h), Parent[e] \in Dirs
        PROVE  Parent[e] \in Missing(h) \/ Exists(Parent[e])
    <3>1. e \in Dirs /\ e \in Above[h] \union {h} /\ e # Root /\ h \in Paths
      BY <1>1, <1>7 DEF Missing
    <3>2. Parent[e] \in Above[h]
      BY <3>1, AboveIs DEF Rising
    <3> QED
      BY <2>3, <3>2 DEF Missing
  <2>4. ASSUME NEW p \in Paths, Exists(p)', Parent[p] # Root PROVE Exists(Parent[p])'
    <3>1. Parent[p] \in Dirs
      BY <1>1, <2>4
    <3>2. Exists(p) \/ p \in Missing(h)
      BY <2>1, <2>2, <2>4 DEF Exists
    <3>3. Exists(Parent[p]) \/ Parent[p] \in Missing(h)
      BY <2>3, <2>4, <3>1, <3>2 DEF Standing
    <3> QED
      BY <2>2, <3>1, <3>3 DEF Exists
  <2> QED
    BY <2>4 DEF Standing
<1>8. CASE CreateWatcher /\ UNCHANGED dirs
  BY <1>2, <1>8 DEF CreateWatcher, keepFs
<1>9. CASE CreateWatcher
  BY <1>7, <1>8, <1>9, CreateMakes
<1>10. CASE WatcherStep /\ ~CreateWatcher
  BY <1>2, <1>10, WatcherTouches
<1>11. CASE Gauge \/ Reload \/ MainStep \/ EventStep \/ EditYml \/ UNCHANGED vars
  BY <1>2, <1>11, MainTouches, EventTouches DEF EditYml, vars, disk
<1> QED
  BY <1>3, <1>4, <1>5, <1>6, <1>9, <1>10, <1>11, StepSplit

-----------------------------------------------------------------------------
(***************************************************************************)
(* Changes of files.                                                       *)
(***************************************************************************)

(* An event is parsed and dispatched before the next is taken, and while   *)
(* the handler goes through the new transfers, what it has left is in them. *)
Idle ==
    /\ at \notin {"parse", "find"} => event = NoEvent
    /\ at = "find" => event.wd # Overflow
    /\ main \in {"push", "assign"} => Range(left) \subseteq Keys(infos)

(* The event thread has an event of f that is not dropped.                 *)
Handed(f) == \E e \in Range(eventQueue) : e.event = "MODIFY" /\ e.path = f /\ Found(e.transfer)

(* One change of one transfer.                                             *)
Reaches(f, t) ==
    \/ Reported("MODIFY", f) \/ Handed(f) \/ Awaited(t) \/ Overflowed
    \/ f \in slipped
    \/ f \notin seen /\ (t \in logged \/ Parent[f] # HomeOf(t))

CarrierInv == NameInv /\ HandlerFits /\ WalkFits /\ TransferIsWatched /\ Idle /\ Standing

(* What is coming is in the kernel's queue or in the buffer.               *)
LEMMA ComingRange ==
    ASSUME NameInv
    PROVE  /\ kqueue \in Seq(KernelEvents) /\ batch \in Seq(KernelEvents)
           /\ Range(Coming) = Range(kqueue) \union Range(batch)
<1>1. kqueue \in Seq(KernelEvents) /\ batch \in Seq(KernelEvents)
  BY DEF NameInv, TypeOK, WatchTypes
<1> QED
  BY <1>1, RangeJoin DEF Coming

LEMMA ComingNext ==
    ASSUME NameInv'
    PROVE  Range(Coming)' = Range(kqueue)' \union Range(batch)'
<1>1. kqueue' \in Seq(KernelEvents) /\ batch' \in Seq(KernelEvents)
  BY DEF NameInv, TypeOK, WatchTypes
<1> QED
  BY <1>1, RangeJoin DEF Coming

HandedEvents == [event : {"MODIFY", "DELETE"}, transfer : Transfers, path : Paths]

LEMMA HandedTypes ==
    ASSUME NameInv
    PROVE  /\ eventQueue \in Seq(HandedEvents)
           /\ \A e \in Range(eventQueue) : e \in HandedEvents /\ e.transfer \in Transfers
<1>1. eventQueue \in Seq(HandedEvents)
  BY DEF NameInv, TypeOK, ThreadTypes, HandedEvents
<1>2. \A e \in HandedEvents : e.transfer \in Transfers
  BY DEF HandedEvents
<1> HIDE DEF HandedEvents
<1>3. Range(eventQueue) \subseteq HandedEvents
  BY <1>1 DEF Range
<1> QED
  BY <1>1, <1>2, <1>3

(* The carriers of ChangeHasCarrier, with the directory of the transfer    *)
(* whatever its kind.                                                      *)
LEMMA CarrierIs ==
    ASSUME NameInv
    PROVE  ChangeHasCarrier <=>
              \A t \in Keys(fileMap) : \A f \in unread \intersect ScannedFiles(t) : Reaches(f, t)
<1>1. \A t \in Keys(fileMap) : Home(t) = HomeOf(t)
  BY HomeFacts, ConfigIsTyped DEF Keys
<1> QED
  BY <1>1 DEF ChangeHasCarrier, Carried, Reaches, Handed

LEMMA CarrierWas ==
    ASSUME NameInv', \A t \in Keys(fileMap)' : \A f \in (unread \intersect ScannedFiles(t))' : Reaches(f, t)'
    PROVE  ChangeHasCarrier'
<1>1. ASSUME NEW t \in Keys(fileMap)' PROVE Home(t)' = HomeOf(t)
  <2>1. fileMap' \in Choice /\ Fits(fileMap)'
    BY DEF NameInv, TypeOK, ConfigTypes, JobFits
  <2> QED
    BY <1>1, <2>1, ConstantFacts DEF Fits, Keys, Choice, Kinds, Home, HomeOf
<1> QED
  BY <1>1 DEF ChangeHasCarrier, Carried, Reaches, Handed, HomeOf

(* A file that a transfer would scan matches it.                           *)
LEMMA ScannedMatch ==
    ASSUME NEW t, NEW f \in ScannedFiles(t), fileMap[t] \in Kinds
    PROVE  Matches(t, f)
<1>1. CASE fileMap[t] = "file"
  BY <1>1 DEF ScannedFiles, Matches
<1>2. CASE fileMap[t] = "dir"
  BY <1>2 DEF ScannedFiles, Matches
<1>3. CASE fileMap[t] = "recursive"
  BY <1>3 DEF ScannedFiles, Matches
<1> QED
  BY <1>1, <1>2, <1>3 DEF Kinds

LEMMA IdleStep ==
    ASSUME CarrierInv, [Next]_vars
    PROVE  Idle'
<1>1. cfgQueue \in Seq(Transfers) /\ left \in Seq(Transfers) /\ infos \in Choice
      /\ DOMAIN byWd \subseteq 1..made
      /\ at \in {"config", "lookup", "create", "walk", "next", "parse", "find"}
      /\ job.back \in {"next", "config"}
  BY YmlFits DEF CarrierInv, NameInv, TypeOK, ConfigTypes, WatchTypes, ThreadTypes
<1>2. CASE UNCHANGED <<at, event, main, left, infos>>
  BY <1>2 DEF CarrierInv, Idle
<1>3. CASE UpdateBegin
  <2>1. left' \in Orders(infos) \/ main' = "stuck"
    BY <1>3 DEF UpdateBegin
  <2>2. left' \in Orders(infos) => Range(left') = Keys(infos)
    BY <1>1, OrdersList
  <2>3. UNCHANGED <<at, event, infos>>
    BY <1>3 DEF UpdateBegin, others, watcher
  <2> QED
    BY <2>1, <2>2, <2>3 DEF CarrierInv, Idle
<1>4. CASE UpdatePush
  BY <1>4 DEF UpdatePush, CarrierInv, Idle, others, watcher
<1>5. CASE UpdateAssign
  <2>1. left # <<>> /\ left' = Tail(left) /\ UNCHANGED <<at, event, infos>> /\ main = "assign"
    BY <1>5 DEF UpdateAssign, CarrierInv, HandlerFits, others, watcher
  <2>2. Range(left') \subseteq Range(left)
    BY <1>1, <2>1, RangeTail
  <2> QED
    BY <2>1, <2>2 DEF CarrierInv, Idle
<1>6. CASE Gauge \/ GaugeDone \/ Reload \/ check \/ paser
  BY <1>6 DEF Gauge, GaugeDone, Reload, check, paser, Load, CarrierInv, Idle, others, watcher, handler
<1>7. CASE CreateWatcher \/ Scan \/ ConsumePop \/ ConsumeLookup
  <2>1. UNCHANGED <<event, main, left, infos>>
    BY <1>7 DEF CreateWatcher, Scan, ConsumePop, ConsumeLookup, keepFs, handler
  <2>2. at \notin {"parse", "find"} /\ at' \notin {"parse", "find"}
    BY <1>1, <1>7 DEF CreateWatcher, Scan, ConsumePop, ConsumeLookup, Goto
  <2> QED
    BY <2>1, <2>2 DEF CarrierInv, Idle
<1>8. CASE NextEvent
  <2>1. UNCHANGED <<main, left, infos>> /\ at = "next"
        /\ (at' = "parse" \/ (at' = "config" /\ event' = event))
    BY <1>8 DEF NextEvent, keepFs, handler, Goto
  <2> QED
    BY <2>1 DEF CarrierInv, Idle
<1>9. CASE ParseEvent
  <2>1. UNCHANGED <<main, left, infos>> /\ at' = "find" /\ event.wd \in DOMAIN byWd
    BY <1>9 DEF ParseEvent, keepFs, handler, Goto
  <2>2. event.wd # Overflow
    BY <1>1, <2>1 DEF Overflow, CarrierInv, NameInv, TypeOK, DiskTypes
  <2>3. event'.wd = event.wd
    <3>1. event \in EventType
      BY DEF CarrierInv, NameInv, TypeOK, ThreadTypes, EventType
    <3>2. PICK x : event' = [event EXCEPT !.found = x]
      BY <1>9 DEF ParseEvent
    <3> QED
      BY <3>1, <3>2 DEF EventType
  <2> QED
    BY <2>1, <2>2, <2>3 DEF CarrierInv, Idle
<1>10. CASE Dispatch
  <2>1. UNCHANGED <<main, left, infos>> /\ at' \in {"config", "create"} /\ event' = NoEvent
    BY <1>10 DEF Dispatch, keepFs, handler, Goto
  <2> QED
    BY <2>1 DEF CarrierInv, Idle
<1>11. CASE Visit \/ Add \/ ParseUnnamed \/ EditYml \/ EventStep \/ UNCHANGED vars
  BY <1>2, <1>11 DEF Visit, Add, walkUnchanged, ParseUnnamed, EditYml, EventStep, vars, keepFs, handler, watcher
<1>12. ASSUME NEW f \in Files, Write(f) \/ RemoveFile(f) PROVE UNCHANGED <<at, event, main, left, infos>>
  BY <1>12 DEF Write, RemoveFile, handler, watcher
<1>13. ASSUME NEW d \in Dirs, MakeDir(d) \/ RemoveDir(d) PROVE UNCHANGED <<at, event, main, left, infos>>
  BY <1>13 DEF MakeDir, RemoveDir, handler, watcher
<1> QED
  BY <1>2, <1>3, <1>4, <1>5, <1>6, <1>7, <1>8, <1>9, <1>10, <1>11, <1>12, <1>13
     DEF Next, MainStep, WatcherStep

LEMMA CarrierInvStep ==
    ASSUME CarrierInv, [Next]_vars
    PROVE  CarrierInv'
  BY IdleStep, NameStep, HandlerStep, WalkStep, WatchedStep, StandingStep DEF CarrierInv

LEMMA InitCarrier ==
    ASSUME Init
    PROVE  CarrierInv /\ ChangeHasCarrier
<1>1. NameInv /\ HandlerFits /\ WalkFits /\ TransferIsWatched /\ Standing
  BY InitNames, InitWatched, InitStanding
<1>2. Idle
  BY DEF Init, Idle
<1>3. ASSUME NEW t \in Keys(fileMap) PROVE Awaited(t)
  <2>1. yml \in YmlChoices /\ fileMap = yml /\ cfgQueue \in Orders(yml)
    BY DEF Init
  <2>2. Range(cfgQueue) = Keys(fileMap)
    BY <2>1, YmlFits, OrdersList
  <2> QED
    BY <2>2 DEF Awaited
<1> QED
  BY <1>1, <1>2, <1>3 DEF CarrierInv, ChangeHasCarrier, Carried

-----------------------------------------------------------------------------
(***************************************************************************)
(* A change that has a carrier keeps one, step by step.                    *)
(***************************************************************************)

(* The carriers that a step leaves alone.                                  *)
LEMMA ReachesKept ==
    ASSUME NEW t \in Transfers, NEW f \in Files, Reaches(f, t),
           Range(Coming) \subseteq Range(Coming)', event' = event,
           Handed(f) => Handed(f)', Awaited(t) => Awaited(t)', ~alive => ~alive',
           f \in slipped => f \in slipped', f \in seen' => f \in seen, t \in logged => t \in logged'
    PROVE  Reaches(f, t)'
<1>1. Reported("MODIFY", f) => Reported("MODIFY", f)'
  BY DEF Reported
<1>2. Overflowed => Overflowed'
  BY DEF Overflowed
<1> QED
  BY <1>1, <1>2 DEF Reaches, HomeOf

(* The kernel's queue grows, the buffer and the event queue stay.          *)
LEMMA ReachesGrown ==
    ASSUME NameInv, NameInv', NEW t \in Transfers, NEW f \in Files, Reaches(f, t),
           Range(kqueue) \subseteq Range(kqueue)',
           UNCHANGED <<batch, event, eventQueue, fileMap, alive>>, Awaited(t) => Awaited(t)',
           f \in slipped => f \in slipped', f \in seen' => f \in seen, t \in logged => t \in logged'
    PROVE  Reaches(f, t)'
<1>1. Range(Coming) = Range(kqueue) \union Range(batch)
  BY ComingRange
<1>2. Range(Coming)' = Range(kqueue)' \union Range(batch)'
  BY ComingNext
<1>3. Handed(f) => Handed(f)'
  BY DEF Handed, Found
<1> QED
  BY <1>1, <1>2, <1>3, ReachesKept

LEMMA WriteReaches ==
    ASSUME CarrierInv, ChangeHasCarrier, NEW g \in Files, Write(g), NameInv',
           NEW t \in Keys(fileMap), NEW f \in (unread \intersect ScannedFiles(t))'
    PROVE  Reaches(f, t)'
<1> DEFINE q == IF g \in files THEN kqueue ELSE Report(kqueue, "CREATE", g)
<1>1. /\ NameInv /\ TypeOK /\ t \in Transfers /\ g \in Paths /\ kqueue \in Seq(KernelEvents)
      /\ unread \subseteq files /\ files \subseteq Files /\ seen \subseteq unread
  BY ConstantFacts DEF CarrierInv, NameInv, TypeOK, DiskTypes, WatchTypes, Keys
<1>2. /\ UNCHANGED <<inotify, config, watcher, handler, alive, eventQueue, slipped, logged>>
      /\ files' = files \union {g} /\ unread' = unread \union {g}
      /\ seen' = IF Watched(Parent[g]) THEN seen \union {g} ELSE seen
      /\ kqueue' = Report(q, "MODIFY", g)
  BY DEF Write
<1>3. q \in Seq(KernelEvents) /\ Range(kqueue) \subseteq Range(q)
  BY <1>1, QueueNamed, ReportGrows
<1> HIDE DEF q
<1>4. /\ Range(kqueue) \subseteq Range(kqueue)'
      /\ Watched(Parent[g]) => \E e \in Range(kqueue)' : e.wd = Overflow \/ (e.mask = "MODIFY" /\ e.path = g)
  BY <1>1, <1>2, <1>3, ReportGrows
<1>5. Range(Coming)' = Range(kqueue)' \union Range(batch)'
  BY ComingNext
<1>6. Awaited(t) => Awaited(t)'
  BY <1>2 DEF Awaited, config, watcher, handler
<1>7. f \in unread \intersect ScannedFiles(t) => Reaches(f, t)
  BY <1>1, CarrierIs
<1>8. /\ f \in ScannedFiles(t)' /\ f \in unread' /\ f \in Files
      /\ f \in files => f \in ScannedFiles(t)
  <2>1. fileMap' = fileMap
    BY <1>2 DEF config
  <2> QED
    BY <1>1, <1>2, <2>1 DEF ScannedFiles
<1>9. CASE f \in unread /\ (f \in seen' => f \in seen)
  <2>1. Reaches(f, t)
    BY <1>1, <1>7, <1>8, <1>9
  <2> QED
    BY <1>1, <1>2, <1>4, <1>6, <1>8, <1>9, <2>1, ReachesGrown DEF config, watcher
<1>10. CASE f = g /\ Watched(Parent[g])
  <2>1. \E e \in Range(Coming)' : e.wd = Overflow \/ (e.mask = "MODIFY" /\ e.path = f)
    BY <1>4, <1>5, <1>10
  <2>2. Reported("MODIFY", f)' \/ Overflowed'
    BY <2>1 DEF Reported, Overflowed
  <2> QED
    BY <2>2 DEF Reaches
<1>11. CASE f = g /\ ~Watched(Parent[g]) /\ f \notin unread
  <2>1. f \notin seen'
    BY <1>1, <1>2, <1>11
  <2>2. Home(t) = HomeOf(t)
    BY <1>1, HomeFacts, ConfigIsTyped
  <2>3. Awaited(t) \/ Parent[f] # HomeOf(t) \/ t \in logged
    BY <1>11, <2>2 DEF CarrierInv, TransferIsWatched
  <2> QED
    BY <1>2, <1>6, <2>1, <2>3 DEF Reaches, HomeOf
<1> QED
  BY <1>2, <1>8, <1>9, <1>10, <1>11

LEMMA DiskReaches ==
    ASSUME CarrierInv, NameInv', NEW t \in Keys(fileMap), NEW f \in Files, f \in unread', Reaches(f, t),
           \/ \E g \in Files : RemoveFile(g)
           \/ \E d \in Dirs : MakeDir(d) \/ RemoveDir(d)
    PROVE  Reaches(f, t)'
<1>1. NameInv /\ TypeOK /\ t \in Transfers /\ kqueue \in Seq(KernelEvents)
  BY DEF CarrierInv, NameInv, TypeOK, WatchTypes, Keys
<1>2. ASSUME NEW g \in Files, RemoveFile(g) PROVE Reaches(f, t)'
  <2>1. g \in Paths
    BY ConstantFacts
  <2>2. Range(kqueue) \subseteq Range(kqueue)'
    BY <1>1, <1>2, <2>1, ReportGrows DEF RemoveFile
  <2>3. /\ UNCHANGED <<batch, event, eventQueue, fileMap, alive, logged>>
        /\ f \in slipped => f \in slipped'
        /\ f \in seen' => f \in seen
    BY <1>2 DEF RemoveFile, config, watcher
  <2>4. Awaited(t) => Awaited(t)'
    BY <1>2 DEF RemoveFile, Awaited, config, watcher, handler
  <2> QED
    BY <1>1, <2>2, <2>3, <2>4, ReachesGrown
<1>3. ASSUME NEW d \in Dirs, MakeDir(d) \/ RemoveDir(d) PROVE Reaches(f, t)'
  <2>1. d \in Paths /\ f # d
    BY ConstantFacts
  <2>2. Range(kqueue) \subseteq Range(kqueue)'
    BY <1>1, <1>3, <2>1, ReportGrows DEF MakeDir, RemoveDir
  <2>3. /\ UNCHANGED <<batch, event, eventQueue, fileMap, alive, logged, seen>>
        /\ f \in slipped => f \in slipped'
    BY <1>3, <2>1 DEF MakeDir, RemoveDir, config, watcher
  <2>4. Awaited(t) => Awaited(t)'
    BY <1>3 DEF MakeDir, RemoveDir, Awaited, config, watcher, handler
  <2> QED
    BY <1>1, <2>2, <2>3, <2>4, ReachesGrown
<1> QED
  BY <1>2, <1>3

(* The main thread.                                                        *)
LEMMA MainReaches ==
    ASSUME CarrierInv, ChangeHasCarrier, NameInv', [Next]_vars, Gauge \/ Reload \/ MainStep,
           NEW t \in Keys(fileMap)', NEW f \in (unread \intersect ScannedFiles(t))'
    PROVE  Reaches(f, t)'
<1>1. /\ NameInv /\ t \in Transfers /\ f \in Files /\ f \in unread
      /\ fileMap \in Choice /\ infos \in Choice /\ left \in Seq(Transfers) /\ fileMap' \in Choice
      /\ fileMap'[t] # None
  <2>1. UNCHANGED <<files, unread>> /\ unread \subseteq files /\ files \subseteq Files
    BY DEF Gauge, Reload, MainStep, check, paser, Load, UpdateBegin, UpdatePush, UpdateAssign,
       GaugeDone, others, disk, history, CarrierInv, NameInv, TypeOK, DiskTypes
  <2>2. fileMap \in Choice /\ infos \in Choice /\ left \in Seq(Transfers) /\ fileMap' \in Choice
    BY YmlFits DEF CarrierInv, NameInv, TypeOK, ConfigTypes
  <2> QED
    BY <2>1, <2>2 DEF Keys, CarrierInv
<1>2. UNCHANGED <<files, kqueue, batch, event, eventQueue, slipped, seen, unread, logged>> /\ (~alive => ~alive')
  BY DEF Gauge, Reload, MainStep, check, paser, Load, UpdateBegin, UpdatePush, UpdateAssign,
     GaugeDone, others, disk, history, watcher, CarrierInv, NameInv, TypeOK, ConfigTypes
<1>3. Awaited(t) => Awaited(t)'
  <2>1. at' = at
    BY DEF Gauge, Reload, MainStep, check, paser, Load, UpdateBegin, UpdatePush, UpdateAssign,
       GaugeDone, others, watcher
  <2>2. ~CreateWatcher /\ ~Scan
    BY <2>1 DEF CreateWatcher, Scan, Goto, CarrierInv, NameInv, TypeOK, ThreadTypes
  <2> QED
    BY <1>1, <2>2, AwaitedStays DEF CarrierInv
<1>4. Range(kqueue) \subseteq Range(kqueue)' /\ Range(Coming) \subseteq Range(Coming)'
  BY <1>2 DEF Coming
<1>5. CASE UNCHANGED fileMap
  <2>1. t \in Keys(fileMap) /\ f \in ScannedFiles(t)
    BY <1>1, <1>2, <1>5 DEF Keys, ScannedFiles
  <2>2. Reaches(f, t)
    BY <1>1, <2>1, CarrierIs
  <2>3. Handed(f) => Handed(f)'
    BY <1>2, <1>5 DEF Handed, Found
  <2> QED
    BY <1>1, <1>2, <1>3, <1>4, <2>2, <2>3, ReachesKept
<1>6. CASE UpdateBegin /\ ~UNCHANGED fileMap
  <2>1. /\ left' \in Orders(infos) /\ main' = IF Keys(infos) = {} THEN "run" ELSE "push"
        /\ fileMap' = [x \in Transfers |-> IF infos[x] = None THEN None ELSE fileMap[x]]
    BY <1>6 DEF UpdateBegin
  <2>2. t \in Keys(infos) /\ Range(left') = Keys(infos)
    BY <1>1, <2>1, OrdersList DEF Keys
  <2> QED
    BY <2>1, <2>2 DEF Awaited, Reaches
<1>7. CASE UpdateAssign
  <2>1. /\ left # <<>> /\ main = "assign" /\ UNCHANGED <<cfgQueue, job>>
        /\ fileMap' = [fileMap EXCEPT ![Head(left)] = infos[Head(left)]]
    BY <1>7 DEF UpdateAssign, CarrierInv, HandlerFits, others, watcher
  <2>2. Head(left) \in Transfers /\ infos[Head(left)] # None
    <3>1. Head(left) \in Range(left)
      BY <1>1, <2>1, RangeTail
    <3> QED
      BY <2>1, <3>1 DEF CarrierInv, Idle, Keys
  <2>3. CASE t = Head(left)
    BY <2>1, <2>3 DEF CarrierInv, HandlerFits, Awaited, Reaches
  <2>4. CASE t # Head(left)
    <3>1. fileMap'[t] = fileMap[t]
      BY <1>1, <2>1, <2>4 DEF Choice
    <3>2. t \in Keys(fileMap) /\ f \in ScannedFiles(t)
      BY <1>1, <1>2, <3>1 DEF Keys, ScannedFiles
    <3>3. Reaches(f, t)
      BY <1>1, <3>2, CarrierIs
    <3>4. ASSUME NEW x \in Transfers, Found(x) PROVE Found(x)'
      BY <1>1, <2>1, <2>2, <3>4 DEF Found, Choice
    <3>5. Handed(f) => Handed(f)'
      <4>1. \A e \in Range(eventQueue) : e.transfer \in Transfers
        BY HandedTypes DEF CarrierInv
      <4> QED
        BY <1>2, <3>4, <4>1 DEF Handed
    <3> QED
      BY <1>1, <1>2, <1>3, <1>4, <3>3, <3>5, ReachesKept
  <2> QED
    BY <2>3, <2>4
<1> QED
  BY <1>5, <1>6, <1>7, ConfigStays

(* The watcher thread, as far as it moves nothing that carries a change.   *)
LEMMA QuietReaches ==
    ASSUME CarrierInv, NameInv', [Next]_vars, NEW t \in Keys(fileMap), NEW f \in Files, Reaches(f, t),
           ConsumePop \/ ConsumeLookup \/ Visit \/ Add \/ ParseUnnamed \/ EditYml \/ UNCHANGED vars
    PROVE  Reaches(f, t)'
<1>1. /\ UNCHANGED <<fileMap, kqueue, batch, event, eventQueue, seen>> /\ (~alive => ~alive')
      /\ slipped \subseteq slipped' /\ logged \subseteq logged'
  BY DEF ConsumePop, ConsumeLookup, Visit, Add, walkUnchanged, ParseUnnamed, EditYml, vars, keepFs, watcher,
     config, history, CarrierInv, NameInv, TypeOK, ConfigTypes
<1>2. ~CreateWatcher /\ ~Scan
  <2>1. CASE UNCHANGED at
    BY <2>1 DEF CreateWatcher, Scan, Goto, CarrierInv, NameInv, TypeOK, ThreadTypes
  <2>2. CASE at \in {"config", "lookup"}
    BY <2>2 DEF CreateWatcher, Scan
  <2> QED
    BY <2>1, <2>2 DEF ConsumePop, ConsumeLookup, Visit, Add, walkUnchanged, ParseUnnamed, EditYml, vars, watcher
<1>3. t \in Transfers /\ fileMap'[t] # None
  BY <1>1 DEF Keys
<1>4. Awaited(t) => Awaited(t)'
  BY <1>2, <1>3, AwaitedStays DEF CarrierInv
<1>5. Handed(f) => Handed(f)'
  BY <1>1 DEF Handed, Found
<1>6. Range(Coming) \subseteq Range(Coming)'
  BY <1>1 DEF Coming
<1> QED
  BY <1>1, <1>3, <1>4, <1>5, <1>6, ReachesKept

(* createWatcher gives up what is not there, under which nothing is.       *)
LEMMA CreateReaches ==
    ASSUME CarrierInv, NameInv', CreateWatcher,
           NEW t \in Keys(fileMap), NEW f \in unread \intersect ScannedFiles(t), Reaches(f, t)
    PROVE  Reaches(f, t)'
<1>1. /\ NameInv /\ TypeOK /\ t \in Transfers /\ fileMap[t] # None /\ fileMap \in Choice /\ Fits(fileMap)
      /\ job.kind = "file" => job.path \in Files
      /\ job.kind # "file" => job.path \in Dirs
  BY ConfigIsTyped DEF CarrierInv, NameInv, JobFits, Keys, CreateWatcher, TypeOK, ThreadTypes, Kinds
<1>2. f \in Files
  BY DEF CarrierInv, NameInv, TypeOK, DiskTypes
<1>3. /\ UNCHANGED <<fileMap, batch, event, eventQueue, seen, alive, slipped, cfgQueue, main, left>>
      /\ logged \subseteq logged'
  BY DEF CreateWatcher, keepFs, handler
<1>4. Range(kqueue) \subseteq Range(kqueue)'
  <2>1. CASE UNCHANGED kqueue
    BY <2>1
  <2>2. ASSUME NEW d \in Dirs, mkdirRecursive(d) PROVE Range(kqueue) \subseteq Range(kqueue)'
    <3> DEFINE noted == {e \in Missing(d) : Watched(Parent[e])}
    <3>1. kqueue' = IF noted = {} THEN kqueue ELSE Report(kqueue, "CREATE", CHOOSE e \in noted : TRUE)
      BY <2>2 DEF mkdirRecursive
    <3>2. noted # {} => (CHOOSE e \in noted : TRUE) \in Paths
      BY ConstantFacts DEF Missing
    <3> HIDE DEF noted
    <3>3. kqueue \in Seq(KernelEvents)
      BY <1>1 DEF TypeOK, WatchTypes
    <3> QED
      BY <1>1, <3>1, <3>2, <3>3, ReportGrows
  <2> QED
    BY <1>1, <2>1, <2>2, CreateMakes
<1>5. Awaited(t) => Awaited(t)'
  <2>1. SUFFICES ASSUME job.path = t, job' # job PROVE FALSE
    BY <1>3 DEF Awaited
  <2>2. CASE t \in Files
    <3>1. job.kind = "file" /\ job.path \notin files /\ t \notin Dirs
      BY <1>1, <2>1, <2>2, ConstantFacts DEF CreateWatcher
    <3>2. fileMap[t] = "file"
      BY <1>1, <2>2, <3>1 DEF Fits, Choice, Kinds
    <3> QED
      BY <2>1, <3>1, <3>2 DEF ScannedFiles
  <2>3. CASE t \notin Files
    <3>1. t \in Dirs /\ ~Exists(t) /\ fileMap[t] # "file"
      BY <1>1, <2>1, <2>3, ConstantFacts DEF CreateWatcher, mkdirFails, Fits
    <3>2. f \in files /\ f \in Paths /\ Exists(f) /\ f \notin Dirs /\ Root \notin Dirs
      BY <1>2, <3>1, ConstantFacts DEF ScannedFiles, Exists
    <3>3. t \in Above[f]
      BY <3>1, <3>2, AboveIs DEF ScannedFiles
    <3> QED
      BY <3>1, <3>2, <3>3, ExistsAbove DEF CarrierInv
  <2> QED
    BY <2>2, <2>3
<1> QED
  BY <1>1, <1>2, <1>3, <1>4, <1>5, ReachesGrown

(* The scan queues the files that are there.                               *)
LEMMA ScanReaches ==
    ASSUME CarrierInv, NameInv', Scan,
           NEW t \in Keys(fileMap), NEW f \in unread \intersect ScannedFiles(t), Reaches(f, t)
    PROVE  Reaches(f, t)'
<1> DEFINE S == IF IsTransfer(job.path) THEN ScannedFiles(job.path) ELSE {}
<1>1. /\ t \in Transfers /\ Found(t) /\ f \in Files /\ IsFiniteSet(S)
      /\ eventQueue \in Seq(HandedEvents)
  <2>1. t \in Transfers /\ Found(t)
    BY ConstantFacts DEF Keys, Found
  <2>2. f \in Files /\ S \subseteq Files
    BY DEF CarrierInv, NameInv, TypeOK, DiskTypes, ScannedFiles
  <2> QED
    BY <2>1, <2>2, HandedTypes, ConstantFacts, FS_Subset DEF CarrierInv
<1>2. UNCHANGED <<fileMap, kqueue, batch, event, seen, alive, slipped, cfgQueue, main, left, logged>>
  BY DEF Scan, keepFs, handler
<1>3. PICK q \in SetToSeqs(S) :
         eventQueue' = eventQueue \o [i \in 1..Len(q) |-> Event("MODIFY", job.path, q[i])]
  BY DEF Scan
<1>4. q \in Seq(S) /\ Range(q) = S
  BY <1>1, ListsOfASet
<1> DEFINE new == [i \in 1..Len(q) |-> Event("MODIFY", job.path, q[i])]
<1>5. new \in Seq(HandedEvents)
  <2>1. ASSUME NEW i \in 1..Len(q) PROVE Event("MODIFY", job.path, q[i]) \in HandedEvents
    <3>1. q[i] \in S
      BY <1>4
    <3>2. q[i] \in Paths /\ job.path \in Transfers
      BY <3>1, ConstantFacts DEF ScannedFiles, CarrierInv, NameInv, TypeOK, DiskTypes, IsTransfer
    <3> QED
      BY <3>2 DEF Event, HandedEvents
  <2>2. Len(q) \in Nat
    BY <1>4
  <2> QED
    BY <2>1, <2>2
<1>6. Range(eventQueue') = Range(eventQueue) \union Range(new)
  <2> HIDE DEF new
  <2>1. eventQueue' = eventQueue \o new
    BY <1>3 DEF new
  <2> QED
    BY <1>1, <1>5, <2>1, RangeJoin
<1>7. Handed(f) => Handed(f)'
  BY <1>2, <1>6 DEF Handed, Found
<1>8. CASE job.path = t
  <2>1. f \in S
    BY <1>1, <1>8 DEF IsTransfer
  <2>2. PICK i \in 1..Len(q) : q[i] = f
    <3>1. DOMAIN q = 1..Len(q)
      BY <1>4
    <3> QED
      BY <1>4, <2>1, <3>1 DEF Range
  <2>3. Event("MODIFY", t, f) \in Range(new)
    BY <1>8, <2>2 DEF Range
  <2>4. Handed(f)'
    <3> DEFINE e == Event("MODIFY", t, f)
    <3>1. e.event = "MODIFY" /\ e.path = f /\ e.transfer = t
      BY DEF Event
    <3>2. e \in Range(eventQueue') /\ Found(t)'
      BY <1>1, <1>2, <1>6, <2>3 DEF Found
    <3> HIDE DEF e
    <3> QED
      BY <3>1, <3>2 DEF Handed
  <2> QED
    BY <2>4 DEF Reaches
<1>9. CASE job.path # t
  <2>1. Awaited(t) => Awaited(t)'
    BY <1>2, <1>9 DEF Awaited
  <2>2. Range(Coming) \subseteq Range(Coming)'
    BY <1>2 DEF Coming
  <2> QED
    BY <1>1, <1>2, <1>7, <2>1, <2>2, ReachesKept
<1> QED
  BY <1>8, <1>9

(* What is taken from the buffer is the event that is parsed.              *)
LEMMA NextEventReaches ==
    ASSUME CarrierInv, NameInv', NextEvent, NEW t \in Keys(fileMap), NEW f \in Files, Reaches(f, t)
    PROVE  Reaches(f, t)'
<1> DEFINE ready == IF batch # <<>> THEN batch ELSE kqueue
<1>1. /\ t \in Transfers /\ event = NoEvent /\ ready \in Seq(KernelEvents)
      /\ Range(Coming) = Range(kqueue) \union Range(batch)
      /\ Range(Coming)' = Range(kqueue)' \union Range(batch)'
  BY ComingRange, ComingNext DEF CarrierInv, Idle, NextEvent, Keys
<1>2. /\ UNCHANGED <<fileMap, eventQueue, seen, alive, slipped, cfgQueue, main, left, logged, job>>
  BY DEF NextEvent, keepFs, handler
<1>3. (Awaited(t) => Awaited(t)') /\ (Handed(f) => Handed(f)')
  BY <1>2 DEF Awaited, Handed, Found
<1>4. CASE ready = <<>>
  <2>1. UNCHANGED <<event, batch, kqueue>>
    BY <1>4 DEF NextEvent
  <2>2. Range(Coming) \subseteq Range(Coming)'
    BY <2>1 DEF Coming
  <2> QED
    BY <1>1, <1>2, <1>3, <2>1, <2>2, ReachesKept
<1>5. CASE ready # <<>>
  <2>1. /\ event' = Taken(ready[1]) /\ batch' = Tail(ready)
        /\ kqueue' = IF batch # <<>> THEN kqueue ELSE <<>>
    BY <1>5 DEF NextEvent
  <2>2. Range(<<>>) = {}
    BY DEF Range
  <2>3. Range(ready) = {ready[1]} \union Range(Tail(ready))
    <3> HIDE DEF ready
    <3> QED
      BY <1>1, <1>5, RangeTail
  <2>4. Range(Coming) \subseteq {ready[1]} \union Range(Coming)'
    <3>1. CASE batch # <<>>
      BY <1>1, <2>1, <2>3, <3>1
    <3>2. CASE batch = <<>>
      BY <1>1, <2>1, <2>2, <2>3, <3>2
    <3> QED
      BY <3>1, <3>2
  <2> HIDE DEF ready
  <2>5. event'.wd = ready[1].wd /\ event'.path = ready[1].path /\ event'.mask = ready[1].mask
    BY <2>1 DEF Taken
  <2>6. Reported("MODIFY", f) => Reported("MODIFY", f)'
    BY <1>1, <2>4, <2>5 DEF Reported, NoEvent
  <2>7. Overflowed => Overflowed'
    <3>1. event.wd # Overflow
      <4>1. event = NoEvent /\ NoEvent.wd = 0 /\ 0 # Overflow
        <5>1. NoEvent.wd = 0
          BY DEF NoEvent
        <5>2. 0 # Overflow
          BY DEF Overflow
        <5> QED
          BY <1>1, <5>1, <5>2
      <4> QED
        BY <4>1
    <3>2. ASSUME NEW e \in Range(Coming), e.wd = Overflow
          PROVE  \E x \in Range(Coming)' \union {event'} : x.wd = Overflow
      BY <2>4, <2>5, <3>2
    <3> QED
      BY <1>2, <3>1, <3>2 DEF Overflowed
  <2> QED
    BY <1>2, <1>3, <2>6, <2>7 DEF Reaches, HomeOf
<1> QED
  BY <1>4, <1>5

LEMMA ParseEventReaches ==
    ASSUME CarrierInv, NameInv', ParseEvent, NEW t \in Keys(fileMap), NEW f \in Files, Reaches(f, t)
    PROVE  Reaches(f, t)'
<1>1. UNCHANGED <<fileMap, eventQueue, seen, alive, slipped, cfgQueue, main, left, logged, job, kqueue, batch>>
  BY DEF ParseEvent, keepFs, handler
<1>2. (Awaited(t) => Awaited(t)') /\ (Handed(f) => Handed(f)') /\ Coming' = Coming
  BY <1>1 DEF Awaited, Handed, Found, Coming
<1>3. event'.wd = event.wd /\ event'.path = event.path /\ event'.mask = event.mask
  <2>1. event \in EventType
    BY DEF CarrierInv, NameInv, TypeOK, ThreadTypes, EventType
  <2>2. PICK x : event' = [event EXCEPT !.found = x]
    BY DEF ParseEvent
  <2> QED
    BY <2>1, <2>2 DEF EventType
<1>4. (Reported("MODIFY", f) => Reported("MODIFY", f)') /\ (Overflowed => Overflowed')
  BY <1>1, <1>2, <1>3 DEF Reported, Overflowed
<1> QED
  BY <1>1, <1>2, <1>4 DEF Reaches, HomeOf

(* An event that is dropped although a transfer matches is accounted for.  *)
LEMMA DispatchReaches ==
    ASSUME CarrierInv, NameInv', Dispatch,
           NEW t \in Keys(fileMap), NEW f \in unread \intersect ScannedFiles(t), Reaches(f, t)
    PROVE  Reaches(f, t)'
<1>1. /\ UNCHANGED <<fileMap, seen, alive, cfgQueue, main, left, logged, kqueue, batch>>
      /\ slipped \subseteq slipped' /\ Coming' = Coming
  BY DEF Dispatch, keepFs, handler, Coming
<1>2. /\ at = "find" /\ event.wd # Overflow /\ job.path = None /\ t \in Transfers /\ t # None
      /\ f \in Files /\ f \in files /\ f \notin Dirs /\ eventQueue \in Seq(HandedEvents)
      /\ event.found \in Transfers \union {None} /\ event.path \in Paths
      /\ event.mask \in {"CREATE", "DELETE", "MODIFY"}
  BY HandedTypes, ConstantFacts DEF Dispatch, CarrierInv, Idle, NameInv, JobFits, EventFits, Keys, TypeOK,
     DiskTypes, ThreadTypes
<1>3. Awaited(t) => Awaited(t)'
  BY <1>1, <1>2 DEF Awaited
<1> DEFINE e == Event(event.mask, event.found, event.path)
<1>4. CASE Found(event.found) /\ event.mask # "CREATE" /\ eventQueue' = Append(eventQueue, e)
  <2>1. e \in HandedEvents /\ e.event = event.mask /\ e.path = event.path /\ e.transfer = event.found
    BY <1>2, <1>4 DEF Event, HandedEvents, Found
  <2> HIDE DEF e
  <2>2. Range(eventQueue') = Range(eventQueue) \union {e}
    BY <1>2, <1>4, <2>1, RangeAppend
  <2>3. Handed(f) => Handed(f)'
    BY <1>1, <2>2 DEF Handed, Found
  <2>4. event.mask = "MODIFY" /\ event.path = f => Handed(f)'
    BY <1>1, <1>4, <2>1, <2>2 DEF Handed, Found
  <2>5. Reported("MODIFY", f) => Reported("MODIFY", f)' \/ Handed(f)'
    BY <1>1, <2>4 DEF Reported
  <2>6. Overflowed => Overflowed'
    BY <1>1, <1>2 DEF Overflowed
  <2> QED
    BY <1>1, <1>3, <2>3, <2>5, <2>6 DEF Reaches, HomeOf
<1>5. CASE UNCHANGED eventQueue
  <2>1. Handed(f) => Handed(f)'
    BY <1>1, <1>5 DEF Handed, Found
  <2>2. event.mask = "MODIFY" /\ event.path = f => f \in slipped'
    <3>1. SUFFICES ASSUME event.mask = "MODIFY", event.path = f PROVE f \in slipped'
      OBVIOUS
    <3>2. ~Found(event.found)
      <4>1. SUFFICES ASSUME Found(event.found) PROVE FALSE
        OBVIOUS
      <4>2. eventQueue' = Append(eventQueue, e)
        BY <3>1, <4>1 DEF Dispatch, IsNewDir
      <4>3. e \in HandedEvents
        BY <1>2, <3>1, <4>1 DEF Event, HandedEvents, Found
      <4> HIDE DEF e
      <4>4. Len(Append(eventQueue, e)) = Len(eventQueue) + 1 /\ Len(eventQueue) \in Nat
        BY <1>2, <4>3, AppendProperties
      <4> QED
        BY <1>5, <4>2, <4>4
    <3>3. Matches(t, f)
      <4>1. fileMap[t] \in Kinds
        BY <1>2, ConfigIsTyped DEF CarrierInv, Keys, Choice
      <4> QED
        BY <4>1, ScannedMatch
    <3>4. patternPath(f) # {None}
      BY <1>2, <3>3 DEF patternPath
    <3>5. IsMissed
      BY <1>2, <3>1, <3>4 DEF IsMissed, Exists
    <3> QED
      BY <3>1, <3>2, <3>5 DEF Dispatch
  <2>3. Reported("MODIFY", f) => Reported("MODIFY", f)' \/ f \in slipped'
    BY <1>1, <2>2 DEF Reported
  <2>4. Overflowed => Overflowed'
    BY <1>1, <1>2 DEF Overflowed
  <2> QED
    BY <1>1, <1>3, <2>1, <2>3, <2>4 DEF Reaches, HomeOf
<1> QED
  BY <1>4, <1>5 DEF Dispatch

(* The event thread reads what it is handed.                               *)
LEMMA EventReaches ==
    ASSUME CarrierInv, NameInv', EventStep, NEW t \in Keys(fileMap), NEW f \in Files, Reaches(f, t), f \in unread'
    PROVE  Reaches(f, t)'
<1> DEFINE h == Head(eventQueue)
           read == IF h.event = "MODIFY" /\ Found(h.transfer) THEN {h.path} ELSE {}
<1>1. /\ UNCHANGED <<fileMap, alive, logged, kqueue, batch, event, cfgQueue, main, left, job>>
      /\ t \in Transfers
  BY DEF EventStep, disk, config, watcher, handler, Keys
<1>2. unread' = unread \ read /\ seen' = seen \ read /\ slipped' = slipped \ read /\ eventQueue' = Tail(eventQueue)
      /\ eventQueue # <<>>
  BY DEF EventStep
<1>3. f \notin read
  BY <1>2
<1>4. Range(eventQueue) = {h} \union Range(eventQueue')
  <2>1. eventQueue \in Seq(HandedEvents)
    BY HandedTypes DEF CarrierInv
  <2> QED
    BY <1>2, <2>1, RangeTail
<1>5. Handed(f) => Handed(f)'
  BY <1>1, <1>3, <1>4 DEF Handed, Found
<1>6. (Awaited(t) => Awaited(t)') /\ Coming' = Coming
  BY <1>1 DEF Awaited, Coming
<1> QED
  BY <1>1, <1>2, <1>3, <1>5, <1>6, ReachesKept

LEMMA ReachesStep ==
    ASSUME CarrierInv, ChangeHasCarrier, [Next]_vars,
           NEW t \in Keys(fileMap)', NEW f \in (unread \intersect ScannedFiles(t))'
    PROVE  Reaches(f, t)'
<1>1. NameInv' /\ NameInv
  BY NameStep DEF CarrierInv
<1>2. CASE Gauge \/ Reload \/ MainStep
  BY <1>1, <1>2, MainReaches
<1>3. CASE ~(Gauge \/ Reload \/ MainStep)
  <2>1. fileMap' = fileMap
    BY <1>3, ConfigStays DEF MainStep
  <2>2. t \in Keys(fileMap) /\ f \in Files
    BY <1>1, <2>1 DEF Keys, NameInv, TypeOK, DiskTypes
  <2>3. ASSUME NEW g \in Files, Write(g) PROVE Reaches(f, t)'
    BY <1>1, <2>2, <2>3, WriteReaches
  <2>4. CASE ~\E g \in Files : Write(g)
    <3>1. unread' \subseteq unread /\ files' \subseteq files
      <4>1. CASE \/ \E g \in Files : RemoveFile(g)
                 \/ \E d \in Dirs : MakeDir(d) \/ RemoveDir(d)
        BY <4>1 DEF RemoveFile, MakeDir, RemoveDir
      <4>2. CASE WatcherStep
        BY <4>2 DEF WatcherStep, ConsumePop, ConsumeLookup, CreateWatcher, Visit, Add, walkUnchanged, Scan,
           NextEvent, ParseUnnamed, ParseEvent, Dispatch, keepFs
      <4>3. CASE EditYml \/ EventStep \/ UNCHANGED vars
        BY <4>3 DEF EditYml, EventStep, vars, disk, history
      <4> QED
        BY <1>3, <2>4, <4>1, <4>2, <4>3 DEF Next
    <3>2. f \in unread \intersect ScannedFiles(t)
      BY <2>1, <3>1 DEF ScannedFiles
    <3>3. Reaches(f, t)
      BY <1>1, <2>2, <3>2, CarrierIs
    <3>4. CASE \/ \E g \in Files : RemoveFile(g)
               \/ \E d \in Dirs : MakeDir(d) \/ RemoveDir(d)
      BY <1>1, <2>2, <3>3, <3>4, DiskReaches
    <3>5. CASE ConsumePop \/ ConsumeLookup \/ Visit \/ Add \/ ParseUnnamed \/ EditYml \/ UNCHANGED vars
      BY <1>1, <2>2, <3>3, <3>5, QuietReaches
    <3>6. CASE CreateWatcher
      BY <1>1, <2>2, <3>2, <3>3, <3>6, CreateReaches
    <3>7. CASE Scan
      BY <1>1, <2>2, <3>2, <3>3, <3>7, ScanReaches
    <3>8. CASE NextEvent \/ ParseEvent
      BY <1>1, <2>2, <3>3, <3>8, NextEventReaches, ParseEventReaches
    <3>9. CASE Dispatch
      BY <1>1, <2>2, <3>2, <3>3, <3>9, DispatchReaches
    <3>10. CASE EventStep
      BY <1>1, <2>2, <3>3, <3>10, EventReaches
    <3> QED
      BY <1>3, <2>4, <3>4, <3>5, <3>6, <3>7, <3>8, <3>9, <3>10 DEF Next, WatcherStep
  <2> QED
    BY <2>3, <2>4
<1> QED
  BY <1>2, <1>3

(* ChangeHasCarrier holds for every tree, every aidt.yml and every limit:  *)
(* a change of a configured file is in the kernel's queue, the buffer, the *)
(* event queue or the scan to come, unless it was lost in one of the ways  *)
(* the property names.                                                     *)
THEOREM EveryChangeHasCarrier == Spec => []ChangeHasCarrier
<1>1. Init => CarrierInv /\ ChangeHasCarrier
  BY InitCarrier
<1>2. CarrierInv /\ ChangeHasCarrier /\ [Next]_vars => (CarrierInv /\ ChangeHasCarrier)'
  <2>1. SUFFICES ASSUME CarrierInv, ChangeHasCarrier, [Next]_vars
                 PROVE  CarrierInv' /\ ChangeHasCarrier'
    OBVIOUS
  <2>2. CarrierInv'
    BY <2>1, CarrierInvStep
  <2>3. \A t \in Keys(fileMap)' : \A f \in (unread \intersect ScannedFiles(t))' : Reaches(f, t)'
    BY <2>1, ReachesStep
  <2>4. ChangeHasCarrier'
    <3>1. NameInv'
      BY <2>2 DEF CarrierInv
    <3> QED
      BY <2>3, <3>1, CarrierWas
  <2> QED
    BY <2>2, <2>4
<1> QED
  BY <1>1, <1>2, PTL DEF Spec

-----------------------------------------------------------------------------
(***************************************************************************)
(* Subdirectories of a recursive transfer: the invariant.                  *)
(***************************************************************************)

(* The paths a transfer answers for, whatever its kind.                    *)
Covers(t, p) == t \in Above[p] \union {p} \/ <<t, p>> \in Alike

(* No aidt.yml has two transfers for one path, of which patternPathFile    *)
(* answers either.                                                         *)
Apart ==
    \A y \in YmlChoices : \A t, u \in Keys(y) : \A p \in Paths : Covers(t, p) /\ Covers(u, p) => t = u

(* An answer of patternPathFile, right or out of date, is a transfer that  *)
(* covers the path.                                                        *)
Answered ==
    /\ \A p \in DOMAIN cache : cache[p] = None \/ Covers(cache[p], p)
    /\ at = "find" => event.found = None \/ Covers(event.found, event.path)

(* The transfers are those of one aidt.yml, or some of those of the new    *)
(* one while the handler stores it.                                        *)
OneYml ==
    /\ \E y \in YmlChoices : Keys(fileMap) \subseteq Keys(y)
    /\ main \in {"push", "assign"} => Keys(fileMap) \subseteq Keys(infos)

OnlyFilesChange ==
    /\ \A e \in Range(kqueue) \union Range(batch) \union {event} : e.mask = "MODIFY" => e.path \in Files
    /\ \A e \in Range(eventQueue) : e.event = "MODIFY" => e.path \in Files

Recursive == job.kind = "recursive"

(* The walk is about the directory of the job and what is below it.        *)
TodoFits ==
    /\ at # "walk" => todo = <<>>
    /\ at \in {"create", "walk"} /\ ~Recursive => job.path \in Transfers
    /\ at = "walk" =>
          \A e \in Range(todo) :
              IF Recursive THEN e[2] \in Paths /\ (job.path = e[2] \/ job.path \in Above[e[2]])
              ELSE e = <<"add", HomeOf(job.path)>>

(* When the kind the job was looked up with is not that of its transfer any *)
(* more, a reload has queued every transfer, or is about to.               *)
Outdated ==
    at \in {"create", "walk"} /\ ~Recursive =>
        \/ fileMap[job.path] = job.kind /\ main \notin {"push", "assign"}
        \/ \A t \in Keys(fileMap) :
              t \in Range(cfgQueue) \/ (main \in {"push", "assign"} /\ t \in Range(left))

WalkInv ==
    CarrierInv /\ Answered /\ OneYml /\ OnlyFilesChange /\ TodoFits /\ Outdated

(* A directory without a watch, and what keeps it from being forgotten.    *)
Bare(d) == d \in Dirs /\ Exists(d) /\ ~Watched(d)

JobCovers(d) == Recursive /\ ((at = "create" /\ job.path = d) \/ (at = "walk" /\ Pending(d)))

Missed(d) == (slipped \union logged) \intersect (Above[d] \union {d}) # {}

Held(d) == Reported("CREATE", d) \/ JobCovers(d) \/ Overflowed \/ Missed(d)

(* A directory that is about to be watched has been listed: what is in it  *)
(* and not watched comes before it, or was reported or passed over.        *)
BehindAdds ==
    at = "walk" /\ Recursive =>
        \A d \in Dirs : Bare(d) /\ <<"add", Parent[d]>> \in Range(todo) => Held(d)

(* The walk leaves no directory behind that is in a watched one.           *)
WalkCovers ==
    at = "walk" /\ Recursive =>
        \A d \in Dirs : Bare(d) /\ job.path \in Above[d] => Held(d) \/ ~Watched(Parent[d])

SubdirHeld ==
    \A d \in Dirs, t \in Keys(fileMap) :
        fileMap[t] = "recursive" /\ t \in Above[d] /\ Bare(d) =>
            Held(d) \/ ~Watched(Parent[d]) \/ Awaited(t)

SubdirInv == WalkInv /\ BehindAdds /\ WalkCovers /\ SubdirHeld

-----------------------------------------------------------------------------
(***************************************************************************)
(* The parts of WalkInv.                                                   *)
(***************************************************************************)

LEMMA AnsweredStep ==
    ASSUME NameInv, Answered, [Next]_vars
    PROVE  Answered'
<1>1. CASE UNCHANGED <<cache, event, at>>
  BY <1>1 DEF Answered
<1>2. CASE ParseEvent
  <2>1. event.path \in Paths /\ event \in EventType /\ at = "parse" /\ at' = "find"
    <3>1. event.wd # Overflow
      BY <1>2 DEF ParseEvent, NameInv, TypeOK, WatchTypes, Overflow
    <3> QED
      BY <1>2, <3>1 DEF ParseEvent, Goto, NameInv, EventFits, TypeOK, ThreadTypes, EventType
  <2>2. PICK old : \E t \in Known(DOMAIN cache \ old, event.path) :
               /\ cache' = [p \in (DOMAIN cache \ old) \union {event.path} |->
                               IF p = event.path THEN t ELSE cache[p]]
               /\ event' = [event EXCEPT !.found = t]
    BY <1>2 DEF ParseEvent
  <2> DEFINE kept == DOMAIN cache \ old
  <2>3. PICK t \in Known(kept, event.path) :
               /\ cache' = [p \in kept \union {event.path} |-> IF p = event.path THEN t ELSE cache[p]]
               /\ event' = [event EXCEPT !.found = t]
    BY <2>2
  <2>4. t = None \/ Covers(t, event.path)
    <3>1. CASE event.path \in kept
      BY <2>3, <3>1 DEF Known, Answered
    <3>2. CASE event.path \notin kept
      <4>1. t = None \/ Matches(t, event.path)
        BY <2>3, <3>2 DEF Known, patternPath
      <4>2. Parent[event.path] \in Above[event.path]
        BY <2>1, AboveIs
      <4> QED
        BY <4>1, <4>2 DEF Matches, Covers
    <3> QED
      BY <3>1, <3>2
  <2>5. event'.found = t /\ event'.path = event.path
    BY <2>1, <2>3 DEF EventType
  <2>6. \A p \in DOMAIN cache' : cache'[p] = None \/ Covers(cache'[p], p)
    BY <2>3, <2>4 DEF Answered
  <2> QED
    BY <2>4, <2>5, <2>6 DEF Answered, Covers
<1>3. CASE WatcherStep /\ ~ParseEvent
  <2>1. cache' = cache
    BY <1>3, WatcherTouches
  <2>2. at' # "find" \/ (at' = at /\ event' = event)
    BY <1>3 DEF WatcherStep, ConsumePop, ConsumeLookup, CreateWatcher, Visit, Add, walkUnchanged, Scan,
       NextEvent, ParseUnnamed, Dispatch, Goto, watcher, NameInv, TypeOK, ThreadTypes
  <2> QED
    BY <2>1, <2>2 DEF Answered, Covers
<1>4. CASE \/ \E f \in Files : Write(f) \/ RemoveFile(f)
           \/ \E d \in Dirs : MakeDir(d) \/ RemoveDir(d)
           \/ EditYml \/ UNCHANGED vars
  BY <1>1, <1>4, WritersTouch
<1>5. CASE Gauge \/ Reload \/ MainStep \/ EventStep
  BY <1>1, <1>5, MainTouches, EventTouches
<1> QED
  BY <1>2, <1>3, <1>4, <1>5, StepSplit

LEMMA OneYmlStep ==
    ASSUME CarrierInv, OneYml, [Next]_vars
    PROVE  OneYml'
<1>1. fileMap \in Choice /\ infos \in YmlChoices /\ infos \in Choice /\ left \in Seq(Transfers)
  BY YmlFits, ConfigIsTyped DEF CarrierInv, NameInv, TypeOK, ConfigTypes
<1>2. CASE UNCHANGED fileMap /\ (main' \in {"push", "assign"} => UNCHANGED infos /\ main \in {"push", "assign"})
  BY <1>2 DEF OneYml
<1>3. CASE UpdateBegin
  <2>1. CASE gauging
    <3>1. main' = "stuck" /\ fileMap' = fileMap
      BY <1>3, <2>1 DEF UpdateBegin
    <3> QED
      BY <3>1 DEF OneYml
  <2>2. CASE ~gauging
    <3>1. fileMap' = [t \in Transfers |-> IF infos[t] = None THEN None ELSE fileMap[t]] /\ infos' = infos
      BY <1>3, <2>2 DEF UpdateBegin
    <3>2. Keys(fileMap)' \subseteq Keys(infos)
      BY <3>1 DEF Keys
    <3> QED
      BY <1>1, <3>1, <3>2 DEF OneYml
  <2> QED
    BY <2>1, <2>2
<1>4. CASE UpdateAssign
  <2>1. main = "assign" /\ left # <<>> /\ infos' = infos
        /\ fileMap' = [fileMap EXCEPT ![Head(left)] = infos[Head(left)]]
    BY <1>4 DEF UpdateAssign, CarrierInv, HandlerFits
  <2>2. Head(left) \in Keys(infos)
    BY <1>1, <2>1, RangeTail DEF CarrierInv, Idle
  <2>3. Keys(fileMap)' \subseteq Keys(fileMap) \union {Head(left)}
    BY <1>1, <2>1 DEF Keys, Choice
  <2>4. Keys(fileMap)' \subseteq Keys(infos)
    BY <2>1, <2>2, <2>3 DEF OneYml
  <2> QED
    BY <1>1, <2>1, <2>4 DEF OneYml
<1>5. CASE Gauge \/ Reload \/ check \/ paser \/ UpdatePush \/ GaugeDone
  <2>1. /\ UNCHANGED fileMap
        /\ main' \in {"push", "assign"} => UNCHANGED infos /\ main \in {"push", "assign"}
    BY <1>5 DEF Gauge, Reload, check, paser, Load, UpdatePush, GaugeDone, config, handler
  <2> QED
    BY <1>2, <2>1
<1>6. CASE WatcherStep \/ EventStep
  BY <1>2, <1>6, WatcherTouches, EventTouches
<1>7. CASE \/ \E f \in Files : Write(f) \/ RemoveFile(f)
           \/ \E d \in Dirs : MakeDir(d) \/ RemoveDir(d)
           \/ EditYml \/ UNCHANGED vars
  BY <1>2, <1>7, WritersTouch
<1> QED
  BY <1>3, <1>4, <1>5, <1>6, <1>7, StepSplit DEF MainStep

(* What is reported is queued, as the last event or in place of one.       *)
LEMMA ReportAdds ==
    ASSUME TypeOK, NEW q \in Seq(KernelEvents), NEW mask \in {"CREATE", "DELETE", "MODIFY"}, NEW p \in Paths
    PROVE  \A e \in Range(Report(q, mask, p)) : e \in Range(q) \/ e = Lost \/ (e.mask = mask /\ e.path = p)
<1>1. CASE ~Watched(Parent[p])
  BY <1>1 DEF Report
<1>2. CASE Watched(Parent[p])
  <2> DEFINE e == [wd |-> dirs[Parent[p]], path |-> p, mask |-> mask]
  <2>1. dirs[Parent[p]] \in Nat
    <3>1. dirs \in [Dirs -> 0..made] /\ made \in Nat
      BY DEF TypeOK, DiskTypes
    <3>2. Parent[p] \in Dirs
      BY <1>2 DEF Watched
    <3> QED
      BY <3>1, <3>2
  <2>2. e \in KernelEvents /\ e.mask = mask /\ e.path = p
    BY <2>1 DEF KernelEvents
  <2>3. Report(q, mask, p) = Queued(q, e)
    BY <1>2 DEF Report
  <2> HIDE DEF e
  <2> QED
    BY <2>2, <2>3, QueuedType
<1> QED
  BY <1>1, <1>2

LEMMA OnlyFilesStep ==
    ASSUME CarrierInv, OnlyFilesChange, [Next]_vars
    PROVE  OnlyFilesChange'
<1>1. /\ TypeOK /\ kqueue \in Seq(KernelEvents) /\ batch \in Seq(KernelEvents)
      /\ Lost.mask = "OVERFLOW" /\ Dirs \subseteq Paths /\ Files \subseteq Paths /\ files \subseteq Files
      /\ eventQueue \in Seq(HandedEvents)
  BY ComingRange, HandedTypes, ConstantFacts DEF CarrierInv, NameInv, Lost, TypeOK, DiskTypes
<1> DEFINE Fine(S) == \A e \in S : e.mask = "MODIFY" => e.path \in Files
<1>2. ASSUME NEW q \in Seq(KernelEvents), Fine(Range(q)), NEW p \in Paths,
             NEW mask \in {"CREATE", "DELETE", "MODIFY"}, mask = "MODIFY" => p \in Files
      PROVE  Fine(Range(Report(q, mask, p)))
  <2>1. \A e \in Range(Report(q, mask, p)) : e \in Range(q) \/ e = Lost \/ (e.mask = mask /\ e.path = p)
    BY <1>1, <1>2, ReportAdds
  <2> QED
    BY <1>1, <1>2, <2>1
<1>3. Fine(Range(kqueue)) /\ Fine(Range(batch)) /\ (event.mask = "MODIFY" => event.path \in Files)
  BY DEF OnlyFilesChange
<1>4. CASE UNCHANGED <<batch, event, eventQueue>> /\ Fine(Range(kqueue'))
  BY <1>3, <1>4 DEF OnlyFilesChange
<1>5. CASE UNCHANGED <<batch, event, eventQueue, kqueue>>
  BY <1>3, <1>4, <1>5
<1>6. ASSUME NEW f \in Files, Write(f) PROVE OnlyFilesChange'
  <2> DEFINE q == IF f \in files THEN kqueue ELSE Report(kqueue, "CREATE", f)
  <2>1. q \in Seq(KernelEvents) /\ f \in Paths
    BY <1>1, QueueNamed DEF CarrierInv
  <2>2. Fine(Range(q))
    BY <1>1, <1>2, <1>3
  <2>3. kqueue' = Report(q, "MODIFY", f) /\ UNCHANGED <<batch, event, eventQueue>>
    BY <1>6 DEF Write, watcher
  <2> HIDE DEF q
  <2>4. Fine(Range(kqueue'))
    BY <1>2, <2>1, <2>2, <2>3
  <2> HIDE DEF Fine
  <2> QED
    BY <1>4, <2>3, <2>4
<1>7. ASSUME NEW f \in Files, RemoveFile(f) PROVE OnlyFilesChange'
  <2>1. kqueue' = Report(kqueue, "DELETE", f) /\ UNCHANGED <<batch, event, eventQueue>> /\ f \in Paths
    BY <1>1, <1>7 DEF RemoveFile, watcher
  <2>2. Fine(Range(kqueue'))
    BY <1>1, <1>2, <1>3, <2>1
  <2> HIDE DEF Fine
  <2> QED
    BY <1>4, <2>1, <2>2
<1>8. ASSUME NEW d \in Dirs, MakeDir(d) \/ RemoveDir(d) PROVE OnlyFilesChange'
  <2>1. PICK mask \in {"CREATE", "DELETE"} : kqueue' = Report(kqueue, mask, d)
    BY <1>8 DEF MakeDir, RemoveDir
  <2>2. UNCHANGED <<batch, event, eventQueue>> /\ d \in Paths
    BY <1>1, <1>8 DEF MakeDir, RemoveDir, watcher
  <2>3. Fine(Range(kqueue'))
    BY <1>1, <1>2, <1>3, <2>1, <2>2
  <2> HIDE DEF Fine
  <2> QED
    BY <1>4, <2>2, <2>3
<1>9. CASE CreateWatcher
  <2>1. UNCHANGED <<batch, event, eventQueue>>
    BY <1>9 DEF CreateWatcher
  <2>2. ASSUME NEW h \in Dirs, mkdirRecursive(h) PROVE OnlyFilesChange'
    <3> DEFINE noted == {e \in Missing(h) : Watched(Parent[e])}
    <3>1. kqueue' = IF noted = {} THEN kqueue ELSE Report(kqueue, "CREATE", CHOOSE e \in noted : TRUE)
      BY <2>2 DEF mkdirRecursive
    <3>2. noted # {} => (CHOOSE e \in noted : TRUE) \in Paths
      BY <1>1 DEF Missing
    <3> HIDE DEF noted
    <3>3. Fine(Range(kqueue'))
      BY <1>1, <1>2, <1>3, <3>1, <3>2
    <3> HIDE DEF Fine
    <3> QED
      BY <1>4, <2>1, <3>3
  <2> QED
    BY <1>5, <1>9, <2>1, <2>2, CreateMakes DEF CarrierInv
<1>10. CASE NextEvent
  <2> DEFINE ready == IF batch # <<>> THEN batch ELSE kqueue
  <2>1. eventQueue' = eventQueue
    BY <1>10 DEF NextEvent
  <2>2. CASE ready = <<>>
    <3>1. UNCHANGED <<event, batch, kqueue>>
      BY <1>10, <2>2 DEF NextEvent
    <3> QED
      BY <1>5, <2>1, <3>1
  <2>3. CASE ready # <<>>
    <3>1. /\ event' = Taken(ready[1]) /\ batch' = Tail(ready)
          /\ kqueue' = IF batch # <<>> THEN kqueue ELSE <<>>
      BY <1>10, <2>3 DEF NextEvent
    <3>2. Range(<<>>) = {}
      BY DEF Range
    <3>3. ready \in Seq(KernelEvents) /\ Fine(Range(ready))
      BY <1>1, <1>3
    <3>4. Fine(Range(kqueue'))
      BY <1>3, <3>1, <3>2
    <3> HIDE DEF ready
    <3>5. Range(ready) = {ready[1]} \union Range(Tail(ready))
      BY <2>3, <3>3, RangeTail
    <3>6. event'.mask = ready[1].mask /\ event'.path = ready[1].path
      BY <3>1 DEF Taken
    <3> QED
      BY <1>3, <2>1, <3>1, <3>3, <3>4, <3>5, <3>6 DEF OnlyFilesChange
  <2> QED
    BY <2>2, <2>3
<1>11. CASE ParseEvent
  <2>1. UNCHANGED <<kqueue, batch, eventQueue>>
    BY <1>11 DEF ParseEvent
  <2>2. event'.path = event.path /\ event'.mask = event.mask
    <3>1. event \in EventType
      BY DEF CarrierInv, NameInv, TypeOK, ThreadTypes, EventType
    <3>2. PICK x : event' = [event EXCEPT !.found = x]
      BY <1>11 DEF ParseEvent
    <3> QED
      BY <3>1, <3>2 DEF EventType
  <2> QED
    BY <2>1, <2>2 DEF OnlyFilesChange
<1>12. CASE Dispatch
  <2>1. UNCHANGED <<kqueue, batch>> /\ event' = NoEvent /\ NoEvent.mask # "MODIFY" /\ at = "find"
    BY <1>12 DEF Dispatch, NoEvent
  <2>2. CASE UNCHANGED eventQueue
    BY <2>1, <2>2 DEF OnlyFilesChange
  <2>3. CASE /\ Found(event.found) /\ event.mask # "CREATE"
             /\ eventQueue' = Append(eventQueue, Event(event.mask, event.found, event.path))
    <3> DEFINE e == Event(event.mask, event.found, event.path)
    <3>1. e \in HandedEvents /\ e.event = event.mask /\ e.path = event.path
      <4>1. /\ event.found \in Transfers \union {None} /\ event.path \in Paths
            /\ event.mask \in {"CREATE", "DELETE", "MODIFY"}
        BY <2>1 DEF CarrierInv, Idle, NameInv, EventFits, TypeOK, ThreadTypes
      <4> QED
        BY <2>3, <4>1 DEF Event, HandedEvents, Found
    <3> HIDE DEF e
    <3>2. Range(eventQueue') = Range(eventQueue) \union {e}
      BY <1>1, <2>3, <3>1, RangeAppend DEF e
    <3> QED
      BY <1>3, <2>1, <3>1, <3>2 DEF OnlyFilesChange
  <2> QED
    BY <1>12, <2>2, <2>3 DEF Dispatch
<1>13. CASE Scan
  <2> DEFINE S == IF IsTransfer(job.path) THEN ScannedFiles(job.path) ELSE {}
  <2>1. UNCHANGED <<kqueue, batch, event>> /\ IsFiniteSet(S) /\ S \subseteq Files
    <3>1. S \subseteq Files
      BY <1>1 DEF ScannedFiles
    <3> QED
      BY <1>13, <3>1, ConstantFacts, FS_Subset DEF Scan
  <2>2. PICK q \in SetToSeqs(S) :
           eventQueue' = eventQueue \o [i \in 1..Len(q) |-> Event("MODIFY", job.path, q[i])]
    BY <1>13 DEF Scan
  <2>3. q \in Seq(S) /\ Range(q) = S
    BY <2>1, ListsOfASet
  <2> DEFINE new == [i \in 1..Len(q) |-> Event("MODIFY", job.path, q[i])]
  <2>4. ASSUME NEW i \in 1..Len(q)
        PROVE  new[i] \in HandedEvents /\ new[i].path \in Files
    <3>1. q[i] \in S
      BY <2>3
    <3>2. q[i] \in Files /\ q[i] \in Paths /\ job.path \in Transfers
      BY <1>1, <2>1, <3>1 DEF IsTransfer
    <3> QED
      BY <3>2 DEF Event, HandedEvents
  <2>5. new \in Seq(HandedEvents) /\ DOMAIN new = 1..Len(q)
    BY <2>3, <2>4
  <2>6. \A e \in Range(new) : e.path \in Files
    BY <2>4, <2>5 DEF Range
  <2>7. Range(eventQueue') = Range(eventQueue) \union Range(new)
    <3>1. eventQueue' = eventQueue \o new
      BY <2>2
    <3> HIDE DEF new
    <3> QED
      BY <1>1, <2>5, <3>1, RangeJoin
  <2> HIDE DEF new
  <2> QED
    BY <2>1, <2>6, <2>7 DEF OnlyFilesChange
<1>14. CASE EventStep
  <2>1. UNCHANGED <<kqueue, batch, event>> /\ eventQueue # <<>> /\ eventQueue' = Tail(eventQueue)
    BY <1>14, EventTouches DEF EventStep
  <2>2. Range(eventQueue') \subseteq Range(eventQueue)
    BY <1>1, <2>1, RangeTail
  <2> QED
    BY <2>1, <2>2 DEF OnlyFilesChange
<1>15. CASE ConsumePop \/ ConsumeLookup \/ Visit \/ Add \/ ParseUnnamed \/ EditYml \/ UNCHANGED vars
  <2>1. UNCHANGED <<batch, event, eventQueue, kqueue>>
    BY <1>15 DEF ConsumePop, ConsumeLookup, Visit, Add, walkUnchanged, ParseUnnamed, EditYml, vars, watcher
  <2> QED
    BY <1>5, <2>1
<1>16. CASE Gauge \/ Reload \/ MainStep
  BY <1>5, <1>16, MainTouches
<1> QED
  BY <1>6, <1>7, <1>8, <1>9, <1>10, <1>11, <1>12, <1>13, <1>14, <1>15, <1>16, StepSplit DEF WatcherStep

LEMMA OutdatedStep ==
    ASSUME CarrierInv, Outdated, [Next]_vars
    PROVE  Outdated'
<1>1. /\ fileMap \in Choice /\ infos \in Choice /\ left \in Seq(Transfers) /\ cfgQueue \in Seq(Transfers)
      /\ at \in {"config", "lookup", "create", "walk", "next", "parse", "find"}
      /\ job \in [path : Paths \union {None}, kind : Kinds \union {None}, back : {"next", "config"}]
  BY YmlFits DEF CarrierInv, NameInv, TypeOK, ConfigTypes, ThreadTypes
<1>2. CASE UNCHANGED <<job, fileMap, main, cfgQueue, left>> /\ (at' \in {"create", "walk"} => at \in {"create", "walk"})
  BY <1>2 DEF Outdated, Recursive
<1>3. CASE at' \notin {"create", "walk"}
  BY <1>3 DEF Outdated
<1>4. CASE ConsumeLookup
  <2>1. at' = "create" => /\ job' = [job EXCEPT !.kind = fileMap[job.path]] /\ ~LockHeld
                          /\ UNCHANGED <<fileMap, main>>
    BY <1>4, WatcherTouches DEF ConsumeLookup, Goto, WatcherStep
  <2>2. at' = "create" => job'.kind = fileMap'[job'.path] /\ main' \notin {"push", "assign"}
    BY <1>1, <2>1 DEF LockHeld
  <2>3. at' \in {"create", "next"}
    BY <1>4 DEF ConsumeLookup, Goto
  <2> QED
    BY <2>2, <2>3 DEF Outdated
<1>5. CASE Dispatch
  <2>1. at' = "config" \/ job'.kind = "recursive"
    BY <1>5 DEF Dispatch, Goto
  <2> QED
    BY <2>1 DEF Outdated, Recursive
<1>6. CASE CreateWatcher
  <2>1. UNCHANGED <<fileMap, main, cfgQueue, left>> /\ at = "create"
    BY <1>6 DEF CreateWatcher, keepFs, handler
  <2>2. job' = job \/ at' = job.back
    BY <1>6 DEF CreateWatcher, Goto
  <2> QED
    BY <1>1, <1>2, <1>3, <2>1, <2>2 DEF Outdated, Recursive
<1>7. CASE ConsumePop \/ NextEvent \/ ParseEvent \/ Scan
  <2>1. at' \notin {"create", "walk"}
    BY <1>1, <1>7 DEF ConsumePop, NextEvent, ParseEvent, Scan, Goto
  <2> QED
    BY <1>3, <2>1
<1>8. CASE Visit \/ Add \/ ParseUnnamed
  <2>1. UNCHANGED <<at, job, fileMap, main, cfgQueue, left>>
    BY <1>8 DEF Visit, Add, walkUnchanged, ParseUnnamed, keepFs, handler, watcher
  <2> QED
    BY <1>2, <2>1
<1>9. CASE \/ \E f \in Files : Write(f) \/ RemoveFile(f)
           \/ \E d \in Dirs : MakeDir(d) \/ RemoveDir(d)
           \/ EditYml \/ UNCHANGED vars
  BY <1>2, <1>9, WritersTouch
<1>10. CASE EventStep \/ Gauge \/ GaugeDone
  <2>1. UNCHANGED <<at, job, fileMap, main, cfgQueue, left>>
    BY <1>10 DEF EventStep, Gauge, GaugeDone, others, config, watcher, handler
  <2> QED
    BY <1>2, <2>1
<1> SUFFICES ASSUME at \in {"create", "walk"}, job.kind # "recursive", UNCHANGED <<at, job>>,
                    Reload \/ check \/ paser \/ UpdateBegin \/ UpdatePush \/ UpdateAssign
             PROVE  Outdated'
  <2>1. Gauge \/ Reload \/ MainStep => UNCHANGED <<at, job>>
    BY MainTouches
  <2> QED
    BY <1>3, <1>4, <1>5, <1>6, <1>7, <1>8, <1>9, <1>10, <2>1, StepSplit
       DEF Outdated, Recursive, WatcherStep, MainStep
<1>11. CASE Reload \/ check \/ paser
  <2>1. main \notin {"push", "assign"} /\ main' \notin {"push", "assign"} /\ UNCHANGED <<fileMap, cfgQueue>>
    BY <1>11 DEF Reload, check, paser, Load, config
  <2> QED
    BY <2>1 DEF Outdated, Recursive
<1>12. CASE UpdateBegin
  <2>1. UNCHANGED cfgQueue /\ main = "lock"
    BY <1>12 DEF UpdateBegin
  <2>2. CASE gauging
    <3>1. main' = "stuck" /\ fileMap' = fileMap
      BY <1>12, <2>2 DEF UpdateBegin
    <3> QED
      BY <2>1, <3>1 DEF Outdated, Recursive
  <2>3. CASE ~gauging
    <3>1. /\ main' = IF Keys(infos) = {} THEN "run" ELSE "push"
          /\ fileMap' = [t \in Transfers |-> IF infos[t] = None THEN None ELSE fileMap[t]]
          /\ left' \in Orders(infos)
      BY <1>12, <2>3 DEF UpdateBegin
    <3>2. Keys(fileMap)' \subseteq Keys(infos) /\ Range(left') = Keys(infos)
      BY <1>1, <3>1, OrdersList DEF Keys
    <3> QED
      BY <3>1, <3>2 DEF Outdated
  <2> QED
    BY <2>2, <2>3
<1>13. CASE UpdatePush
  <2>1. /\ main = "push" /\ main' = "assign" /\ UNCHANGED <<left, fileMap>>
        /\ cfgQueue' = Append(cfgQueue, Head(left)) /\ left # <<>>
    BY <1>13 DEF UpdatePush, CarrierInv, HandlerFits
  <2>2. Range(cfgQueue') = Range(cfgQueue) \union {Head(left)}
    <3>1. Head(left) \in Transfers
      BY <1>1, <2>1, RangeTail
    <3> QED
      BY <1>1, <2>1, <3>1, RangeAppend
  <2> QED
    BY <2>1, <2>2 DEF Outdated, Recursive
<1>14. CASE UpdateAssign
  <2>1. /\ main = "assign" /\ left # <<>> /\ UNCHANGED cfgQueue /\ left' = Tail(left)
        /\ fileMap' = [fileMap EXCEPT ![Head(left)] = infos[Head(left)]]
        /\ main' = IF Len(left) = 1 THEN "run" ELSE "push"
    BY <1>14 DEF UpdateAssign, CarrierInv, HandlerFits
  <2>2. Head(left) \in Range(cfgQueue)
    BY <2>1 DEF CarrierInv, HandlerFits
  <2>3. Range(left) = {Head(left)} \union Range(left')
    BY <1>1, <2>1, RangeTail
  <2>4. Len(left) = 1 => Range(left') = {}
    <3>1. Len(left) = 1 => Tail(left) = <<>>
      BY <1>1, <2>1, HeadTailProperties, EmptySeq
    <3> QED
      BY <2>1, <3>1 DEF Range
  <2>5. Keys(fileMap)' \subseteq Keys(fileMap) \union {Head(left)}
    BY <1>1, <2>1 DEF Keys, Choice
  <2>6. ASSUME NEW t \in Keys(fileMap)'
        PROVE  t \in Range(cfgQueue)' \/ (main' \in {"push", "assign"} /\ t \in Range(left'))
    <3>1. t = Head(left) \/ t \in Range(cfgQueue) \/ t \in Range(left)
      BY <2>1, <2>5 DEF Outdated, Recursive
    <3> QED
      BY <2>1, <2>2, <2>3, <2>4, <3>1
  <2> QED
    BY <2>6 DEF Outdated
<1> QED
  BY <1>11, <1>12, <1>13, <1>14

-----------------------------------------------------------------------------
(***************************************************************************)
(* The walk.                                                               *)
(***************************************************************************)

(* What a walk that is given up does not get to was before what is left.   *)
LEMMA GivenUpRest ==
    ASSUME TypeOK, NEW d
    PROVE  /\ Range(GivenUp(d)) \subseteq Range(todo)
           /\ \A e \in Range(todo) :
                 e \in Range(GivenUp(d)) \/ e \in {todo[i] : i \in 1..(Len(todo) - Len(GivenUp(d)))}
<1>1. todo \in Seq(WalkSteps) /\ Len(todo) \in Nat /\ DOMAIN todo = 1..Len(todo)
  BY LenProperties DEF TypeOK, ThreadTypes
<1>2. CASE <<"add", d>> \notin Range(todo)
  <2>1. GivenUp(d) = <<>> /\ Len(<<>>) = 0 /\ Range(<<>>) = {}
    BY <1>2 DEF GivenUp, Range
  <2>2. 1..(Len(todo) - Len(GivenUp(d))) = DOMAIN todo
    BY <1>1, <2>1
  <2> QED
    BY <2>1, <2>2 DEF Range
<1>3. CASE <<"add", d>> \in Range(todo)
  <2> DEFINE i == CHOOSE j \in DOMAIN todo : todo[j] = <<"add", d>>
             g == GivenUp(d)
  <2>1. i \in 1..Len(todo)
    BY <1>1, <1>3 DEF Range
  <2>2. g = SubSeq(todo, 1 + i, Len(todo))
    BY <1>3 DEF GivenUp
  <2> HIDE DEF i, g
  <2>3. 1 + i \in 1..(Len(todo) + 1)
    BY <1>1, <2>1
  <2>4. g \in Seq(WalkSteps) /\ Len(g) = Len(todo) - i
        /\ \A k \in 1..(Len(todo) - i) : g[k] = todo[i + k]
    <3>1. todo \in Seq(WalkSteps) /\ Len(todo) \in Nat
      BY <1>1
    <3> QED
      BY <2>1, <2>2, <2>3, <3>1, SubSeqProperties
  <2>5. DOMAIN g = 1..(Len(todo) - i) /\ Len(todo) - Len(g) = i
    BY <1>1, <2>1, <2>4, LenProperties
  <2>6. ASSUME NEW e \in Range(g) PROVE e \in Range(todo)
    <3>1. PICK k \in 1..(Len(todo) - i) : e = g[k]
      BY <2>5 DEF Range
    <3>2. i + k \in 1..Len(todo) /\ e = todo[i + k]
      BY <1>1, <2>1, <2>4, <3>1
    <3> QED
      BY <1>1, <3>2 DEF Range
  <2>7. ASSUME NEW e \in Range(todo) PROVE e \in Range(g) \/ e \in {todo[j] : j \in 1..i}
    <3>1. PICK j \in 1..Len(todo) : e = todo[j]
      BY <1>1 DEF Range
    <3>2. CASE j <= i
      BY <2>1, <3>1, <3>2
    <3>3. CASE ~(j <= i)
      <4>1. j - i \in 1..(Len(todo) - i) /\ i + (j - i) = j
        BY <1>1, <2>1, <3>1, <3>3
      <4>2. g[j - i] = e
        BY <2>4, <3>1, <4>1
      <4> QED
        BY <2>5, <4>1, <4>2 DEF Range
    <3> QED
      BY <3>2, <3>3
  <2> QED
    BY <2>5, <2>6, <2>7 DEF g
<1> QED
  BY <1>2, <1>3

(* A directory that is listed is watched after what is in it was looked at. *)
LEMMA ListedRange ==
    ASSUME NEW d \in Dirs, NEW q \in Listed(d)
    PROVE  Range(q) = {<<"visit", c>> : c \in Children(d)} \union {<<"add", d>>}
<1>1. Children(d) \subseteq Paths /\ IsFiniteSet(Children(d))
  BY ConstantFacts, FS_Subset DEF Children
<1>2. PICK c \in SetToSeqs(Children(d)) : q = [i \in 1..Len(c) |-> <<"visit", c[i]>>] \o <<<<"add", d>>>>
  BY DEF Listed
<1>3. c \in Seq(Children(d)) /\ Range(c) = Children(d) /\ Len(c) \in Nat /\ DOMAIN c = 1..Len(c)
  BY <1>1, ListsOfASet, LenProperties
<1> DEFINE visits == [i \in 1..Len(c) |-> <<"visit", c[i]>>]
<1>4. visits \in Seq(WalkSteps)
  <2>1. \A i \in 1..Len(c) : <<"visit", c[i]>> \in WalkSteps
    BY <1>1, <1>3 DEF WalkSteps
  <2> QED
    BY <1>3, <2>1
<1>5. Range(visits) = {<<"visit", x>> : x \in Children(d)}
  <2>1. Range(visits) = {<<"visit", c[i]>> : i \in 1..Len(c)}
    BY DEF Range
  <2>2. \A x \in Children(d) : \E i \in 1..Len(c) : x = c[i]
    BY <1>3 DEF Range
  <2>3. \A i \in 1..Len(c) : c[i] \in Children(d)
    BY <1>3 DEF Range
  <2> QED
    BY <2>1, <2>2, <2>3
<1> DEFINE last == <<"add", d>>
<1>6. last \in WalkSteps /\ q = visits \o <<last>>
  BY <1>2 DEF WalkSteps
<1> HIDE DEF visits, last
<1>7. q = Append(visits, last)
  BY <1>4, <1>6, AppendIsConcat
<1>8. Range(Append(visits, last)) = Range(visits) \union {last}
  BY <1>4, <1>6, RangeAppend
<1> QED
  BY <1>5, <1>7, <1>8, Zenon DEF last

LEMMA TodoHead ==
    ASSUME NameInv, todo # <<>>
    PROVE  Range(todo) = {Head(todo)} \union Range(Tail(todo)) /\ todo \in Seq(WalkSteps)
<1>1. todo \in Seq(WalkSteps)
  BY FirstStep DEF NameInv
<1> QED
  BY <1>1, RangeTail

LEMMA VisitRange ==
    ASSUME NameInv, Visit, NEW p, p = Head(todo)[2]
    PROVE  /\ p \in Paths /\ Head(todo) = <<"visit", p>> /\ at = "walk"
           /\ Range(todo) = {<<"visit", p>>} \union Range(Tail(todo))
           /\ \/ /\ ~Exists(p) /\ Range(todo') \subseteq Range(todo)
                 /\ \A d \in Dirs : \A e \in Range(todo) :
                       Exists(d) /\ e \in {<<"visit", d>>, <<"add", d>>} =>
                           e \in Range(todo') \/ d \in slipped'
              \/ p \in files /\ Range(todo') = Range(Tail(todo))
              \/ /\ p \in Dirs /\ Exists(p)
                 /\ Range(todo') = {<<"visit", c>> : c \in Children(p)} \union {<<"add", p>>}
                                      \union Range(Tail(todo))
<1>1. /\ p \in Paths /\ Head(todo) = <<"visit", p>> /\ at = "walk" /\ todo # <<>>
      /\ Tail(todo) \in Seq(WalkSteps) /\ Range(todo) = {<<"visit", p>>} \union Range(Tail(todo))
  BY FirstStep, TodoHead DEF Visit, NameInv
<1>2. CASE ~Exists(p) /\ todo' = GivenUp(Parent[p]) /\ slipped' = slipped \union Dropped(todo')
  <2> DEFINE steps == {todo[i] : i \in 1..(Len(todo) - Len(todo'))}
  <2>1. /\ Range(todo') \subseteq Range(todo)
        /\ \A e \in Range(todo) : e \in Range(todo') \/ e \in steps
    BY <1>2, GivenUpRest DEF NameInv
  <2>2. Dropped(todo') = {d \in Dirs : Exists(d) /\ steps \intersect {<<"visit", d>>, <<"add", d>>} # {}}
    BY DEF Dropped
  <2> HIDE DEF steps
  <2> QED
    BY <1>1, <1>2, <2>1, <2>2
<1>3. CASE p \in files /\ todo' = Tail(todo)
  BY <1>1, <1>3
<1>4. CASE p \in Dirs /\ Exists(p) /\ todo' \in {q \o Tail(todo) : q \in Listed(p)}
  <2>1. PICK q \in Listed(p) : todo' = q \o Tail(todo)
    BY <1>4
  <2>2. q \in Seq(WalkSteps) /\ Range(q) = {<<"visit", c>> : c \in Children(p)} \union {<<"add", p>>}
    BY <1>4, ListedEnd, ListedRange
  <2> DEFINE rest == Tail(todo)
  <2>3. rest \in Seq(WalkSteps) /\ todo' = q \o rest
    BY <1>1, <2>1
  <2> HIDE DEF rest
  <2>4. Range(q \o rest) = Range(q) \union Range(rest)
    BY <2>2, <2>3, RangeJoin
  <2>5. Range(todo') = Range(q) \union Range(rest)
    BY <2>3, <2>4, Zenon
  <2> QED
    BY <1>1, <1>4, <2>2, <2>5 DEF rest
<1> QED
  BY <1>2, <1>3, <1>4 DEF Visit

LEMMA AddRange ==
    ASSUME NameInv, Add, NEW h, h = Head(todo)[2]
    PROVE  /\ h \in Dirs \union {Root} /\ Head(todo) = <<"add", h>> /\ at = "walk"
           /\ Range(todo) = {<<"add", h>>} \union Range(Tail(todo)) /\ logged \subseteq logged'
           /\ \/ h = Root /\ todo' = Tail(todo) /\ UNCHANGED watching
              \/ h \in Dirs /\ Exists(h) /\ todo' = Tail(todo) /\ watching' = watching \union {dirs[h]}
              \/ h \in Dirs /\ Exists(h) /\ todo' = <<>> /\ job.path \in logged' /\ UNCHANGED watching
              \/ h \in Dirs /\ ~Exists(h) /\ todo' = Tail(todo) /\ UNCHANGED watching
<1>1. /\ h \in Dirs \union {Root} /\ Head(todo) = <<"add", h>> /\ at = "walk" /\ todo # <<>>
      /\ Range(todo) = {<<"add", h>>} \union Range(Tail(todo)) /\ Root \notin Dirs
  BY FirstStep, TodoHead, ConstantFacts DEF Add, NameInv
<1>2. logged \subseteq logged'
  BY DEF Add
<1>3. CASE h = Root
  BY <1>1, <1>2, <1>3 DEF Add, inotify
<1>4. CASE h # Root
  BY <1>1, <1>2, <1>4 DEF Add, inotify
<1> QED
  BY <1>3, <1>4

LEMMA TodoFitsStep ==
    ASSUME CarrierInv, TodoFits, [Next]_vars
    PROVE  TodoFits'
<1>1. /\ NameInv /\ TypeOK /\ Dirs \subseteq Paths /\ Files \subseteq Paths /\ Dirs \intersect Files = {}
      /\ at \in {"config", "lookup", "create", "walk", "next", "parse", "find"}
      /\ job \in [path : Paths \union {None}, kind : Kinds \union {None}, back : {"next", "config"}]
  BY ConstantFacts DEF CarrierInv, NameInv, TypeOK, ThreadTypes
<1>2. CASE UNCHANGED <<at, job, todo>>
  BY <1>2 DEF TodoFits, Recursive
<1>3. CASE CreateWatcher
  <2>1. /\ at = "create" /\ job.path \in Paths /\ job.kind \in Kinds /\ todo = <<>>
        /\ job.kind = "file" => job.path \in Files
        /\ job.kind # "file" => job.path \in Dirs
    BY <1>1, <1>3 DEF CreateWatcher, NameInv, TypeOK, ThreadTypes, JobFits, Kinds, TodoFits
  <2>2. CASE at' # "walk"
    <3>1. at' \in {"next", "config"} /\ todo' = <<>>
      BY <1>1, <1>3, <2>1, <2>2 DEF CreateWatcher, Goto
    <3> QED
      BY <3>1 DEF TodoFits
  <2>3. CASE at' = "walk" /\ job.kind = "file"
    <3>1. job' = job /\ todo' = <<<<"add", Parent[job.path]>>>>
      BY <1>1, <1>3, <2>3 DEF CreateWatcher, Goto
    <3>2. Range(todo') = {<<"add", HomeOf(job.path)>>}
      BY <2>1, <2>3, <3>1 DEF HomeOf, Range
    <3> QED
      BY <2>1, <2>3, <3>1, <3>2 DEF TodoFits, Recursive, HomeOf
  <2>4. CASE at' = "walk" /\ job.kind = "recursive"
    <3>1. job' = job /\ todo' = <<<<"visit", job.path>>>>
      BY <1>1, <1>3, <2>4 DEF CreateWatcher, Goto
    <3>2. Range(todo') = {<<"visit", job.path>>}
      BY <3>1 DEF Range
    <3> QED
      BY <2>1, <2>4, <3>1, <3>2 DEF TodoFits, Recursive
  <2>5. CASE at' = "walk" /\ job.kind = "dir"
    <3>1. job' = job /\ todo' = <<<<"add", job.path>>>>
      BY <1>1, <1>3, <2>5 DEF CreateWatcher, Goto
    <3>2. Range(todo') = {<<"add", HomeOf(job.path)>>}
      BY <1>1, <2>1, <2>5, <3>1 DEF HomeOf, Range
    <3> QED
      BY <2>1, <2>5, <3>1, <3>2 DEF TodoFits, Recursive, HomeOf
  <2> QED
    BY <2>1, <2>2, <2>3, <2>4, <2>5 DEF Kinds
<1>4. CASE Visit
  <2>0. PICK p : p = Head(todo)[2]
    OBVIOUS
  <2>1. at' = "walk" /\ at = "walk" /\ job' = job /\ p \in Paths /\ <<"visit", p>> \in Range(todo)
    BY <1>1, <1>4, <2>0, VisitRange DEF walkUnchanged, Visit
  <2>2. Recursive
    <3>1. <<"visit", p>> # <<"add", HomeOf(job.path)>>
      OBVIOUS
    <3> QED
      BY <2>1, <3>1 DEF TodoFits
  <2>3. job.path = p \/ job.path \in Above[p]
    BY <2>1, <2>2 DEF TodoFits
  <2>4. CASE Range(todo') \subseteq Range(todo)
    BY <2>1, <2>4 DEF TodoFits, Recursive
  <2>5. CASE /\ p \in Dirs
             /\ Range(todo') = {<<"visit", c>> : c \in Children(p)} \union {<<"add", p>>} \union Range(Tail(todo))
    <3>1. ASSUME NEW c \in Children(p) PROVE c \in Paths /\ job.path \in Above[c]
      <4>1. c \in Paths /\ Parent[c] = p
        BY DEF Children
      <4>2. p \in Above[c]
        BY <4>1, AboveIs
      <4>3. Above[p] \subseteq Above[c]
        BY <2>5, <4>1, <4>2, AboveUp
      <4> QED
        BY <2>3, <4>1, <4>2, <4>3
    <3>2. ASSUME NEW e \in Range(todo') PROVE e[2] \in Paths /\ (job.path = e[2] \/ job.path \in Above[e[2]])
      <4>1. CASE e \in Range(Tail(todo))
        BY <1>1, <1>4, <2>0, <2>1, <2>2, <4>1, VisitRange DEF TodoFits
      <4>2. CASE e = <<"add", p>>
        BY <2>1, <2>3, <4>2
      <4>3. CASE e \in {<<"visit", c>> : c \in Children(p)}
        BY <3>1, <4>3
      <4> QED
        BY <2>5, <4>1, <4>2, <4>3
    <3> QED
      BY <2>1, <2>2, <3>2 DEF TodoFits, Recursive
  <2> QED
    <3>1. Range(Tail(todo)) \subseteq Range(todo)
      BY <1>1, <1>4, <2>0, VisitRange
    <3> QED
      BY <1>1, <1>4, <2>0, <2>4, <2>5, <3>1, VisitRange
<1>5. CASE Add
  <2>0. PICK h : h = Head(todo)[2]
    OBVIOUS
  <2>1. at' = "walk" /\ at = "walk" /\ job' = job
    BY <1>1, <1>5, <2>0, AddRange DEF walkUnchanged, Add
  <2>2. Range(todo') \subseteq Range(todo)
    <3>1. todo' = Tail(todo) \/ todo' = <<>>
      BY <1>5 DEF Add
    <3>2. Range(<<>>) = {}
      BY DEF Range
    <3> QED
      BY <1>1, <1>5, <2>0, <3>1, <3>2, AddRange
  <2> QED
    BY <2>1, <2>2 DEF TodoFits, Recursive
<1>6. CASE ConsumeLookup
  <2>1. /\ at = "lookup" /\ todo' = todo /\ job.path \in Transfers
        /\ at' = "next" \/ (at' = "create" /\ job' = [job EXCEPT !.kind = fileMap[job.path]])
    BY <1>1, <1>6 DEF ConsumeLookup, Goto, NameInv, JobFits
  <2>2. at' = "create" => job'.path = job.path
    BY <1>1, <2>1
  <2> QED
    BY <2>1, <2>2 DEF TodoFits
<1>7. CASE Dispatch
  <2>1. /\ at = "find" /\ todo' = todo
        /\ at' = "config" \/ (at' = "create" /\ job'.kind = "recursive")
    BY <1>7 DEF Dispatch, Goto
  <2> QED
    BY <2>1 DEF TodoFits, Recursive
<1>8. CASE ConsumePop \/ NextEvent \/ ParseEvent \/ Scan
  <2>1. at' \notin {"create", "walk"} /\ todo' = todo /\ todo = <<>>
    BY <1>1, <1>8 DEF ConsumePop, NextEvent, ParseEvent, Scan, Goto, TodoFits
  <2> QED
    BY <2>1 DEF TodoFits
<1>9. CASE \/ \E f \in Files : Write(f) \/ RemoveFile(f)
           \/ \E d \in Dirs : MakeDir(d) \/ RemoveDir(d)
           \/ EditYml \/ UNCHANGED vars
  BY <1>2, <1>9, WritersTouch
<1>10. CASE EventStep \/ Gauge \/ Reload \/ MainStep
  BY <1>2, <1>10, EventTouches, MainTouches
<1>11. CASE ParseUnnamed
  BY <1>2, <1>11 DEF ParseUnnamed, watcher
<1> QED
  BY <1>3, <1>4, <1>5, <1>6, <1>7, <1>8, <1>9, <1>10, <1>11, StepSplit DEF WatcherStep

LEMMA WalkInvStep ==
    ASSUME WalkInv, [Next]_vars
    PROVE  WalkInv'
<1>1. CarrierInv /\ NameInv
  BY DEF WalkInv, CarrierInv
<1> QED
  BY <1>1, CarrierInvStep, AnsweredStep, OneYmlStep, OnlyFilesStep, TodoFitsStep, OutdatedStep
     DEF WalkInv

-----------------------------------------------------------------------------
(***************************************************************************)
(* What is held stays held.                                                *)
(***************************************************************************)

(* Only NextEvent takes from what is coming, and makes it the event.       *)
LEMMA ComingGrows ==
    ASSUME CarrierInv, NameInv', [Next]_vars, ~NextEvent
    PROVE  Range(Coming) \subseteq Range(Coming)'
<1>1. /\ TypeOK /\ kqueue \in Seq(KernelEvents) /\ Dirs \subseteq Paths /\ Files \subseteq Paths
      /\ Range(Coming) = Range(kqueue) \union Range(batch)
      /\ Range(Coming)' = Range(kqueue)' \union Range(batch)'
  BY ComingRange, ComingNext, ConstantFacts DEF CarrierInv, NameInv
<1>2. CASE UNCHANGED <<kqueue, batch>>
  BY <1>2 DEF Coming
<1>3. ASSUME NEW f \in Files, Write(f) PROVE Range(Coming) \subseteq Range(Coming)'
  <2> DEFINE q == IF f \in files THEN kqueue ELSE Report(kqueue, "CREATE", f)
  <2>1. f \in Paths /\ q \in Seq(KernelEvents) /\ Range(kqueue) \subseteq Range(q)
    BY <1>1, QueueNamed, ReportGrows DEF CarrierInv
  <2>2. kqueue' = Report(q, "MODIFY", f) /\ batch' = batch
    BY <1>3 DEF Write, watcher
  <2> HIDE DEF q
  <2>3. Range(q) \subseteq Range(kqueue')
    BY <1>1, <2>1, <2>2, ReportGrows
  <2> QED
    BY <1>1, <2>1, <2>2, <2>3
<1>4. ASSUME NEW f \in Files, RemoveFile(f) PROVE Range(Coming) \subseteq Range(Coming)'
  <2>1. f \in Paths /\ kqueue' = Report(kqueue, "DELETE", f) /\ batch' = batch
    BY <1>1, <1>4 DEF RemoveFile, watcher
  <2>2. Range(kqueue) \subseteq Range(kqueue')
    BY <1>1, <2>1, ReportGrows
  <2> QED
    BY <1>1, <2>1, <2>2
<1>5. ASSUME NEW d \in Dirs, MakeDir(d) \/ RemoveDir(d) PROVE Range(Coming) \subseteq Range(Coming)'
  <2>1. PICK mask \in {"CREATE", "DELETE"} : kqueue' = Report(kqueue, mask, d)
    BY <1>5 DEF MakeDir, RemoveDir
  <2>2. d \in Paths /\ batch' = batch
    BY <1>1, <1>5 DEF MakeDir, RemoveDir, watcher
  <2>3. Range(kqueue) \subseteq Range(kqueue')
    BY <1>1, <2>1, <2>2, ReportGrows
  <2> QED
    BY <1>1, <2>2, <2>3
<1>6. CASE CreateWatcher
  <2>1. batch' = batch
    BY <1>6 DEF CreateWatcher
  <2>2. ASSUME NEW h \in Dirs, mkdirRecursive(h) PROVE Range(Coming) \subseteq Range(Coming)'
    <3> DEFINE noted == {e \in Missing(h) : Watched(Parent[e])}
    <3>1. kqueue' = IF noted = {} THEN kqueue ELSE Report(kqueue, "CREATE", CHOOSE e \in noted : TRUE)
      BY <2>2 DEF mkdirRecursive
    <3>2. noted # {} => (CHOOSE e \in noted : TRUE) \in Paths
      BY <1>1 DEF Missing
    <3> HIDE DEF noted
    <3>3. Range(kqueue) \subseteq Range(kqueue')
      BY <1>1, <3>1, <3>2, ReportGrows
    <3> QED
      BY <1>1, <2>1, <3>3
  <2> QED
    BY <1>2, <1>6, <2>1, <2>2, CreateMakes DEF CarrierInv
<1>7. CASE WatcherStep /\ ~CreateWatcher
  <2>1. UNCHANGED <<kqueue, batch>>
    BY <1>7 DEF WatcherStep, ConsumePop, ConsumeLookup, Visit, Add, walkUnchanged, Scan, ParseUnnamed,
       ParseEvent, Dispatch, watcher
  <2> QED
    BY <1>2, <2>1
<1>8. CASE Gauge \/ Reload \/ MainStep \/ EventStep \/ EditYml \/ UNCHANGED vars
  BY <1>2, <1>8, MainTouches, EventTouches DEF EditYml, vars, watcher
<1> QED
  BY <1>3, <1>4, <1>5, <1>6, <1>7, <1>8, StepSplit

LEMMA NextTakes ==
    ASSUME CarrierInv, NameInv', NextEvent
    PROVE  /\ event.wd # Overflow /\ event.mask = ""
           /\ \A e \in Range(Coming) :
                 \/ e \in Range(Coming)'
                 \/ event'.wd = e.wd /\ event'.path = e.path /\ event'.mask = e.mask
<1> DEFINE ready == IF batch # <<>> THEN batch ELSE kqueue
<1>1. /\ event = NoEvent /\ ready \in Seq(KernelEvents)
      /\ Range(Coming) = Range(kqueue) \union Range(batch)
      /\ Range(Coming)' = Range(kqueue)' \union Range(batch)'
  BY ComingRange, ComingNext DEF CarrierInv, Idle, NextEvent
<1>2. event.wd # Overflow /\ event.mask = ""
  <2>1. NoEvent.wd = 0 /\ NoEvent.mask = ""
    BY DEF NoEvent
  <2>2. 0 # Overflow
    BY DEF Overflow
  <2> QED
    BY <1>1, <2>1, <2>2
<1>3. CASE ready = <<>>
  <2>1. UNCHANGED <<batch, kqueue>>
    BY <1>3 DEF NextEvent
  <2> QED
    BY <1>1, <1>2, <2>1
<1>4. CASE ready # <<>>
  <2>1. /\ event' = Taken(ready[1]) /\ batch' = Tail(ready)
        /\ kqueue' = IF batch # <<>> THEN kqueue ELSE <<>>
    BY <1>4 DEF NextEvent
  <2>2. Range(<<>>) = {}
    BY DEF Range
  <2>3. Range(ready) = {ready[1]} \union Range(Tail(ready))
    <3> HIDE DEF ready
    <3> QED
      BY <1>1, <1>4, RangeTail
  <2>4. Range(Coming) \subseteq {ready[1]} \union Range(Coming)'
    <3>1. CASE batch # <<>>
      BY <1>1, <2>1, <2>3, <3>1
    <3>2. CASE batch = <<>>
      BY <1>1, <2>1, <2>2, <2>3, <3>2
    <3> QED
      BY <3>1, <3>2
  <2> HIDE DEF ready
  <2>5. event'.wd = ready[1].wd /\ event'.path = ready[1].path /\ event'.mask = ready[1].mask
    BY <2>1 DEF Taken
  <2> QED
    BY <1>2, <2>4, <2>5
<1> QED
  BY <1>3, <1>4

(* The event that is parsed and dispatched stays what it is until then.    *)
LEMMA EventStays ==
    ASSUME CarrierInv, [Next]_vars, ~NextEvent, ~Dispatch
    PROVE  event'.wd = event.wd /\ event'.path = event.path /\ event'.mask = event.mask
<1>1. CASE ParseEvent
  <2>1. event \in EventType
    BY DEF CarrierInv, NameInv, TypeOK, ThreadTypes, EventType
  <2>2. PICK x : event' = [event EXCEPT !.found = x]
    BY <1>1 DEF ParseEvent
  <2> QED
    BY <2>1, <2>2 DEF EventType
<1>2. CASE WatcherStep /\ ~ParseEvent
  BY <1>2 DEF WatcherStep, ConsumePop, ConsumeLookup, CreateWatcher, Visit, Add, walkUnchanged, Scan,
     ParseUnnamed, watcher
<1>3. CASE ~WatcherStep
  BY <1>3, StepSplit, WritersTouch, MainTouches, EventTouches
<1> QED
  BY <1>1, <1>2, <1>3

(* An event that is reported is, until it is dispatched.                   *)
LEMMA ReportedStays ==
    ASSUME CarrierInv, NameInv', [Next]_vars, ~Dispatch, NEW mask \in {"CREATE", "DELETE", "MODIFY"},
           NEW p \in Paths, Reported(mask, p)
    PROVE  Reported(mask, p)'
<1>1. CASE NextEvent
  <2>1. mask # ""
    OBVIOUS
  <2>2. PICK e \in Range(Coming) : e.mask = mask /\ e.path = p
    BY <1>1, <2>1, NextTakes DEF Reported
  <2>3. e \in Range(Coming)' \/ (event'.path = e.path /\ event'.mask = e.mask)
    BY <1>1, NextTakes
  <2> QED
    BY <2>2, <2>3 DEF Reported
<1>2. CASE ~NextEvent
  BY <1>2, ComingGrows, EventStays DEF Reported
<1> QED
  BY <1>1, <1>2

LEMMA OverflowStays ==
    ASSUME CarrierInv, NameInv', [Next]_vars, Overflowed
    PROVE  Overflowed'
<1>1. CASE ~alive
  BY <1>1 DEF Next, vars, Overflowed
<1>2. CASE NextEvent
  <2>1. CASE alive
    <3>1. PICK e \in Range(Coming) : e.wd = Overflow
      BY <1>2, <2>1, NextTakes DEF Overflowed
    <3>2. e \in Range(Coming)' \/ event'.wd = e.wd
      BY <1>2, NextTakes
    <3> QED
      BY <3>1, <3>2 DEF Overflowed
  <2> QED
    BY <1>1, <2>1
<1>3. CASE Dispatch
  <2>1. event.wd # Overflow
    BY <1>3 DEF Dispatch, CarrierInv, Idle
  <2>2. ~NextEvent
    BY <1>3 DEF Dispatch, NextEvent
  <2> QED
    BY <1>1, <2>1, <2>2, ComingGrows DEF Overflowed
<1>4. CASE ~NextEvent /\ ~Dispatch
  BY <1>1, <1>4, ComingGrows, EventStays DEF Overflowed
<1> QED
  BY <1>2, <1>3, <1>4

(* A directory that was passed over is missed as long as it exists.        *)
LEMMA MissedStays ==
    ASSUME WalkInv, [Next]_vars, NEW d \in Dirs, Exists(d), Exists(d)', Missed(d)
    PROVE  Missed(d)'
<1>1. d \in Paths /\ d # Root /\ Dirs \intersect Files = {} /\ Root \notin Files /\ Standing
      /\ Above[d] \subseteq Dirs \union {Root} /\ OnlyFilesChange
  BY AboveIs, ConstantFacts DEF WalkInv, CarrierInv
<1>2. PICK x \in Above[d] \union {d} : x \in slipped \union logged
  BY DEF Missed
<1> SUFFICES x \in (slipped \union logged)'
  BY DEF Missed
<1>3. CASE slipped \subseteq slipped' /\ logged \subseteq logged'
  BY <1>2, <1>3
<1>4. ASSUME NEW f \in Files, Write(f) \/ RemoveFile(f) PROVE x \in (slipped \union logged)'
  BY <1>1, <1>2, <1>4 DEF Write, RemoveFile
<1>5. ASSUME NEW e \in Dirs, MakeDir(e) PROVE x \in (slipped \union logged)'
  BY <1>2, <1>5 DEF MakeDir
<1>6. ASSUME NEW e \in Dirs, RemoveDir(e) PROVE x \in (slipped \union logged)'
  <2>1. /\ slipped' = slipped \ {e} /\ logged' = logged /\ dirs' = [dirs EXCEPT ![e] = 0]
        /\ \A p \in Paths : Parent[p] = e => ~Exists(p)
    BY <1>6 DEF RemoveDir
  <2>2. e # d
    <3>1. dirs \in [Dirs -> 0..made]
      BY DEF WalkInv, CarrierInv, NameInv, TypeOK, DiskTypes
    <3> QED
      BY <2>1, <3>1 DEF Exists
  <2>3. e \notin Above[d]
    <3>1. SUFFICES ASSUME e \in Above[d] PROVE FALSE
      OBVIOUS
    <3>2. PICK c \in Paths : c \in Above[d] \union {d} /\ Parent[c] = e
      BY <1>1, <3>1, AboveChild
    <3>3. c # Root /\ Exists(c)
      BY <1>1, <3>2, ExistsAbove, ConstantFacts
    <3> QED
      BY <2>1, <3>2, <3>3
  <2> QED
    BY <1>2, <2>1, <2>2, <2>3
<1>7. CASE EventStep
  <2>1. PICK g : slipped' = slipped \ g /\ g \subseteq Files
    <3> DEFINE e == Head(eventQueue)
               read == IF e.event = "MODIFY" /\ Found(e.transfer) THEN {e.path} ELSE {}
    <3>1. slipped' = slipped \ read
      BY <1>7 DEF EventStep
    <3>2. e \in Range(eventQueue)
      <4>1. eventQueue \in Seq(HandedEvents) /\ eventQueue # <<>>
        BY <1>7, HandedTypes DEF EventStep, WalkInv, CarrierInv
      <4> QED
        BY <4>1, RangeTail
    <3>3. read \subseteq Files
      BY <1>1, <3>2 DEF OnlyFilesChange
    <3> QED
      BY <3>1, <3>3
  <2>2. logged' = logged
    BY <1>7, EventTouches
  <2> QED
    BY <1>1, <1>2, <2>1, <2>2
<1>8. CASE WatcherStep
  BY <1>3, <1>8 DEF WatcherStep, ConsumePop, ConsumeLookup, CreateWatcher, Visit, Add, walkUnchanged, Scan,
     NextEvent, ParseUnnamed, ParseEvent, Dispatch
<1>9. CASE Gauge \/ Reload \/ MainStep \/ EditYml \/ UNCHANGED vars
  BY <1>3, <1>9, MainTouches DEF EditYml, vars, history
<1> QED
  BY <1>4, <1>5, <1>6, <1>7, <1>8, <1>9, StepSplit

-----------------------------------------------------------------------------
(***************************************************************************)
(* The steps of the walk.                                                  *)
(***************************************************************************)

(* A directory the walk will get to is one it will get to, until it is      *)
(* watched or passed over.                                                  *)
LEMMA PendingVisit ==
    ASSUME WalkInv, Visit, NEW d \in Dirs, Exists(d), Pending(d)
    PROVE  Pending(d)' \/ Missed(d)'
<1>1. /\ NameInv /\ Standing /\ d \in Paths /\ d # Root /\ Dirs \subseteq Paths /\ Root \notin Paths
      /\ Dirs \intersect Files = {} /\ Above[d] \subseteq Dirs \union {Root}
  BY AboveIs, ConstantFacts DEF WalkInv, CarrierInv
<1>2. \A x \in Above[d] : x = Root \/ (x \in Dirs /\ Exists(x))
  BY <1>1, ExistsAbove
<1>3. PICK p : p = Head(todo)[2]
  OBVIOUS
<1>4. dirs' = dirs /\ files' = files /\ files \subseteq Files
  BY <1>1 DEF Visit, walkUnchanged, keepFs, NameInv, TypeOK, DiskTypes
<1>5. PICK e \in Range(todo) : e = <<"add", d>> \/ \E x \in Above[d] \union {d} : e = <<"visit", x>>
  BY DEF Pending
<1>6. CASE e \in Range(todo')
  BY <1>5, <1>6 DEF Pending
<1>7. CASE e \notin Range(todo') /\ ~Exists(p)
  <2>1. PICK x \in Above[d] \union {d} : e \in {<<"visit", x>>, <<"add", x>>} /\ (x # d => e = <<"visit", x>>)
    BY <1>5
  <2>2. x \in Dirs /\ Exists(x)
    <3>1. x # Root
      <4>1. SUFFICES ASSUME x = Root PROVE FALSE
        OBVIOUS
      <4>2. e = <<"visit", Root>> /\ todo \in Seq(WalkSteps) /\ todo # <<>>
        BY <1>1, <2>1, <4>1, TodoHead DEF Visit
      <4>3. e \in WalkSteps
        <5>1. PICK i \in DOMAIN todo : e = todo[i]
          BY DEF Range
        <5> QED
          BY <4>2, <5>1, LenProperties
      <4> QED
        BY <1>1, <4>2, <4>3 DEF WalkSteps
    <3> QED
      BY <1>2, <2>1, <3>1
  <2>3. x \in slipped'
    BY <1>1, <1>3, <1>7, <2>1, <2>2, VisitRange
  <2> QED
    BY <2>3 DEF Missed
<1>8. CASE e \notin Range(todo') /\ Exists(p)
  <2>1. /\ p \in Paths /\ Range(todo) = {<<"visit", p>>} \union Range(Tail(todo))
        /\ \/ p \in files /\ Range(todo') = Range(Tail(todo))
           \/ /\ p \in Dirs
              /\ Range(todo') = {<<"visit", c>> : c \in Children(p)} \union {<<"add", p>>}
                                   \union Range(Tail(todo))
    BY <1>1, <1>3, <1>8, VisitRange
  <2>2. e = <<"visit", p>>
    BY <1>8, <2>1
  <2>3. p \in Above[d] \union {d}
    BY <1>5, <2>2
  <2>4. p \notin files
    BY <1>1, <1>4, <2>1, <2>3
  <2>5. /\ <<"add", p>> \in Range(todo')
        /\ \A c \in Children(p) : <<"visit", c>> \in Range(todo')
    BY <2>1, <2>4
  <2>6. CASE p = d
    BY <2>5, <2>6 DEF Pending
  <2>7. CASE p \in Above[d]
    <3>1. PICK c \in Paths : c \in Above[d] \union {d} /\ Parent[c] = p
      BY <1>1, <2>7, AboveChild
    <3>2. c \in Children(p)
      BY <1>1, <1>2, <3>1 DEF Children
    <3> QED
      BY <2>5, <3>1, <3>2 DEF Pending
  <2> QED
    BY <2>3, <2>6, <2>7
<1> QED
  BY <1>6, <1>7, <1>8

LEMMA PendingAdd ==
    ASSUME WalkInv, Add, Recursive, NEW d, Bare(d), Bare(d)', Pending(d)
    PROVE  Pending(d)' \/ Missed(d)'
<1>1. /\ NameInv /\ d \in Dirs /\ d \in Paths /\ Exists(d) /\ ~Watched(d)' /\ at = "walk"
      /\ TodoFits /\ dirs' = dirs /\ Dirs \subseteq Paths
  BY ConstantFacts DEF WalkInv, CarrierInv, Bare, Add, walkUnchanged, keepFs
<1>2. PICK h : h = Head(todo)[2]
  OBVIOUS
<1>3. /\ Range(todo) = {<<"add", h>>} \union Range(Tail(todo))
      /\ \/ h = Root /\ todo' = Tail(todo) /\ UNCHANGED watching
         \/ h \in Dirs /\ Exists(h) /\ todo' = Tail(todo) /\ watching' = watching \union {dirs[h]}
         \/ h \in Dirs /\ Exists(h) /\ todo' = <<>> /\ job.path \in logged' /\ UNCHANGED watching
         \/ h \in Dirs /\ ~Exists(h) /\ todo' = Tail(todo) /\ UNCHANGED watching
  BY <1>1, <1>2, AddRange
<1>4. PICK e \in Range(todo) : e = <<"add", d>> \/ \E x \in Above[d] \union {d} : e = <<"visit", x>>
  BY DEF Pending
<1>5. CASE todo' = <<>> /\ job.path \in logged'
  <2>1. PICK x \in Above[d] \union {d} : e[2] = x /\ x \in Paths /\ (job.path = x \/ job.path \in Above[x])
    BY <1>1, <1>4 DEF TodoFits
  <2>2. job.path \in Above[d] \union {d}
    <3>1. CASE x = d
      BY <2>1, <3>1
    <3>2. CASE x \in Above[d]
      <4>1. x \in Dirs
        BY <1>1, <2>1, <3>2, AboveIs, ConstantFacts
      <4> QED
        BY <1>1, <2>1, <3>2, <4>1, AboveUp
    <3> QED
      BY <2>1, <3>1, <3>2
  <2> QED
    BY <1>5, <2>2 DEF Missed
<1>6. CASE todo' = Tail(todo) /\ e # <<"add", h>>
  BY <1>3, <1>4, <1>6 DEF Pending
<1>7. CASE todo' = Tail(todo) /\ e = <<"add", h>>
  <2>1. h = d /\ h # Root
    <3>1. \A x : <<"visit", x>> # <<"add", h>>
      OBVIOUS
    <3> QED
      BY <1>1, <1>4, <1>7, <3>1, ConstantFacts
  <2>2. watching' = watching \union {dirs[d]} \/ (todo' = <<>> /\ job.path \in logged')
    BY <1>1, <1>3, <2>1
  <2> QED
    BY <1>1, <1>5, <2>2 DEF Watched
<1> QED
  BY <1>3, <1>5, <1>6, <1>7

LEMMA JobCoversStays ==
    ASSUME WalkInv, [Next]_vars, NEW d, Bare(d), Bare(d)', JobCovers(d)
    PROVE  JobCovers(d)' \/ Missed(d)'
<1>1. /\ at \in {"create", "walk"} /\ Recursive /\ d \in Dirs /\ d \in Paths /\ Exists(d) /\ d # None
      /\ NameInv /\ TodoFits
  BY ConstantFacts DEF JobCovers, Bare, WalkInv, CarrierInv
<1>2. CASE UNCHANGED <<at, job, todo>>
  BY <1>2 DEF JobCovers, Recursive, Pending
<1>3. CASE CreateWatcher
  <2>1. at = "create" /\ job.path = d /\ job' = job /\ at' = "walk" /\ todo' = <<<<"visit", d>>>>
    BY <1>1, <1>3 DEF CreateWatcher, mkdirFails, Goto, JobCovers, Recursive
  <2>2. <<"visit", d>> \in Range(todo')
    BY <2>1 DEF Range
  <2> QED
    BY <1>1, <2>1, <2>2 DEF JobCovers, Recursive, Pending
<1>4. CASE Visit
  <2>1. at = "walk" /\ at' = at /\ job' = job
    BY <1>4 DEF Visit, walkUnchanged
  <2>2. Pending(d)' \/ Missed(d)'
    BY <1>1, <1>4, <2>1, PendingVisit DEF JobCovers
  <2> QED
    BY <1>1, <2>1, <2>2 DEF JobCovers, Recursive
<1>5. CASE Add
  <2>1. at = "walk" /\ at' = at /\ job' = job
    BY <1>5 DEF Add, walkUnchanged
  <2>2. Pending(d)' \/ Missed(d)'
    BY <1>1, <1>5, <2>1, PendingAdd DEF JobCovers
  <2> QED
    BY <1>1, <2>1, <2>2 DEF JobCovers, Recursive
<1>6. CASE Scan
  <2>1. at = "walk" /\ todo = <<>> /\ Range(<<>>) = {}
    BY <1>6 DEF Scan, Range
  <2> QED
    BY <2>1 DEF JobCovers, Pending
<1>7. CASE ConsumePop \/ ConsumeLookup \/ NextEvent \/ ParseUnnamed \/ ParseEvent \/ Dispatch
  BY <1>1, <1>7 DEF ConsumePop, ConsumeLookup, NextEvent, ParseUnnamed, ParseEvent, Dispatch
<1>8. CASE ~WatcherStep
  BY <1>2, <1>8, StepSplit, WritersTouch, MainTouches, EventTouches
<1> QED
  BY <1>3, <1>4, <1>5, <1>6, <1>7, <1>8 DEF WatcherStep

-----------------------------------------------------------------------------
(***************************************************************************)
(* New events of directories, and new directories.                         *)
(***************************************************************************)

(* The transfers are apart: only one of them answers for a path.           *)
LEMMA OneAnswers ==
    ASSUME Apart, OneYml, NEW t \in Keys(fileMap), NEW u \in Keys(fileMap), NEW p \in Paths,
           Covers(t, p), Covers(u, p)
    PROVE  t = u
  BY DEF Apart, OneYml

LEMMA DispatchHolds ==
    ASSUME Apart, WalkInv, Dispatch, NEW t \in Keys(fileMap), fileMap[t] = "recursive",
           NEW d, Bare(d), t \in Above[d], Reported("CREATE", d)
    PROVE  Held(d)'
<1>1. /\ NameInv /\ OneYml /\ Answered /\ d \in Dirs /\ d \in Paths /\ Exists(d) /\ d \notin Files
      /\ at = "find" /\ t \in Transfers /\ Coming' = Coming
  BY ConstantFacts DEF WalkInv, CarrierInv, Bare, Dispatch, Keys, Coming
<1>2. CASE \E e \in Range(Coming) : e.mask = "CREATE" /\ e.path = d
  BY <1>1, <1>2 DEF Held, Reported
<1>3. CASE event.mask = "CREATE" /\ event.path = d
  <2>1. Matches(t, d)
    BY DEF Matches
  <2>2. CASE ~Found(event.found)
    <3>1. patternPath(d) # {None}
      BY <1>1, <2>1, ConstantFacts DEF patternPath
    <3>2. IsMissed
      BY <1>1, <1>3, <3>1 DEF IsMissed
    <3>3. d \in slipped'
      BY <1>3, <2>2, <3>2 DEF Dispatch
    <3> QED
      BY <3>3 DEF Held, Missed
  <2>3. CASE Found(event.found)
    <3>1. event.found \in Transfers /\ event.found # None /\ event.found \in Keys(fileMap)
      BY <1>1, <2>3 DEF Found, Keys, NameInv, TypeOK, ThreadTypes
    <3>2. Covers(event.found, d) /\ Covers(t, d)
      BY <1>1, <1>3, <3>1 DEF Answered, Covers
    <3>3. event.found = t
      BY <1>1, <3>1, <3>2, OneAnswers
    <3>4. IsNewDir
      BY <1>1, <1>3, <3>3 DEF IsNewDir
    <3>5. at' = "create" /\ job'.path = d /\ job'.kind = "recursive"
      BY <1>3, <2>3, <3>4 DEF Dispatch, Goto
    <3> QED
      BY <3>5 DEF Held, JobCovers, Recursive
  <2> QED
    BY <2>2, <2>3
<1> QED
  BY <1>2, <1>3 DEF Reported

(* What keeps a directory from being forgotten goes on doing so.           *)
LEMMA HeldKept ==
    ASSUME WalkInv, WalkInv', [Next]_vars, ~Dispatch, NEW d, Bare(d), Bare(d)', Held(d)
    PROVE  Held(d)'
<1>1. CarrierInv /\ NameInv' /\ d \in Dirs /\ d \in Paths /\ Exists(d) /\ Exists(d)'
  BY ConstantFacts DEF WalkInv, CarrierInv, Bare
<1>2. CASE Reported("CREATE", d)
  BY <1>1, <1>2, ReportedStays DEF Held
<1>3. CASE JobCovers(d)
  BY <1>3, JobCoversStays DEF Held
<1>4. CASE Overflowed
  BY <1>1, <1>4, OverflowStays DEF Held
<1>5. CASE Missed(d)
  BY <1>1, <1>5, MissedStays DEF Held
<1> QED
  BY <1>2, <1>3, <1>4, <1>5 DEF Held

LEMMA HeldStays ==
    ASSUME Apart, WalkInv, WalkInv', [Next]_vars, NEW t \in Keys(fileMap), fileMap[t] = "recursive",
           NEW d, Bare(d), Bare(d)', t \in Above[d], Held(d)
    PROVE  Held(d)'
<1>1. CASE ~Dispatch
  BY <1>1, HeldKept
<1>2. CASE Dispatch
  <2>1. CarrierInv /\ NameInv' /\ d \in Dirs /\ Exists(d) /\ Exists(d)'
    BY DEF WalkInv, CarrierInv, Bare
  <2>2. CASE Reported("CREATE", d)
    BY <1>2, <2>2, DispatchHolds
  <2>3. CASE JobCovers(d)
    BY <1>2, <2>3 DEF Dispatch, JobCovers
  <2>4. CASE Overflowed
    BY <2>1, <2>4, OverflowStays DEF Held
  <2>5. CASE Missed(d)
    BY <2>1, <2>5, MissedStays DEF Held
  <2> QED
    BY <2>2, <2>3, <2>4, <2>5 DEF Held
<1> QED
  BY <1>1, <1>2

(* A directory that comes to be without a watch is a new one.              *)
LEMMA NewlyBare ==
    ASSUME WalkInv, [Next]_vars, NEW d, Bare(d)', ~Bare(d)
    PROVE  \/ MakeDir(d)
           \/ CreateWatcher /\ \E h \in Dirs : mkdirRecursive(h) /\ d \in Missing(h)
<1>1. /\ d \in Dirs /\ dirs'[d] # 0 /\ dirs'[d] \notin watching' /\ NameInv /\ TypeOK /\ NumbersFit
      /\ dirs \in [Dirs -> 0..made] /\ made \in Nat /\ watching \subseteq 1..made
  BY DEF WalkInv, CarrierInv, NameInv, Bare, Watched, Exists, TypeOK, DiskTypes, WatchTypes
<1>2. ~(dirs'[d] = dirs[d] /\ watching \subseteq watching')
  BY <1>1 DEF Bare, Watched, Exists
<1>3. ASSUME NEW e \in Dirs, MakeDir(e) PROVE MakeDir(d)
  <2>1. dirs' = [dirs EXCEPT ![e] = made + 1] /\ watching' = watching
    BY <1>3 DEF MakeDir, inotify
  <2>2. e # d => dirs'[d] = dirs[d]
    BY <1>1, <2>1
  <2> QED
    BY <1>2, <1>3, <2>1, <2>2
<1>4. ASSUME NEW e \in Dirs, RemoveDir(e) PROVE FALSE
  <2>1. dirs' = [dirs EXCEPT ![e] = 0] /\ watching' = watching \ {dirs[e]} /\ dirs[e] # 0
    BY <1>4 DEF RemoveDir
  <2>2. e # d /\ dirs'[d] = dirs[d]
    BY <1>1, <2>1
  <2>3. dirs[e] # dirs[d]
    BY <1>1, <2>1, <2>2 DEF NumbersFit
  <2> QED
    BY <1>1, <2>1, <2>2, <2>3 DEF Bare, Watched, Exists
<1>5. CASE CreateWatcher
  <2>1. watching' = watching
    BY <1>5 DEF CreateWatcher, inotify
  <2>2. CASE dirs' = dirs
    BY <1>2, <2>1, <2>2
  <2>3. ASSUME NEW h \in Dirs, mkdirRecursive(h) PROVE d \in Missing(h)
    <3>1. d \notin Missing(h) => dirs'[d] = dirs[d]
      BY <1>1, <2>3, MkdirMakes
    <3> QED
      BY <1>2, <2>1, <3>1
  <2> QED
    BY <1>1, <1>5, <2>2, <2>3, CreateMakes
<1>6. CASE Add
  <2>1. dirs' = dirs /\ watching \subseteq watching'
    <3>1. PICK h : h = Head(todo)[2]
      OBVIOUS
    <3>2. watching \subseteq watching'
      BY <1>1, <1>6, <3>1, AddRange
    <3> QED
      BY <1>6, <3>2 DEF Add, walkUnchanged
  <2> QED
    BY <1>2, <2>1
<1>7. CASE WatcherStep /\ ~CreateWatcher /\ ~Add
  BY <1>2, <1>7, WatcherTouches
<1>8. ASSUME NEW f \in Files, Write(f) \/ RemoveFile(f) PROVE FALSE
  BY <1>2, <1>8 DEF Write, RemoveFile, inotify
<1>9. CASE Gauge \/ Reload \/ MainStep \/ EventStep \/ EditYml \/ UNCHANGED vars
  <2>1. dirs' = dirs /\ watching' = watching
    BY <1>9, MainTouches, EventTouches DEF EditYml, vars, disk, inotify
  <2> QED
    BY <1>2, <2>1
<1> QED
  BY <1>3, <1>4, <1>5, <1>6, <1>7, <1>8, <1>9, StepSplit

(* The kernel reports a new directory in a directory that is watched.      *)
LEMMA MadeReported ==
    ASSUME CarrierInv, NameInv', NEW d \in Dirs, Watched(Parent[d]), kqueue' = Report(kqueue, "CREATE", d)
    PROVE  Reported("CREATE", d)' \/ Overflowed'
<1>1. /\ TypeOK /\ kqueue \in Seq(KernelEvents) /\ d \in Paths
      /\ Range(Coming)' = Range(kqueue)' \union Range(batch)'
  BY ComingRange, ComingNext, ConstantFacts DEF CarrierInv, NameInv
<1>2. PICK e \in Range(kqueue') : e.wd = Overflow \/ (e.mask = "CREATE" /\ e.path = d)
  BY <1>1, ReportGrows
<1>3. e \in Range(Coming)'
  BY <1>1, <1>2
<1> QED
  BY <1>2, <1>3 DEF Reported, Overflowed

(* mkdirRecursive makes one directory in one that was there: the others it  *)
(* makes are in new ones, which are not watched.                            *)
LEMMA MkdirReported ==
    ASSUME WalkInv, NameInv', CreateWatcher, NEW h \in Dirs, mkdirRecursive(h), NEW d \in Missing(h)
    PROVE  Held(d)' \/ ~Watched(Parent[d])'
<1> DEFINE noted == {e \in Missing(h) : Watched(Parent[e])}
<1>1. /\ CarrierInv /\ NameInv /\ TypeOK /\ Standing /\ d \in Dirs /\ d \in Paths /\ Dirs \subseteq Paths
      /\ h \in Paths /\ dirs \in [Dirs -> 0..made] /\ watching \subseteq 1..made /\ made \in Nat
      /\ watching' = watching
  BY ConstantFacts DEF WalkInv, CarrierInv, NameInv, TypeOK, DiskTypes, WatchTypes, Missing, CreateWatcher,
     inotify
<1>2. SUFFICES ASSUME Watched(Parent[d])' PROVE Held(d)'
  OBVIOUS
<1>3. Parent[d] \in Dirs /\ dirs'[Parent[d]] \in watching
  BY <1>1, <1>2 DEF Watched
<1>4. Parent[d] \notin Missing(h)
  <2>1. Parent[d] \in Missing(h) => dirs'[Parent[d]] \in Nat /\ dirs'[Parent[d]] > made
    BY <1>1, MkdirMakes
  <2> QED
    BY <1>1, <1>3, <2>1
<1>5. Watched(Parent[d]) /\ Exists(Parent[d])
  <2>1. dirs'[Parent[d]] = dirs[Parent[d]]
    BY <1>1, <1>3, <1>4, MkdirMakes
  <2> QED
    BY <1>1, <1>3, <2>1 DEF Watched, Exists
<1>6. noted = {d}
  <2>1. d \in noted
    BY <1>5
  <2>2. ASSUME NEW b \in noted PROVE b = d
    <3>1. /\ b \in Dirs /\ b \in Paths /\ ~Exists(b) /\ ~Exists(d) /\ Parent[b] \in Dirs
          /\ b \in Above[h] \union {h} /\ d \in Above[h] \union {h}
      BY <1>1, <2>2 DEF Missing, Watched
    <3>2. Exists(Parent[b])
      BY <1>1, <2>2, <3>1 DEF Watched, Exists
    <3>3. \A x \in Paths : \A y \in Dirs :
             Parent[x] \in Dirs /\ Exists(Parent[x]) /\ y \in Above[x] => Exists(y)
      <4>1. ASSUME NEW x \in Paths, NEW y \in Dirs, Parent[x] \in Dirs, Exists(Parent[x]), y \in Above[x]
            PROVE  Exists(y)
        <5>1. y = Parent[x] \/ y \in Above[Parent[x]]
          BY <4>1, AboveStep
        <5>2. Parent[x] \in Paths /\ y # Root
          BY <4>1, ConstantFacts
        <5> QED
          BY <1>1, <4>1, <5>1, <5>2, ExistsAbove
      <4> QED
        BY <4>1
    <3>4. b = d \/ b \in Above[d] \/ d \in Above[b]
      BY <1>1, <3>1, AboveOrdered
    <3> QED
      BY <1>1, <1>3, <1>5, <3>1, <3>2, <3>3, <3>4
  <2> QED
    BY <2>1, <2>2
<1>7. kqueue' = Report(kqueue, "CREATE", CHOOSE e \in noted : TRUE)
  BY <1>6 DEF mkdirRecursive
<1>8. (CHOOSE e \in noted : TRUE) = d
  BY <1>6
<1> HIDE DEF noted
<1> QED
  BY <1>1, <1>5, <1>7, <1>8, MadeReported DEF Held

(* A new directory is reported, passed over, or in one that is not watched. *)
LEMMA MadeHolds ==
    ASSUME WalkInv, NameInv', NEW d \in Dirs, MakeDir(d)
    PROVE  \/ Held(d)'
           \/ ~Watched(Parent[d])' /\ <<"add", Parent[d]>> \notin Range(todo)'
<1>1. CarrierInv /\ kqueue' = Report(kqueue, "CREATE", d) /\ todo' = todo /\ watching' = watching
  BY DEF WalkInv, MakeDir, inotify, watcher
<1>2. CASE Watched(Parent[d])
  BY <1>1, <1>2, MadeReported DEF Held
<1>3. CASE ~Watched(Parent[d]) /\ <<"add", Parent[d]>> \in Range(todo)
  <2>1. d \in slipped'
    BY <1>3 DEF MakeDir, SlipsBehind
  <2> QED
    BY <2>1 DEF Held, Missed
<1>4. CASE ~Watched(Parent[d]) /\ <<"add", Parent[d]>> \notin Range(todo)
  <2>1. ~Watched(Parent[d])'
    <3>1. dirs' = [dirs EXCEPT ![d] = made + 1] /\ dirs \in [Dirs -> 0..made] /\ made \in Nat
          /\ watching \subseteq 1..made
      BY DEF MakeDir, WalkInv, CarrierInv, NameInv, TypeOK, DiskTypes, WatchTypes
    <3>2. \A e \in Dirs : dirs'[e] = dirs[e] \/ dirs'[e] = made + 1
      BY <3>1
    <3>3. made + 1 \notin watching
      BY <3>1
    <3> QED
      BY <1>1, <1>4, <3>2, <3>3 DEF Watched
  <2> QED
    BY <1>1, <1>4, <2>1
<1> QED
  BY <1>2, <1>3, <1>4

-----------------------------------------------------------------------------
(***************************************************************************)
(* The invariant of the subdirectories.                                    *)
(***************************************************************************)

(* Only inotifytools_watch_file gives a directory its watch.               *)
LEMMA WatchNew ==
    ASSUME WalkInv, [Next]_vars, NEW h, Watched(h)', ~Watched(h)
    PROVE  Add /\ Head(todo) = <<"add", h>> /\ <<"add", h>> \in Range(todo)
<1>1. /\ h \in Dirs /\ dirs'[h] \in watching' /\ dirs[h] \notin watching /\ NameInv /\ TypeOK
      /\ dirs \in [Dirs -> 0..made] /\ made \in Nat /\ watching \subseteq 1..made
  BY DEF WalkInv, CarrierInv, NameInv, Watched, TypeOK, DiskTypes, WatchTypes
<1>2. ~(dirs'[h] = dirs[h] /\ watching' \subseteq watching)
  BY <1>1
<1>3. ASSUME NEW e \in Dirs, MakeDir(e) PROVE FALSE
  <2>1. dirs' = [dirs EXCEPT ![e] = made + 1] /\ watching' = watching
    BY <1>3 DEF MakeDir, inotify
  <2>2. dirs'[h] = dirs[h] \/ dirs'[h] = made + 1
    BY <1>1, <2>1
  <2> QED
    BY <1>1, <1>2, <2>1, <2>2
<1>4. ASSUME NEW e \in Dirs, RemoveDir(e) PROVE FALSE
  <2>1. dirs' = [dirs EXCEPT ![e] = 0] /\ watching' \subseteq watching
    BY <1>4 DEF RemoveDir
  <2>2. dirs'[h] = dirs[h] \/ dirs'[h] = 0
    BY <1>1, <2>1
  <2> QED
    BY <1>1, <1>2, <2>1, <2>2
<1>5. CASE CreateWatcher
  <2>1. watching' = watching
    BY <1>5 DEF CreateWatcher, inotify
  <2>2. ASSUME NEW g \in Dirs, mkdirRecursive(g) PROVE dirs'[h] = dirs[h] \/ (dirs'[h] \in Nat /\ dirs'[h] > made)
    BY <1>1, <2>2, MkdirMakes
  <2>3. dirs'[h] = dirs[h] \/ (dirs'[h] \in Nat /\ dirs'[h] > made)
    BY <1>1, <1>5, <2>2, CreateMakes
  <2> QED
    BY <1>1, <1>2, <2>1, <2>3
<1>6. CASE Add
  <2>1. PICK g : g = Head(todo)[2]
    OBVIOUS
  <2>2. /\ g \in Dirs \union {Root} /\ Head(todo) = <<"add", g>>
        /\ Range(todo) = {<<"add", g>>} \union Range(Tail(todo))
        /\ watching' = watching \/ (g \in Dirs /\ watching' = watching \union {dirs[g]})
    BY <1>1, <1>6, <2>1, AddRange
  <2>3. dirs' = dirs
    BY <1>6 DEF Add, walkUnchanged
  <2>4. g \in Dirs /\ dirs[h] = dirs[g]
    BY <1>1, <2>2, <2>3
  <2>5. dirs[g] # 0
    <3>1. watching' \subseteq 1..made'
      <4>1. NameInv'
        BY NameStep DEF WalkInv, CarrierInv
      <4> QED
        BY <4>1 DEF NameInv, TypeOK, WatchTypes
    <3> QED
      BY <1>1, <2>3, <2>4, <3>1
  <2>6. h = g
    BY <1>1, <2>4, <2>5 DEF NameInv, NumbersFit
  <2> QED
    BY <1>6, <2>2, <2>6
<1>7. CASE WatcherStep /\ ~CreateWatcher /\ ~Add
  BY <1>2, <1>7, WatcherTouches
<1>8. ASSUME NEW f \in Files, Write(f) \/ RemoveFile(f) PROVE FALSE
  BY <1>2, <1>8 DEF Write, RemoveFile, inotify
<1>9. CASE Gauge \/ Reload \/ MainStep \/ EventStep \/ EditYml \/ UNCHANGED vars
  <2>1. dirs' = dirs /\ watching' = watching
    BY <1>9, MainTouches, EventTouches DEF EditYml, vars, disk, inotify
  <2> QED
    BY <1>2, <2>1
<1> QED
  BY <1>3, <1>4, <1>5, <1>6, <1>7, <1>8, <1>9, StepSplit

(* A walk starts with createWatcher and keeps its job.                     *)
LEMMA WalkStarts ==
    ASSUME WalkInv, [Next]_vars, at' = "walk"
    PROVE  /\ job' = job /\ ~Dispatch
           /\ \/ CreateWatcher /\ at = "create" /\ (Recursive => todo' = <<<<"visit", job.path>>>>)
              \/ ~CreateWatcher /\ at = "walk"
<1>1. job.back \in {"next", "config"}
  BY DEF WalkInv, CarrierInv, NameInv, TypeOK, ThreadTypes
<1>2. CASE CreateWatcher
  BY <1>1, <1>2 DEF CreateWatcher, Goto, Recursive, Dispatch
<1>3. CASE WatcherStep /\ ~CreateWatcher
  BY <1>1, <1>3 DEF WatcherStep, ConsumePop, ConsumeLookup, Visit, Add, walkUnchanged, Scan, NextEvent,
     ParseUnnamed, ParseEvent, Dispatch, Goto, watcher
<1>4. CASE ~WatcherStep
  <2>1. at' = at /\ job' = job
    BY <1>4, StepSplit, WritersTouch, MainTouches, EventTouches
  <2> QED
    BY <1>4, <2>1 DEF WatcherStep
<1> QED
  BY <1>2, <1>3, <1>4

LEMMA BehindAddsStep ==
    ASSUME WalkInv, WalkInv', BehindAdds, [Next]_vars
    PROVE  BehindAdds'
<1> SUFFICES ASSUME at' = "walk", Recursive', NEW d \in Dirs, Bare(d)', <<"add", Parent[d]>> \in Range(todo)'
             PROVE  Held(d)'
  BY DEF BehindAdds
<1>1. /\ NameInv /\ NameInv' /\ job' = job /\ ~Dispatch /\ Recursive /\ d \in Paths /\ Dirs \intersect Files = {}
      /\ d # Root
  BY WalkStarts, ConstantFacts DEF WalkInv, CarrierInv, Recursive
<1>2. at = "walk" /\ ~CreateWatcher
  <2>1. SUFFICES ASSUME todo' = <<<<"visit", job.path>>>> PROVE FALSE
    BY <1>1, WalkStarts
  <2>2. Range(todo') = {<<"visit", job.path>>}
    BY <2>1 DEF Range
  <2>3. <<"add", Parent[d]>> # <<"visit", job.path>>
    OBVIOUS
  <2> QED
    BY <2>2, <2>3
<1>3. CASE ~Bare(d)
  BY <1>1, <1>2, <1>3, NewlyBare, MadeHolds
<1>4. CASE Bare(d) /\ <<"add", Parent[d]>> \in Range(todo)
  BY <1>1, <1>2, <1>4, HeldKept DEF BehindAdds
<1>5. CASE Bare(d) /\ <<"add", Parent[d]>> \notin Range(todo)
  <2>1. Visit
    <3>1. Add => Range(todo') \subseteq Range(todo)
      <4>1. Add => (todo' = Tail(todo) \/ todo' = <<>>) /\ todo # <<>>
        BY DEF Add
      <4>2. Range(<<>>) = {}
        BY DEF Range
      <4> QED
        BY <1>1, <4>1, <4>2, TodoHead
    <3>2. todo' # todo
      BY <1>5
    <3>3. WatcherStep
      BY <3>2, StepSplit, WritersTouch, MainTouches, EventTouches
    <3> QED
      BY <1>2, <1>5, <3>1, <3>2, <3>3, WatcherTouches
  <2>2. PICK p : p = Head(todo)[2]
    OBVIOUS
  <2>3. /\ Range(todo) = {<<"visit", p>>} \union Range(Tail(todo))
        /\ \/ Range(todo') \subseteq Range(todo)
           \/ Range(todo') = Range(Tail(todo))
           \/ Range(todo') = {<<"visit", c>> : c \in Children(p)} \union {<<"add", p>>} \union Range(Tail(todo))
    BY <1>1, <2>1, <2>2, VisitRange
  <2>4. Range(todo') = {<<"visit", c>> : c \in Children(p)} \union {<<"add", p>>} \union Range(Tail(todo))
    BY <1>5, <2>3
  <2>5. p = Parent[d]
    <3>1. <<"add", Parent[d]>> \notin Range(Tail(todo))
      BY <1>5, <2>3
    <3>2. \A c : <<"add", Parent[d]>> # <<"visit", c>>
      OBVIOUS
    <3>3. <<"add", Parent[d]>> = <<"add", p>>
      BY <2>4, <3>1, <3>2
    <3> QED
      BY <3>3
  <2>6. d \in Children(p)
    BY <1>1, <1>5, <2>5 DEF Children, Bare
  <2>7. <<"visit", d>> \in Range(todo')
    BY <2>4, <2>6
  <2> QED
    BY <2>7 DEF Held, JobCovers, Pending
<1> QED
  BY <1>3, <1>4, <1>5

LEMMA WalkCoversStep ==
    ASSUME WalkInv, WalkInv', BehindAdds, WalkCovers, [Next]_vars
    PROVE  WalkCovers'
<1> SUFFICES ASSUME at' = "walk", Recursive', NEW d \in Dirs, Bare(d)', job'.path \in Above[d],
                    Watched(Parent[d])'
             PROVE  Held(d)'
  BY DEF WalkCovers
<1>1. NameInv' /\ job' = job /\ ~Dispatch /\ Recursive
  BY WalkStarts DEF WalkInv, CarrierInv, Recursive
<1>2. CASE CreateWatcher
  <2>1. todo' = <<<<"visit", job.path>>>>
    BY <1>1, <1>2, WalkStarts
  <2>2. <<"visit", job.path>> \in Range(todo')
    BY <2>1 DEF Range
  <2> QED
    BY <1>1, <2>2 DEF Held, JobCovers, Pending
<1>3. CASE ~CreateWatcher /\ ~Bare(d)
  BY <1>1, <1>3, NewlyBare, MadeHolds
<1>4. CASE ~CreateWatcher /\ Bare(d)
  <2>1. at = "walk"
    BY <1>4, WalkStarts
  <2>2. Held(d)
    <3>1. CASE Watched(Parent[d])
      BY <1>1, <1>4, <2>1, <3>1 DEF WalkCovers
    <3>2. CASE ~Watched(Parent[d])
      BY <1>1, <1>4, <2>1, <3>2, WatchNew DEF BehindAdds
    <3> QED
      BY <3>1, <3>2
  <2> QED
    BY <1>1, <1>4, <2>2, HeldKept
<1> QED
  BY <1>2, <1>3, <1>4

(* A transfer that becomes recursive while the handler stores the new ones  *)
(* was queued just before.                                                  *)
LEMMA NewlyRecursive ==
    ASSUME WalkInv, [Next]_vars, NEW t \in Transfers, fileMap'[t] = "recursive", fileMap[t] # "recursive"
    PROVE  Awaited(t)'
<1>1. /\ fileMap \in Choice /\ "recursive" # None
      /\ main \in {"push", "assign"} => left # <<>>
      /\ main = "assign" => Head(left) \in Range(cfgQueue) \/ (at = "lookup" /\ job.path = Head(left))
  BY TreeOfPaths DEF WalkInv, CarrierInv, NameInv, TypeOK, ConfigTypes, HandlerFits, Kinds
<1>2. ~UpdateBegin
  <2>1. SUFFICES ASSUME UpdateBegin PROVE FALSE
    OBVIOUS
  <2>2. fileMap' = fileMap \/ fileMap' = [x \in Transfers |-> IF infos[x] = None THEN None ELSE fileMap[x]]
    BY <2>1 DEF UpdateBegin
  <2> QED
    BY <1>1, <2>2
<1>3. UpdateAssign
  BY <1>2, ConfigStays
<1>4. /\ main = "assign" /\ fileMap' = [fileMap EXCEPT ![Head(left)] = infos[Head(left)]]
      /\ UNCHANGED <<cfgQueue, job>>
  BY <1>3 DEF UpdateAssign, others, watcher
<1>5. t = Head(left)
  BY <1>1, <1>4 DEF Choice
<1> QED
  BY <1>1, <1>4, <1>5 DEF Awaited

(* The steps that may end what a transfer awaits.                          *)
LEMMA AwaitedHolds ==
    ASSUME WalkInv, WalkInv', WalkCovers, [Next]_vars, NEW t \in Keys(fileMap), fileMap[t] = "recursive",
           fileMap'[t] # None, NEW d, Bare(d), Bare(d)', t \in Above[d], Awaited(t), Watched(Parent[d])'
    PROVE  Held(d)' \/ Awaited(t)'
<1>1. /\ NameInv /\ HandlerFits /\ t \in Transfers /\ t \in Dirs /\ d \in Dirs
      /\ Dirs \intersect Files = {}
      /\ job \in [path : Paths \union {None}, kind : Kinds \union {None}, back : {"next", "config"}]
      /\ job.kind = "file" => job.path \in Files
  BY ConstantFacts DEF WalkInv, CarrierInv, NameInv, JobFits, Fits, Keys, Bare, TypeOK, ThreadTypes
<1>2. CASE ~CreateWatcher /\ ~Scan
  BY <1>1, <1>2, AwaitedStays
<1>3. CASE CreateWatcher
  <2>1. UNCHANGED <<cfgQueue, main, left>>
    BY <1>3 DEF CreateWatcher, keepFs, handler
  <2>2. Exists(t)
    <3>1. d \in Paths /\ Exists(d) /\ t # Root
      BY <1>1, ConstantFacts DEF Bare
    <3> QED
      BY <3>1, ExistsAbove DEF WalkInv, CarrierInv
  <2>3. job.path = t => job' = job
    BY <1>1, <1>3, <2>2 DEF CreateWatcher, mkdirFails
  <2> QED
    BY <2>1, <2>3 DEF Awaited
<1>4. CASE Scan
  <2>1. /\ UNCHANGED <<cfgQueue, main, left, dirs, watching, fileMap>> /\ at = "walk" /\ ~CreateWatcher
        /\ ~Dispatch
    BY <1>4 DEF Scan, keepFs, handler, inotify, CreateWatcher, Dispatch
  <2>2. CASE job.path # t
    BY <2>1, <2>2 DEF Awaited
  <2>3. CASE job.path = t /\ Recursive
    <3>1. Watched(Parent[d])
      BY <2>1 DEF Watched
    <3>2. Held(d)
      BY <1>1, <2>1, <2>3, <3>1 DEF WalkCovers
    <3> QED
      BY <2>1, <3>2, HeldKept
  <2>4. CASE job.path = t /\ ~Recursive
    <3>1. t \in Range(cfgQueue) \/ (main \in {"push", "assign"} /\ t \in Range(left))
      BY <2>1, <2>4 DEF WalkInv, Outdated, Recursive
    <3> QED
      BY <2>1, <3>1 DEF Awaited
  <2> QED
    BY <2>2, <2>3, <2>4
<1> QED
  BY <1>2, <1>3, <1>4

(* The directory above d gets its watch.                                   *)
LEMMA AddHolds ==
    ASSUME Apart, WalkInv, WalkInv', BehindAdds, [Next]_vars, NEW t \in Keys(fileMap),
           fileMap[t] = "recursive", NEW d, Bare(d), Bare(d)', t \in Above[d],
           ~Watched(Parent[d]), Watched(Parent[d])'
    PROVE  Held(d)' \/ Awaited(t)'
<1>1. /\ Add /\ at = "walk" /\ <<"add", Parent[d]>> \in Range(todo) /\ ~Dispatch
      /\ UNCHANGED <<cfgQueue, main, left>>
  BY WatchNew DEF Add, walkUnchanged, keepFs, handler, Dispatch
<1>2. CASE Recursive
  <2>1. Held(d)
    BY <1>1, <1>2 DEF BehindAdds, Bare
  <2> QED
    BY <1>1, <2>1, HeldKept
<1>3. CASE ~Recursive
  <2> DEFINE u == job.path
  <2>1. /\ u \in Transfers /\ <<"add", Parent[d]>> = <<"add", HomeOf(u)>>
        /\ OneYml /\ t \in Transfers /\ t \in Dirs /\ d \in Dirs /\ d \in Paths /\ u \in Paths
        /\ Dirs \intersect Files = {} /\ Paths = Dirs \union Files /\ job.kind # None
    BY <1>1, <1>3, ConstantFacts DEF WalkInv, TodoFits, CarrierInv, NameInv, JobFits, Fits, Keys, Bare
  <2>2. Parent[d] = HomeOf(u)
    BY <2>1
  <2>3. CASE t \in Range(cfgQueue) \/ (main \in {"push", "assign"} /\ t \in Range(left))
    BY <1>1, <2>3 DEF Awaited
  <2>4. CASE fileMap[u] = job.kind
    <3>1. u \in Keys(fileMap) /\ fileMap[u] # "recursive"
      BY <1>3, <2>1, <2>4 DEF Keys, Recursive
    <3>2. CASE u \in Dirs
      <4>1. u \in Above[d]
        BY <2>1, <2>2, <3>2, AboveIs DEF HomeOf
      <4>2. t = u
        BY <2>1, <3>1, <4>1, OneAnswers DEF Covers
      <4> QED
        BY <3>1, <4>2
    <3>3. CASE u \in Files
      <4>1. Above[u] = Above[d]
        BY <2>1, <2>2, <3>3, AboveSame DEF HomeOf
      <4>2. t = u
        BY <2>1, <3>1, <4>1, OneAnswers DEF Covers
      <4> QED
        BY <2>1, <3>3, <4>2
    <3> QED
      BY <2>1, <3>2, <3>3
  <2> QED
    BY <1>1, <1>3, <2>3, <2>4 DEF WalkInv, Outdated
<1> QED
  BY <1>2, <1>3

LEMMA SubdirHeldStep ==
    ASSUME Apart, SubdirInv, WalkInv', [Next]_vars
    PROVE  SubdirHeld'
<1> SUFFICES ASSUME NEW d \in Dirs, NEW t \in Keys(fileMap)', fileMap'[t] = "recursive", t \in Above[d],
                    Bare(d)', Watched(Parent[d])'
             PROVE  Held(d)' \/ Awaited(t)'
  BY DEF SubdirHeld
<1>1. /\ WalkInv /\ BehindAdds /\ WalkCovers /\ SubdirHeld /\ NameInv' /\ t \in Transfers
      /\ "recursive" # None
  BY TreeOfPaths DEF SubdirInv, WalkInv, CarrierInv, Keys, Kinds
<1>2. CASE fileMap[t] # "recursive"
  BY <1>1, <1>2, NewlyRecursive
<1>3. CASE fileMap[t] = "recursive"
  <2>1. t \in Keys(fileMap) /\ fileMap'[t] # None
    BY <1>1, <1>3 DEF Keys
  <2>2. CASE ~Bare(d)
    BY <1>1, <2>2, NewlyBare, MadeHolds, MkdirReported
  <2>3. CASE Bare(d) /\ Held(d)
    BY <1>1, <1>3, <2>1, <2>3, HeldStays
  <2>4. CASE Bare(d) /\ ~Watched(Parent[d])
    BY <1>1, <1>3, <2>1, <2>4, AddHolds
  <2>5. CASE Bare(d) /\ Awaited(t)
    BY <1>1, <1>3, <2>1, <2>5, AwaitedHolds
  <2> QED
    BY <1>1, <1>3, <2>1, <2>2, <2>3, <2>4, <2>5 DEF SubdirHeld
<1> QED
  BY <1>2, <1>3

LEMMA InitSubdir ==
    ASSUME Init
    PROVE  SubdirInv
<1>1. CarrierInv
  BY InitCarrier
<1>2. Answered /\ TodoFits /\ Outdated /\ BehindAdds /\ WalkCovers
  BY DEF Init, Answered, TodoFits, Outdated, BehindAdds, WalkCovers
<1>3. OneYml
  BY DEF Init, OneYml
<1>4. OnlyFilesChange
  <2>1. Range(<<>>) = {} /\ NoEvent.mask = ""
    BY DEF Range, NoEvent
  <2> QED
    BY <2>1 DEF Init, OnlyFilesChange
<1>5. SubdirHeld
  BY DEF Init, SubdirHeld, Watched
<1> QED
  BY <1>1, <1>2, <1>3, <1>4, <1>5 DEF SubdirInv, WalkInv

(* When no aidt.yml has two transfers for one path (Apart), a subdirectory *)
(* of a recursive transfer that exists is watched, or the event of its      *)
(* parent, or the walk that createWatcher runs, is still to get to it; what *)
(* ends that is an overflow, a walk that passed it over or one above it, an *)
(* event dropped for a stale answer of patternPathFile, or a watch above    *)
(* that could not be had (inotifytools_watch_recursively, Watcher's          *)
(* paserEvent and createWatcher).                                           *)
THEOREM SubdirsAreWatched ==
    ASSUME Apart
    PROVE  Spec => []SubdirIsWatched
<1>1. Init => SubdirInv
  BY InitSubdir
<1>2. ASSUME SubdirInv, [Next]_vars
      PROVE  SubdirInv'
  <2>1. WalkInv /\ WalkInv' /\ BehindAdds /\ WalkCovers
    BY <1>2, WalkInvStep DEF SubdirInv
  <2>2. BehindAdds'
    BY <1>2, <2>1, BehindAddsStep
  <2>3. WalkCovers'
    BY <1>2, <2>1, WalkCoversStep
  <2>4. SubdirHeld'
    BY <1>2, <2>1, SubdirHeldStep
  <2> QED
    BY <2>1, <2>2, <2>3, <2>4 DEF SubdirInv
<1>3. SubdirInv => SubdirIsWatched
  <2>1. SUFFICES ASSUME SubdirInv, NEW d \in Dirs, NEW t \in Keys(fileMap), fileMap[t] = "recursive",
                        t \in Above[d], Exists(d), ~Watched(d)
                 PROVE  \/ Held(d) \/ ~Watched(Parent[d]) \/ Awaited(t)
    BY DEF SubdirIsWatched, Held, JobCovers, Missed, Awaited
  <2> QED
    BY <2>1 DEF SubdirInv, SubdirHeld, Bare
<1> QED
  BY <1>1, <1>2, <1>3, PTL DEF Spec
=============================================================================
