------------------------------- MODULE Reader -------------------------------
(***************************************************************************)
(* The file side of aidt: app::Watcher turns inotify events into read,     *)
(* clear and move events, its event thread runs the handlers of            *)
(* app::Reader, which follow every watched file line by line and hand the  *)
(* lines to app::Message, and the timer saves the offsets so that a        *)
(* restart goes on where the last life stopped.                            *)
(*                                                                         *)
(* A file is an inode and a number of lines; a path names an inode or      *)
(* nothing.  An offset counts lines: the code's byte offsets only ever     *)
(* rest at the end of a line (or of a binary record).                      *)
(***************************************************************************)
EXTENDS Integers, Sequences, FiniteSets

CONSTANTS
    DirPaths,       \* paths in a watched directory (is_dir: true)
    FilePaths,      \* paths watched on their own, each in its own directory
    OtherPaths,     \* paths no transfer is configured for
    IsBinary,       \* the transfers' is_binary
    TimerSaves,     \* the timer saves offsets (left out where no boot loads them)
    AcrossDirs,     \* files are also moved from one directory to another
    Junk,           \* values an uninitialised bool can have (only gc looks at it)
    MaxLines,       \* _configure->maxLines
    MaxFd,          \* _configure->maxfd
    MaxFiles,       \* bound: files ever created
    MaxSize,        \* bound: lines written to one file
    MaxMoves,       \* bound: renames and removals
    MaxRefusals,    \* bound: times Message refuses a line
    MaxBoots,       \* bound: starts of the process
    MaxCrashes,     \* bound: of them, those ended by a crash
    None            \* no map entry, no path

Paths  == DirPaths \cup FilePaths \cup OtherPaths
Inodes == 1 .. MaxFiles
NoFile == 0

ASSUME ReaderConstants ==
    /\ IsFiniteSet(Paths)
    /\ DirPaths \cap FilePaths = {}
    /\ OtherPaths \cap (DirPaths \cup FilePaths) = {}
    /\ None \notin Paths
    /\ Junk \subseteq BOOLEAN /\ Junk # {}
    /\ {IsBinary, TimerSaves, AcrossDirs} \subseteq BOOLEAN
    /\ {MaxLines, MaxFd, MaxFiles, MaxSize, MaxMoves, MaxRefusals, MaxBoots,
        MaxCrashes} \subseteq Nat

VARIABLES
    dir,        \* path -> inode or NoFile
    size,       \* inode -> lines in it
    made,       \* inodes created so far
    kernel,     \* the inotify queue
    watched,    \* paths whose inotify events are delivered
    queued,     \* Config::_queue holds the transfers, not yet watched
    moveFrom,   \* Watcher::_dirTypeMoveFrom
    events,     \* Watcher::_eventQueue
    moveTime,   \* WatcherFileInfo.moveTime, against time_wait
    fdMap,      \* Reader::_fdMap
    aliases,    \* Reader::_aliasMap
    fdNum,      \* Reader::_currentFdNum
    et,         \* what the event thread is doing
    cur,        \* the locals of its readString or readBinary
    main,       \* what the main thread is doing
    stopping,   \* Watcher::stop has been called
    swp,        \* offsets written to the .swp file
    offsets,    \* the offset file; no entry for any path when it is absent
    handed,     \* history: the lines Message accepted
    twice,      \* history: of them, those accepted more than once
    moves, refusals, boots, crashes     \* budgets used

files   == <<dir, size, made>>
watcher == <<kernel, watched, queued, moveFrom>>
reader  == <<moveTime, fdMap, aliases, fdNum>>
saving  == <<swp, offsets>>
history == <<handed, twice>>
budgets == <<moves, refusals, boots, crashes>>

vars == <<files, watcher, events, reader, et, cur, main, stopping, saving,
          history, budgets>>

Up == main # "down"

(* Reader::_mut: save holds it from its first line to its last.            *)
LockFree == main = "run"

Empty == [p \in Paths |-> None]
Idle  == [path |-> None, key |-> None, pos |-> 0, lines |-> 0]
Event(e, p, a) == [event |-> e, path |-> p, alias |-> a]

Init ==
    /\ dir = [p \in Paths |-> NoFile]
    /\ size = [i \in Inodes |-> 0]
    /\ made = 0
    /\ kernel = <<>>
    /\ watched = {}
    /\ queued = FALSE
    /\ moveFrom = None
    /\ events = <<>>
    /\ moveTime = [f \in FilePaths |-> "unset"]
    /\ fdMap = Empty
    /\ aliases = Empty
    /\ fdNum = 0
    /\ et = "wait"
    /\ cur = Idle
    /\ main = "down"
    /\ stopping = FALSE
    /\ swp = Empty
    /\ offsets = Empty
    /\ handed = {}
    /\ twice = {}
    /\ moves = 0 /\ refusals = 0 /\ boots = 0 /\ crashes = 0

----------------------------------------------------------------------------
(***************************************************************************)
(* The programs that write the watched files.  inotify reports what they   *)
(* do under watched names, and merges an event with an equal one at the    *)
(* end of its queue.                                                       *)
(***************************************************************************)
Report(q, kind, p) ==
    IF \/ p \notin watched
       \/ q # <<>> /\ q[Len(q)] = [kind |-> kind, path |-> p]
    THEN q ELSE Append(q, [kind |-> kind, path |-> p])

CreateFile(p) ==
    /\ dir[p] = NoFile
    /\ made < MaxFiles
    /\ made' = made + 1
    /\ dir' = [dir EXCEPT ![p] = made + 1]
    /\ UNCHANGED <<size, watcher, events, reader, et, cur, main, stopping,
                   saving, history, budgets>>

AppendLine(p) ==
    /\ dir[p] # NoFile
    /\ size[dir[p]] < MaxSize
    /\ size' = [size EXCEPT ![dir[p]] = @ + 1]
    /\ kernel' = Report(kernel, "MODIFY", p)
    /\ UNCHANGED <<dir, made, watched, queued, moveFrom, events, reader, et,
                   cur, main, stopping, saving, history, budgets>>

RemoveFile(p) ==
    /\ dir[p] # NoFile
    /\ moves < MaxMoves
    /\ moves' = moves + 1
    /\ dir' = [dir EXCEPT ![p] = NoFile]
    /\ kernel' = Report(kernel, "DELETE", p)
    /\ UNCHANGED <<size, made, watched, queued, moveFrom, events, reader, et,
                   cur, main, stopping, saving, history, refusals, boots, crashes>>

(* f and the other paths are in one directory, DirPaths in another.        *)
SameDirectory(p, q) == p \in DirPaths <=> q \in DirPaths

RenameFile(p, q) ==
    /\ p # q
    /\ SameDirectory(p, q) \/ AcrossDirs
    /\ dir[p] # NoFile
    /\ moves < MaxMoves
    /\ moves' = moves + 1
    /\ dir' = [dir EXCEPT ![p] = NoFile, ![q] = dir[p]]
    /\ kernel' = Report(Report(kernel, "MOVED_FROM", p), "MOVED_TO", q)
    /\ UNCHANGED <<size, made, watched, queued, moveFrom, events, reader, et,
                   cur, main, stopping, saving, history, refusals, boots, crashes>>

(* time_wait seconds have passed since the file was moved.                 *)
WaitOver(f) ==
    /\ moveTime[f] = "recent"
    /\ moveTime' = [moveTime EXCEPT ![f] = "expired"]
    /\ UNCHANGED <<files, watcher, events, fdMap, aliases, fdNum, et, cur,
                   main, stopping, saving, history, budgets>>

Environment ==
    \/ \E p \in Paths : CreateFile(p) \/ AppendLine(p) \/ RemoveFile(p)
    \/ \E p, q \in Paths : RenameFile(p, q)
    \/ \E f \in FilePaths : WaitOver(f)

----------------------------------------------------------------------------
(***************************************************************************)
(* The watcher thread.  consumerConfigQueue and createWatcher watch the    *)
(* configured directories, and the files of file transfers that exist, and *)
(* push a MODIFY event for every file found.  The transfers are taken in   *)
(* one step; a directory is listed in any order.                           *)
(***************************************************************************)
Orders(S) ==
    {s \in [1 .. Cardinality(S) -> S] : \A i, j \in DOMAIN s : i # j => s[i] # s[j]}

Found == {p \in DirPaths \cup FilePaths : dir[p] # NoFile}

CreateWatcher ==
    /\ Up /\ ~stopping
    /\ queued
    /\ queued' = FALSE
    /\ watched' = DirPaths \cup (FilePaths \cap Found)
    /\ \E s \in Orders(Found) :
        events' = events \o [i \in DOMAIN s |-> Event("MODIFY", s[i], None)]
    /\ UNCHANGED <<files, kernel, moveFrom, reader, et, cur, main, stopping,
                   saving, history, budgets>>

(***************************************************************************)
(* paserEvent, one disjunct per kind of inotify event.  A file transfer    *)
(* answers to its own name only and ignores names moved onto it; in a      *)
(* directory a MOVED_TO is paired with the last MOVED_FROM seen.           *)
(***************************************************************************)
Parsed(kind) == kernel # <<>> /\ Head(kernel).kind = kind

ParseDelete(p) ==
    /\ Parsed("DELETE")
    /\ events' = Append(events, Event("DELETE", p, None))
    /\ UNCHANGED moveFrom

ParseModify(p) ==
    /\ Parsed("MODIFY")
    /\ events' = Append(events, Event("MODIFY", p, None))
    /\ UNCHANGED moveFrom

ParseMovedFrom(p) ==
    /\ Parsed("MOVED_FROM")
    /\ \/ p \in DirPaths /\ moveFrom' = p /\ UNCHANGED events
       \/ p \in FilePaths /\ UNCHANGED moveFrom
          /\ events' = Append(events, Event("MOVE_SELF", p, None))

ParseMovedTo(p) ==
    /\ Parsed("MOVED_TO")
    /\ \/ p \in DirPaths /\ moveFrom' = None
          /\ events' = IF moveFrom = None THEN events
                       ELSE Append(events, Event("MOVE_TO", p, moveFrom))
       \/ p \in FilePaths /\ UNCHANGED <<moveFrom, events>>

ParseEvent ==
    /\ Up /\ ~stopping
    /\ kernel # <<>>
    /\ kernel' = Tail(kernel)
    /\ LET p == Head(kernel).path
       IN  ParseDelete(p) \/ ParseModify(p) \/ ParseMovedFrom(p) \/ ParseMovedTo(p)
    /\ UNCHANGED <<files, watched, queued, reader, et, cur, main, stopping,
                   saving, history, budgets>>

WatcherThread == CreateWatcher \/ ParseEvent

----------------------------------------------------------------------------
(***************************************************************************)
(* The event thread takes one event at a time; its handlers take           *)
(* Reader::_mut.                                                           *)
(***************************************************************************)
Pops(e) ==
    /\ Up
    /\ et = "wait"
    /\ events # <<>>
    /\ Head(events).event = e

Path  == Head(events).path
Alias == Head(events).alias

(* DELETE: clear closes the stream and forgets the entry and its aliases.  *)
BugDeleteKeepsOffset ==
    /\ Pops("DELETE")
    /\ LockFree
    /\ events' = Tail(events)
    /\ fdMap' = IF fdMap[Path] = None THEN fdMap
                ELSE [fdMap EXCEPT ![Path].stream = NoFile]
    /\ aliases' = [p \in Paths |-> IF aliases[p] = Path THEN None ELSE aliases[p]]
    /\ UNCHANGED <<files, watcher, moveTime, fdNum, et, cur, main, stopping,
                   saving, history, budgets>>

HandleDelete ==
    /\ Pops("DELETE")
    /\ LockFree
    /\ events' = Tail(events)
    /\ fdMap' = [fdMap EXCEPT ![Path] = None]
    /\ aliases' = [p \in Paths |-> IF aliases[p] = Path THEN None ELSE aliases[p]]
    /\ UNCHANGED <<files, watcher, moveTime, fdNum, et, cur, main, stopping,
                   saving, history, budgets>>

(***************************************************************************)
(* MOVE_SELF: read once more, and moveself starts the time_wait period and *)
(* protects the stream.                                                    *)
(***************************************************************************)
HandleMoveSelf ==
    /\ Pops("MOVE_SELF")
    /\ LockFree
    /\ events' = Append(Tail(events), Event("MODIFY", Path, None))
    /\ moveTime' = [moveTime EXCEPT ![Path] = "recent"]
    /\ fdMap' = IF fdMap[Path] = None THEN fdMap
                ELSE [fdMap EXCEPT ![Path].moveProtected = TRUE]
    /\ UNCHANGED <<files, watcher, aliases, fdNum, et, cur, main, stopping,
                   saving, history, budgets>>

(***************************************************************************)
(* MOVE_TO: read the new name, and moveto renames the entry and leaves an  *)
(* alias for events that still have the old name.                          *)
(***************************************************************************)
HandleMoveTo ==
    /\ Pops("MOVE_TO")
    /\ LockFree
    /\ events' = Append(Tail(events), Event("MODIFY", Path, None))
    /\ IF fdMap[Alias] = None THEN UNCHANGED <<fdMap, aliases>>
       ELSE /\ fdMap' = [fdMap EXCEPT ![Path] = fdMap[Alias], ![Alias] = None]
            /\ aliases' = [aliases EXCEPT ![Alias] = Path]
    /\ UNCHANGED <<files, watcher, moveTime, fdNum, et, cur, main, stopping,
                   saving, history, budgets>>

HandleStop ==
    /\ Pops("STOP")
    /\ events' = Tail(events)
    /\ et' = "ended"
    /\ UNCHANGED <<files, watcher, reader, cur, main, stopping, saving,
                   history, budgets>>

----------------------------------------------------------------------------
(***************************************************************************)
(* MODIFY: read.  initStream finds room for one more open stream, then the *)
(* entry of the file, then a stream to read from.                          *)
(*                                                                         *)
(* gcFstreamNonLock counts the open streams and then closes those that are *)
(* idle (not used for a second, any subset here) and not protected; the    *)
(* count is kept as the number of open streams.                            *)
(***************************************************************************)
OpenPaths == {p \in Paths : fdMap[p] # None /\ fdMap[p].stream # NoFile}
Full      == fdNum > MaxFd
Closable  == {p \in OpenPaths : ~fdMap[p].moveProtected}

AfterGc(idle) ==
    [p \in Paths |-> IF p \in idle THEN [fdMap[p] EXCEPT !.stream = NoFile]
                     ELSE fdMap[p]]

ReadGivesUp ==
    /\ Pops("MODIFY")
    /\ LockFree
    /\ Full
    /\ Cardinality(OpenPaths) > MaxFd
    /\ \E idle \in SUBSET Closable : fdMap' = AfterGc(idle)
    /\ fdNum' = Cardinality(OpenPaths)
    /\ events' = Append(Tail(events), Head(events))
    /\ UNCHANGED <<files, watcher, moveTime, aliases, et, cur, main, stopping,
                   saving, history, budgets>>

(* What initStream looks the event's path up as.                           *)
Key(p) == IF aliases[p] = None THEN p ELSE aliases[p]

(* moveProtected of a new FdItem is not initialised: junk is its value.    *)
NewItem(offset, junk) ==
    [offset |-> offset, stream |-> NoFile, good |-> TRUE, moveProtected |-> junk]

BugNoWait(p) == p \in FilePaths /\ moveTime[p] # "unset"
Expired(p) == p \in FilePaths /\ moveTime[p] = "expired"

(* The reset of the entry when time_wait is over.                          *)
BugResetKeepsOffset(item) == NewItem(item.offset, FALSE)
ResetItem(item) == NewItem(0, FALSE)

(* openStream: an open and good stream is used as it is; otherwise the     *)
(* path is opened, and the inode is the one it names now.                  *)
Usable(item) == item.stream # NoFile /\ item.good

BugReopensByName(item, p) == dir[p]
StreamOf(item, p) == IF Usable(item) THEN item.stream ELSE dir[p]

ReadOpens ==
    /\ Pops("MODIFY")
    /\ LockFree
    /\ Full => Cardinality(OpenPaths) <= MaxFd
    /\ \E idle \in SUBSET (IF Full THEN Closable ELSE {}), junk \in Junk :
        LET key  == Key(Path)
            map  == AfterGc(idle)
            new  == map[key] = None
            item == IF new THEN NewItem(0, junk)
                    ELSE IF Expired(Path) THEN ResetItem(map[key])
                    ELSE map[key]
            stream == StreamOf(item, key)
        IN  /\ new \/ junk = CHOOSE j \in Junk : TRUE
            /\ fdMap' = [map EXCEPT ![key] =
                            [item EXCEPT !.stream = stream, !.good = TRUE]]
            /\ moveTime' = IF ~new /\ Expired(Path)
                           THEN [moveTime EXCEPT ![Path] = "unset"] ELSE moveTime
            /\ fdNum' = (IF Full THEN Cardinality(OpenPaths) ELSE fdNum)
                        + (IF Usable(item) THEN 0 ELSE 1)
            /\ IF stream = NoFile THEN UNCHANGED <<et, cur>>
               ELSE /\ et' = "read"
                    /\ cur' = [path |-> Path, key |-> key, pos |-> item.offset,
                               lines |-> 0]
    /\ events' = Tail(events)
    /\ UNCHANGED <<files, watcher, aliases, main, stopping, saving, history,
                   budgets>>

(***************************************************************************)
(* The loop of readString and readBinary: hand a line to Message, then     *)
(* setFileOffset under the lock.  The read position is a local, the offset *)
(* that is advanced is the one of the event's own path.  A refused line    *)
(* and a read of more than MaxLines lines end the read, to be continued by *)
(* the same event at the end of the queue.                                 *)
(***************************************************************************)
Stream  == fdMap[cur.key].stream
Line    == <<Stream, cur.pos + 1>>
AtEnd   == cur.pos >= size[Stream]
Continue == events' = Append(events, Event("MODIFY", cur.path, None))

Advanced(p) ==
    IF fdMap[p] = None THEN fdMap ELSE [fdMap EXCEPT ![p].offset = @ + 1]

SendLine ==
    /\ Up
    /\ et = "read"
    /\ ~AtEnd
    /\ et' = "sent"
    /\ handed' = handed \cup {Line}
    /\ twice' = twice \cup ({Line} \cap handed)
    /\ UNCHANGED <<files, watcher, events, reader, cur, main, stopping,
                   saving, budgets>>

BugRefusedForgotten ==
    /\ Up
    /\ et = "read"
    /\ ~AtEnd
    /\ refusals < MaxRefusals
    /\ refusals' = refusals + 1
    /\ et' = "wait" /\ cur' = Idle
    /\ UNCHANGED <<files, watcher, events, reader, main, stopping, saving,
                   history, moves, boots, crashes>>

BugRefusedSkipped ==
    /\ Up
    /\ et = "read"
    /\ ~AtEnd
    /\ refusals < MaxRefusals
    /\ refusals' = refusals + 1
    /\ et' = "wait" /\ cur' = Idle
    /\ fdMap' = Advanced(cur.path)
    /\ Continue
    /\ UNCHANGED <<files, watcher, moveTime, aliases, fdNum, main, stopping,
                   saving, history, moves, boots, crashes>>

RefusedLine ==
    /\ Up
    /\ et = "read"
    /\ ~AtEnd
    /\ refusals < MaxRefusals
    /\ refusals' = refusals + 1
    /\ et' = "wait" /\ cur' = Idle
    /\ Continue
    /\ UNCHANGED <<files, watcher, reader, main, stopping, saving, history,
                   moves, boots, crashes>>

BugOneLineMore(n) == n > MaxLines + 1
TooMany(n) == n > MaxLines

SetFileOffset ==
    /\ Up
    /\ et = "sent"
    /\ LockFree
    /\ fdMap' = Advanced(cur.path)
    /\ IF TooMany(cur.lines + 1)
       THEN et' = "wait" /\ cur' = Idle /\ Continue
       ELSE /\ et' = "read"
            /\ cur' = [cur EXCEPT !.pos = @ + 1, !.lines = @ + 1]
            /\ UNCHANGED events
    /\ UNCHANGED <<files, watcher, moveTime, aliases, fdNum, main, stopping,
                   saving, history, budgets>>

(* The end of the file: a binary stream is not good after it.              *)
ReadEnds ==
    /\ Up
    /\ et = "read"
    /\ AtEnd
    /\ et' = "wait" /\ cur' = Idle
    /\ fdMap' = IF IsBinary THEN [fdMap EXCEPT ![cur.key].good = FALSE] ELSE fdMap
    /\ UNCHANGED <<files, watcher, events, moveTime, aliases, fdNum, main,
                   stopping, saving, history, budgets>>

EventThread ==
    \/ HandleDelete \/ HandleMoveSelf \/ HandleMoveTo \/ HandleStop
    \/ ReadGivesUp \/ ReadOpens \/ ReadEnds
    \/ SendLine \/ RefusedLine \/ SetFileOffset

----------------------------------------------------------------------------
(***************************************************************************)
(* The main thread.  Boot is App::run: load, then start the watcher.       *)
(***************************************************************************)
LoadOffsets(junk) ==
    [p \in Paths |-> IF offsets[p] = None THEN None
                     ELSE NewItem(offsets[p], junk[p])]

Boot ==
    /\ main = "down"
    /\ boots < MaxBoots
    /\ boots' = boots + 1
    /\ main' = "run"
    /\ queued' = TRUE
    /\ \E junk \in [Paths -> Junk] : fdMap' = LoadOffsets(junk)
    /\ UNCHANGED <<files, kernel, watched, moveFrom, events, moveTime, aliases,
                   fdNum, et, cur, stopping, saving, history, moves, refusals,
                   crashes>>

(***************************************************************************)
(* Reader::save, on the timer and once more at the end of App::stop: write *)
(* the .swp file (an entry whose file is gone is left out), move the       *)
(* offset file away, move the .swp file into its place.                    *)
(***************************************************************************)
BugSavesFileSize ==
    [p \in Paths |-> IF fdMap[p] = None \/ dir[p] = NoFile THEN None
                     ELSE size[dir[p]]]

Saved ==
    [p \in Paths |-> IF fdMap[p] = None \/ dir[p] = NoFile THEN None
                     ELSE fdMap[p].offset]

SaveWrite ==
    /\ main = "run"
    /\ IF stopping THEN et = "ended" ELSE TimerSaves
    /\ main' = "written"
    /\ swp' = Saved
    /\ UNCHANGED <<files, watcher, events, reader, et, cur, stopping, offsets,
                   history, budgets>>

SaveBackup ==
    /\ main = "written"
    /\ main' = "moved"
    /\ offsets' = Empty
    /\ UNCHANGED <<files, watcher, events, reader, et, cur, stopping, swp,
                   history, budgets>>

(* What a life of the process leaves behind: the files and nothing else.   *)
Ends ==
    /\ main' = "down"
    /\ kernel' = <<>> /\ watched' = {} /\ queued' = FALSE /\ moveFrom' = None
    /\ events' = <<>>
    /\ moveTime' = [f \in FilePaths |-> "unset"]
    /\ fdMap' = Empty /\ aliases' = Empty /\ fdNum' = 0
    /\ et' = "wait" /\ cur' = Idle
    /\ stopping' = FALSE

SaveReplace ==
    /\ main = "moved"
    /\ offsets' = swp
    /\ swp' = Empty
    /\ IF stopping THEN Ends
       ELSE main' = "run" /\ UNCHANGED <<watcher, events, reader, et, cur, stopping>>
    /\ UNCHANGED <<files, history, budgets>>

(***************************************************************************)
(* Watcher::stop: the watcher thread ends, the event thread finds STOP at  *)
(* the end of the queue.  App::stop goes on to the last save when the      *)
(* event thread has ended.                                                 *)
(***************************************************************************)
BugStopWithoutSave ==
    /\ main = "run"
    /\ ~stopping
    /\ Ends
    /\ UNCHANGED <<files, saving, history, budgets>>

Stop ==
    /\ main = "run"
    /\ ~stopping
    /\ stopping' = TRUE
    /\ events' = Append(events, Event("STOP", None, None))
    /\ UNCHANGED <<files, watcher, reader, et, cur, main, saving, history, budgets>>

Crash ==
    /\ Up
    /\ crashes < MaxCrashes
    /\ crashes' = crashes + 1
    /\ Ends
    /\ swp' = Empty
    /\ UNCHANGED <<files, offsets, history, moves, refusals, boots>>

Save == SaveWrite \/ SaveBackup \/ SaveReplace

Next == Environment \/ WatcherThread \/ EventThread \/ Boot \/ Save \/ Stop \/ Crash

Spec == Init /\ [][Next]_vars

(***************************************************************************)
(* The threads keep running, and a mutex is not kept from the event thread *)
(* for ever: the timer saves only every intervalSyncOffset milliseconds.   *)
(* Nothing forces a save by the timer, a boot, a stop or a crash.          *)
(***************************************************************************)
Fairness ==
    /\ WF_vars(WatcherThread)
    /\ SF_vars(EventThread)
    /\ WF_vars(SaveBackup \/ SaveReplace)
    /\ WF_vars(stopping /\ SaveWrite)

FairSpec == Spec /\ Fairness

----------------------------------------------------------------------------
FdItems == [offset : Nat, stream : Inodes \cup {NoFile}, good : BOOLEAN,
            moveProtected : BOOLEAN]

ASSUME NoneIsNoItem == None \notin Nat /\ None \notin FdItems

InotifyEvents ==
    [kind : {"MODIFY", "DELETE", "MOVED_FROM", "MOVED_TO"},
     path : DirPaths \cup FilePaths]

Events ==
    [event : {"MODIFY", "DELETE"}, path : DirPaths \cup FilePaths, alias : {None}]
    \cup [event : {"MOVE_SELF"}, path : FilePaths, alias : {None}]
    \cup [event : {"MOVE_TO"}, path : DirPaths, alias : DirPaths]
    \cup {Event("STOP", None, None)}

TypeOK ==
    /\ dir \in [Paths -> Inodes \cup {NoFile}]
    /\ size \in [Inodes -> 0 .. MaxSize]
    /\ made \in 0 .. MaxFiles
    /\ kernel \in Seq(InotifyEvents)
    /\ watched \subseteq DirPaths \cup FilePaths
    /\ queued \in BOOLEAN
    /\ moveFrom \in DirPaths \cup {None}
    /\ events \in Seq(Events)
    /\ moveTime \in [FilePaths -> {"unset", "recent", "expired"}]
    /\ fdMap \in [Paths -> FdItems \cup {None}]
    /\ aliases \in [Paths -> DirPaths \cup {None}]
    /\ fdNum \in 0 .. MaxFd + 1
    /\ et \in {"wait", "read", "sent", "ended"}
    /\ cur \in [path : Paths \cup {None}, key : Paths \cup {None}, pos : Nat,
                lines : 0 .. MaxLines]
    /\ main \in {"down", "run", "written", "moved"}
    /\ stopping \in BOOLEAN
    /\ swp \in [Paths -> Nat \cup {None}]
    /\ offsets \in [Paths -> Nat \cup {None}]
    /\ handed \subseteq Inodes \X (1 .. MaxSize)
    /\ twice \subseteq handed
    /\ moves \in 0 .. MaxMoves
    /\ refusals \in 0 .. MaxRefusals
    /\ boots \in 0 .. MaxBoots
    /\ crashes \in 0 .. MaxCrashes

HandedOf(i) == {k \in 1 .. MaxSize : <<i, k>> \in handed}

(***************************************************************************)
(* No line is skipped: when a line of a file has been handed over, so have *)
(* all the lines before it, whatever reads were cut short, refused, split  *)
(* over lives of the process or moved to another name.                     *)
(***************************************************************************)
NoGap == \A l \in handed : \A k \in 1 .. l[2] - 1 : <<l[1], k>> \in handed

(***************************************************************************)
(* The offset file is never ahead of what was handed over: a restart at    *)
(* any moment repeats lines and skips none.  Needs MaxMoves = 0, that is,  *)
(* no renames and no removals: the saved inode is not compared when        *)
(* offsets are loaded, so a file that was removed and made again while the *)
(* process was down is taken for the one before.                           *)
(***************************************************************************)
SavedNotAhead ==
    \A p \in Paths : offsets[p] # None => 1 .. offsets[p] \subseteq HandedOf(dir[p])

(***************************************************************************)
(* Only a crash makes the reader hand a line over again: a stop saves what *)
(* the event thread has read to the end.  Needs MaxMoves = 0 (no renames   *)
(* and no removals).                                                       *)
(***************************************************************************)
RepeatsOnlyAfterCrash == crashes = 0 => twice = {}

(***************************************************************************)
(* The offset kept for an open file never runs ahead of what was handed    *)
(* over of that file, also when the entry moves to another name, the name  *)
(* is given to a new file or an event comes under the old name: what is    *)
(* below the offset would never be read again.  Needs MaxBoots = 1.        *)
(***************************************************************************)
OffsetNotAhead ==
    \A p \in OpenPaths :
        1 .. fdMap[p].offset \subseteq HandedOf(fdMap[p].stream)

(***************************************************************************)
(* A moved file is read to the end of its time_wait period: no step but a  *)
(* DELETE takes the stream of a file transfer from the file that has been  *)
(* moved away while the move is recent.                                    *)
(***************************************************************************)
MovedStaysOpen ==
    [][\A f \in FilePaths \cap OpenPaths :
         moveTime[f] = "recent" /\ fdMap[f].stream # dir[f] /\ Up' /\ ~HandleDelete
         => fdMap'[f].stream = fdMap[f].stream]_vars

(***************************************************************************)
(* Every line written to a file of a watched directory is handed over, by  *)
(* this life of the process unless it ends first or the file loses its     *)
(* last name there: what docs/file_transfer.md promises.  It does not hold *)
(* when a rename meets a pending event, nor at the descriptor limit.       *)
(***************************************************************************)
Named(i) == \E p \in DirPaths : dir[p] = i

LinesAreRead ==
    \A i \in Inodes : \A k \in 1 .. MaxSize :
        main = "run" /\ Named(i) /\ size[i] >= k
        ~> main = "down" \/ stopping \/ ~Named(i) \/ k \in HandedOf(i)

(***************************************************************************)
(* The same, with one excuse more: there are more open streams that gc may *)
(* not close than there are descriptors.  Nothing else stops the reader:   *)
(* no notification is lost to a refused line, to MaxLines, to a restart,   *)
(* to a full table that gc can empty or to a save that holds the lock.     *)
(***************************************************************************)
Clogged == Cardinality(OpenPaths \ Closable) > MaxFd

LinesAreReadUnlessClogged ==
    \A i \in Inodes : \A k \in 1 .. MaxSize :
        main = "run" /\ Named(i) /\ size[i] >= k
        ~> \/ main = "down" \/ stopping \/ ~Named(i) \/ k \in HandedOf(i)
           \/ Clogged
=============================================================================
