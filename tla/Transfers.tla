----------------------------- MODULE Transfers -----------------------------
(***************************************************************************)
(* From aidt.yml to events: app::ConfigPaser loads the transfers when the  *)
(* process starts and at every SIGUSR1, app::Config keeps them and queues  *)
(* them for the watcher thread of app::Watcher, which sets the inotify     *)
(* watches (thridpart/inotify), scans for the files that are there, and    *)
(* then turns what the kernel reports into events for the event thread.    *)
(*                                                                         *)
(* Every directory ever made has a number of its own; the kernel's watch   *)
(* descriptor of a directory is identified with that number.  What the     *)
(* event thread does with an event, and moved files, are in Reader.        *)
(***************************************************************************)
EXTENDS Integers, FiniteSets, SequencesExt

CONSTANTS
    Dirs, Files,    \* the paths
    Parent,         \* path -> the directory it is in, or Root
    Root,           \* a directory no transfer can name
    Steady,         \* directories that are not removed once they exist
    Alike,          \* <<t, p>>: p is not under t but its name contains t's
    Transfers,      \* the paths a transfer can have
    YmlChoices,     \* what aidt.yml may say: path -> kind of transfer, or None
    Broken,         \* an aidt.yml that cannot be loaded
    MaxKernel,      \* fs.inotify.max_queued_events
    MaxWatches,     \* fs.inotify.max_user_watches
    CacheLimit,     \* 1024: the answers kept before old ones are dropped
    AtStart,        \* the sets of paths that may exist when the process starts
    MaxChanges,     \* bound: changes to the file system and to aidt.yml
    MaxReloads,     \* bound: signals
    MaxGauges,      \* bound: readings of the gauge watcher.mapsize
    None

Paths     == Dirs \union Files
Kinds     == {"file", "dir", "recursive"}
Overflow  == -1

ASSUME TreeOfPaths ==
    /\ IsFiniteSet(Paths)
    /\ Dirs \intersect Files = {} /\ Root \notin Paths /\ None \notin Paths \union Kinds
    /\ Parent \in [Paths -> Dirs \union {Root}]
    /\ Steady \subseteq Dirs
    /\ Transfers \subseteq Paths
    /\ Alike \subseteq Transfers \X Paths
    /\ YmlChoices \subseteq [Transfers -> Kinds \union {None}]
    /\ AtStart \subseteq SUBSET Paths
    /\ \A some \in AtStart : \A p \in some : Parent[p] \in some \union {Root}
    /\ {MaxKernel, MaxWatches, CacheLimit, MaxChanges, MaxReloads, MaxGauges} \subseteq Nat

\* What aidt.yml calls a file is one, and what it calls a directory is one.
ASSUME KindsFit ==
    \A y \in YmlChoices : \A t \in Transfers :
        /\ y[t] = "file" => t \in Files
        /\ y[t] \in {"dir", "recursive"} => t \in Dirs

\* The directory a transfer watches is not removed; those below it are.
ASSUME HomesStay ==
    \A t \in Transfers : (IF t \in Files THEN Parent[t] ELSE t) \in Steady

VARIABLES
    dirs,       \* Dirs -> the number of the directory at that path, 0 if none
    files,      \* the files that exist
    made,       \* directories made so far
    watching,   \* the kernel's watches
    kqueue,     \* the kernel's queue of events
    byWd,       \* tree_wd: the name of a watch
    byName,     \* tree_filename: the watch of a name
    batch,      \* the event buffer of inotifytools_next_events
    fileMap,    \* Config::_fileMap
    cfgQueue,   \* Config::_queue
    cache,      \* Watcher::_cache: path -> the transfer found, None if none was
    eventQueue, \* Watcher::_eventQueue
    at,         \* where the watcher thread is
    job,        \* the locals of createWatcher
    todo,       \* what inotifytools_watch_recursively has still to do
    event,      \* the event being parsed, and the transfer found for it
    main,       \* where the main thread is in the handler of SIGUSR1
    infos,      \* what paser loaded
    left,       \* the transfers updateFileInfo has still to push
    gauging,    \* the main thread is in the gauge that locks Config::_mut
    yml,        \* aidt.yml
    alive,      \* the process
    logged,     \* the paths createWatcher logged a failure for
    unread,     \* history: files with lines the reader was not sent to
    seen,       \* history: of them, those in a watched directory when written
    slipped,    \* history: directories the recursive walk passed over, and paths whose
                \* event was dropped although a transfer matches them
    changes, reloads, gauges    \* budgets used

disk    == <<dirs, files, made>>
inotify == <<watching, byWd, byName>>
config  == <<fileMap, cfgQueue>>
watcher == <<at, job, todo, event, batch, cache>>
handler == <<main, infos, left>>
history == <<unread, seen, slipped, logged>>
budgets == <<changes, reloads, gauges>>

vars == <<disk, inotify, kqueue, config, watcher, handler, gauging, yml, alive,
          eventQueue, history, budgets>>

\* The directories p lies under: the least set that holds p's directory, and with each
\* of its members the directory that one is in.
Rising(S) == \A x \in S \ {Root} : Parent[x] \in S
Above == [p \in Paths \union {Root} |->
             IF p = Root THEN {}
             ELSE {x \in Dirs \union {Root} :
                      \A S \in SUBSET (Dirs \union {Root}) : Parent[p] \in S /\ Rising(S) => x \in S}]

Watched(d) == d \in Dirs /\ dirs[d] \in watching
Exists(p)  == IF p \in Dirs THEN dirs[p] # 0 ELSE p \in files
NoJob      == [path |-> None, kind |-> None, back |-> "next"]
NoEvent    == [wd |-> 0, path |-> None, mask |-> "", found |-> None]
Event(e, t, p) == [event |-> e, transfer |-> t, path |-> p]

Choice       == [Transfers -> Kinds \union {None}]
Lost         == [wd |-> Overflow, path |-> None, mask |-> "OVERFLOW"]
KernelEvents == [wd : Nat, path : Paths, mask : {"CREATE", "DELETE", "MODIFY"}] \union {Lost}
WalkSteps    == ({"visit"} \X Paths) \union ({"add"} \X (Dirs \union {Root}))

DiskTypes ==
    /\ dirs \in [Dirs -> 0..made] /\ files \subseteq Files /\ made \in Nat
    /\ seen \subseteq unread /\ unread \subseteq files /\ slipped \subseteq Paths

WatchTypes ==
    /\ watching \subseteq 1..made
    /\ kqueue \in Seq(KernelEvents) /\ batch \in Seq(KernelEvents)
    /\ DOMAIN byWd \subseteq 1..made /\ Range(byWd) \subseteq Dirs
    /\ DOMAIN byName \subseteq Dirs /\ Range(byName) \subseteq 1..made

ConfigTypes ==
    /\ fileMap \in Choice /\ cfgQueue \in Seq(Transfers)
    /\ main \in {"run", "check", "parse", "lock", "push", "assign", "stuck"}
    /\ infos \in YmlChoices /\ left \in Seq(Transfers)
    /\ yml \in YmlChoices \union {Broken}
    /\ gauging \in BOOLEAN /\ alive \in BOOLEAN

ThreadTypes ==
    /\ at \in {"config", "lookup", "create", "walk", "next", "parse", "find"}
    /\ job \in [path : Paths \union {None}, kind : Kinds \union {None}, back : {"next", "config"}]
    /\ todo \in Seq(WalkSteps)
    /\ event \in [wd : Nat \union {Overflow}, path : Paths \union {None},
                  mask : {"CREATE", "DELETE", "MODIFY", "OVERFLOW", ""},
                  found : Transfers \union {None}]
    /\ DOMAIN cache \subseteq Paths /\ Range(cache) \subseteq Transfers \union {None}
    /\ eventQueue \in Seq([event : {"MODIFY", "DELETE"}, transfer : Transfers, path : Paths])

TypeOK == DiskTypes /\ WatchTypes /\ ConfigTypes /\ ThreadTypes

\* An unordered map is walked in any order.
Keys(choice)   == {t \in Transfers : choice[t] # None}
Orders(choice) == SetToSeqs(Keys(choice))

\* Numbers of their own for the directories in S.
Numbers(S) == CHOOSE f \in Injection(S, 1..Cardinality(S)) : TRUE

\* App::run has loaded the transfers and started the threads.
Init ==
    /\ \E some \in AtStart :
          /\ dirs = [d \in Dirs |-> IF d \in some THEN Numbers(some \intersect Dirs)[d] ELSE 0]
          /\ made = Cardinality(some \intersect Dirs)
          /\ files = some \intersect Files
    /\ unread = files /\ seen = {} /\ slipped = {} /\ logged = {}
    /\ watching = {} /\ byWd = <<>> /\ byName = <<>>
    /\ kqueue = <<>> /\ batch = <<>> /\ cache = <<>> /\ eventQueue = <<>>
    /\ yml \in YmlChoices
    /\ fileMap = yml /\ infos = yml /\ cfgQueue \in Orders(yml) /\ left = <<>>
    /\ at = "config" /\ job = NoJob /\ todo = <<>> /\ event = NoEvent
    /\ main = "run" /\ gauging = FALSE /\ alive = TRUE
    /\ changes = 0 /\ reloads = 0 /\ gauges = 0

-----------------------------------------------------------------------------
(* The programs that write under the watched directories, and the kernel's *)
(* queue: an event equal to the last one is merged with it, and what comes *)
(* when the queue is full is lost, which one event of its own says.        *)

Queued(q, e) ==
    IF q # <<>> /\ q[Len(q)] \in {e, Lost} THEN q
    ELSE IF Len(q) >= MaxKernel THEN Append(q, Lost)
    ELSE Append(q, e)

Report(q, mask, p) ==
    IF Watched(Parent[p]) THEN Queued(q, [wd |-> dirs[Parent[p]], path |-> p, mask |-> mask])
    ELSE q

Change == changes < MaxChanges /\ changes' = changes + 1

Write(f) ==
    /\ Change
    /\ Parent[f] \in Dirs => Exists(Parent[f])
    /\ files' = files \union {f}
    /\ kqueue' = Report(IF f \in files THEN kqueue ELSE Report(kqueue, "CREATE", f), "MODIFY", f)
    /\ unread' = unread \union {f}
    /\ seen' = IF Watched(Parent[f]) THEN seen \union {f} ELSE seen
    /\ UNCHANGED <<dirs, made, inotify, config, watcher, handler, gauging, yml, alive,
                   eventQueue, slipped, logged, reloads, gauges>>

RemoveFile(f) ==
    /\ Change
    /\ f \in files
    /\ files' = files \ {f}
    /\ unread' = unread \ {f} /\ seen' = seen \ {f} /\ slipped' = slipped \ {f}
    /\ kqueue' = Report(kqueue, "DELETE", f)
    /\ UNCHANGED <<dirs, made, inotify, config, watcher, handler, gauging, yml, alive,
                   eventQueue, logged, reloads, gauges>>

\* A directory made after the walk listed its parent and before it watches it is
\* neither listed nor reported.
SlipsBehind(d) == ~Watched(Parent[d]) /\ <<"add", Parent[d]>> \in Range(todo)

MakeDir(d) ==
    /\ Change
    /\ dirs[d] = 0
    /\ Parent[d] \in Dirs => Exists(Parent[d])
    /\ made' = made + 1
    /\ dirs' = [dirs EXCEPT ![d] = made + 1]
    /\ kqueue' = Report(kqueue, "CREATE", d)
    /\ slipped' = IF SlipsBehind(d) THEN slipped \union {d} ELSE slipped
    /\ UNCHANGED <<files, inotify, config, watcher, handler, gauging, yml, alive,
                   eventQueue, unread, seen, logged, reloads, gauges>>

\* The kernel drops the watch of a directory that is removed.
RemoveDir(d) ==
    /\ Change
    /\ d \notin Steady /\ dirs[d] # 0
    /\ \A p \in Paths : Parent[p] = d => ~Exists(p)
    /\ dirs' = [dirs EXCEPT ![d] = 0]
    /\ watching' = watching \ {dirs[d]}
    /\ kqueue' = Report(kqueue, "DELETE", d)
    /\ slipped' = slipped \ {d}
    /\ UNCHANGED <<files, made, byWd, byName, config, watcher, handler, gauging, yml, alive,
                   eventQueue, unread, seen, logged, reloads, gauges>>

\* An edit matters when a signal can still follow, or between the two loads.
EditYml ==
    /\ Change
    /\ reloads < MaxReloads \/ main \in {"check", "parse"}
    /\ yml' \in (YmlChoices \union {Broken}) \ {yml}
    /\ UNCHANGED <<disk, inotify, kqueue, config, watcher, handler, gauging, alive,
                   eventQueue, history, reloads, gauges>>

-----------------------------------------------------------------------------
(* The main thread: a gauge of Config, and the handler of SIGUSR1, which   *)
(* may interrupt it.  Config::_mut is not recursive.                       *)

LockHeld == gauging \/ main \in {"push", "assign", "stuck"}

mainVars == <<main, infos, left, gauging, fileMap, cfgQueue, alive, reloads, gauges>>
others   == <<disk, inotify, kqueue, watcher, yml, eventQueue, history, changes>>

Gauge ==
    /\ main = "run" /\ ~gauging /\ gauges < MaxGauges
    /\ reloads < MaxReloads     \* one that no signal interrupts only delays the others
    /\ gauging' = TRUE /\ gauges' = gauges + 1
    /\ UNCHANGED <<others, handler, config, alive, reloads>>

GaugeDone ==
    /\ main = "run" /\ gauging
    /\ gauging' = FALSE
    /\ UNCHANGED <<others, handler, config, alive, reloads, gauges>>

\* BootStrap::reload: system.ini is read first, and when that fails nothing else is done.
Reload ==
    /\ main = "run" /\ reloads < MaxReloads
    /\ reloads' = reloads + 1
    /\ main' \in {"run", "check"}
    /\ UNCHANGED <<others, infos, left, config, gauging, alive, gauges>>

\* What check and paser each load is the file of that moment; LOG_SYSFATAL ends the
\* process in the first, an exception nobody catches in the second.
Load(from, to, loaded) ==
    /\ main = from
    /\ IF yml = Broken
       THEN alive' = FALSE /\ UNCHANGED <<main, infos>>
       ELSE alive' = alive /\ main' = to /\ infos' = loaded
    /\ UNCHANGED <<others, left, config, gauging, reloads, gauges>>

check == Load("check", "parse", infos)
paser == Load("parse", "lock", yml)

\* updateFileInfo: the entries that are gone are erased, then each is queued and stored.
UpdateBegin ==
    /\ main = "lock"
    /\ IF gauging
       THEN main' = "stuck" /\ UNCHANGED <<left, fileMap>>
       ELSE /\ main' = IF Keys(infos) = {} THEN "run" ELSE "push"
            /\ fileMap' = [t \in Transfers |-> IF infos[t] = None THEN None ELSE fileMap[t]]
            /\ left' \in Orders(infos)
    /\ UNCHANGED <<others, infos, cfgQueue, gauging, alive, reloads, gauges>>

UpdatePush ==
    /\ main = "push"
    /\ cfgQueue' = Append(cfgQueue, Head(left))
    /\ main' = "assign"
    /\ UNCHANGED <<others, infos, left, fileMap, gauging, alive, reloads, gauges>>

UpdateAssign ==
    /\ main = "assign"
    /\ fileMap' = [fileMap EXCEPT ![Head(left)] = infos[Head(left)]]
    /\ left' = Tail(left)
    /\ main' = IF Len(left) = 1 THEN "run" ELSE "push"
    /\ UNCHANGED <<others, infos, cfgQueue, gauging, alive, reloads, gauges>>

MainStep == check \/ paser \/ UpdateBegin \/ UpdatePush \/ UpdateAssign \/ GaugeDone

-----------------------------------------------------------------------------
(* Config, as the watcher thread calls it. *)

Found(t) == t # None /\ fileMap[t] # None       \* findFile, when the mutex is free

Matches(t, p) ==
    CASE fileMap[t] = "file"      -> p = t
      [] fileMap[t] = "dir"       -> Parent[p] = t
      [] fileMap[t] = "recursive" -> t \in Above[p] \union {p} \/ <<t, p>> \in Alike
      [] OTHER                    -> FALSE

BugAnswersThePath(p) ==
    IF \E t \in Transfers : Matches(t, p) THEN {p} ELSE {None}

\* The first that matches in the order of the map, which is any.
patternPath(p) ==
    LET hits == {t \in Transfers : Matches(t, p)} IN IF hits = {} THEN {None} ELSE hits

-----------------------------------------------------------------------------
(* The watcher thread: the transfers it is given. *)

Goto(l) == at' = l
keepFs  == <<files, yml, handler, gauging, fileMap, budgets, unread, seen>>

\* consumerConfig takes the path before the lock and looks it up under it.
ConsumePop ==
    /\ at = "config"
    /\ IF cfgQueue = <<>>
       THEN Goto("next") /\ UNCHANGED <<job, cfgQueue>>
       ELSE /\ Goto("lookup")
            /\ job' = [NoJob EXCEPT !.path = Head(cfgQueue)]
            /\ cfgQueue' = Tail(cfgQueue)
    /\ UNCHANGED <<keepFs, dirs, made, inotify, kqueue, todo, event, batch, cache, alive,
                   eventQueue, slipped, logged>>

BugLookupUnlocked ==
    /\ at = "lookup"
    /\ IF Found(job.path)
       THEN Goto("create") /\ job' = [job EXCEPT !.kind = fileMap[job.path]]
       ELSE Goto("next") /\ job' = NoJob
    /\ UNCHANGED <<keepFs, dirs, made, inotify, kqueue, cfgQueue, todo, event, batch, cache,
                   alive, eventQueue, slipped, logged>>

ConsumeLookup ==
    /\ at = "lookup" /\ ~LockHeld
    /\ IF Found(job.path)
       THEN Goto("create") /\ job' = [job EXCEPT !.kind = fileMap[job.path]]
       ELSE Goto("next") /\ job' = NoJob
    /\ UNCHANGED <<keepFs, dirs, made, inotify, kqueue, cfgQueue, todo, event, batch, cache,
                   alive, eventQueue, slipped, logged>>

\* mkdirRecursive makes what is missing of the path; only the topmost of these is in
\* a directory that was there, and may be watched.
Missing(d) == {e \in Dirs : e \in Above[d] \union {d} /\ ~Exists(e)}

mkdirRecursive(d) ==
    LET new    == Missing(d)
        noted  == {e \in new : Watched(Parent[e])}
    IN  /\ dirs' = [e \in Dirs |-> IF e \in new THEN made + Numbers(new)[e] ELSE dirs[e]]
        /\ made' = made + Cardinality(new)
        /\ kqueue' = IF noted = {} THEN kqueue ELSE Report(kqueue, "CREATE", CHOOSE e \in noted : TRUE)

\* When it fails, the directories above the one that could not be made have been made.
mkdirFails(d) ==
    /\ ~Exists(d)
    /\ \/ UNCHANGED <<dirs, made, kqueue>>
       \/ \E e \in Above[d] \ {Root} : mkdirRecursive(e)

\* createWatcher, up to the watches: a file must be there, a directory is made.
CreateWatcher ==
    /\ at = "create"
    /\ \/ /\ IF job.kind = "file" THEN job.path \notin files /\ UNCHANGED <<dirs, made, kqueue>>
                                  ELSE mkdirFails(job.path)
          /\ Goto(job.back) /\ job' = NoJob /\ logged' = logged \union {job.path} /\ UNCHANGED todo
       \/ /\ IF job.kind = "file" THEN job.path \in files /\ UNCHANGED <<dirs, made, kqueue>>
                                  ELSE mkdirRecursive(job.path)
          /\ Goto("walk")
          /\ todo' = <<CASE job.kind = "file"      -> <<"add", Parent[job.path]>>
                         [] job.kind = "recursive" -> <<"visit", job.path>>
                         [] OTHER                  -> <<"add", job.path>>>>
          /\ UNCHANGED <<job, logged>>
    /\ UNCHANGED <<keepFs, inotify, cfgQueue, event, batch, cache, alive, eventQueue, slipped>>

\* create_watch: rbsearch inserts a key that is not there and leaves one that is.
WithWatch(tree, key, value) ==
    [k \in DOMAIN tree \union {key} |-> IF k \in DOMAIN tree THEN tree[k] ELSE value]

BugNamedAfterTransfer(wd, d) ==
    /\ byWd' = WithWatch(byWd, wd, job.path)
    /\ byName' = WithWatch(byName, job.path, wd)

create_watch(wd, d) ==
    /\ byWd' = WithWatch(byWd, wd, d)
    /\ byName' = WithWatch(byName, d, wd)

\* inotify_add_watch: the watch a directory has is found again.
CanWatch(d) == Watched(d) \/ Cardinality(watching) < MaxWatches

\* Recursively: the directory is listed, its subdirectories are taken first.
Children(d) == {p \in Paths : Parent[p] = d /\ Exists(p)}

Listed(d) == {[i \in 1..Len(q) |-> <<"visit", q[i]>>] \o <<<<"add", d>>>> : q \in SetToSeqs(Children(d))}

\* What is left to do when the walk of d is given up.
GivenUp(d) == IF <<"add", d>> \in Range(todo)
              THEN SubSeq(todo, 1 + CHOOSE i \in DOMAIN todo : todo[i] = <<"add", d>>, Len(todo))
              ELSE <<>>

\* The directories a shorter list no longer gets to.
Dropped(rest) ==
    LET steps == {todo[i] : i \in 1..(Len(todo) - Len(rest))}
    IN  {d \in Dirs : Exists(d) /\ steps \intersect {<<"visit", d>>, <<"add", d>>} # {}}

walkUnchanged == <<keepFs, dirs, made, kqueue, cfgQueue, event, batch, cache, alive, eventQueue, at, job>>

\* An entry that is not there any more when it is looked at ends the walk of its
\* directory, which is then not watched either; the walk of the directory above goes on.
Visit ==
    /\ at = "walk" /\ todo # <<>> /\ Head(todo)[1] = "visit"
    /\ LET p == Head(todo)[2]
       IN  \/ /\ ~Exists(p)
              /\ todo' = GivenUp(Parent[p])
              /\ slipped' = slipped \union Dropped(todo')
              /\ logged' = IF todo' = <<>> THEN logged \union {job.path} ELSE logged
           \/ /\ p \in files
              /\ todo' = Tail(todo)
              /\ UNCHANGED <<slipped, logged>>
           \/ /\ p \in Dirs /\ Exists(p)
              /\ todo' \in {q \o Tail(todo) : q \in Listed(p)}
              /\ UNCHANGED <<slipped, logged>>
    /\ UNCHANGED <<walkUnchanged, inotify>>

\* inotifytools_watch_file.  A directory that is gone is passed over; without room for
\* another watch the whole walk ends.
Add ==
    /\ at = "walk" /\ todo # <<>> /\ Head(todo)[1] = "add"
    /\ LET d == Head(todo)[2]
       IN  \/ /\ d # Root => Exists(d) /\ CanWatch(d)
              /\ IF d = Root THEN UNCHANGED inotify
                 ELSE watching' = watching \union {dirs[d]} /\ create_watch(dirs[d], d)
              /\ todo' = Tail(todo)
              /\ UNCHANGED logged
           \/ /\ d # Root /\ (Exists(d) => ~CanWatch(d))
              /\ todo' = IF Exists(d) THEN <<>> ELSE Tail(todo)
              /\ logged' = IF todo' = <<>> THEN logged \union {job.path} ELSE logged
              /\ UNCHANGED inotify
    /\ UNCHANGED <<walkUnchanged, slipped>>

\* paserWatcherFile: the files of a transfer are queued as if they had just been written.
ScannedFiles(t) ==
    CASE fileMap[t] = "file" -> files \intersect {t}
      [] fileMap[t] = "dir"  -> {f \in files : Parent[f] = t}
      [] OTHER               -> {f \in files : t \in Above[f]}

IsTransfer(p) == p \in Transfers /\ Found(p)

Scan ==
    /\ at = "walk" /\ todo = <<>> /\ ~LockHeld
    /\ \E q \in SetToSeqs(IF IsTransfer(job.path) THEN ScannedFiles(job.path) ELSE {}) :
          eventQueue' = eventQueue \o [i \in 1..Len(q) |-> Event("MODIFY", job.path, q[i])]
    /\ Goto(job.back) /\ job' = NoJob
    /\ UNCHANGED <<keepFs, dirs, made, inotify, kqueue, cfgQueue, todo, event, batch, cache, alive,
                   slipped, logged>>

-----------------------------------------------------------------------------
(* The watcher thread: what the kernel reports. *)

Taken(e) == [wd |-> e.wd, path |-> e.path, mask |-> e.mask, found |-> None]

BugBufferNotKept ==
    /\ at = "next"
    /\ IF kqueue = <<>>
       THEN Goto("config") /\ UNCHANGED event
       ELSE /\ event' = Taken(kqueue[1])
            /\ Goto("parse")
    /\ kqueue' = <<>> /\ batch' = <<>>
    /\ UNCHANGED <<keepFs, dirs, made, inotify, cfgQueue, job, todo, cache, alive, eventQueue,
                   slipped, logged>>

\* inotifytools_next_event: the events left in the buffer come before what the kernel has.
NextEvent ==
    /\ at = "next"
    /\ LET ready == IF batch # <<>> THEN batch ELSE kqueue
       IN  IF ready = <<>>
           THEN Goto("config") /\ UNCHANGED <<event, batch, kqueue>>
           ELSE /\ event' = Taken(ready[1])
                /\ batch' = Tail(ready)
                /\ kqueue' = IF batch # <<>> THEN kqueue ELSE <<>>
                /\ Goto("parse")
    /\ UNCHANGED <<keepFs, dirs, made, inotify, cfgQueue, job, todo, cache, alive, eventQueue,
                   slipped, logged>>

\* inotifytools_filename_from_wd has no name for the event of an overflow, and
\* paserEvent makes a string of what it returns.
ParseUnnamed ==
    /\ at = "parse" /\ event.wd \notin DOMAIN byWd
    /\ alive' = FALSE
    /\ UNCHANGED <<keepFs, dirs, made, inotify, kqueue, cfgQueue, watcher, eventQueue, slipped, logged>>

\* patternPathFile, up to findFile.  A full cache first loses entries not used lately.
Known(kept, p) == IF p \in kept THEN {cache[p]} ELSE patternPath(p)

ParseEvent ==
    /\ at = "parse" /\ event.wd \in DOMAIN byWd
    /\ event.path \notin DOMAIN cache => ~LockHeld
    /\ \E old \in IF Cardinality(DOMAIN cache) > CacheLimit THEN SUBSET DOMAIN cache ELSE {{}} :
          LET kept == DOMAIN cache \ old
          IN  \E t \in Known(kept, event.path) :
                 /\ old \intersect {event.path} # {} => ~LockHeld
                 /\ cache' = [p \in kept \union {event.path} |-> IF p = event.path THEN t ELSE cache[p]]
                 /\ event' = [event EXCEPT !.found = t]
    /\ Goto("find")
    /\ UNCHANGED <<keepFs, dirs, made, inotify, kqueue, cfgQueue, job, todo, batch, alive, eventQueue,
                   slipped, logged>>

BugFirstLevelOnly ==
    /\ event.mask = "CREATE" /\ fileMap[event.found] = "recursive"
    /\ event.path \in Dirs /\ Exists(event.path) /\ Parent[event.path] = event.found

\* findFile again, then what paserEvent does for the kind of event.
IsNewDir == event.mask = "CREATE" /\ fileMap[event.found] = "recursive"
            /\ event.path \in Dirs /\ Exists(event.path)

\* A transfer matches the path now, and the event was the one that would bring
\* its new lines, or its new directory.
IsMissed == /\ Exists(event.path) /\ patternPath(event.path) # {None}
            /\ event.mask = IF event.path \in Files THEN "MODIFY" ELSE "CREATE"

Dispatch ==
    /\ at = "find" /\ ~LockHeld
    /\ event' = NoEvent
    /\ IF ~Found(event.found)
       THEN /\ Goto("config")
            /\ slipped' = IF IsMissed THEN slipped \union {event.path} ELSE slipped
            /\ UNCHANGED <<job, eventQueue>>
       ELSE IF IsNewDir
       THEN /\ Goto("create")
            /\ job' = [path |-> event.path, kind |-> "recursive", back |-> "config"]
            /\ UNCHANGED <<eventQueue, slipped>>
       ELSE /\ Goto("config")
            /\ eventQueue' = IF event.mask = "CREATE" THEN eventQueue
                             ELSE Append(eventQueue, Event(event.mask, event.found, event.path))
            /\ UNCHANGED <<job, slipped>>
    /\ UNCHANGED <<keepFs, dirs, made, inotify, kqueue, cfgQueue, todo, batch, cache, alive, logged>>

WatcherStep ==
    \/ ConsumePop \/ ConsumeLookup \/ CreateWatcher \/ Visit \/ Add \/ Scan
    \/ NextEvent \/ ParseUnnamed \/ ParseEvent \/ Dispatch

-----------------------------------------------------------------------------
(* The event thread: Reader::read finds the transfer or does nothing. *)
BugWaitsForTwo ==
    /\ Len(eventQueue) > 1 /\ ~LockHeld
    /\ LET e == Head(eventQueue)
           read == IF e.event = "MODIFY" /\ Found(e.transfer) THEN {e.path} ELSE {}
       IN  unread' = unread \ read /\ seen' = seen \ read /\ slipped' = slipped \ read
    /\ eventQueue' = Tail(eventQueue)
    /\ UNCHANGED <<disk, inotify, kqueue, config, watcher, handler, gauging, yml, alive,
                   logged, budgets>>

EventStep ==
    /\ eventQueue # <<>> /\ ~LockHeld
    /\ LET e == Head(eventQueue)
           read == IF e.event = "MODIFY" /\ Found(e.transfer) THEN {e.path} ELSE {}
       IN  unread' = unread \ read /\ seen' = seen \ read /\ slipped' = slipped \ read
    /\ eventQueue' = Tail(eventQueue)
    /\ UNCHANGED <<disk, inotify, kqueue, config, watcher, handler, gauging, yml, alive,
                   logged, budgets>>

Next ==
    /\ alive
    /\ \/ \E f \in Files : Write(f) \/ RemoveFile(f)
       \/ \E d \in Dirs : MakeDir(d) \/ RemoveDir(d)
       \/ EditYml
       \/ Gauge \/ Reload \/ MainStep
       \/ WatcherStep
       \/ EventStep

Spec == Init /\ [][Next]_vars

\* The threads are scheduled.
FairSpec ==
    /\ Spec
    /\ WF_vars(alive /\ MainStep)
    /\ WF_vars(alive /\ WatcherStep)
    /\ WF_vars(alive /\ EventStep)

-----------------------------------------------------------------------------
(* Properties. *)

Coming     == kqueue \o batch
Overflowed == ~alive \/ \E e \in Range(Coming) \union {event} : e.wd = Overflow

\* The event is still to be parsed and dispatched.
Reported(mask, p) ==
    \/ \E e \in Range(Coming) : e.mask = mask /\ e.path = p
    \/ event.mask = mask /\ event.path = p

\* createWatcher is still to run for t, or to get to its scan.
Awaited(t) ==
    t \in Range(cfgQueue) \/ job.path = t \/ (main \in {"push", "assign"} /\ t \in Range(left))

\* What will send the reader to f.
Carried(f, t) ==
    \/ Reported("MODIFY", f)
    \/ \E e \in Range(eventQueue) : e.event = "MODIFY" /\ e.path = f /\ Found(e.transfer)
    \/ Awaited(t)
    \/ Overflowed

Home(t) == IF fileMap[t] = "file" THEN Parent[t] ELSE t

\* An event that is not an overflow, when it is parsed, finds in tree_wd the name of the directory it
\* happened in (inotifytools_filename_from_wd, create_watch), also when the directory
\* was removed, or made again under the same name, since.
EventsAreNamed ==
    \A e \in Range(kqueue) \union Range(batch) \union (IF at = "parse" THEN {event} ELSE {}) :
        e.wd # Overflow => e.wd \in DOMAIN byWd /\ byWd[e.wd] = Parent[e.path]

\* No configured transfer is forgotten between updateFileInfo and consumerConfig: its
\* directory is watched, or will be tried, or a failure to watch it was logged.
TransferIsWatched ==
    \A t \in Keys(fileMap) :
        Awaited(t) \/ Watched(Home(t)) \/ t \in logged

\* A change of a configured file is on its way to the reader, through the kernel's
\* queue, the event buffer, the event queue or the scan of its transfer; the ways to
\* miss one are an overflow, an event dropped for a stale answer of patternPathFile, a
\* directory the transfer could not watch, and a subdirectory not watched at that time.
ChangeHasCarrier ==
    \A t \in Keys(fileMap) : \A f \in unread \intersect ScannedFiles(t) :
        \/ Carried(f, t)
        \/ f \in slipped
        \/ f \notin seen /\ (t \in logged \/ Parent[f] # Home(t))

\* The walk will list d, or a directory above it.
Pending(d) ==
    <<"add", d>> \in Range(todo) \/ \E x \in Above[d] \union {d} : <<"visit", x>> \in Range(todo)

\* A subdirectory of a recursive transfer is watched, or its parent's event or the
\* walk will get to it; it is missed for good only when the walk passed it, or one
\* above it, over, its event was dropped for a stale answer, or a watch above failed.
SubdirIsWatched ==
    \A d \in Dirs, t \in Keys(fileMap) :
        (fileMap[t] = "recursive" /\ t \in Above[d] /\ Exists(d) /\ ~Watched(d)) =>
            \/ Reported("CREATE", d)
            \/ Pending(d)
            \/ Awaited(d) \/ Awaited(t)
            \/ ~Watched(Parent[d])
            \/ Overflowed
            \/ slipped \intersect (Above[d] \union {d}) # {}
            \/ logged \intersect (Above[d] \union {d}) # {}

\* The threads keep moving: a reported change of a file that stays configured is read,
\* unless the process dies or the handler waits for the mutex its own thread holds.
ChangesAreRead ==
    \A f \in Files :
        f \in seen ~> \/ f \notin seen \/ ~alive \/ main = "stuck"
                      \/ patternPath(f) = {None} \/ f \in slipped

\* docs/file_transfer.md: SIGUSR1 reloads the transfers of a running process, so the
\* changes of a file a reload adds are read like those of any other.
ReloadTakesEffect ==
    \A f \in unread :
        (f \in Transfers /\ Found(f) /\ f \notin logged) => Carried(f, f)
=============================================================================
