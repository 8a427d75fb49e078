# aidt in TLA+

aidt carries messages to Kafka. They come from memcache and HTTP clients and
from files it follows with inotify. This directory holds a TLA+ model of the
program, the TLC instances that check it and the theorems TLAPS proves of it.
Paths below are relative to the repository; line numbers are those of the
commit the model was written from.

## The system

| Component | State | Operations | Threads |
| -- | -- | -- | -- |
| `AdServer`, `McProcessor`, `Http/Message` | none of their own | one topic check and one `setMessage` per request, the reply | servers |
| `App` (topics) | `_topics`, `_aims`, a mutex | `checkValidTopicAndPartition`, `setAims` | servers, producer, main |
| `App/Message`, `App/DataStore` (messages) | the queue, the error file, a mutex | `setMessage`, `send`, `errorCallback`, `saveMessage`, `loadMessage` | servers, event thread, producer, main |
| `Aims`, `Aims/Kafka/ProducerIn` | the producer and what it has in flight | `run`, `stop`, `send`, `errorCallback` | producer |
| `App/ConfigPaser`, `App/Config` | the transfers with their move times, the queue of transfers to watch, a mutex | `paser`, `check`, `updateFileInfo`, `setMoveTime`, `findFile`, `patternPath`, `consumerConfig` | main, watcher, event |
| `App/Watcher` | event queue, name of the last file moved away, path cache | `watcherThread`, `createWatcher`, `paserEvent`, `eventThread`, `stop` | watcher, event |
| `thridpart/inotify/inotifytools.c` | `tree_wd`, `tree_filename`, the buffer of events | `watch_file`, `watch_recursively`, `next_event`, `filename_from_wd` | watcher |
| `thridpart/inotify/redblack.c` | the nodes of the two trees, a sentinel they share | `rbsearch`, `rbfind`, `rbdelete`, `rblookup`, `rbwalk`, the list, `rbdestroy` | watcher |
| `App/Reader`, `App/DataStore` (offsets) | entry (offset, stream, protection) per file, aliases, count of streams, offset file, a mutex | `read`, `clear`, `moveself`, `moveto`, `save`, `load` | event, main |
| `App`, `BootStrap`, `aidt.cpp` | the order of start and stop | `run`, `reload`, `resend`, `stop`, signal handlers | main |
| `Timer` | none | `syncOffset` saves the offsets | main |

A line of a followed file goes through most of them: the transfer it belongs to
is loaded from `aidt.yml`, queued for the watcher thread and watched; the kernel
reports a change, the watcher thread finds the transfer and queues an event, the
event thread reads lines under the reader's lock and calls `setMessage`, the
producer thread takes the message from the queue and hands it to Kafka, and a
refusal brings it back to `errorCallback`, which appends it to the error file
for the next `loadMessage`. A client's message enters at `setMessage` after a
look at the topic list. Meanwhile the timer saves the offsets, so that a restart
goes on where the reader stopped.

What is hard here: the test of the queue limit and the push are two steps; the
error file is read and renamed while another thread appends to it; crashes
between the two renames of the offset file or inside a record of the error
file; events that wait in a queue while files are renamed, removed and created;
directories made and removed while a walk is setting watches; transfers that a
reload changes between their queueing and their lookup; replies to clients that
must agree with what becomes of the message; the order in which `stop` ends the
threads; signal handlers that run inside the code they interrupt.
`PROJECT.json` lists each of these hazards at its line.

What makes each part correct:

* messages: nothing accepted is lost, nothing is sent twice without a reason,
  the queue is bounded, a queued message is answered for, `stop` ends;
* front ends: what a client was told agrees with where its message is; Kafka is
  given topics and partitions it has had;
* transfers: every configured transfer is watched or its failure logged, a
  change under it is always carried to the reader, the threads keep moving;
* tree of watches: it stays balanced, leaks no node and answers as a map;
* reader: no line of a file is skipped, the saved offset is never ahead,
  only a crash repeats lines, a moved file is read to the end of its
  `time_wait`, every line is read in the end.

## Modules

* `Custody` is the contract: what an at-least-once buffer between senders and
  Kafka may do with a message (accept, acknowledge, record, drop, reload,
  release, forget in a crash). It mentions no thread, queue or file.
* `Message` is the pipeline. Each sender's `setMessage` is two steps,
  `SetMessageCheck` and `SetMessagePush`; the producer is `ProducerSend`,
  `Deliver` (external: Kafka's answer) and `ErrorCallback`; `Boot`, `BootLoad`,
  `Resend`, `LoadStep`, `LoadEof` and `LoadEnd` are `loadMessage` record by
  record; `Stop`, `AimsStopped`, `ServersStopped`, `SavePop`, `SaveEnd` and
  `Exit` are `BootStrap::stop` in its order; `Crash` may come anywhere and may
  leave a record cut short (`Torn`). The main thread holds `Message::_mut` in
  the phases `MutFree` names, and `errorCallback`, which takes it, is one step.
* `FrontEnds` extends `Message` by the clients. A request (constant `Requests`)
  has a door (memcache `set`, HTTP `index`, another command), a topic and a
  partition as the client wrote it. `TurnDown`, `CheckTopic`, `Store`,
  `QueueFull` and `Stored` are the handler from its first test to its reply;
  `OtherCommand` is the rest of `McProcessor`. `Lists` is
  `checkValidTopicAndPartition` with the cached list; `BrokerChanges` (external)
  changes what a fetch returns. `Send` is `ProducerIn::send`: `Message`'s step
  with the outcome of the topic check no longer free. `NullAims` is a request
  before `setAims`, which ends the process. The pipeline's other actions are
  taken over unchanged (`Pipeline`).
* `Transfers` is the way from `aidt.yml` to an event. The main thread is
  `Reload`, `check`, `paser` and the three steps of `updateFileInfo` under
  `Config::_mut` (`UpdateBegin`, `UpdatePush`, `UpdateAssign`), and the gauge
  that takes the same mutex. The watcher thread is `ConsumePop`,
  `ConsumeLookup`, `CreateWatcher`, whose mkdir may fail half way down (`mkdirFails`);
  the recursive walk entry by entry (`Visit`,
  `Add`, with `todo` for the stack of the C function); `Scan`; then `NextEvent`,
  `ParseEvent` with the path cache, and `Dispatch`. `byWd` and `byName` are the
  two trees of watches. A directory has a number that identifies it and its
  watch descriptor; one made again under the same name has another. The kernel
  queue merges equal events and overflows.
* `OrderedMap` is what callers of the tree expect: a set of keys and answers
  computed from it.
* `RedBlack` is the tree: a heap of nodes with pointers and the sentinel
  `RBNULL`. A descent is one step; each turn of the two repair loops
  (`InsertTurn`, `DeleteTurn`) is a step of its own, so the invariants speak of
  the tree in the middle of a repair. `DeleteTurn` reads `x->up` again after each
  rotation, as the code does, since `x` may be the sentinel: a rotation that wrote to
  the sentinel would be seen. `OtherTree` stands for calls on the other
  tree, which leave one of its nodes in the sentinel.
* `Reader` is the file side. The environment creates, extends, removes and
  renames files and the kernel queue reports it (`Report`). The watcher thread
  is `CreateWatcher` and `ParseEvent`, one `Parse...` operator per kind of
  event. The event thread is one `Handle...` action per event of `eventThread`;
  a read is `ReadGivesUp` or `ReadOpens` (`initStream` with its collector),
  then `SendLine`, `RefusedLine`, `SetFileOffset` and `ReadEnds` for the loop of
  `readString` and `readBinary`. The main thread is `Boot`, the three steps of
  `save` (`SaveWrite`, `SaveBackup`, `SaveReplace`), `Stop` and `Crash`. The lock
  `Reader::_mut` is held from the first to the last step of a save, and every
  handler step that takes it waits.
* `MCMessage`, `MCFrontEnds`, `MCTransfers`, `MCRedBlack` and `MCReader` give the
  constants values for TLC.
* `MessageProofs`, `FrontEndsProofs`, `ReaderProofs` and `TransfersProofs` hold the
  theorems about the modules they are named after. Those about `RedBlack` are in
  `RedBlackProofs`; it rests on `RedBlackTree` (the heap, links, keys),
  `RedBlackWalks` (the inductive invariant, the walks, what a rotation does to
  colours) and `RedBlackRepairs` (the turns of both loops, case by case).

Operators named `Bug...` are not part of the model. Each is a plausible slip in
the code of the definition under it; replacing the definition by it breaks the
property named in `PROJECT.json`, which shows that the property looks at that
code.

How the modules meet. `FrontEnds` is composed with `Message` step by step.
`Transfers` ends where an event is queued and taken by the event thread, which is
where `Reader` begins: `Reader` keeps one list of watched directories and adds
moves, descriptors and offsets. `Reader` ends where a line has been accepted by
`setMessage`; there the event thread is a sender of `Message` (`FileSenders`).
`Transfers` takes from the tree only what `OrderedMap` grants (`WithWatch`).

What the models leave out of the data: a message is one arrival, so equal bytes
sent twice are two messages; a file of `Reader` is an inode with a number of
lines, an offset is a count of lines (the code's offsets rest at line ends
only); a file of `Transfers` is read or unread; a number in a request keeps the
width of an `int` as the constant `IntValues`. Each front end cuts it its own way
(`SetPart`, `IndexPart`): `index` cuts the number before it asks whether it is 0, so
every multiple of the width means any partition, and `set` sends such a number to
partition 0. A request of `msg_net` has such a number.

## Runs

| Run | Question | Instance | Result |
| -- | -- | -- | -- |
| `msg_net` | custody of messages from clients, and what the clients are told | 5 requests (one without data, one for a command that stores nothing, one malformed), 2 server threads, one topic that has a partition at the start and changes once, limit 0, one resend, crashes and restarts | the invariants of `Message` and `FrontEnds`, and `KeepsPromise`: the pipeline implements `Custody` |
| `msg_faults` | the limit and duplicates when the error file fails | file and network sender, up to one failed open or rename | `QueueBounded`, `NoDuplicate` |
| `msg_live` | progress | fair threads | `QueuedIsAnswered`, `StopCompletes` |
| `msg_stop_loss` | custody with a file sender | one file sender | `NoLoss` fails: `App::stop` saves the queue before it stops the watcher |
| `transfers` | is every transfer watched and every change carried on | 3 directories in each other and 2 files; recursive, flat and single-file transfers; 2 changes of the disk or of `aidt.yml`, one reload, one gauge; kernel queue of 2, 2 watches, a cache that may drop answers as soon as it holds one | `EventsAreNamed`, `TransferIsWatched`, `ChangeHasCarrier`, `SubdirIsWatched`, `ChangesAreRead` |
| `tr_reload` | does a reload add a transfer | one watched directory with 2 files, the second is added by the reload | `ReloadTakesEffect` fails: the path cache keeps the answer "no transfer" |
| `rb` | the tree of watches | all sequences of calls on 8 keys | the invariants of a red-black tree, and `AnswersAsMap`: it implements `OrderedMap` |
| `rd_crash` | crashes, restarts, saves, refusals, the descriptor limit | one text file of 3 lines, 3 lives, 2 crashes, 2 refusals, `maxLines` 1, `maxfd` 0, any value of the uninitialised flag | `TypeOK`, `NoGap`, `SavedNotAhead`, `RepeatsOnlyAfterCrash`, `LinesAreReadUnlessClogged` |
| `rd_move` | renames and removals inside a directory | 2 names, 2 files of 2 lines, one move, `maxLines` 0 | `NoGap`, `OffsetNotAhead` |
| `rd_rotate` | rotation of a file transfer | the file's name and one other, 2 files of 2 lines, 2 moves | `NoGap`, `OffsetNotAhead`, `MovedStaysOpen` |
| `rd_alias` | is every line of a directory read when a file is renamed | 2 names, 2 files of one line, one move | `LinesAreRead` fails: the entry and the alias of the old name take a new file for the moved one |
| `rd_binary_gap` | binary files and a path that changes hands | the file's name and one other, one move | `NoGap` fails: the stream is reopened by name at the old offset |

Bounds. Two senders are enough for the race at the limit, and a limit of 0
makes the second message of any two meet it. In `msg_net` one topic suffices:
requests for different topics meet only in the fetch of the whole list, which
one topic that appears, grows and disappears shows as well; the request for
partition 1 is refused unless Kafka has that partition when the list is fetched.
`transfers` has a directory in a directory in a transfer, so that a walk can
fail two levels down, and fewer watches and a shorter kernel queue than there
are directories and events; a directory can be removed and made again within the
two changes. Eight keys make every case of `rb_delete_fix` happen on both sides,
with loops of two turns and a node that is freed in place of the one found.
Three lines let a read be split (`maxLines` 1 ends it after two), refused in the
middle and saved in between; three lives let a second restart start from what a
life after a crash saved. `maxfd` 0 with one file makes the collector run at
every reopening. One move shows every order of a rename against events waiting
in the queue. With two moves the swap of two names makes `OffsetNotAhead` fail
in a directory: two aliases then point at each other and an event of the one
name advances the offset of the other. `rd_move` therefore stops at one move.
Runs in which no later life reads the offset file leave the timer's saves out
(`TimerSaves`). `moveProtected` of a new entry is never initialised, and only the
collector looks at it: `rd_crash` takes both values (`Junk`), the runs about moves fix
it, as their `maxfd` is beyond the number of their files and the collector cannot
start.

The limit of descriptors. `rd_crash` with `maxfd` 0 starts the collector at every
reopening. Where the flag is false, every line is handed over all the same. Where it
is true the stream is never closed, and the event is pushed back for ever: the excuse
`Clogged` of `LinesAreReadUnlessClogged` (more streams are protected than there are
descriptors) is exactly that case. So the promise of the document, `LinesAreRead`,
does not hold at the limit: with two files in a directory, `maxfd` 1 and the flag true
TLC finds lines that are never read although every thread keeps running. No document
promises more than `maxfd` files to be followed, which is why this is a hazard in
`PROJECT.json` and not a finding.

Symmetry and view. `msg_net` and `msg_faults` exchange server threads or messages
that the instance does not tell apart. `rb` identifies states that differ in the
addresses of nodes or in the last answer (`VIEW Shape`): addresses are only
compared for equality, and no action reads the answer, while TLC checks
`AnswersAsMap` on every step it generates, also on those that lead to a known
shape.

Deadlock is not checked in the `rd_`, `tr_` and `transfers` runs: with the bounds
used up and the process down nothing is left to do.

Fairness. The threads of the process keep running (weak fairness of the watcher
thread, the event thread, the producer and of a handler that has begun), a
message with the producer is answered in the end, and in `Reader` the event
thread is not kept from the lock for ever (strong fairness: the timer saves every
`intervalSyncOffset` milliseconds, the lock is free in between). Nothing forces a
client, a writer of files, a signal, a save by the timer, a crash or a restart.

What the excuses in the `Transfers` properties say. They are the ways in which
this code does miss a change, each kept as narrow as the code allows: the kernel
queue overflowed (the process then ends, `ParseUnnamed`); the handler of `SIGUSR1`
interrupted the gauge that holds its mutex (`main = "stuck"`); a transfer could not
be watched, which was logged; a file was written in a subdirectory before that was
watched, which the scan of a new subdirectory does not find, as it is no
transfer itself; and what `slipped` records: an event was dropped because the path
cache answered with something that is no transfer, though one matches the path
(`IsMissed`), a directory was made while the walk was between listing its parent and
watching it (`SlipsBehind`), or the walk that would have got to it was given up
(`Dropped`). `slipped` is history and not a look at the cache: the wrong answer may
be evicted right after the event was lost, so an excuse that holds only while the
cache has it is false, which a run shows once its cache can be full.

## What is proved

`MessageProofs`, for every set of messages, every finite set of senders, every
limit and every number of resends:

* `TypeCorrect`: `Spec => []TypeOK`.
* `LimitHolds`: `Spec => []QueueBounded`. The bound alone is not inductive; the
  invariant `Reserved` counts the senders that are past the test and have not
  pushed yet as slots taken.
* `NothingMadeUp`: what is queued, recorded or sent has arrived at `setMessage`.
* `SoundHolds`: the invariant `Sound`, from the assumption `NoWatcher` (no file
  senders, no failing error file). Its parts say what is empty in which phase
  of start, run and stop (`Quiet`), that a held message is new (`FreshHeld`),
  that the records a load has passed are in memory or further (`PushedKept`),
  that a load renames the file only at its end (`ReadToEnd`), and that a torn
  record is never written behind (`TornLast`).
* `TornGone`: under `NoWatcher`, `Spec => []TornGoneWhileServing`.
* `PromiseKept`: under `NoWatcher`, `Spec => KeepsPromise`. Every action is a
  step of `Custody` or leaves it unchanged; the invariant is needed where the
  error file is renamed away (everything it held is back in memory or further)
  and where a stopped process forgets its memory (there is nothing left in it).
* `NothingLost`: under `NoWatcher`, `Spec => []NoLoss`, from the contract.

`MessageProofs` also, without `NoWatcher`: with file senders, failing opens and renames, and
crashes at any step,

* `OneCopyOfEach`: `Spec => []NoDuplicate`. What is counted is how often a message
  is in the queue, the producer, the save buffer, the unread part of the error file
  and Kafka, all taken together. The invariant `OnePlace` adds that a message a
  sender holds is in none of them (`FreshHeld`) and that no two senders hold the same
  (`HeldApart`); most of the proof is about how often an element is in a sequence
  that is joined, shortened or cut at the end of a load.

`FrontEndsProofs`, for every set of requests, topics, partitions and server
threads and every history of Kafka's topics:

* `FrontTypesCorrect`: types, and that a server thread works on a request of its
  own, which is open (`OwnRequest`).
* `FrontEndsUsePipeline`: `FSpec => Spec`. Each step of the front ends is a step
  of `Message` or leaves it alone, so the theorems above hold for it.
* `AnswersKept`: under `NoWatcher`, `FSpec => []AnsweredIsKept`. The reply
  "success" is given in the step that pushes the message; the invariant
  `AnsweredOwed` ties it to the debt `Custody` keeps, and `NothingLost` says
  where a message owed is.
* `RefusedNotSent`: `FSpec => []RefusedIsNowhere`. A refused request has not
  arrived, and by `NothingMadeUp` only what arrived is anywhere.
* `SentIsKnown`: `FSpec => []SentWasKnown`. Every list `App` has kept was true
  once (`ListsWereTrue`).

`ReaderProofs`, for every set of paths, number of files, lines, moves, refusals, lives,
crashes and every limit:

* `ReaderTypesHold`: `Spec => []TypeOK`. With the types go the facts that a running
  read has an open stream (`ReadsAStream`) and that `_currentFdNum` counts at least
  the streams that are open (`OpenCounted`): it never falls behind, and it does run
  ahead, because only the collector counts streams down.

From `MaxMoves = 0` (files are only made, extended and read; none is renamed or
removed), over any number of lives, crashes, saves, refusals, closed streams, of text
or binary files:

* `NoLineIsSkipped`, `SavedOffsetsAreBehind`, `OpenOffsetsAreBehind`: `NoGap`,
  `SavedNotAhead` and `OffsetNotAhead`. The invariant is that every offset, in
  memory, in the file that is being written and in the offset file, and the
  position of a running read, counts lines that have been handed over
  (`NotAhead`, `AtOffset`): in the code the offset follows the line, under another
  lock, so a save in between writes the smaller one.
* `RepeatsNeedACrash`: `RepeatsOnlyAfterCrash`. For that the offsets must be exact
  and not only behind (`Remembered`): while no crash has happened, what was handed
  over of a file is what memory says while the process is up, what the new offset
  file says during the last save (the event thread has ended then), and what the
  offset file says while the process is down.

`MaxMoves = 0`, which bounds removals as well as renames, is needed there: the inode in
the offset file is not compared when it is loaded (`DataStore.cpp:175`), so a file that
took the path of another meanwhile, by a rename or because the first was removed and
the path made again, is read from the offset of the first.

For text files that are renamed, replaced and removed, in any number and at any
step, while the limit of streams is not reached (`~Full`):

* `MovedLinesAreNotSkipped`, `MovedOffsetsAreBehind`: in directories, `NoGap` and
  `OffsetNotAhead` in the first life, when no name is both moved to and moved from
  (`OneWay`). An entry goes to its new name whole, stream and offset together, and
  an event under the old name finds no entry to advance (`EntryBehind`, `MovesFit`,
  `ReadFits`).
* `RotatedOffsetsAreBehind`: the same for files watched on their own, with no
  condition on the names, as a file transfer has no alias.
* `OneMoveIsFollowed`: the same for both together with a single rename or removal,
  which is one way by itself.
* `MovedFilesStayOpen`: `MovedStaysOpen`, in every life and whatever the names.

The hypotheses exclude the places where the code does go wrong. A binary stream is bad at the end of the file and is opened again by
name (`rd_binary_gap`); so is a stream that the collector has closed (`Full`;
only the collector counts `_currentFdNum` down, so a process that runs long enough
comes to that limit); a later life opens by name at a saved offset; two
renames that exchange names leave two aliases that point at each other.

`TransfersProofs`, for every finite tree of directories, every `aidt.yml` that fits
it (`KindsFit`), every limit of the kernel and every order of changes, signals
and steps of the threads:

* `TransferTypes`: `Spec => []TypeOK`.
* `NoWrongName`: `Spec => []EventsAreNamed`. `NumbersFit` is what makes it
  inductive: directories that exist have different numbers, a watch of the
  kernel always has a name in `tree_wd`, and a name belongs to the directory that
  has the number now, if one has. A name outlives its directory, so an event that
  waits for it is parsed under it; a new directory has a number no name was
  ever kept for. Its use is in `Report` (an event gets the number of a watched
  directory) and in `Add` (a name is only added for a number that has none).
* `NoTransferForgotten`: `Spec => []TransferIsWatched`, from the assumption
  `HomesStay` that the directory of a transfer is not removed. `HandlerFits`
  says why `updateFileInfo` may queue a transfer before it stores it: until it is
  stored the handler holds the mutex, so the watcher thread may have taken the
  path but cannot have looked it up. `WalkFits` says that the walk ends with the
  directory of the transfer, so that it is watched or the failure was logged when
  the scan begins; `HomeStaysWatched` that no other step takes that watch away.

And, with the same generality:

* `EveryChangeHasCarrier`: `Spec => []ChangeHasCarrier`. It rests on `CarrierInv`, which
  adds to `NameInv`, `WalkFits` and `TransferIsWatched` what the threads hold between
  two steps (`Idle`) and that what is in a directory stands with it (`Standing`), which
  the directories need that a failed mkdir leaves behind. The argument follows a change of a file from the kernel's queue
  to the buffer, the event, the event queue and the reader, step by step. It needs
  `TransferIsWatched`: a change that nobody reported lies in a directory whose transfer
  is still to be scanned.
* `SubdirsAreWatched`: `Spec => []SubdirIsWatched`, from `Apart`: no `aidt.yml` has two
  transfers that cover one path. `SubdirInv` says why the recursive walk of
  `inotifytools_watch_recursively` forgets nothing although the tree changes under it:
  what is in a directory that is about to be watched comes before it on the stack, or
  was passed over (`BehindAdds`), so once a directory is watched what is in it is
  watched, on the stack or reported (`WalkCovers`, `SubdirHeld`). `Outdated` covers a
  transfer whose kind a reload changes while its directory is being watched: the
  reload has queued it again. Between them stand facts about the tree of paths
  (`AboveLeast`, `AboveOrdered`), about mkdir, which makes one directory in a watched
  one and the others in new ones (`MkdirReported`), and about what is answered from the
  cache (`Answered`).

`Apart` is needed: `patternPath` answers the first transfer in the order of an
unordered map, so with a recursive transfer and a flat one for one of its
subdirectories a new directory may be taken for the flat one's and not be watched.
`HomesStay` is needed too: the watch of a transfer's own directory is not set again.

`RedBlackProofs`, for every set of keys (integers) and of nodes, so for trees of any
height and every history of calls on both trees, in the state between any two turns
of a repair loop:

* `TreeHolds`: `Spec => []IInv`, the inductive invariant. Its parts: free memory has no
  links and what is allocated has keys (`Memory`); where the loops look, and that the
  place a delete repairs hangs on one side of its parent, although that place may be
  the sentinel, whose parent the other tree overwrites (`Cursor`); the links are one
  tree (`WellLinked`) in the order of the keys (`Ordered`); no red node has a red child
  but at the place a loop looks at (`Reds`); there are numbers, one for each node, that
  count the black nodes below it, with one more where a delete took one (`Blacks`), and
  each turn leaves a node with a greater number (`Paced`).
* From it `TypeHolds`, `LinksHold`, `AccountHolds`, `RedsHold`, `BlacksHold` and
  `TurnsHold`: the six invariants that `rb` checks.
* `AnswersHold`: `Spec => AnswersAsMap`. The tree implements `OrderedMap`: each call is
  a step of the map with the same answer, and a turn of a loop, a freed node or a call
  on the other tree leaves the map alone.

The argument needs no induction over the height of the tree, which the provers could
not do. That there are no cycles is said by sets (`Bottom`, `Top`): in every set of
nodes of the tree one has its children outside the set, and one has its parent outside
it. So a property of all nodes holds if the set of
those without it is empty, and where the set is not empty its lowest or highest node
is the contradiction. What is under a node (`Under`) is the least set with that node
that is closed under going down. A walk of the code, recursive in the model too, is one
function on all nodes; that such a function exists (`PathFunction`, `TreeFunction`) is
proved the same way, and what it answers (`AscentIs`, `DescendIs`, `ReachedIs`,
`CountIs`, `VisitsIs`) is a property of all nodes. The counts of black nodes are not
computed but only said to exist: a turn gives new numbers to the two or three nodes it
moves and leaves the others, which is what makes its proof local.

A few facts carry the repairs. A rotation keeps links (`RotateLinks`), what is under
every other node (`RotateUnder`) and the order (`RotateOrder`); which counts and which
red nodes it keeps depends on the colours of two nodes (`RotateBlacks`, `RotateReds`).
Each turn of the loops is a choice of repaintings and at most three rotations:
`RecolourTurn`, `InnerTurn`, `OuterTurn` for an insert; `RedSibling`, `NearRed`,
`FarRed`, `BothBlack` for a delete. `UnlinkOrder` says why the node with two children
may keep its place and take over the key that follows its own.

`NoWatcher` is needed: `msg_stop_loss` is the counterexample without it.
`FrontEnds` assumes `FileSenders = {}` in any case.

The models name their assumptions on the constants (`TreeOfPaths`, `KindsFit`,
`HomesStay`, `NoneIsNoItem` and so on) where they declare them; the last says that the
value `None` is no number and no open file.

Also assumed, by the models and so by the proofs: `adbase`'s producer and servers
join their threads in `stop`; a write to the error file that was opened
succeeds; a rename is atomic and survives a crash of the process.

Of `RedBlack` it is assumed that the sentinel, the node of the other tree and the
marks for "no key" and "no list" are different from the keys and nodes
(`NodesDistinct`, `MarksDistinct`), and that keys are integers (`KeysAreIntegers`).

Model-checked only: all liveness (out of the prover's reach); the custody of `Message` with file senders or
a failing error file, where `NoLoss` is false; and `Reader` outside the hypotheses
above: binary files that move, the limit of streams with files that move, and moves
over several lives. Of the runs' instances `rd_crash` lies within the hypothesis
`MaxMoves = 0`, and `rd_move` and `rd_rotate` show, at small bounds, what the theorems
about moves say of any number of files and moves.

## Not modelled

* The libraries `adbase`, `librdkafka` and `yaml-cpp`: their behaviour at the calls
  is external in the models.
* Functions without a caller in aidt: `Watcher::deleteWatcher` and
  `Config::isHasWatcherFile`; in `inotifytools.c` the removal of watches,
  statistics, printing and regular expressions. `excludes` never has an effect:
  the loop that fills it (`ConfigPaser.cpp:37`) counts up to its own size, which
  is 0, so the models have none.
* In the tree: a call of `rbdelete` while a walk or a list is open. `replace_filename`
  (`inotifytools.c:377`) makes one inside the walk of line 870, and nothing in aidt calls
  that. aidt itself reaches `rbinit`, `rbsearch`, `rbfind` and one `rbwalk` (the count of
  watches); `rbdelete`, `rblookup`, the list and `rbdestroy` have no live caller in it
  and are modelled and proved as the library they are. Not modelled
  are the modes of `rblookup` that read a comparison never made on an empty tree, and
  `sbrk` allocation, which is not compiled in.
* In `Transfers`: moves (they are in `Reader`), events of the directory itself,
  which carry no name, and the match of a recursive transfer inside another path
  (`Matches` has it, through `Alike`; the instances have no such pair). Nor a
  transfer whose kind does not fit its path (`KindsFit`), or whose own directory
  is removed while it is configured (`HomesStay`).
* Logging, metrics, the HTTP status calls, the head server and the command line
  client: no state the other parts depend on.
* In `Reader`: lines longer than `maxLineBytes` and files truncated in place.
* A stop signal that interrupts `save` or `loadMessage`, or a second one: the
  handler then locks a `std::mutex` its own thread holds, or frees what is being
  freed, and the language leaves open what follows. Nor a stop before the event
  thread has begun to run, which `Watcher::stop` does not wait for, as
  `_eventThreadNumber` (`Watcher.cpp:75`) counts it only then. The attempt to stop from the
  handler of `SIGSEGV` after a null `_aims` is the crash of `NullAims`.

## What could come next

1. The move time under a reload: `Transfers` and `Reader` composed on one file,
   as they meet in `WatcherFileInfo::moveTime`.
2. An abstract follower (a reader that hands over the lines of each file in
   order, and may repeat from an earlier point after a crash) that `Reader`
   implements while files are only extended.
3. Binary files that keep their names through moves in other directories, and the
   lives after the first when no path changes hands while the process is down:
   between the theorems from `MaxMoves = 0` and those about moves.
4. That the tree stays low: at most twice the logarithm of the number of nodes, which
   follows from `RedHasBlackChildren` and `BlackCountsEqual` by an induction over the
   height.
