------------------------------ MODULE Message ------------------------------
(***************************************************************************)
(* The message pipeline of aidt: app::Message, the part of app::DataStore  *)
(* that keeps messages, the producer callbacks and the calls App and       *)
(* BootStrap make on them.  Senders put messages into an in-memory queue,  *)
(* the Kafka producer thread takes them out, what Kafka refuses is         *)
(* appended to the error file, and start, SIGUSR2 and stop move messages   *)
(* between the queue and that file.                                        *)
(*                                                                         *)
(* A message stands for one arrival: two arrivals with the same bytes are  *)
(* two members of Messages.                                                *)
(***************************************************************************)
EXTENDS Integers, Sequences, FiniteSets, Functions

CONSTANTS
    Messages,       \* the arrivals
    EmptyMessages,  \* those with no topic or no bytes
    NetSenders,     \* threads of the HTTP and memcache servers
    FileSenders,    \* the event thread of the watcher
    QueueLimit,     \* _configure->messageQueueLimit
    MaxResends,     \* bound: SIGUSR2 signals in one life of the process
    MaxFaults,      \* bound: failed opens and renames of the error file
    None,           \* no message
    Torn            \* a record a crash cut short

Senders == NetSenders \cup FileSenders

ASSUME MessageConstants ==
    /\ EmptyMessages \subseteq Messages
    /\ IsFiniteSet(Senders)
    /\ NetSenders \cap FileSenders = {}
    /\ QueueLimit \in Nat
    /\ MaxResends \in Nat
    /\ MaxFaults \in Nat
    /\ None \notin Messages
    /\ Torn \notin Messages

VARIABLES
    main,       \* what the main thread is doing
    queue,      \* Message::_queue
    holding,    \* per sender, the message past the limit check, not yet pushed
    inflight,   \* messages the producer has and Kafka has not answered for
    refused,    \* the message the producer thread found no topic for
    file,       \* the records of the error file
    loadPos,    \* how many of them the running loadMessage has pushed
    saveBuf,    \* what the running saveMessage has taken out of the queue
    kafka,      \* messages Kafka acknowledged
    resends,    \* SIGUSR2 signals handled in this life
    faults,     \* opens and renames that failed
    arrived,    \* history: the arrivals that have come
    owed,       \* history: messages accepted and not lost in a crash
    loaded,     \* history: queue slots that loads filled past the limit check
    doubled     \* history: records pushed by a load that left them in the file

vars == <<main, queue, holding, inflight, refused, file, loadPos, saveBuf,
          kafka, resends, faults, arrived, owed, loaded, doubled>>

history == <<arrived, owed, loaded, doubled>>

MainStates == {"down", "boot", "loading", "loaded", "run", "resending",
               "resent", "stopAims", "stopServers", "saving", "stopWatcher"}

(* Variants named Bug... change the definition below them as a slip in the *)
(* code would; the properties are tried against them.                      *)
BugNoMutex == TRUE
BugMutexHeldByStop ==
    main \notin {"loading", "loaded", "resending", "resent", "saving", "stopAims"}

(***************************************************************************)
(* Message::_mut is held by the main thread in loadMessage and saveMessage *)
(* and by whoever runs errorCallback, which is one step here.              *)
(***************************************************************************)
MutFree == main \notin {"loading", "loaded", "resending", "resent", "saving"}

WatcherUp  == main # "down"
ProducerUp == main \in {"run", "resending", "resent", "stopAims"}
NetServing == ProducerUp \/ main = "stopServers"

CanSend(s) == IF s \in NetSenders THEN NetServing ELSE WatcherUp

(* The records a load can reach: those before the first one cut short.     *)
IntactOf(f) == {f[i] : i \in {j \in DOMAIN f : \A k \in 1 .. j : f[k] # Torn}}
Intact == IntactOf(file)

Checked == {s \in Senders : holding[s] # None}

Init ==
    /\ main = "down"
    /\ queue = <<>>
    /\ holding = [s \in Senders |-> None]
    /\ inflight = {}
    /\ refused = None
    /\ file = <<>>
    /\ loadPos = 0
    /\ saveBuf = <<>>
    /\ kafka = {}
    /\ resends = 0
    /\ faults = 0
    /\ arrived = {}
    /\ owed = {}
    /\ loaded = 0
    /\ doubled = {}

----------------------------------------------------------------------------
BugNoLimit == TRUE

(***************************************************************************)
(* Message::setMessage.  The size test and the push are two steps: no lock *)
(* spans them.  A full queue returns false to the caller and changes       *)
(* nothing.                                                                *)
(***************************************************************************)
QueueAccepts == Len(queue) <= QueueLimit

SetMessageCheck(s, m) ==
    /\ CanSend(s)
    /\ holding[s] = None
    /\ m \notin arrived
    /\ QueueAccepts
    /\ holding' = [holding EXCEPT ![s] = m]
    /\ arrived' = arrived \cup {m}
    /\ UNCHANGED <<main, queue, inflight, refused, file, loadPos, saveBuf,
                   kafka, resends, faults, owed, loaded, doubled>>

SetMessagePush(s) ==
    /\ CanSend(s)
    /\ holding[s] # None
    /\ queue' = Append(queue, holding[s])
    /\ owed' = owed \cup {holding[s]}
    /\ holding' = [holding EXCEPT ![s] = None]
    /\ UNCHANGED <<main, inflight, refused, file, loadPos, saveBuf, kafka,
                   resends, faults, arrived, loaded, doubled>>

(***************************************************************************)
(* ProducerIn::send on the producer thread: Message::send pops, then       *)
(* App::checkValidTopicAndPartition decides whether the message goes to    *)
(* Kafka or straight to errorCallback.                                     *)
(***************************************************************************)
Pop == /\ queue # <<>>
       /\ queue' = Tail(queue)
       /\ loaded' = IF loaded > 0 THEN loaded - 1 ELSE 0

BugInvalidTopicForgotten ==
    /\ ProducerUp
    /\ refused = None
    /\ Pop
    /\ \/ inflight' = inflight \cup {Head(queue)}
       \/ UNCHANGED inflight
    /\ UNCHANGED <<main, holding, refused, file, loadPos, saveBuf, kafka,
                   resends, faults, arrived, owed, doubled>>

ProducerSend ==
    /\ ProducerUp
    /\ refused = None
    /\ Pop
    /\ \/ inflight' = inflight \cup {Head(queue)} /\ UNCHANGED refused
       \/ refused' = Head(queue) /\ UNCHANGED inflight
    /\ UNCHANGED <<main, holding, file, loadPos, saveBuf, kafka, resends,
                   faults, arrived, owed, doubled>>

(* Kafka acknowledges a message.                                           *)
Deliver(m) ==
    /\ ProducerUp
    /\ m \in inflight
    /\ inflight' = inflight \ {m}
    /\ kafka' = kafka \cup {m}
    /\ UNCHANGED <<main, queue, holding, refused, file, loadPos, saveBuf,
                   resends, faults, arrived, owed, loaded, doubled>>

(***************************************************************************)
(* Message::errorCallback with DataStore::saveMessage(file, item).  An     *)
(* empty message is dropped; so is one whose file does not open.           *)
(***************************************************************************)
AppendRecord(m) ==
    \/ /\ m \in EmptyMessages
       /\ UNCHANGED <<file, faults>>
    \/ /\ m \notin EmptyMessages
       /\ file' = Append(file, m)
       /\ UNCHANGED faults
    \/ /\ m \notin EmptyMessages
       /\ faults < MaxFaults
       /\ faults' = faults + 1
       /\ UNCHANGED file

ErrorCallback(m) ==
    /\ ProducerUp
    /\ MutFree
    /\ \/ m = refused /\ refused' = None /\ UNCHANGED inflight
       \/ m \in inflight /\ inflight' = inflight \ {m} /\ UNCHANGED refused
    /\ AppendRecord(m)
    /\ UNCHANGED <<main, queue, holding, loadPos, saveBuf, kafka, resends,
                   arrived, owed, loaded, doubled>>

----------------------------------------------------------------------------
(***************************************************************************)
(* Message::loadMessage and DataStore::loadMessage, called by App::run at  *)
(* start and by App::resend for SIGUSR2.  The loop stops at the end of the *)
(* file or at a record cut short, and the file is renamed away either way. *)
(***************************************************************************)
Boot ==
    /\ main = "down"
    /\ main' = "boot"
    /\ UNCHANGED <<queue, holding, inflight, refused, file, loadPos, saveBuf,
                   kafka, resends, faults, history>>

(* The file opens and the loop begins, or it does not and nothing happens. *)
OpenToLoad(begun) ==
    \/ main' = begun /\ UNCHANGED faults
    \/ faults < MaxFaults /\ faults' = faults + 1 /\ main' = "run"

BootLoad ==
    /\ main = "boot"
    /\ OpenToLoad("loading")
    /\ UNCHANGED <<queue, holding, inflight, refused, file, loadPos, saveBuf,
                   kafka, resends, history>>

Resend ==
    /\ main = "run"
    /\ resends < MaxResends
    /\ resends' = resends + 1
    /\ OpenToLoad("resending")
    /\ UNCHANGED <<queue, holding, inflight, refused, file, loadPos, saveBuf,
                   kafka, history>>

Loading == main \in {"loading", "resending"}

Pushed == {file[i] : i \in 1 .. loadPos}

BugTornRecordPushed == loadPos < Len(file)

RecordReadable == loadPos < Len(file) /\ file[loadPos + 1] # Torn

LoadStep ==
    /\ Loading
    /\ RecordReadable
    /\ queue' = Append(queue, file[loadPos + 1])
    /\ loadPos' = loadPos + 1
    /\ loaded' = loaded + 1
    /\ UNCHANGED <<main, holding, inflight, refused, file, saveBuf, kafka,
                   resends, faults, arrived, owed, doubled>>

LoadEof ==
    /\ ~RecordReadable
    /\ \/ main = "loading" /\ main' = "loaded"
       \/ main = "resending" /\ main' = "resent"
    /\ UNCHANGED <<queue, holding, inflight, refused, file, loadPos, saveBuf,
                   kafka, resends, faults, history>>

BugRenameOnlyIfAllRead ==
    /\ main \in {"loaded", "resent"}
    /\ file' = IF loadPos = Len(file) THEN <<>> ELSE file
    /\ main' = "run"
    /\ loadPos' = 0
    /\ UNCHANGED <<queue, holding, inflight, refused, saveBuf, kafka, resends,
                   faults, history>>

BugNoRenameAfterResend ==
    /\ main \in {"loaded", "resent"}
    /\ file' = IF main = "loaded" THEN <<>> ELSE file
    /\ main' = "run"
    /\ loadPos' = 0
    /\ UNCHANGED <<queue, holding, inflight, refused, saveBuf, kafka, resends,
                   faults, history>>

LoadEnd ==
    /\ main \in {"loaded", "resent"}
    /\ \/ /\ file' = <<>>
          /\ UNCHANGED <<faults, doubled>>
       \/ /\ faults < MaxFaults
          /\ faults' = faults + 1
          /\ doubled' = doubled \cup Pushed
          /\ UNCHANGED file
    /\ main' = "run"
    /\ loadPos' = 0
    /\ UNCHANGED <<queue, holding, inflight, refused, saveBuf, kafka, resends,
                   arrived, owed, loaded>>

----------------------------------------------------------------------------
(***************************************************************************)
(* BootStrap::stop: the producer, the servers, then App::stop, which saves *)
(* the queue and only afterwards stops the watcher.  Before start has      *)
(* finished there is neither a producer nor a server to stop.              *)
(***************************************************************************)
Stop ==
    /\ \/ main = "run" /\ main' = "stopAims"
       \/ main = "boot" /\ main' = "saving"
    /\ UNCHANGED <<queue, holding, inflight, refused, file, loadPos, saveBuf,
                   kafka, resends, faults, history>>

AimsStopped ==
    /\ main = "stopAims"
    /\ inflight = {}
    /\ refused = None
    /\ main' = "stopServers"
    /\ UNCHANGED <<queue, holding, inflight, refused, file, loadPos, saveBuf,
                   kafka, resends, faults, history>>

ServersStopped ==
    /\ main = "stopServers"
    /\ \A s \in NetSenders : holding[s] = None
    /\ main' = "saving"
    /\ UNCHANGED <<queue, holding, inflight, refused, file, loadPos, saveBuf,
                   kafka, resends, faults, history>>

(***************************************************************************)
(* Message::saveMessage and DataStore::saveMessage(file): pop until the    *)
(* queue is empty, then flush.  The stream is not tested for being open.   *)
(***************************************************************************)
SavePop ==
    /\ main = "saving"
    /\ Pop
    /\ saveBuf' = Append(saveBuf, Head(queue))
    /\ UNCHANGED <<main, holding, inflight, refused, file, loadPos, kafka,
                   resends, faults, arrived, owed, doubled>>

BugSaveTruncates ==
    /\ main = "saving"
    /\ queue = <<>>
    /\ file' = saveBuf
    /\ main' = "stopWatcher"
    /\ saveBuf' = <<>>
    /\ UNCHANGED <<queue, holding, inflight, refused, loadPos, kafka, resends,
                   faults, history>>

SaveEnd ==
    /\ main = "saving"
    /\ queue = <<>>
    /\ \/ /\ file' = file \o saveBuf
          /\ UNCHANGED faults
       \/ /\ saveBuf # <<>>
          /\ faults < MaxFaults
          /\ faults' = faults + 1
          /\ UNCHANGED file
    /\ main' = "stopWatcher"
    /\ saveBuf' = <<>>
    /\ UNCHANGED <<queue, holding, inflight, refused, loadPos, kafka, resends,
                   history>>

(***************************************************************************)
(* The process ends: its memory is gone.                                   *)
(***************************************************************************)
MemoryGone ==
    /\ main' = "down"
    /\ queue' = <<>>
    /\ holding' = [s \in Senders |-> None]
    /\ inflight' = {}
    /\ refused' = None
    /\ loadPos' = 0
    /\ saveBuf' = <<>>
    /\ resends' = 0
    /\ loaded' = 0

(* Watcher::stop returns when the event thread has ended; then the loop    *)
(* ends and the process exits.                                             *)
Exit ==
    /\ main = "stopWatcher"
    /\ \A s \in FileSenders : holding[s] = None
    /\ MemoryGone
    /\ UNCHANGED <<file, kafka, faults, arrived, owed, doubled>>

(***************************************************************************)
(* A crash.  saveMessage may have written any part of what it popped, and  *)
(* the record it or errorCallback was writing may be cut short.            *)
(***************************************************************************)
CallbackMayWrite == ProducerUp /\ MutFree /\ (inflight # {} \/ refused # None)

Written(n, cut) == SubSeq(saveBuf, 1, n) \o (IF cut THEN <<Torn>> ELSE <<>>)

Crash ==
    /\ main # "down"
    /\ \E n \in 0 .. Len(saveBuf), cut \in BOOLEAN :
           /\ cut => n < Len(saveBuf) \/ CallbackMayWrite
           /\ file' = file \o Written(n, cut)
    /\ MemoryGone
    /\ owed' = owed \cap (Intact' \cup kafka)
    /\ doubled' = doubled \cup Pushed
    /\ UNCHANGED <<kafka, faults, arrived>>

----------------------------------------------------------------------------
Next ==
    \/ \E s \in Senders :
           \/ \E m \in Messages : SetMessageCheck(s, m)
           \/ SetMessagePush(s)
    \/ ProducerSend
    \/ \E m \in Messages : Deliver(m) \/ ErrorCallback(m)
    \/ Boot \/ BootLoad \/ Resend \/ LoadStep \/ LoadEof \/ LoadEnd
    \/ Stop \/ AimsStopped \/ ServersStopped \/ SavePop \/ SaveEnd
    \/ Exit \/ Crash

Spec == Init /\ [][Next]_vars

(***************************************************************************)
(* Fairness: every running thread keeps running, and librdkafka answers    *)
(* for every message it took, one way or the other.  Nobody has to send,   *)
(* signal or restart, and nothing has to crash.                            *)
(***************************************************************************)
Answer(m) == Deliver(m) \/ ErrorCallback(m)

Fairness ==
    /\ \A s \in Senders : WF_vars(SetMessagePush(s))
    /\ WF_vars(ProducerSend)
    /\ \A m \in Messages : WF_vars(Answer(m))
    /\ WF_vars(BootLoad \/ LoadStep \/ LoadEof \/ LoadEnd)
    /\ WF_vars(AimsStopped \/ ServersStopped \/ SavePop \/ SaveEnd \/ Exit)

FairSpec == Spec /\ Fairness

----------------------------------------------------------------------------
TypeOK ==
    /\ main \in MainStates
    /\ queue \in Seq(Messages)
    /\ holding \in [Senders -> Messages \cup {None}]
    /\ inflight \subseteq Messages
    /\ refused \in Messages \cup {None}
    /\ file \in Seq(Messages \cup {Torn})
    /\ loadPos \in 0 .. Len(file)
    /\ saveBuf \in Seq(Messages)
    /\ kafka \subseteq Messages
    /\ resends \in 0 .. MaxResends
    /\ faults \in 0 .. MaxFaults
    /\ arrived \subseteq Messages
    /\ owed \subseteq Messages
    /\ loaded \in Nat
    /\ doubled \subseteq Messages \cup {Torn}

(***************************************************************************)
(* A message setMessage has accepted is never lost: until Kafka has        *)
(* acknowledged it, it is in the queue, with the producer, in the save     *)
(* buffer or in a record the next load can read.  A crash excuses what was *)
(* only in memory; errorCallback drops messages without topic or bytes.    *)
(* Needs an error file that opens and renames (MaxFaults = 0).             *)
(***************************************************************************)
Pending == Range(queue) \cup inflight \cup ({refused} \ {None}) \cup Range(saveBuf)

NoLoss == owed \ EmptyMessages \subseteq Pending \cup Intact \cup kafka

(***************************************************************************)
(* The pipeline implements the promise: every step, of every thread, moves *)
(* messages between memory, the error file and Kafka as Custody allows.    *)
(* The error file in particular is renamed away only when every record in  *)
(* it is back in the queue or further.  Needs MaxFaults = 0.               *)
(***************************************************************************)
Promise == INSTANCE Custody WITH
    Droppable <- EmptyMessages, pending <- Pending, disk <- Intact, done <- kafka

KeepsPromise == Promise!Spec

(***************************************************************************)
(* The limit setMessage tests without a lock is exceeded by at most one    *)
(* message per sender, plus what loadMessage pushed without testing it.    *)
(***************************************************************************)
QueueBounded == Len(queue) <= QueueLimit + Cardinality(Senders) + loaded

(***************************************************************************)
(* A message is in one place only: the queue, the producer, the save       *)
(* buffer, the unread part of the error file, or Kafka.  The exceptions    *)
(* are the records a load had pushed when it was cut short by a crash or   *)
(* could not rename the file: they are read again.                         *)
(***************************************************************************)
Occurrences(s, m) == Cardinality({i \in DOMAIN s : s[i] = m})

Copies(m) ==
    Occurrences(queue \o saveBuf \o SubSeq(file, loadPos + 1, Len(file)), m)
    + Cardinality({m} \cap inflight) + Cardinality({m} \cap {refused})
    + Cardinality({m} \cap kafka)

NoDuplicate == \A m \in Messages \ doubled : Copies(m) <= 1

(***************************************************************************)
(* A record cut short by a crash is met by the first load after it and     *)
(* goes away with the file: while the daemon runs, no record is appended   *)
(* behind it, where no load would reach it.  Needs MaxFaults = 0.          *)
(***************************************************************************)
TornGoneWhileServing == NetServing => Torn \notin Range(file)

(***************************************************************************)
(* Every queued message is answered for: acknowledged, or recorded in the  *)
(* error file, unless the process ends first.                              *)
(***************************************************************************)
QueuedIsAnswered ==
    \A m \in Messages \ EmptyMessages :
        m \in Range(queue) ~> m \in kafka \cup Intact \/ main = "down"

(* A stop signal ends the process: no thread waits for another for ever.   *)
StopCompletes == main = "stopAims" ~> main = "down"
=============================================================================
