----------------------------- MODULE FrontEnds -----------------------------
(***************************************************************************)
(* The two ways a client hands a message to aidt, the memcache command     *)
(* `set` and the HTTP call `index`, composed with the pipeline of Message: *)
(* what a request names, the topic list App keeps, and what the client is  *)
(* told.  A message of Messages is one request; the kind of request it is  *)
(* is given by Requests.  Lines of followed files do not pass here.        *)
(***************************************************************************)
EXTENDS Message

CONSTANTS
    Topics,     \* topics a request can name
    NoTopic,    \* the empty name
    Parts,      \* partition numbers a topic can have
    IntValues,  \* how many values an int of the build has
    Requests,   \* what each client sends
    AtStart,    \* the topics Kafka may have when aidt starts
    MaxChanges  \* bound: changes of the topics Kafka has

Doors == {"set", "index", "other"}
Forms == {"none", "number", "junk", "huge", "extra"}

ASSUME FrontEndConstants ==
    /\ FileSenders = {}
    /\ NoTopic \notin Topics
    /\ IntValues \in Nat \ {0}
    /\ Parts \subseteq 0 .. IntValues - 2
    /\ MaxChanges \in Nat
    /\ Requests \in [Messages -> [door : Doors, topic : Topics \cup {NoTopic},
                                  form : Forms, number : Nat]]

TopicLists == [Topics -> SUBSET Parts]
NoTopics   == [t \in Topics |-> {}]

ASSUME StartLists == AtStart \subseteq TopicLists

VARIABLES
    aims,     \* App::_aims is set and its producer made
    topics,   \* App::_topics, no partitions for a topic it does not list
    broker,   \* the topics of Kafka and their partitions
    changes,  \* how often they have changed
    ever,     \* history: all the partitions a topic has had
    req,      \* per server thread, the request past the topic check
    reply     \* what the client of each request knows

frontVars == <<aims, topics, broker, changes, ever, req, reply>>
allVars   == <<vars, frontVars>>

Replies   == {"none", "open", "success", "refused", "forgotten"}

FInit ==
    /\ Init
    /\ aims = FALSE
    /\ topics = NoTopics
    /\ broker \in AtStart
    /\ changes = 0
    /\ ever = broker
    /\ req = [s \in NetSenders |-> None]
    /\ reply = [m \in Messages |-> "none"]

----------------------------------------------------------------------------
(***************************************************************************)
(* The partition a request asks for, a number cut to the width of an int,  *)
(* of which AnyPart is the -1.  The key of `set` is the topic, alone or    *)
(* with # and a number, where what is no number counts as 0.  `index` cuts *)
(* the number before it looks whether anything is left: 0, what is no      *)
(* number and a multiple of the width all stand for any partition.         *)
(***************************************************************************)
AnyPart == IntValues - 1

Cut(r) == IF r.form = "number" THEN r.number % IntValues ELSE 0

SetPart(r)   == IF r.form = "none" THEN AnyPart ELSE Cut(r)
IndexPart(r) == IF Cut(r) = 0 THEN AnyPart ELSE Cut(r)

PartId(m) ==
    IF Requests[m].door = "index" THEN IndexPart(Requests[m]) ELSE SetPart(Requests[m])

(* A request that is turned down before its topic is looked at.            *)
Malformed(m) ==
    LET r == Requests[m]
    IN  \/ r.door = "set" /\ r.form \in {"huge", "extra"}
        \/ r.door = "index" /\ (r.topic = NoTopic \/ m \in EmptyMessages)

(***************************************************************************)
(* App::checkValidTopicAndPartition, under App::_mut.  The list is fetched *)
(* again, whole, when it misses the topic; a fetch that fails gives an     *)
(* empty list.                                                             *)
(***************************************************************************)
Lists(t) ==
    IF t = NoTopic \/ topics[t] # {} THEN {topics} ELSE {broker, NoTopics}

Known(list, m) ==
    LET t == Requests[m].topic
    IN  t # NoTopic /\ list[t] # {}

BugPartitionIgnored(list, m) == Known(list, m)
Valid(list, m) == Known(list, m) /\ PartId(m) \in list[Requests[m].topic] \cup {AnyPart}

NeedsAims(m) == Requests[m].topic # NoTopic /\ topics[Requests[m].topic] = {}

----------------------------------------------------------------------------
Told(m, r) == reply' = [reply EXCEPT ![m] = r]

CanServe(s, m) == NetServing /\ req[s] = None /\ reply[m] = "none"

(* The other memcache commands answer success and store nothing.           *)
OtherCommand(s, m) ==
    /\ CanServe(s, m)
    /\ Requests[m].door = "other"
    /\ Told(m, "success")
    /\ UNCHANGED <<vars, aims, topics, broker, changes, ever, req>>

TurnDown(s, m) ==
    /\ CanServe(s, m)
    /\ Requests[m].door # "other"
    /\ Malformed(m)
    /\ Told(m, "refused")
    /\ UNCHANGED <<vars, aims, topics, broker, changes, ever, req>>

Asks(s, m) ==
    /\ CanServe(s, m)
    /\ Requests[m].door # "other"
    /\ ~Malformed(m)

BugGoesOnAfterRefusal(s, m) ==
    /\ Asks(s, m)
    /\ aims \/ ~NeedsAims(m)
    /\ \E list \in Lists(Requests[m].topic) :
           /\ topics' = list
           /\ req' = [req EXCEPT ![s] = m]
           /\ Told(m, IF Valid(list, m) THEN "open" ELSE "refused")
    /\ UNCHANGED <<vars, aims, broker, changes, ever>>

CheckTopic(s, m) ==
    /\ Asks(s, m)
    /\ aims \/ ~NeedsAims(m)
    /\ \E list \in Lists(Requests[m].topic) :
           /\ topics' = list
           /\ \/ /\ Valid(list, m)
                 /\ req' = [req EXCEPT ![s] = m]
                 /\ Told(m, "open")
              \/ /\ ~Valid(list, m)
                 /\ Told(m, "refused")
                 /\ UNCHANGED req
    /\ UNCHANGED <<vars, aims, broker, changes, ever>>

(***************************************************************************)
(* Message::setMessage for the request, and the reply its answer decides.  *)
(***************************************************************************)
Store(s) ==
    /\ req[s] # None
    /\ SetMessageCheck(s, req[s])
    /\ UNCHANGED frontVars

BugFullIsSuccess(s) ==
    /\ CanSend(s)
    /\ req[s] # None
    /\ holding[s] = None
    /\ ~QueueAccepts
    /\ Told(req[s], "success")
    /\ req' = [req EXCEPT ![s] = None]
    /\ UNCHANGED <<vars, aims, topics, broker, changes, ever>>

BugFullKeepsRequest(s) ==
    /\ CanSend(s)
    /\ req[s] # None
    /\ holding[s] = None
    /\ ~QueueAccepts
    /\ Told(req[s], "refused")
    /\ UNCHANGED <<vars, aims, topics, broker, changes, ever, req>>

QueueFull(s) ==
    /\ CanSend(s)
    /\ req[s] # None
    /\ holding[s] = None
    /\ ~QueueAccepts
    /\ Told(req[s], "refused")
    /\ req' = [req EXCEPT ![s] = None]
    /\ UNCHANGED <<vars, aims, topics, broker, changes, ever>>

Stored(s) ==
    /\ SetMessagePush(s)
    /\ Told(req[s], "success")
    /\ req' = [req EXCEPT ![s] = None]
    /\ UNCHANGED <<aims, topics, broker, changes, ever>>

----------------------------------------------------------------------------
(* ProducerIn::send: the check of the door once more, with the list of now. *)
Send ==
    /\ aims
    /\ ProducerSend
    /\ \E list \in Lists(Requests[Head(queue)].topic) :
           /\ topics' = list
           /\ Valid(list, Head(queue)) <=> refused' = None
    /\ UNCHANGED <<aims, broker, changes, ever, req, reply>>

(* Aims::run makes the producer.  The servers are running by then.         *)
AimsRun ==
    /\ main \in {"run", "resending", "resent"}
    /\ ~aims
    /\ aims' = TRUE
    /\ UNCHANGED <<vars, topics, broker, changes, ever, req, reply>>

(* Kafka gains a partition or loses a topic.                               *)
BrokerChanges(t) ==
    /\ changes < MaxChanges
    /\ changes' = changes + 1
    /\ \/ \E p \in Parts \ broker[t] : broker' = [broker EXCEPT ![t] = @ \cup {p}]
       \/ broker[t] # {} /\ broker' = [broker EXCEPT ![t] = {}]
    /\ ever' = [ever EXCEPT ![t] = @ \cup broker'[t]]
    /\ UNCHANGED <<vars, aims, topics, req, reply>>

(***************************************************************************)
(* The process ends.  A client that was not answered, or whose message     *)
(* went with the memory of a crash, is owed nothing.                       *)
(***************************************************************************)
FrontGone ==
    /\ aims' = FALSE
    /\ topics' = NoTopics
    /\ req' = [s \in NetSenders |-> None]
    /\ UNCHANGED <<broker, changes, ever>>

FExit == Exit /\ FrontGone /\ UNCHANGED reply

Lost(m) == \/ reply[m] = "open"
           \/ reply[m] = "success" /\ m \notin owed'

FCrash ==
    /\ Crash
    /\ FrontGone
    /\ reply' = [m \in Messages |-> IF Lost(m) THEN "forgotten" ELSE reply[m]]

(* A request that needs the topic list before App::setAims: _aims is null. *)
NullAims(s, m) == Asks(s, m) /\ ~aims /\ NeedsAims(m) /\ FCrash

FServersStopped ==
    /\ ServersStopped
    /\ \A s \in NetSenders : req[s] = None
    /\ UNCHANGED frontVars

Pipeline ==
    /\ \/ \E m \in Messages : Deliver(m) \/ ErrorCallback(m)
       \/ Boot \/ BootLoad \/ Resend \/ LoadStep \/ LoadEof \/ LoadEnd
       \/ Stop \/ AimsStopped \/ SavePop \/ SaveEnd
    /\ UNCHANGED frontVars

FNext ==
    \/ \E s \in NetSenders :
           \/ \E m \in Messages :
                  \/ OtherCommand(s, m) \/ TurnDown(s, m)
                  \/ CheckTopic(s, m) \/ NullAims(s, m)
           \/ Store(s) \/ QueueFull(s) \/ Stored(s)
    \/ Send \/ AimsRun
    \/ \E t \in Topics : BrokerChanges(t)
    \/ Pipeline \/ FServersStopped \/ FExit \/ FCrash

FSpec == FInit /\ [][FNext]_allVars

----------------------------------------------------------------------------
(* A server thread works on one open request, which only it works on.      *)
OwnRequest ==
    \A s \in NetSenders :
        /\ req[s] # None => reply[req[s]] = "open"
        /\ holding[s] \in {None, req[s]}
        /\ \A z \in NetSenders : req[z] = req[s] /\ req[s] # None => z = s

FrontTypeOK ==
    /\ aims \in BOOLEAN
    /\ topics \in TopicLists
    /\ broker \in TopicLists
    /\ ever \in TopicLists
    /\ changes \in 0 .. MaxChanges
    /\ req \in [NetSenders -> Messages \cup {None}]
    /\ reply \in [Messages -> Replies]
    /\ OwnRequest

(***************************************************************************)
(* What a client was told to be stored is kept, however long ago that was: *)
(* through a full queue, refusals, SIGUSR2, stops and restarts the message *)
(* is in memory, in a record the next load reads, or with Kafka.  Excused  *)
(* are what a crash took out of memory, messages without topic or bytes,   *)
(* and the commands that store nothing.                                    *)
(***************************************************************************)
Promised == {m \in Messages \ EmptyMessages :
                 Requests[m].door # "other" /\ reply[m] = "success"}

AnsweredIsKept == Promised \subseteq Pending \cup Intact \cup kafka

(***************************************************************************)
(* A client that was told no can send its message again: no part of the    *)
(* daemon has it, and Kafka does not get it.                               *)
(***************************************************************************)
Turned == {m \in Messages : reply[m] = "refused"}

RefusedIsNowhere ==
    Turned \cap (Pending \cup Range(file) \cup Range(holding) \cup kafka) = {}

(***************************************************************************)
(* What Kafka is given is for a topic and a partition it has had, however  *)
(* stale the list: over fetches that fail, restarts and messages that come *)
(* back from the error file.                                               *)
(***************************************************************************)
Had(m) == ever[Requests[m].topic]

SentWasKnown ==
    \A m \in inflight \cup kafka :
        /\ Requests[m].topic \in Topics
        /\ Had(m) # {}
        /\ PartId(m) \in Had(m) \cup {AnyPart}
=============================================================================
