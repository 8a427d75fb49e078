-------------------------- MODULE FrontEndsProofs --------------------------
(***************************************************************************)
(* Theorems about the front ends, for every set of clients and requests.   *)
(* The first says that they only use the pipeline, so that what is proved  *)
(* of Message holds behind them; the others are about what clients are     *)
(* told and what Kafka is given.                                           *)
(***************************************************************************)
EXTENDS FrontEnds, MessageProofs

(* The steps of the pipeline the front ends have no part in.               *)
LEMMA PipelineFacts ==
    ASSUME Pipeline
    PROVE  Next /\ UNCHANGED <<holding, arrived, owed>>
<1>1. ASSUME NEW m \in Messages, Deliver(m) \/ ErrorCallback(m)
      PROVE  Next /\ UNCHANGED <<holding, arrived, owed>>
  BY <1>1 DEF Next, Deliver, ErrorCallback
<1>2. CASE Boot \/ BootLoad \/ Resend \/ LoadStep \/ LoadEof \/ LoadEnd
  BY <1>2 DEF Next, Boot, BootLoad, Resend, LoadStep, LoadEof, LoadEnd, history
<1>3. CASE Stop \/ AimsStopped \/ SavePop \/ SaveEnd
  BY <1>3 DEF Next, Stop, AimsStopped, SavePop, SaveEnd, history
<1> QED
  BY <1>1, <1>2, <1>3 DEF Pipeline

(* Every step of a server thread, of the producer's check or of the topic  *)
(* list is a step of the pipeline or leaves it alone.                      *)
LEMMA FrontStepIsStep ==
    ASSUME FrontTypeOK, [FNext]_allVars
    PROVE  [Next]_vars
<1> USE FrontEndConstants DEF Senders
<1>1. ASSUME NEW s \in NetSenders, NEW m \in Messages,
             OtherCommand(s, m) \/ TurnDown(s, m) \/ CheckTopic(s, m)
      PROVE  UNCHANGED vars
  BY <1>1 DEF OtherCommand, TurnDown, CheckTopic
<1>2. ASSUME NEW s \in NetSenders, NEW m \in Messages, NullAims(s, m) PROVE Next
  BY <1>2 DEF NullAims, FCrash, Next
<1>3. ASSUME NEW s \in NetSenders, Store(s) PROVE Next
  <2>1. req[s] \in Messages /\ SetMessageCheck(s, req[s])
    BY <1>3 DEF Store, FrontTypeOK
  <2> QED
    BY <2>1 DEF Next
<1>4. ASSUME NEW s \in NetSenders, QueueFull(s) PROVE UNCHANGED vars
  BY <1>4 DEF QueueFull
<1>5. ASSUME NEW s \in NetSenders, Stored(s) PROVE Next
  BY <1>5 DEF Stored, Next
<1>6. CASE Send
  BY <1>6 DEF Send, Next
<1>7. ASSUME NEW t \in Topics, AimsRun \/ BrokerChanges(t) PROVE UNCHANGED vars
  BY <1>7 DEF AimsRun, BrokerChanges
<1>8. CASE AimsRun
  BY <1>8 DEF AimsRun
<1>9. CASE Pipeline
  BY <1>9, PipelineFacts
<1>10. CASE FServersStopped \/ FExit \/ FCrash
  BY <1>10 DEF FServersStopped, FExit, FCrash, Next
<1>11. CASE UNCHANGED allVars
  BY <1>11 DEF allVars
<1> QED
  BY <1>1, <1>2, <1>3, <1>4, <1>5, <1>6, <1>7, <1>8, <1>9, <1>10, <1>11 DEF FNext

----------------------------------------------------------------------------
(***************************************************************************)
(* Requests and threads stay paired: a thread that opens a request had     *)
(* none, and a request is opened once.                                     *)
(***************************************************************************)
LEMMA OwnRequestStep ==
    ASSUME TypeOK, FrontTypeOK, [FNext]_allVars
    PROVE  OwnRequest'
<1> USE FrontEndConstants, MessageConstants DEF Senders
<1>0. /\ holding \in [Senders -> Messages \cup {None}]
      /\ req \in [NetSenders -> Messages \cup {None}]
      /\ reply \in [Messages -> Replies]
      /\ OwnRequest
  BY DEF TypeOK, FrontTypeOK
<1>1. ASSUME UNCHANGED <<holding, req, reply>> PROVE OwnRequest'
  BY <1>0, <1>1 DEF OwnRequest
<1>2. ASSUME NEW s \in NetSenders, NEW m \in Messages, CanServe(s, m),
             UNCHANGED <<holding, req>>, NEW r \in Replies, Told(m, r)
      PROVE  OwnRequest'
  BY <1>0, <1>2 DEF OwnRequest, CanServe, Told
<1>3. ASSUME NEW s \in NetSenders, NEW m \in Messages, CheckTopic(s, m)
      PROVE  OwnRequest'
  <2>1. CanServe(s, m) /\ UNCHANGED holding
    BY <1>3 DEF CheckTopic, Asks, vars
  <2>2. CASE Told(m, "refused") /\ UNCHANGED req
    BY <1>2, <2>1, <2>2 DEF Replies
  <2>3. CASE req' = [req EXCEPT ![s] = m] /\ Told(m, "open")
    BY <1>0, <2>1, <2>3 DEF OwnRequest, CanServe, Told
  <2> QED
    BY <1>3, <2>2, <2>3 DEF CheckTopic
<1>4. ASSUME NEW s \in NetSenders, Store(s) PROVE OwnRequest'
  BY <1>0, <1>4 DEF OwnRequest, Store, SetMessageCheck, frontVars
<1>5. ASSUME NEW s \in NetSenders, NEW r \in Replies, req[s] # None,
             Told(req[s], r), req' = [req EXCEPT ![s] = None],
             holding'[s] = None,
             \A z \in NetSenders \ {s} : holding'[z] = holding[z]
      PROVE  OwnRequest'
  BY <1>0, <1>5 DEF OwnRequest, Told
<1>6. ASSUME NEW s \in NetSenders, QueueFull(s) PROVE OwnRequest'
  BY <1>0, <1>5, <1>6 DEF QueueFull, Replies, vars
<1>7. ASSUME NEW s \in NetSenders, Stored(s) PROVE OwnRequest'
  <2>1. req[s] # None
    BY <1>0, <1>7 DEF Stored, SetMessagePush, OwnRequest
  <2>2. holding' = [holding EXCEPT ![s] = None]
    BY <1>7 DEF Stored, SetMessagePush
  <2> QED
    BY <1>0, <1>5, <1>7, <2>1, <2>2 DEF Stored, Replies
<1>8. ASSUME MemoryGone, FrontGone PROVE OwnRequest'
  BY <1>8 DEF MemoryGone, FrontGone, OwnRequest
<1>9. ASSUME NEW s \in NetSenders, NEW m \in Messages,
             OtherCommand(s, m) \/ TurnDown(s, m)
      PROVE  OwnRequest'
  BY <1>2, <1>9 DEF OtherCommand, TurnDown, Replies, vars
<1>10. ASSUME NEW s \in NetSenders, NEW m \in Messages, NullAims(s, m)
       PROVE  OwnRequest'
  BY <1>8, <1>10 DEF NullAims, FCrash, Crash
<1>11. CASE Send
  BY <1>1, <1>11 DEF Send, ProducerSend
<1>12. CASE AimsRun
  BY <1>1, <1>12 DEF AimsRun, vars
<1>13. ASSUME NEW t \in Topics, BrokerChanges(t) PROVE OwnRequest'
  BY <1>1, <1>13 DEF BrokerChanges, vars
<1>14. CASE Pipeline
  BY <1>1, <1>14, PipelineFacts DEF Pipeline, frontVars
<1>15. CASE FServersStopped
  BY <1>1, <1>15 DEF FServersStopped, ServersStopped, frontVars
<1>16. CASE FExit \/ FCrash
  BY <1>8, <1>16 DEF FExit, FCrash, Exit, Crash
<1>17. CASE UNCHANGED allVars
  BY <1>1, <1>17 DEF allVars, vars, frontVars
<1> QED
  BY <1>3, <1>4, <1>6, <1>7, <1>9, <1>10, <1>11, <1>12, <1>13, <1>14, <1>15,
     <1>16, <1>17 DEF FNext

(***************************************************************************)
(* The type invariant of the front ends, with that of the pipeline.        *)
(***************************************************************************)
LEMMA ListsTyped ==
    ASSUME FrontTypeOK, NEW t \in Topics \cup {NoTopic}
    PROVE  Lists(t) \subseteq TopicLists
<1>1. NoTopics \in TopicLists
  BY DEF NoTopics, TopicLists
<1> QED
  BY <1>1 DEF Lists, FrontTypeOK

LEMMA TopicOf ==
    ASSUME NEW m \in Messages
    PROVE  /\ Requests[m].topic \in Topics \cup {NoTopic}
           /\ Requests[m].number \in Nat
  BY FrontEndConstants

LEMMA FrontTypeStep ==
    ASSUME TypeOK, FrontTypeOK, [FNext]_allVars
    PROVE  FrontTypeOK'
<1> USE FrontEndConstants DEF Senders
<1>0. OwnRequest'
  BY OwnRequestStep
<1> DEFINE Typed == /\ aims \in BOOLEAN
                    /\ topics \in TopicLists
                    /\ broker \in TopicLists
                    /\ ever \in TopicLists
                    /\ changes \in 0 .. MaxChanges
                    /\ req \in [NetSenders -> Messages \cup {None}]
                    /\ reply \in [Messages -> Replies]
<1>a. Typed
  BY DEF FrontTypeOK
<1>1. ASSUME NEW s \in NetSenders, NEW m \in Messages,
             OtherCommand(s, m) \/ TurnDown(s, m)
      PROVE  Typed'
  BY <1>a, <1>1 DEF OtherCommand, TurnDown, Told, Replies
<1>2. ASSUME NEW s \in NetSenders, NEW m \in Messages, CheckTopic(s, m) PROVE Typed'
  <2>1. Lists(Requests[m].topic) \subseteq TopicLists
    BY ListsTyped, TopicOf
  <2> QED
    BY <1>a, <1>2, <2>1 DEF CheckTopic, Told, Replies
<1>3. ASSUME NEW s \in NetSenders, Store(s) PROVE Typed'
  BY <1>a, <1>3 DEF Store, frontVars
<1>4. ASSUME NEW s \in NetSenders, QueueFull(s) \/ Stored(s) PROVE Typed'
  BY <1>a, <1>4 DEF QueueFull, Stored, Told, Replies
<1>5. ASSUME Send PROVE Typed'
  <2>1. Head(queue) \in Messages
    BY <1>5, EmptySeq, HeadTailProperties DEF Send, ProducerSend, Pop, TypeOK
  <2>2. Lists(Requests[Head(queue)].topic) \subseteq TopicLists
    BY <2>1, ListsTyped, TopicOf
  <2> QED
    BY <1>a, <1>5, <2>2 DEF Send
<1>6. ASSUME AimsRun PROVE Typed'
  BY <1>a, <1>6 DEF AimsRun
<1>7. ASSUME NEW t \in Topics, BrokerChanges(t) PROVE Typed'
  <2>1. broker' \in TopicLists
    BY <1>a, <1>7 DEF BrokerChanges, TopicLists
  <2>2. ever' \in TopicLists
    BY <1>a, <1>7, <2>1 DEF BrokerChanges, TopicLists
  <2> QED
    BY <1>a, <1>7, <2>1, <2>2 DEF BrokerChanges
<1>8. ASSUME FrontGone, reply' \in [Messages -> Replies] PROVE Typed'
  BY <1>a, <1>8 DEF FrontGone, NoTopics, TopicLists
<1>9. ASSUME FCrash PROVE Typed'
  <2>1. reply' \in [Messages -> Replies]
    BY <1>a, <1>9 DEF FCrash, Replies
  <2> QED
    BY <1>8, <1>9, <2>1 DEF FCrash
<1>10. ASSUME FExit PROVE Typed'
  BY <1>a, <1>8, <1>10 DEF FExit
<1>11. ASSUME Pipeline \/ FServersStopped \/ UNCHANGED allVars PROVE Typed'
  BY <1>a, <1>11 DEF Pipeline, FServersStopped, allVars, frontVars
<1>12. Typed'
  BY <1>1, <1>2, <1>3, <1>4, <1>5, <1>6, <1>7, <1>9, <1>10, <1>11 DEF FNext, NullAims
<1> QED
  BY <1>0, <1>12 DEF FrontTypeOK

LEMMA FrontInit == FInit => TypeOK /\ FrontTypeOK
<1> SUFFICES ASSUME FInit PROVE TypeOK /\ FrontTypeOK
  OBVIOUS
<1>1. TypeOK
  BY MessageConstants DEF FInit, Init, TypeOK, MainStates
<1>2. OwnRequest
  BY DEF FInit, Init, OwnRequest, Senders
<1>3. topics \in TopicLists /\ broker \in TopicLists /\ ever \in TopicLists
  BY StartLists DEF FInit, NoTopics, TopicLists
<1>4. req \in [NetSenders -> Messages \cup {None}] /\ reply \in [Messages -> Replies]
  BY DEF FInit, Replies
<1>5. changes \in 0 .. MaxChanges
  BY FrontEndConstants DEF FInit
<1>6. aims \in BOOLEAN
  BY Zenon DEF FInit
<1>7. FrontTypeOK
  BY <1>2, <1>3, <1>4, <1>5, <1>6 DEF FrontTypeOK
<1> QED
  BY <1>1, <1>7

THEOREM FrontTypesCorrect == FSpec => [](TypeOK /\ FrontTypeOK)
<1>1. TypeOK /\ FrontTypeOK /\ [FNext]_allVars => (TypeOK /\ FrontTypeOK)'
  BY TypeStep, FrontStepIsStep, FrontTypeStep
<1> QED
  BY <1>1, FrontInit, PTL DEF FSpec

(***************************************************************************)
(* The front ends implement the pipeline: whatever is proved of Message    *)
(* holds of the composition.                                               *)
(***************************************************************************)
THEOREM FrontEndsUsePipeline == FSpec => Spec
<1>1. FInit => Init
  BY DEF FInit
<1>2. FrontTypeOK /\ [FNext]_allVars => [Next]_vars
  BY FrontStepIsStep
<1> QED
  BY <1>1, <1>2, FrontTypesCorrect, PTL DEF FSpec, Spec

----------------------------------------------------------------------------
(***************************************************************************)
(* A request is answered with success only when its message is owed, and   *)
(* only a crash takes back what is owed.                                   *)
(***************************************************************************)
AnsweredOwed ==
    \A m \in Messages :
        reply[m] = "success" /\ Requests[m].door # "other" => m \in owed

LEMMA AnsweredStep ==
    ASSUME TypeOK, FrontTypeOK, AnsweredOwed, [FNext]_allVars
    PROVE  AnsweredOwed'
<1> USE FrontEndConstants, MessageConstants DEF Senders
<1>0. reply \in [Messages -> Replies]
  BY DEF FrontTypeOK
<1>1. ASSUME UNCHANGED <<owed, reply>> PROVE AnsweredOwed'
  BY <1>1 DEF AnsweredOwed
<1>2. ASSUME NEW m \in Messages, NEW r, Told(m, r), UNCHANGED owed,
             r = "success" => Requests[m].door = "other"
      PROVE  AnsweredOwed'
  BY <1>0, <1>2 DEF AnsweredOwed, Told
<1>3. ASSUME NEW s \in NetSenders, NEW m \in Messages,
             OtherCommand(s, m) \/ TurnDown(s, m) \/ CheckTopic(s, m)
      PROVE  AnsweredOwed'
  BY <1>2, <1>3 DEF OtherCommand, TurnDown, CheckTopic, vars
<1>4. ASSUME NEW s \in NetSenders, Store(s) PROVE AnsweredOwed'
  BY <1>1, <1>4 DEF Store, SetMessageCheck, frontVars
<1>5. ASSUME NEW s \in NetSenders, QueueFull(s) PROVE AnsweredOwed'
  <2>1. req[s] \in Messages
    BY <1>5 DEF QueueFull, FrontTypeOK
  <2> QED
    BY <1>2, <1>5, <2>1 DEF QueueFull, vars
<1>6. ASSUME NEW s \in NetSenders, Stored(s) PROVE AnsweredOwed'
  <2>1. req[s] = holding[s] /\ owed' = owed \cup {holding[s]}
    BY <1>6 DEF Stored, SetMessagePush, FrontTypeOK, OwnRequest
  <2> QED
    BY <1>0, <1>6, <2>1 DEF Stored, Told, AnsweredOwed
<1>7. CASE Send
  BY <1>1, <1>7 DEF Send, ProducerSend
<1>8. ASSUME NEW t \in Topics, AimsRun \/ BrokerChanges(t) PROVE AnsweredOwed'
  BY <1>1, <1>8 DEF AimsRun, BrokerChanges, vars
<1>9. ASSUME FCrash PROVE AnsweredOwed'
  BY <1>0, <1>9 DEF FCrash, Lost, AnsweredOwed
<1>10. CASE Pipeline
  BY <1>1, <1>10, PipelineFacts DEF Pipeline, frontVars
<1>11. CASE FServersStopped \/ FExit \/ AimsRun \/ UNCHANGED allVars
  BY <1>1, <1>11 DEF FServersStopped, ServersStopped, FExit, Exit, AimsRun, allVars,
                     vars, history, frontVars
<1> QED
  BY <1>3, <1>4, <1>5, <1>6, <1>7, <1>8, <1>9, <1>10, <1>11 DEF FNext, NullAims

(***************************************************************************)
(* What a client was told to be stored is kept, for a daemon whose error   *)
(* file can be opened and renamed.                                         *)
(***************************************************************************)
THEOREM AnswersKept ==
    ASSUME NoWatcher
    PROVE  FSpec => []AnsweredIsKept
<1>1. FInit => AnsweredOwed
  BY DEF FInit, AnsweredOwed
<1>2. AnsweredOwed /\ NoLoss => AnsweredIsKept
  BY DEF AnsweredOwed, NoLoss, AnsweredIsKept, Promised
<1>3. TypeOK /\ FrontTypeOK /\ AnsweredOwed /\ [FNext]_allVars => AnsweredOwed'
  BY AnsweredStep
<1>4. FSpec => []NoLoss
  BY NoWatcher, FrontEndsUsePipeline, NothingLost, PTL
<1> QED
  BY <1>1, <1>2, <1>3, <1>4, FrontTypesCorrect, PTL DEF FSpec

----------------------------------------------------------------------------
(***************************************************************************)
(* The lists name only what Kafka has had, and what was sent was on one.   *)
(***************************************************************************)
InEver(list) == \A t \in Topics : list[t] \subseteq ever[t]

ListsWereTrue == InEver(topics) /\ InEver(broker)

LEMMA SentStep ==
    ASSUME TypeOK, FrontTypeOK, ListsWereTrue, SentWasKnown, [FNext]_allVars
    PROVE  ListsWereTrue' /\ SentWasKnown'
<1> USE FrontEndConstants, MessageConstants DEF Senders
<1>1. ASSUME UNCHANGED <<topics, broker, ever>> PROVE ListsWereTrue'
  BY <1>1 DEF ListsWereTrue, InEver
<1>2. ASSUME UNCHANGED ever, inflight' \cup kafka' \subseteq inflight \cup kafka
      PROVE  SentWasKnown'
  BY <1>2 DEF SentWasKnown, Had
<1>3. ASSUME NEW t \in Topics \cup {NoTopic}, topics' \in Lists(t),
             UNCHANGED <<broker, ever>>
      PROVE  ListsWereTrue'
  BY <1>3 DEF ListsWereTrue, InEver, Lists, NoTopics
<1>4. ASSUME NEW s \in NetSenders, NEW m \in Messages, CheckTopic(s, m)
      PROVE  ListsWereTrue' /\ SentWasKnown'
  BY <1>2, <1>3, <1>4, TopicOf DEF CheckTopic, vars
<1>5. ASSUME NEW s \in NetSenders, NEW m \in Messages,
             OtherCommand(s, m) \/ TurnDown(s, m)
      PROVE  ListsWereTrue' /\ SentWasKnown'
  BY <1>1, <1>2, <1>5 DEF OtherCommand, TurnDown, vars
<1>6. ASSUME NEW s \in NetSenders, Store(s) \/ QueueFull(s) \/ Stored(s)
      PROVE  ListsWereTrue' /\ SentWasKnown'
  BY <1>1, <1>2, <1>6 DEF Store, QueueFull, Stored, SetMessageCheck, SetMessagePush,
                          vars, frontVars
<1>7. CASE Send
  <2>1. PICK list \in Lists(Requests[Head(queue)].topic) :
             topics' = list /\ (Valid(list, Head(queue)) <=> refused' = None)
    BY <1>7 DEF Send
  <2>2. Head(queue) \in Messages
    BY <1>7, EmptySeq, HeadTailProperties DEF Send, ProducerSend, Pop, TypeOK
  <2>3. ListsWereTrue' /\ UNCHANGED ever
    BY <1>3, <1>7, <2>1, <2>2, TopicOf DEF Send
  <2>4. CASE inflight' = inflight
    BY <1>2, <1>7, <2>3, <2>4 DEF Send, ProducerSend
  <2>5. CASE inflight' = inflight \cup {Head(queue)} /\ UNCHANGED refused
    <3>1. Valid(list, Head(queue)) /\ UNCHANGED kafka
      BY <1>7, <2>1, <2>5 DEF Send, ProducerSend
    <3>2. Requests[Head(queue)].topic \in Topics
      BY <2>2, <3>1, TopicOf DEF Valid, Known
    <3>3. list[Requests[Head(queue)].topic] \subseteq Had(Head(queue))
      BY <2>1, <2>3, <3>2 DEF ListsWereTrue, InEver, Had
    <3> QED
      BY <2>3, <2>5, <3>1, <3>2, <3>3 DEF SentWasKnown, Valid, Known, Had
  <2> QED
    BY <1>7, <2>3, <2>4, <2>5 DEF Send, ProducerSend
<1>8. CASE AimsRun
  BY <1>1, <1>2, <1>8 DEF AimsRun, vars
<1>9. ASSUME NEW t \in Topics, BrokerChanges(t)
      PROVE  ListsWereTrue' /\ SentWasKnown'
  <2>1. broker \in TopicLists /\ ever \in TopicLists
    BY DEF FrontTypeOK
  <2>2. ever' = [ever EXCEPT ![t] = @ \cup broker'[t]] /\ UNCHANGED <<topics, inflight, kafka>>
    BY <1>9 DEF BrokerChanges, vars
  <2>3. \A z \in Topics : ever[z] \subseteq ever'[z]
    BY <2>1, <2>2 DEF TopicLists
  <2>4. \A z \in Topics \ {t} : broker'[z] = broker[z]
    BY <1>9, <2>1 DEF BrokerChanges, TopicLists
  <2>5. broker'[t] \subseteq ever'[t]
    BY <2>1, <2>2 DEF TopicLists
  <2>6. ListsWereTrue'
    BY <2>2, <2>3, <2>4, <2>5 DEF ListsWereTrue, InEver
  <2>7. SentWasKnown'
    BY <2>2, <2>3 DEF SentWasKnown, Had
  <2> QED
    BY <2>6, <2>7
<1>10. CASE Pipeline
  <2>1. inflight' \cup kafka' \subseteq inflight \cup kafka
    BY <1>10 DEF Pipeline, Deliver, ErrorCallback, Boot, BootLoad, Resend, LoadStep,
                 LoadEof, LoadEnd, Stop, AimsStopped, SavePop, SaveEnd
  <2> QED
    BY <1>1, <1>2, <1>10, <2>1 DEF Pipeline, frontVars
<1>11. ASSUME FrontGone, MemoryGone, UNCHANGED kafka
       PROVE  ListsWereTrue' /\ SentWasKnown'
  BY <1>2, <1>11 DEF FrontGone, MemoryGone, ListsWereTrue, InEver, NoTopics
<1>12. CASE FExit
  BY <1>11, <1>12 DEF FExit, Exit
<1>13. ASSUME FCrash PROVE ListsWereTrue' /\ SentWasKnown'
  BY <1>11, <1>13 DEF FCrash, Crash
<1>14. CASE FServersStopped \/ UNCHANGED allVars
  BY <1>1, <1>2, <1>14 DEF FServersStopped, ServersStopped, allVars, vars, frontVars
<1> QED
  BY <1>4, <1>5, <1>6, <1>7, <1>8, <1>9, <1>10, <1>12, <1>13, <1>14 DEF FNext, NullAims

(***************************************************************************)
(* Kafka is given only topics and partitions it has had, however stale the *)
(* list App keeps.                                                         *)
(***************************************************************************)
THEOREM SentIsKnown == FSpec => []SentWasKnown
<1>1. FInit => ListsWereTrue /\ SentWasKnown
  BY StartLists DEF FInit, Init, ListsWereTrue, InEver, NoTopics, SentWasKnown
<1>2. TypeOK /\ FrontTypeOK /\ ListsWereTrue /\ SentWasKnown /\ [FNext]_allVars
      => ListsWereTrue' /\ SentWasKnown'
  BY SentStep
<1> QED
  BY <1>1, <1>2, FrontTypesCorrect, PTL DEF FSpec

----------------------------------------------------------------------------
(***************************************************************************)
(* A request that was not taken, or was turned down, or is open and not in *)
(* the hands of setMessage, has no message among the arrivals.             *)
(***************************************************************************)
NotArrived ==
    /\ \A m \in Messages : reply[m] \in {"none", "refused"} => m \notin arrived
    /\ \A s \in NetSenders : req[s] # None /\ holding[s] = None => req[s] \notin arrived

LEMMA NotArrivedStep ==
    ASSUME TypeOK, FrontTypeOK, NotArrived, [FNext]_allVars
    PROVE  NotArrived'
<1> USE FrontEndConstants, MessageConstants DEF Senders
<1>0. /\ holding \in [Senders -> Messages \cup {None}]
      /\ req \in [NetSenders -> Messages \cup {None}]
      /\ reply \in [Messages -> Replies]
      /\ OwnRequest
  BY DEF TypeOK, FrontTypeOK
<1>1. ASSUME UNCHANGED <<holding, arrived, req, reply>> PROVE NotArrived'
  BY <1>1 DEF NotArrived
<1>2. ASSUME NEW m \in Messages, NEW r, Told(m, r), reply[m] = "none",
             UNCHANGED <<holding, arrived, req>>
      PROVE  NotArrived'
  BY <1>0, <1>2 DEF NotArrived, Told
<1>3. ASSUME NEW s \in NetSenders, NEW m \in Messages,
             OtherCommand(s, m) \/ TurnDown(s, m)
      PROVE  NotArrived'
  BY <1>2, <1>3 DEF OtherCommand, TurnDown, CanServe, vars
<1>4. ASSUME NEW s \in NetSenders, NEW m \in Messages, CheckTopic(s, m)
      PROVE  NotArrived'
  <2>1. reply[m] = "none" /\ req[s] = None /\ UNCHANGED <<holding, arrived>>
    BY <1>4 DEF CheckTopic, Asks, CanServe, vars
  <2>2. CASE Told(m, "refused") /\ UNCHANGED req
    BY <1>2, <2>1, <2>2
  <2>3. CASE req' = [req EXCEPT ![s] = m] /\ Told(m, "open")
    BY <1>0, <2>1, <2>3 DEF NotArrived, Told
  <2> QED
    BY <1>4, <2>2, <2>3 DEF CheckTopic
<1>5. ASSUME NEW s \in NetSenders, Store(s) PROVE NotArrived'
  <2>1. /\ req[s] \in Messages /\ reply[req[s]] = "open"
        /\ holding' = [holding EXCEPT ![s] = req[s]]
        /\ arrived' = arrived \cup {req[s]}
        /\ UNCHANGED <<req, reply>>
    BY <1>0, <1>5 DEF Store, SetMessageCheck, OwnRequest, frontVars
  <2>2. ASSUME NEW m \in Messages, reply'[m] \in {"none", "refused"}
        PROVE  m \notin arrived'
    BY <2>1, <2>2 DEF NotArrived
  <2>3. ASSUME NEW z \in NetSenders, req'[z] # None, holding'[z] = None
        PROVE  req'[z] \notin arrived'
    <3>1. z # s
      BY <1>0, <2>1, <2>3
    <3>2. req[z] # req[s] /\ req[z] \notin arrived
      BY <1>0, <2>1, <2>3, <3>1 DEF OwnRequest, NotArrived
    <3> QED
      BY <2>1, <3>2
  <2> QED
    BY <2>2, <2>3 DEF NotArrived
<1>6. ASSUME NEW s \in NetSenders, QueueFull(s) PROVE NotArrived'
  <2>1. req[s] \notin arrived /\ req[s] \in Messages
    BY <1>0, <1>6 DEF QueueFull, NotArrived
  <2> QED
    BY <1>0, <1>6, <2>1 DEF QueueFull, NotArrived, Told, vars
<1>7. ASSUME NEW s \in NetSenders, Stored(s) PROVE NotArrived'
  <2>1. /\ req' = [req EXCEPT ![s] = None] /\ Told(req[s], "success")
        /\ holding' = [holding EXCEPT ![s] = None] /\ UNCHANGED arrived
    BY <1>7 DEF Stored, SetMessagePush
  <2> QED
    BY <1>0, <2>1 DEF NotArrived, Told
<1>8. CASE Send
  BY <1>1, <1>8 DEF Send, ProducerSend
<1>9. CASE AimsRun
  BY <1>1, <1>9 DEF AimsRun, vars
<1>10. ASSUME NEW t \in Topics, BrokerChanges(t) PROVE NotArrived'
  BY <1>1, <1>10 DEF BrokerChanges, vars
<1>11. CASE Pipeline
  BY <1>1, <1>11, PipelineFacts DEF Pipeline, frontVars
<1>12. ASSUME FrontGone, UNCHANGED arrived,
              \A m \in Messages : reply'[m] \in {reply[m], "forgotten"}
       PROVE  NotArrived'
  BY <1>12 DEF FrontGone, NotArrived
<1>13. CASE FExit
  BY <1>12, <1>13 DEF FExit, Exit
<1>14. ASSUME FCrash PROVE NotArrived'
  BY <1>12, <1>14 DEF FCrash, Crash
<1>15. CASE FServersStopped \/ UNCHANGED allVars
  BY <1>1, <1>15 DEF FServersStopped, ServersStopped, allVars, vars, history, frontVars
<1> QED
  BY <1>3, <1>4, <1>5, <1>6, <1>7, <1>8, <1>9, <1>10, <1>11, <1>13, <1>14, <1>15
     DEF FNext, NullAims

(***************************************************************************)
(* A message whose client was told no is nowhere in the daemon, and Kafka  *)
(* does not get it.                                                        *)
(***************************************************************************)
THEOREM RefusedNotSent == FSpec => []RefusedIsNowhere
<1>1. FInit => NotArrived
  BY DEF FInit, Init, NotArrived
<1>2. TypeOK /\ FrontTypeOK /\ NotArrived /\ [FNext]_allVars => NotArrived'
  BY NotArrivedStep
<1>3. NotArrived /\ FromArrivals => RefusedIsNowhere
  BY MessageConstants DEF NotArrived, FromArrivals, Placed, Put, RefusedIsNowhere, Turned
<1>4. FSpec => []FromArrivals
  BY FrontEndsUsePipeline, NothingMadeUp, PTL
<1> QED
  BY <1>1, <1>2, <1>3, <1>4, FrontTypesCorrect, PTL DEF FSpec
=============================================================================
