--------------------------- MODULE MessageProofs ---------------------------
(***************************************************************************)
(* Theorems about the message pipeline, for every set of messages and of   *)
(* senders and every queue limit.                                          *)
(***************************************************************************)
EXTENDS Message, TLAPS, SequenceTheorems, FiniteSetTheorems, FunctionTheorems

----------------------------------------------------------------------------
(* Taking the first message out of the queue and adding one at its end.    *)
LEMMA TailFacts ==
    ASSUME NEW S, NEW q \in Seq(S), q # <<>>
    PROVE  /\ Head(q) \in Range(q)
           /\ Range(Tail(q)) \subseteq Range(q)
           /\ Range(q) \subseteq {Head(q)} \cup Range(Tail(q))
<1>1. Len(q) \in Nat \ {0} /\ DOMAIN q = 1 .. Len(q) /\ Head(q) = q[1]
  BY EmptySeq
<1>2. /\ Tail(q) \in Seq(S)
      /\ Len(Tail(q)) = Len(q) - 1
      /\ \A i \in 1 .. Len(Tail(q)) : Tail(q)[i] = q[i + 1]
  BY HeadTailProperties
<1>3. DOMAIN Tail(q) = 1 .. Len(q) - 1
  BY <1>2
<1>4. Head(q) \in Range(q)
  BY <1>1 DEF Range
<1>5. Range(Tail(q)) \subseteq Range(q)
  BY <1>1, <1>2, <1>3 DEF Range
<1>6. ASSUME NEW i \in 1 .. Len(q), i # 1 PROVE q[i] \in Range(Tail(q))
  <2>1. i - 1 \in 1 .. Len(q) - 1 /\ Tail(q)[i - 1] = q[i]
    BY <1>1, <1>2, <1>6
  <2> QED
    BY <2>1, <1>3 DEF Range
<1> QED
  BY <1>1, <1>4, <1>5, <1>6 DEF Range

(* A message pushed at the end of the queue is in it, and only it is new.  *)
LEMMA AppendRange ==
    ASSUME NEW S, NEW q \in Seq(S), NEW e \in S
    PROVE  Range(Append(q, e)) = Range(q) \cup {e}
<1>1. Append(q, e) = q \o <<e>> /\ <<e>> \in Seq(S)
  BY AppendIsConcat
<1>2. Range(<<e>>) = {e}
  BY DEF Range
<1>3. Range(q \o <<e>>) = Range(q) \cup Range(<<e>>)
  BY <1>1, RangeConcatenation
<1> QED
  BY <1>1, <1>2, <1>3

(* What a crash leaves behind the old end of the error file.               *)
LEMMA WrittenFacts ==
    ASSUME TypeOK, NEW n \in 0 .. Len(saveBuf), NEW cut \in BOOLEAN
    PROVE  /\ Written(n, cut) \in Seq(Messages \cup {Torn})
           /\ Range(Written(n, cut)) \subseteq Range(saveBuf) \cup {Torn}
<1> DEFINE b == SubSeq(saveBuf, 1, n)
           h == IF cut THEN <<Torn>> ELSE <<>>
           R == Messages \cup {Torn}
<1>1. saveBuf \in Seq(Messages) /\ n \in Nat /\ n <= Len(saveBuf)
  BY DEF TypeOK
<1>2. /\ b \in Seq(Messages)
      /\ Len(b) = n
      /\ \A i \in 1 .. n : b[i] = saveBuf[i]
  BY <1>1
<1>3. Range(b) \subseteq Range(saveBuf)
  BY <1>1, <1>2 DEF Range
<1>4. b \in Seq(R) /\ h \in Seq(R)
  <2>1. b \in Seq(R)
    BY <1>2, SeqMonotonic, Messages \subseteq R
  <2>2. <<>> \in Seq(R) /\ <<Torn>> \in Seq(R)
    BY EmptySeq
  <2> QED
    BY <2>1, <2>2
<1>5. Range(h) \subseteq {Torn}
  BY DEF Range
<1>6. Written(n, cut) = b \o h
  BY DEF Written
<1> HIDE DEF b, h
<1>7. b \o h \in Seq(R)
  BY <1>4, ConcatProperties
<1>8. Range(b \o h) = Range(b) \cup Range(h)
  BY <1>4, RangeConcatenation
<1> QED
  BY <1>3, <1>5, <1>6, <1>7, <1>8

(***************************************************************************)
(* The type invariant: only whole messages are queued, sent and saved, and *)
(* a load never reads past the end of the error file.                      *)
(***************************************************************************)
LEMMA TypeStep == TypeOK /\ [Next]_vars => TypeOK'
<1> SUFFICES ASSUME TypeOK, [Next]_vars PROVE TypeOK'
  OBVIOUS
<1> USE MessageConstants
<1>1. ASSUME NEW s \in Senders, NEW m \in Messages, SetMessageCheck(s, m) PROVE TypeOK'
  BY <1>1 DEF TypeOK, SetMessageCheck
<1>2. ASSUME NEW s \in Senders, SetMessagePush(s) PROVE TypeOK'
  BY <1>2 DEF TypeOK, SetMessagePush
<1>3. CASE ProducerSend
  BY <1>3 DEF TypeOK, ProducerSend, Pop
<1>4. ASSUME NEW m \in Messages, Deliver(m) PROVE TypeOK'
  BY <1>4 DEF TypeOK, Deliver
<1>5. ASSUME NEW m \in Messages, ErrorCallback(m) PROVE TypeOK'
  <2>1. /\ file' \in Seq(Messages \cup {Torn})
        /\ Len(file') >= Len(file)
        /\ faults' \in 0 .. MaxFaults
    <3>1. Append(file, m) \in Seq(Messages \cup {Torn}) /\ Len(Append(file, m)) = Len(file) + 1
      BY AppendProperties DEF TypeOK
    <3>2. file \in Seq(Messages \cup {Torn}) /\ Len(file) \in Nat
      BY LenProperties DEF TypeOK
    <3>3. file' = file \/ file' = Append(file, m)
      BY <1>5 DEF ErrorCallback, AppendRecord
    <3>4. Len(file') >= Len(file) /\ file' \in Seq(Messages \cup {Torn})
      <4>1. CASE file' = file
        BY <3>2, <4>1
      <4>2. CASE file' = Append(file, m)
        BY <3>1, <3>2, <4>2
      <4> QED
        BY <3>3, <4>1, <4>2
    <3>5. faults' \in 0 .. MaxFaults
      BY <1>5 DEF TypeOK, ErrorCallback, AppendRecord
    <3> QED
      BY <3>4, <3>5
  <2>2. inflight' \subseteq Messages /\ refused' \in Messages \cup {None}
    BY <1>5 DEF TypeOK, ErrorCallback
  <2> QED
    BY <1>5, <2>1, <2>2 DEF TypeOK, ErrorCallback
<1>6. CASE Boot
  BY <1>6 DEF TypeOK, Boot, history, MainStates
<1>7. CASE BootLoad
  BY <1>7 DEF TypeOK, BootLoad, OpenToLoad, history, MainStates
<1>8. CASE Resend
  BY <1>8 DEF TypeOK, Resend, OpenToLoad, history, MainStates
<1>9. CASE LoadStep
  BY <1>9 DEF TypeOK, LoadStep, RecordReadable
<1>10. CASE LoadEof
  BY <1>10 DEF TypeOK, LoadEof, history, MainStates
<1>11. CASE LoadEnd
  <2>1. main' \in MainStates /\ loadPos' = 0 /\ file' \in Seq(Messages \cup {Torn})
    BY <1>11, EmptySeq DEF TypeOK, LoadEnd, MainStates
  <2>2. doubled' \subseteq Messages \cup {Torn}
    BY <1>11 DEF TypeOK, LoadEnd, Pushed
  <2> QED
    BY <1>11, <2>1, <2>2 DEF TypeOK, LoadEnd
<1>12. CASE Stop
  BY <1>12 DEF TypeOK, Stop, history, MainStates
<1>13. CASE AimsStopped
  BY <1>13 DEF TypeOK, AimsStopped, history, MainStates
<1>14. CASE ServersStopped
  BY <1>14 DEF TypeOK, ServersStopped, history, MainStates
<1>15. CASE SavePop
  BY <1>15 DEF TypeOK, SavePop, Pop
<1>16. CASE SaveEnd
  <2>1. /\ file \in Seq(Messages \cup {Torn})
        /\ saveBuf \in Seq(Messages \cup {Torn})
    BY SeqMonotonic, Messages \subseteq Messages \cup {Torn} DEF TypeOK
  <2>2. /\ file' \in Seq(Messages \cup {Torn})
        /\ Len(file') >= Len(file)
    <3>1. /\ file \o saveBuf \in Seq(Messages \cup {Torn})
          /\ Len(file \o saveBuf) = Len(file) + Len(saveBuf)
      BY <2>1, ConcatProperties
    <3>2. Len(file) \in Nat /\ Len(saveBuf) \in Nat
      BY <2>1, LenProperties
    <3>3. CASE file' = file
      BY <2>1, <3>2, <3>3
    <3>4. CASE file' = file \o saveBuf
      <4>1. Len(file') = Len(file) + Len(saveBuf)
        BY <3>1, <3>4
      <4> QED
        BY <3>1, <3>2, <3>4, <4>1
    <3> QED
      BY <1>16, <3>3, <3>4 DEF SaveEnd
  <2>3. saveBuf' \in Seq(Messages)
    BY <1>16, EmptySeq DEF SaveEnd
  <2> QED
    BY <1>16, <2>2, <2>3 DEF TypeOK, SaveEnd, history, MainStates
<1>17. CASE Exit
  BY <1>17 DEF TypeOK, Exit, MemoryGone, MainStates
<1>18. CASE Crash
  <2>1. file' \in Seq(Messages \cup {Torn})
    BY <1>18, WrittenFacts DEF TypeOK, Crash
  <2>2. doubled' \subseteq Messages \cup {Torn}
    BY <1>18 DEF TypeOK, Crash, Pushed
  <2> QED
    BY <1>18, <2>1, <2>2 DEF TypeOK, Crash, MemoryGone, MainStates
<1>19. CASE UNCHANGED vars
  BY <1>19 DEF TypeOK, vars
<1> QED
  BY <1>1, <1>2, <1>3, <1>4, <1>5, <1>6, <1>7, <1>8, <1>9, <1>10, <1>11, <1>12,
     <1>13, <1>14, <1>15, <1>16, <1>17, <1>18, <1>19 DEF Next

(* The state of the pipeline is well typed in every behaviour.             *)
THEOREM TypeCorrect == Spec => []TypeOK
<1>1. Init => TypeOK
  BY MessageConstants DEF Init, TypeOK, MainStates
<1> QED
  BY <1>1, TypeStep, PTL DEF Spec

----------------------------------------------------------------------------
(***************************************************************************)
(* The limit.  A sender past the test of setMessage has a slot reserved:   *)
(* the queue and the messages about to be pushed together stay within the  *)
(* limit, one slot per sender, and what loads have added.                  *)
(***************************************************************************)
Reserved == Len(queue) + Cardinality(Checked) <= QueueLimit + Cardinality(Senders) + loaded

(* The senders past the limit check of setMessage are finitely many.       *)
LEMMA SomeSenders ==
    ASSUME NEW C, C \subseteq Senders
    PROVE  /\ IsFiniteSet(C)
           /\ Cardinality(C) \in 0 .. Cardinality(Senders)
           /\ Cardinality(Senders) \in Nat
  BY MessageConstants, FS_Subset, FS_CardinalityType

(* No step lets queued messages and senders past the check outgrow the     *)
(* limit by more than one per sender and what loadMessage pushed.          *)
LEMMA ReservedStep == TypeOK /\ Reserved /\ [Next]_vars => Reserved'
<1> SUFFICES ASSUME TypeOK, Reserved, [Next]_vars PROVE Reserved'
  OBVIOUS
<1>1. Len(queue) \in Nat /\ QueueLimit \in Nat /\ loaded \in Nat
  BY LenProperties, MessageConstants DEF TypeOK
<1>2. /\ Cardinality(Checked) \in Nat
      /\ Cardinality(Checked') \in 0 .. Cardinality(Senders)
      /\ Cardinality(Senders) \in Nat
  <2>1. Checked \subseteq Senders /\ Checked' \subseteq Senders
    BY DEF Checked
  <2> QED
    BY <2>1, SomeSenders
<1>3. ASSUME UNCHANGED <<queue, holding, loaded>> PROVE Reserved'
  BY <1>3 DEF Reserved, Checked
<1>4. ASSUME NEW s \in Senders, NEW m \in Messages, SetMessageCheck(s, m) PROVE Reserved'
  BY <1>1, <1>2, <1>4 DEF SetMessageCheck, QueueAccepts, Reserved
<1>5. ASSUME NEW s \in Senders, SetMessagePush(s) PROVE Reserved'
  <2>1. Checked' = Checked \ {s} /\ s \in Checked
    BY <1>5 DEF SetMessagePush, Checked, TypeOK
  <2>2. Cardinality(Checked') = Cardinality(Checked) - 1
    BY <2>1, SomeSenders, FS_RemoveElement, Checked \subseteq Senders DEF Checked
  <2>3. Len(queue') = Len(queue) + 1
    BY <1>5 DEF SetMessagePush, TypeOK
  <2> QED
    BY <1>1, <1>2, <1>5, <2>2, <2>3 DEF SetMessagePush, Reserved
<1>6. ASSUME Pop, UNCHANGED holding PROVE Reserved'
  <2>1. Len(queue') = Len(queue) - 1
    BY <1>6, HeadTailProperties DEF Pop, TypeOK
  <2>2. Cardinality(Checked') = Cardinality(Checked)
    BY <1>6 DEF Checked
  <2> QED
    BY <1>1, <1>2, <1>6, <2>1, <2>2 DEF Pop, Reserved
<1>7. CASE LoadStep
  <2>1. Len(queue') = Len(queue) + 1
    BY <1>7 DEF LoadStep, TypeOK
  <2>2. Cardinality(Checked') = Cardinality(Checked)
    BY <1>7 DEF LoadStep, Checked
  <2> QED
    BY <1>1, <1>2, <1>7, <2>1, <2>2 DEF LoadStep, Reserved
<1>8. ASSUME MemoryGone PROVE Reserved'
  <2>1. Len(queue') = 0 /\ loaded' = 0
    BY <1>8 DEF MemoryGone
  <2> QED
    BY <1>1, <1>2, <2>1 DEF Reserved
<1>9. CASE ProducerSend
  BY <1>6, <1>9 DEF ProducerSend
<1>10. CASE SavePop
  BY <1>6, <1>10 DEF SavePop
<1>11. CASE Exit \/ Crash
  BY <1>8, <1>11 DEF Exit, Crash
<1>12. ASSUME NEW m \in Messages, Deliver(m) \/ ErrorCallback(m) PROVE Reserved'
  BY <1>3, <1>12 DEF Deliver, ErrorCallback
<1>13. CASE Boot \/ BootLoad \/ Resend \/ LoadEof \/ LoadEnd
  BY <1>3, <1>13 DEF Boot, BootLoad, Resend, LoadEof, LoadEnd, history
<1>14. CASE Stop \/ AimsStopped \/ ServersStopped \/ SaveEnd
  BY <1>3, <1>14 DEF Stop, AimsStopped, ServersStopped, SaveEnd, history
<1>15. CASE UNCHANGED vars
  BY <1>3, <1>15 DEF vars
<1> QED
  BY <1>4, <1>5, <1>7, <1>9, <1>10, <1>11, <1>12, <1>13, <1>14, <1>15 DEF Next

(* The queue never holds more than queueLimit, one message per sender that *)
(* raced through the check of setMessage, and what loadMessage pushed.     *)
THEOREM LimitHolds == Spec => []QueueBounded
<1>1. Init => Reserved
  <2> SUFFICES ASSUME Init PROVE Reserved
    OBVIOUS
  <2>1. Len(queue) = 0 /\ loaded = 0
    BY DEF Init
  <2> QED
    BY <2>1, SomeSenders, MessageConstants, Checked \subseteq Senders DEF Reserved, Checked
<1>2. TypeOK /\ Reserved => QueueBounded
  <2> SUFFICES ASSUME TypeOK, Reserved PROVE QueueBounded
    OBVIOUS
  <2>1. Len(queue) \in Nat /\ loaded \in Nat /\ QueueLimit \in Nat
    BY LenProperties, MessageConstants DEF TypeOK
  <2> QED
    BY <2>1, SomeSenders, Checked \subseteq Senders DEF Reserved, QueueBounded, Checked
<1> QED
  BY <1>1, <1>2, TypeCorrect, ReservedStep, PTL DEF Spec

----------------------------------------------------------------------------
(***************************************************************************)
(* Custody.  Without the event thread of the watcher, which App::stop      *)
(* leaves running after it has saved the queue, and with an error file     *)
(* that opens and renames, the pipeline implements Custody and loses       *)
(* nothing.                                                                *)
(***************************************************************************)
NoWatcher == FileSenders = {} /\ MaxFaults = 0

(* What is empty in which phase.                                           *)
Quiet ==
    /\ ~ProducerUp => inflight = {} /\ refused = None
    /\ ~NetServing => Checked = {}
    /\ main # "saving" => saveBuf = <<>>
    /\ main \in {"down", "boot", "stopWatcher"} => queue = <<>>
    /\ main \notin {"loading", "loaded", "resending", "resent"} => loadPos = 0

(* A message past the limit check is new, and only one sender has it.      *)
FreshHeld ==
    /\ owed \subseteq arrived
    /\ \A s \in Checked : holding[s] \in arrived \ owed
    /\ \A s, t \in Checked : holding[s] = holding[t] => s = t

(* The records a load has pushed are whole and in memory or further.       *)
PushedKept ==
    /\ Torn \notin Pushed
    /\ Pushed \ EmptyMessages \subseteq Pending \cup kafka

ReadToEnd == main \in {"loaded", "resent"} => ~RecordReadable

(* Nothing is appended behind a record cut short.                          *)
TornLast ==
    Torn \in Range(file) =>
        \/ main \in {"down", "boot", "loading", "loaded"}
        \/ main \in {"saving", "stopWatcher"} /\ queue = <<>> /\ saveBuf = <<>>

Sound == Quiet /\ FreshHeld /\ PushedKept /\ ReadToEnd /\ TornLast

(* Each phase of start, run and stop keeps empty what it finds empty.      *)
LEMMA QuietStep ==
    ASSUME NoWatcher, TypeOK, Quiet, [Next]_vars
    PROVE  Quiet'
<1> USE DEF NoWatcher
<1>1. ASSUME NEW s \in Senders, NEW m \in Messages, SetMessageCheck(s, m) PROVE Quiet'
  BY <1>1 DEF Quiet, SetMessageCheck, CanSend, Senders, NetServing, ProducerUp
<1>2. ASSUME NEW s \in Senders, SetMessagePush(s) PROVE Quiet'
  <2>1. NetServing /\ main \notin {"down", "boot", "stopWatcher"}
    BY <1>2 DEF SetMessagePush, CanSend, Senders, NetServing, ProducerUp
  <2> QED
    BY <1>2, <2>1 DEF Quiet, SetMessagePush, NetServing, ProducerUp
<1>3. CASE ProducerSend
  BY <1>3 DEF Quiet, ProducerSend, Pop, Checked, NetServing, ProducerUp
<1>4. ASSUME NEW m \in Messages, Deliver(m) PROVE Quiet'
  BY <1>4 DEF Quiet, Deliver, Checked, NetServing, ProducerUp
<1>5. ASSUME NEW m \in Messages, ErrorCallback(m) PROVE Quiet'
  BY <1>5 DEF Quiet, ErrorCallback, Checked, NetServing, ProducerUp
<1>6. CASE Boot
  BY <1>6 DEF Quiet, Boot, Checked, NetServing, ProducerUp, history
<1>7. CASE BootLoad
  BY <1>7, MessageConstants DEF Quiet, BootLoad, OpenToLoad, Checked, NetServing, ProducerUp, history, TypeOK
<1>8. CASE Resend
  BY <1>8 DEF Quiet, Resend, OpenToLoad, Checked, NetServing, ProducerUp, history, TypeOK
<1>9. CASE LoadStep
  BY <1>9 DEF Quiet, LoadStep, Loading, Checked, NetServing, ProducerUp
<1>10. CASE LoadEof
  BY <1>10 DEF Quiet, LoadEof, Checked, NetServing, ProducerUp, history
<1>11. CASE LoadEnd
  BY <1>11 DEF Quiet, LoadEnd, Checked, NetServing, ProducerUp
<1>12. CASE Stop
  BY <1>12 DEF Quiet, Stop, Checked, NetServing, ProducerUp, history
<1>13. CASE AimsStopped
  BY <1>13 DEF Quiet, AimsStopped, Checked, NetServing, ProducerUp, history
<1>14. CASE ServersStopped
  <2>1. Checked = {}
    BY <1>14 DEF ServersStopped, Checked, Senders
  <2> QED
    BY <1>14, <2>1 DEF Quiet, ServersStopped, Checked, NetServing, ProducerUp, history
<1>15. CASE SavePop
  BY <1>15 DEF Quiet, SavePop, Pop, Checked, NetServing, ProducerUp
<1>16. CASE SaveEnd
  BY <1>16 DEF Quiet, SaveEnd, Checked, NetServing, ProducerUp, history
<1>17. CASE Exit \/ Crash
  BY <1>17 DEF Quiet, Exit, Crash, MemoryGone, Checked, NetServing, ProducerUp
<1>18. CASE UNCHANGED vars
  BY <1>18 DEF Quiet, vars, Checked, NetServing, ProducerUp
<1> QED
  BY <1>1, <1>2, <1>3, <1>4, <1>5, <1>6, <1>7, <1>8, <1>9, <1>10, <1>11, <1>12,
     <1>13, <1>14, <1>15, <1>16, <1>17, <1>18 DEF Next

(* A message a sender of setMessage still holds is in no other place.      *)
LEMMA FreshStep ==
    ASSUME TypeOK, FreshHeld, [Next]_vars
    PROVE  FreshHeld'
<1>1. ASSUME NEW s \in Senders, NEW m \in Messages, SetMessageCheck(s, m) PROVE FreshHeld'
  BY <1>1 DEF FreshHeld, SetMessageCheck, Checked, TypeOK
<1>2. ASSUME NEW s \in Senders, SetMessagePush(s) PROVE FreshHeld'
  BY <1>2 DEF FreshHeld, SetMessagePush, Checked, TypeOK
<1>3. ASSUME UNCHANGED <<holding, arrived, owed>> PROVE FreshHeld'
  BY <1>3 DEF FreshHeld, Checked
<1>4. CASE ProducerSend \/ LoadStep \/ LoadEnd \/ SavePop
  BY <1>3, <1>4 DEF ProducerSend, LoadStep, LoadEnd, SavePop
<1>5. ASSUME NEW m \in Messages, Deliver(m) \/ ErrorCallback(m) PROVE FreshHeld'
  BY <1>3, <1>5 DEF Deliver, ErrorCallback
<1>6. CASE Boot \/ BootLoad \/ Resend \/ LoadEof
  BY <1>3, <1>6 DEF Boot, BootLoad, Resend, LoadEof, history
<1>7. CASE Stop \/ AimsStopped \/ ServersStopped \/ SaveEnd
  BY <1>3, <1>7 DEF Stop, AimsStopped, ServersStopped, SaveEnd, history
<1>8. CASE Exit \/ Crash
  <2>1. Checked' = {} /\ owed' \subseteq owed /\ arrived' = arrived
    BY <1>8 DEF Exit, Crash, MemoryGone, Checked
  <2> QED
    BY <2>1 DEF FreshHeld
<1>9. CASE UNCHANGED vars
  BY <1>3, <1>9 DEF vars
<1> QED
  BY <1>1, <1>2, <1>4, <1>5, <1>6, <1>7, <1>8, <1>9 DEF Next

(* What a step does to the messages in memory.                             *)
LEMMA PendingFacts ==
    ASSUME TypeOK
    PROVE  /\ \A s \in Senders : SetMessagePush(s) => Pending' = Pending \cup {holding[s]}
           /\ Pop => Head(queue) \in Range(queue)
           /\ Pop => Range(queue) \subseteq {Head(queue)} \cup Range(queue')
           /\ Pop => Range(queue') \subseteq Range(queue)
           /\ LoadStep => Pending' = Pending \cup {file[loadPos + 1]}
<1>1. ASSUME NEW s \in Senders, SetMessagePush(s)
      PROVE  Pending' = Pending \cup {holding[s]}
  <2>1. Range(queue') = Range(queue) \cup {holding[s]}
    BY <1>1, AppendRange DEF SetMessagePush, TypeOK
  <2> QED
    BY <1>1, <2>1 DEF SetMessagePush, Pending
<1>2. ASSUME Pop
      PROVE  /\ Head(queue) \in Range(queue)
             /\ Range(queue) \subseteq {Head(queue)} \cup Range(queue')
             /\ Range(queue') \subseteq Range(queue)
  BY <1>2, TailFacts DEF Pop, TypeOK
<1>3. ASSUME LoadStep PROVE Pending' = Pending \cup {file[loadPos + 1]}
  <2>1. file[loadPos + 1] \in Messages
    BY <1>3 DEF LoadStep, RecordReadable, TypeOK
  <2>2. Range(queue') = Range(queue) \cup {file[loadPos + 1]}
    BY <1>3, <2>1, AppendRange DEF LoadStep, TypeOK
  <2> QED
    BY <1>3, <2>2 DEF LoadStep, Pending
<1> QED
  BY <1>1, <1>2, <1>3

(* What the running loadMessage has pushed stays in memory or goes further. *)
LEMMA PushedStep ==
    ASSUME TypeOK, Quiet, PushedKept, [Next]_vars, Quiet'
    PROVE  PushedKept'
<1>1. ASSUME loadPos' = 0 PROVE PushedKept'
  BY <1>1 DEF PushedKept, Pushed
<1>2. ASSUME UNCHANGED <<file, loadPos>>, Pending \cup kafka \subseteq Pending' \cup kafka'
      PROVE  PushedKept'
  BY <1>2 DEF PushedKept, Pushed
<1>3. ASSUME UNCHANGED <<queue, inflight, refused, saveBuf, kafka, file, loadPos>>
      PROVE  PushedKept'
  BY <1>2, <1>3 DEF Pending
<1>4. ASSUME NEW s \in Senders, NEW m \in Messages, SetMessageCheck(s, m) PROVE PushedKept'
  BY <1>3, <1>4 DEF SetMessageCheck
<1>5. ASSUME NEW s \in Senders, SetMessagePush(s) PROVE PushedKept'
  BY <1>2, <1>5, PendingFacts DEF SetMessagePush
<1>6. CASE ProducerSend
  <2>1. Head(queue) \in Messages /\ Head(queue) # None
    BY <1>6, HeadTailProperties, MessageConstants DEF ProducerSend, Pop, TypeOK
  <2>2. Pending \subseteq Pending'
    BY <1>6, <2>1, PendingFacts DEF ProducerSend, Pending
  <2> QED
    BY <1>2, <1>6, <2>2 DEF ProducerSend
<1>7. ASSUME NEW m \in Messages, Deliver(m) PROVE PushedKept'
  <2>1. Pending \cup kafka \subseteq Pending' \cup kafka'
    BY <1>7 DEF Deliver, Pending
  <2> QED
    BY <1>2, <1>7, <2>1 DEF Deliver
<1>8. ASSUME NEW m \in Messages, ErrorCallback(m) PROVE PushedKept'
  BY <1>1, <1>8 DEF ErrorCallback, MutFree, Quiet
<1>9. CASE LoadStep
  <2>1. Pushed' = Pushed \cup {file[loadPos + 1]}
    <3>1. loadPos \in Nat /\ loadPos' = loadPos + 1 /\ file' = file
      BY <1>9, LenProperties DEF LoadStep, TypeOK
    <3>2. 1 .. loadPos' = (1 .. loadPos) \cup {loadPos + 1}
      BY <3>1
    <3> QED
      BY <3>1, <3>2, Zenon DEF Pushed
  <2>2. kafka' = kafka /\ file[loadPos + 1] # Torn
    BY <1>9 DEF LoadStep, RecordReadable
  <2> QED
    BY <1>9, <2>1, <2>2, PendingFacts DEF PushedKept
<1>10. CASE Boot \/ BootLoad \/ Resend \/ LoadEof
  BY <1>3, <1>10 DEF Boot, BootLoad, Resend, LoadEof, history
<1>11. CASE Stop \/ AimsStopped \/ ServersStopped
  BY <1>3, <1>11 DEF Stop, AimsStopped, ServersStopped, history
<1>12. CASE SavePop \/ SaveEnd
  BY <1>1, <1>12 DEF SavePop, SaveEnd, Quiet
<1>13. CASE LoadEnd \/ Exit \/ Crash
  BY <1>1, <1>13 DEF LoadEnd, Exit, Crash, MemoryGone
<1>14. CASE UNCHANGED vars
  BY <1>3, <1>14 DEF vars
<1> QED
  BY <1>4, <1>5, <1>6, <1>7, <1>8, <1>9, <1>10, <1>11, <1>12, <1>13, <1>14 DEF Next

(* loadMessage renames the error file only after the last record it can    *)
(* read.                                                                   *)
LEMMA ReadToEndStep ==
    ASSUME TypeOK, ReadToEnd, [Next]_vars
    PROVE  ReadToEnd'
<1>1. ASSUME main' \notin {"loaded", "resent"} PROVE ReadToEnd'
  BY <1>1 DEF ReadToEnd
<1>2. ASSUME UNCHANGED <<main, file, loadPos>> PROVE ReadToEnd'
  BY <1>2 DEF ReadToEnd, RecordReadable
<1>3. ASSUME NEW s \in Senders, NEW m \in Messages, SetMessageCheck(s, m)
      PROVE  ReadToEnd'
  BY <1>2, <1>3 DEF SetMessageCheck
<1>4. ASSUME NEW s \in Senders, SetMessagePush(s) PROVE ReadToEnd'
  BY <1>2, <1>4 DEF SetMessagePush
<1>5. ASSUME NEW m \in Messages, Deliver(m) \/ ErrorCallback(m) PROVE ReadToEnd'
  BY <1>1, <1>2, <1>5 DEF Deliver, ErrorCallback, MutFree
<1>6. CASE ProducerSend
  BY <1>2, <1>6 DEF ProducerSend
<1>7. CASE LoadEof
  BY <1>7 DEF LoadEof, ReadToEnd, RecordReadable
<1>8. CASE Boot \/ BootLoad \/ Resend \/ LoadStep \/ LoadEnd
  BY <1>1, <1>8 DEF Boot, BootLoad, Resend, OpenToLoad, LoadStep, Loading, LoadEnd
<1>9. CASE Stop \/ AimsStopped \/ ServersStopped \/ SavePop \/ SaveEnd
  BY <1>1, <1>9 DEF Stop, AimsStopped, ServersStopped, SavePop, SaveEnd
<1>10. CASE Exit \/ Crash
  BY <1>1, <1>10 DEF Exit, Crash, MemoryGone
<1>11. CASE UNCHANGED vars
  BY <1>2, <1>11 DEF vars
<1> QED
  BY <1>3, <1>4, <1>5, <1>6, <1>7, <1>8, <1>9, <1>10, <1>11 DEF Next

(* Which records a load can reach when the error file grows.               *)
LEMMA IntactFacts ==
    ASSUME NEW R, NEW f \in Seq(R)
    PROVE  /\ IntactOf(f) \subseteq Range(f) \ {Torn}
           /\ Torn \notin Range(f) => IntactOf(f) = Range(f)
<1>1. DOMAIN f = 1 .. Len(f) /\ Len(f) \in Nat
  BY LenProperties
<1>2. IntactOf(f) \subseteq Range(f) \ {Torn}
  BY <1>1 DEF IntactOf, Range
<1>3. ASSUME Torn \notin Range(f) PROVE Range(f) \subseteq IntactOf(f)
  BY <1>1, <1>3 DEF IntactOf, Range
<1> QED
  BY <1>2, <1>3

(* Appending to the error file keeps what a load can reach and adds        *)
(* nothing to it but the records appended.                                 *)
LEMMA IntactGrows ==
    ASSUME NEW R, NEW f \in Seq(R), NEW t \in Seq(R)
    PROVE  /\ IntactOf(f) \subseteq IntactOf(f \o t)
           /\ IntactOf(f \o t) \subseteq IntactOf(f) \cup (Range(t) \ {Torn})
<1> DEFINE g == f \o t
<1>1. /\ DOMAIN f = 1 .. Len(f) /\ Len(f) \in Nat
      /\ DOMAIN t = 1 .. Len(t) /\ Len(t) \in Nat
  BY LenProperties
<1>2. /\ g \in Seq(R)
      /\ Len(g) = Len(f) + Len(t)
      /\ \A i \in 1 .. Len(f) + Len(t) :
             g[i] = IF i <= Len(f) THEN f[i] ELSE t[i - Len(f)]
  BY ConcatProperties
<1>3. DOMAIN g = 1 .. Len(f) + Len(t)
  BY <1>2
<1> HIDE DEF g
<1>4. ASSUME NEW i \in 1 .. Len(f), \A k \in 1 .. i : f[k] # Torn
      PROVE  f[i] \in IntactOf(g)
  <2>1. i \in DOMAIN g /\ g[i] = f[i]
    BY <1>1, <1>2, <1>3
  <2>2. \A k \in 1 .. i : g[k] = f[k]
    BY <1>1, <1>2
  <2> QED
    BY <1>4, <2>1, <2>2 DEF IntactOf
<1>5. ASSUME NEW i \in DOMAIN g, \A k \in 1 .. i : g[k] # Torn
      PROVE  g[i] \in IntactOf(f) \cup (Range(t) \ {Torn})
  <2>1. g[i] # Torn
    BY <1>1, <1>3, <1>5
  <2>2. CASE i <= Len(f)
    <3>1. i \in DOMAIN f /\ g[i] = f[i]
      BY <1>1, <1>2, <1>3, <2>2
    <3>2. \A k \in 1 .. i : f[k] = g[k]
      BY <1>1, <1>2, <1>3, <2>2
    <3> QED
      BY <1>5, <3>1, <3>2 DEF IntactOf
  <2>3. CASE i > Len(f)
    <3>1. i - Len(f) \in DOMAIN t /\ g[i] = t[i - Len(f)]
      BY <1>1, <1>2, <1>3, <2>3
    <3> QED
      BY <2>1, <3>1 DEF Range
  <2> QED
    BY <1>1, <1>3, <2>2, <2>3
<1>6. IntactOf(f) \subseteq IntactOf(g)
  BY <1>1, <1>4 DEF IntactOf
<1>7. IntactOf(g) \subseteq IntactOf(f) \cup (Range(t) \ {Torn})
  BY <1>5 DEF IntactOf
<1> QED
  BY <1>6, <1>7 DEF g

(* No step appends to the error file behind a torn record.                 *)
LEMMA TornStep ==
    ASSUME NoWatcher, TypeOK, Quiet, TornLast, [Next]_vars
    PROVE  TornLast'
<1>1. ASSUME Torn \notin Range(file') PROVE TornLast'
  BY <1>1 DEF TornLast
<1>2. ASSUME UNCHANGED <<main, queue, saveBuf, file>> PROVE TornLast'
  BY <1>2 DEF TornLast
<1>3. NetServing => Torn \notin Range(file)
  BY DEF TornLast, NetServing, ProducerUp
<1>4. ASSUME NEW s \in Senders, NEW m \in Messages, SetMessageCheck(s, m) PROVE TornLast'
  BY <1>2, <1>4 DEF SetMessageCheck
<1>5. ASSUME NEW s \in Senders, SetMessagePush(s) PROVE TornLast'
  BY <1>1, <1>3, <1>5 DEF SetMessagePush, CanSend, Senders, NoWatcher
<1>6. ASSUME NEW m \in Messages, Deliver(m) PROVE TornLast'
  BY <1>2, <1>6 DEF Deliver
<1>7. CASE ProducerSend
  BY <1>1, <1>3, <1>7 DEF ProducerSend, NetServing
<1>8. ASSUME NEW m \in Messages, ErrorCallback(m) PROVE TornLast'
  <2>1. file \in Seq(Messages \cup {Torn}) /\ m # Torn
    BY MessageConstants DEF TypeOK
  <2>2. Torn \notin Range(file)
    BY <1>3, <1>8 DEF ErrorCallback, NetServing
  <2>3. file' = file \/ file' = Append(file, m)
    BY <1>8 DEF ErrorCallback, AppendRecord
  <2>4. Range(Append(file, m)) = Range(file) \cup {m}
    BY <2>1, AppendRange
  <2> QED
    BY <1>1, <2>1, <2>2, <2>3, <2>4
<1>9. CASE Boot \/ BootLoad \/ LoadEof
  BY <1>9, MessageConstants DEF TornLast, Boot, BootLoad, OpenToLoad, LoadEof, NoWatcher, TypeOK
<1>10. CASE Resend \/ AimsStopped
  BY <1>1, <1>3, <1>10 DEF Resend, AimsStopped, NetServing, ProducerUp
<1>11. CASE LoadStep
  <2>1. main' = main /\ file' = file
    BY <1>11 DEF LoadStep
  <2>2. main \in {"loading", "resending"}
    BY <1>11 DEF LoadStep, Loading
  <2> QED
    BY <2>1, <2>2 DEF TornLast
<1>12. CASE LoadEnd
  <2>1. file' = <<>>
    BY <1>12, MessageConstants DEF LoadEnd, NoWatcher, TypeOK
  <2> QED
    BY <1>1, <2>1 DEF Range
<1>13. CASE Stop
  BY <1>13 DEF TornLast, Stop, Quiet, history
<1>14. CASE ServersStopped
  BY <1>1, <1>3, <1>14 DEF ServersStopped, NetServing
<1>15. CASE SavePop
  BY <1>1, <1>15 DEF TornLast, SavePop, Pop
<1>16. CASE SaveEnd
  <2>1. CASE Torn \in Range(file)
    BY <1>16, <2>1 DEF TornLast, SaveEnd, history
  <2>2. CASE Torn \notin Range(file)
    <3>1. /\ file \in Seq(Messages \cup {Torn})
          /\ saveBuf \in Seq(Messages \cup {Torn})
      BY SeqMonotonic, Messages \subseteq Messages \cup {Torn} DEF TypeOK
    <3>2. Range(saveBuf) \subseteq Messages
      BY RangeOfSeq DEF TypeOK
    <3>3. Range(file \o saveBuf) = Range(file) \cup Range(saveBuf)
      BY <3>1, RangeConcatenation
    <3>4. Torn \notin Messages
      BY MessageConstants
    <3>5. file' = file \/ file' = file \o saveBuf
      BY <1>16 DEF SaveEnd
    <3> QED
      BY <1>1, <2>2, <3>2, <3>3, <3>4, <3>5
  <2> QED
    BY <2>1, <2>2
<1>17. CASE Exit \/ Crash
  BY <1>17 DEF TornLast, Exit, Crash, MemoryGone
<1>18. CASE UNCHANGED vars
  BY <1>2, <1>18 DEF vars
<1> QED
  BY <1>4, <1>5, <1>6, <1>7, <1>8, <1>9, <1>10, <1>11, <1>12, <1>13, <1>14,
     <1>15, <1>16, <1>17, <1>18 DEF Next

(* The inductive invariant behind custody.                                 *)
THEOREM SoundHolds ==
    ASSUME NoWatcher
    PROVE  Spec => []Sound
<1>1. Init => Sound
  BY DEF Init, Sound, Quiet, FreshHeld, PushedKept, ReadToEnd, TornLast, Pushed,
         Checked, ProducerUp, NetServing, Range
<1>2. TypeOK /\ Sound /\ [Next]_vars => Sound'
  BY NoWatcher, QuietStep, FreshStep, PushedStep, ReadToEndStep, TornStep DEF Sound
<1> QED
  BY <1>1, <1>2, TypeCorrect, PTL DEF Spec

----------------------------------------------------------------------------
(* Every step of the pipeline is a step of Custody or leaves custody alone. *)
LEMMA CustodyStep ==
    ASSUME NoWatcher, TypeOK, Sound, [Next]_vars
    PROVE  Promise!Next \/ UNCHANGED Promise!vars
<1> DEFINE R == Messages \cup {Torn}
<1>1. /\ file \in Seq(R) /\ queue \in Seq(Messages) /\ saveBuf \in Seq(Messages)
      /\ Torn \notin Messages /\ None \notin Messages
  BY MessageConstants DEF TypeOK
<1>2. ASSUME UNCHANGED <<queue, inflight, refused, saveBuf, file, kafka, owed>>
      PROVE  UNCHANGED Promise!vars
  BY <1>2 DEF Promise!vars, Pending, Intact
<1>3. NetServing => Torn \notin Range(file)
  BY DEF Sound, TornLast, NetServing, ProducerUp
<1>4. ASSUME NEW s \in Senders, NEW m \in Messages, SetMessageCheck(s, m)
      PROVE  UNCHANGED Promise!vars
  BY <1>2, <1>4 DEF SetMessageCheck
<1>5. ASSUME NEW s \in Senders, SetMessagePush(s)
      PROVE  Promise!Next
  <2>1. holding[s] \in Messages /\ holding[s] \notin owed
    BY <1>5 DEF SetMessagePush, TypeOK, Sound, FreshHeld, Checked
  <2>2. Pending' = Pending \cup {holding[s]}
    BY <1>5, PendingFacts
  <2>3. Promise!Accept(holding[s])
    BY <1>5, <2>1, <2>2 DEF SetMessagePush, Promise!Accept, Intact
  <2> QED
    BY <2>1, <2>3 DEF Promise!Next
<1>6. CASE ProducerSend
  <2>1. Head(queue) \in Messages
    BY <1>1, <1>6, HeadTailProperties DEF ProducerSend, Pop
  <2>2. Pending' = Pending
    BY <1>1, <1>6, <2>1, PendingFacts DEF ProducerSend, Pending
  <2> QED
    BY <1>6, <2>2 DEF ProducerSend, Promise!vars, Intact
<1>7. ASSUME NEW m \in Messages, Deliver(m) PROVE Promise!Next
  <2>1. m \in Pending
    BY <1>7 DEF Deliver, Pending
  <2>2. Pending' = Pending \/ Pending' = Pending \ {m}
    BY <1>7 DEF Deliver, Pending
  <2>3. Promise!Leave({m})
    BY <2>2 DEF Promise!Leave
  <2>4. Promise!Acknowledge(m)
    BY <1>7, <2>1, <2>3 DEF Deliver, Promise!Acknowledge, Intact
  <2> QED
    BY <2>4 DEF Promise!Next
<1>8. ASSUME NEW m \in Messages, ErrorCallback(m) PROVE Promise!Next
  <2>1. m \in Pending
    BY <1>1, <1>8 DEF ErrorCallback, Pending
  <2>2. Pending' = Pending \/ Pending' = Pending \ {m}
    BY <1>1, <1>8 DEF ErrorCallback, Pending
  <2>3. Promise!Leave({m})
    BY <2>2 DEF Promise!Leave
  <2>4. UNCHANGED <<owed, kafka>>
    BY <1>8 DEF ErrorCallback
  <2>5. CASE m \in EmptyMessages
    <3>1. file' = file
      BY <1>8, <2>5 DEF ErrorCallback, AppendRecord
    <3>2. Promise!Drop(m)
      BY <2>3, <2>4, <2>5, <3>1 DEF Promise!Drop, Intact
    <3> QED
      BY <3>2 DEF Promise!Next
  <2>6. CASE m \notin EmptyMessages
    <3>1. file' = Append(file, m)
      BY <1>8, <2>6 DEF ErrorCallback, AppendRecord, NoWatcher, TypeOK
    <3>2. Range(file') = Range(file) \cup {m} /\ file' \in Seq(R)
      BY <1>1, <3>1, AppendRange, AppendProperties
    <3>3. Torn \notin Range(file) /\ Torn \notin Range(file')
      BY <1>1, <1>3, <1>8, <3>2 DEF ErrorCallback, NetServing
    <3>4. Intact' = Intact \cup {m}
      BY <1>1, <3>2, <3>3, IntactFacts DEF Intact
    <3>5. Promise!Record({m})
      BY <2>3, <2>4, <3>4 DEF Promise!Record
    <3> QED
      BY <2>1, <3>5 DEF Promise!Next
  <2> QED
    BY <2>5, <2>6
<1>9. CASE Boot \/ BootLoad \/ Resend \/ LoadEof
  BY <1>2, <1>9 DEF Boot, BootLoad, Resend, LoadEof, history
<1>10. CASE LoadStep
  <2> DEFINE m == file[loadPos + 1]
  <2>1. loadPos + 1 \in DOMAIN file /\ m \in Messages
    BY <1>1, <1>10 DEF LoadStep, RecordReadable, TypeOK
  <2>2. Pending' = Pending \cup {m}
    BY <1>10, PendingFacts
  <2>3. m \in Intact
    <3>1. file[loadPos + 1] # Torn /\ \A k \in 1 .. loadPos : file[k] # Torn
      BY <1>10 DEF LoadStep, RecordReadable, Sound, PushedKept, Pushed
    <3>2. \A k \in 1 .. loadPos + 1 : file[k] # Torn
      BY <3>1 DEF TypeOK
    <3> QED
      BY <2>1, <3>2 DEF Intact, IntactOf
  <2>4. Promise!Reload(m)
    BY <1>10, <2>2, <2>3 DEF LoadStep, Promise!Reload, Intact
  <2> QED
    BY <2>1, <2>4 DEF Promise!Next
<1>11. CASE LoadEnd
  <2>1. file' = <<>>
    BY <1>11, MessageConstants DEF LoadEnd, NoWatcher, TypeOK
  <2>2. Intact' = {}
    BY <2>1 DEF Intact, IntactOf
  <2>3. Intact \subseteq Pushed
    <3>1. ~RecordReadable
      BY <1>11 DEF LoadEnd, Sound, ReadToEnd
    <3>2. loadPos \in Nat /\ loadPos <= Len(file) /\ Len(file) \in Nat
          /\ DOMAIN file = 1 .. Len(file)
      BY <1>1, LenProperties DEF TypeOK
    <3>3. ASSUME NEW j \in DOMAIN file, \A k \in 1 .. j : file[k] # Torn
          PROVE  j \in 1 .. loadPos
      <4>1. j \in 1 .. Len(file) /\ j \in Nat
        BY <3>2, <3>3
      <4>2. ASSUME j > loadPos PROVE FALSE
        <5>1. loadPos < Len(file) /\ loadPos + 1 \in 1 .. j
          BY <3>2, <4>1, <4>2
        <5>2. file[loadPos + 1] = Torn
          BY <3>1, <5>1 DEF RecordReadable
        <5> QED
          BY <3>3, <5>1, <5>2
      <4> QED
        BY <3>2, <4>1, <4>2
    <3> QED
      BY <3>3 DEF Intact, IntactOf, Pushed
  <2>4. Intact \subseteq Pending \cup kafka \cup EmptyMessages
    BY <2>3 DEF Sound, PushedKept
  <2>5. Promise!Release
    BY <1>11, <2>2, <2>4 DEF LoadEnd, Promise!Release, Pending
  <2> QED
    BY <2>5 DEF Promise!Next
<1>12. CASE Stop \/ AimsStopped \/ ServersStopped
  BY <1>2, <1>12 DEF Stop, AimsStopped, ServersStopped, history
<1>13. CASE SavePop
  <2>1. Range(saveBuf') = Range(saveBuf) \cup {Head(queue)}
    BY <1>1, <1>13, AppendRange, HeadTailProperties DEF SavePop, Pop
  <2>2. Pending' = Pending
    BY <1>13, <2>1, PendingFacts DEF SavePop, Pending
  <2> QED
    BY <1>13, <2>2 DEF SavePop, Promise!vars, Intact
<1>14. CASE SaveEnd
  <2>1. file' = file \o saveBuf /\ saveBuf' = <<>>
    BY <1>14 DEF SaveEnd, NoWatcher, TypeOK
  <2>2. saveBuf \in Seq(R) /\ Range(saveBuf) \subseteq Messages
    BY <1>1, SeqMonotonic, RangeOfSeq, Messages \subseteq R
  <2>3. Intact' = Intact \cup Range(saveBuf)
    <3>1. CASE Torn \in Range(file)
      <4>1. saveBuf = <<>>
        BY <1>14, <3>1 DEF SaveEnd, Sound, TornLast
      <4>2. file' = file /\ Range(saveBuf) = {}
        BY <1>1, <2>1, <4>1, ConcatEmptySeq DEF Range
      <4> QED
        BY <4>2 DEF Intact
    <3>2. CASE Torn \notin Range(file)
      <4>1. file' \in Seq(R) /\ Range(file') = Range(file) \cup Range(saveBuf)
        BY <1>1, <2>1, <2>2, ConcatProperties, RangeConcatenation
      <4>2. Torn \notin Range(file')
        BY <1>1, <2>2, <3>2, <4>1
      <4> QED
        BY <1>1, <3>2, <4>1, <4>2, IntactFacts DEF Intact
    <3> QED
      BY <3>1, <3>2
  <2>4. Range(saveBuf') = {}
    BY <2>1 DEF Range
  <2>5. Pending' = Pending \ (Range(saveBuf) \ (Range(queue) \cup inflight \cup ({refused} \ {None})))
    BY <1>14, <2>4 DEF SaveEnd, Pending
  <2>6. Promise!Leave(Range(saveBuf))
    BY <2>5 DEF Promise!Leave
  <2>7. Promise!Record(Range(saveBuf))
    BY <1>14, <2>3, <2>6 DEF SaveEnd, Promise!Record, history
  <2> QED
    BY <2>7 DEF Promise!Next, Pending
<1>15. ASSUME MemoryGone PROVE Pending' = {}
  BY <1>15 DEF MemoryGone, Pending, Range
<1>16. CASE Exit
  <2>1. Pending = {}
    BY <1>16 DEF Exit, Sound, Quiet, ProducerUp, Pending, Range
  <2> QED
    BY <1>15, <1>16, <2>1 DEF Exit, Promise!vars, Intact
<1>17. CASE Crash
  <2>1. PICK n \in 0 .. Len(saveBuf), cut \in BOOLEAN : file' = file \o Written(n, cut)
    BY <1>17 DEF Crash
  <2>2. /\ Written(n, cut) \in Seq(R)
        /\ Range(Written(n, cut)) \subseteq Range(saveBuf) \cup {Torn}
    BY WrittenFacts
  <2>3. /\ Intact \subseteq Intact'
        /\ Intact' \subseteq Intact \cup Range(saveBuf)
    BY <1>1, <2>1, <2>2, IntactGrows DEF Intact
  <2> DEFINE S == Intact' \cap Range(saveBuf)
  <2>4. S \subseteq Pending /\ Intact' = Intact \cup S
    BY <2>3 DEF Pending
  <2>5. Pending' = {} /\ kafka' = kafka /\ owed' = owed \cap (Intact' \cup kafka)
    BY <1>15, <1>17 DEF Crash
  <2>6. Promise!Crash(S)
    BY <2>4, <2>5 DEF Promise!Crash
  <2> QED
    BY <2>4, <2>6 DEF Promise!Next
<1>18. CASE UNCHANGED vars
  BY <1>2, <1>18 DEF vars
<1> QED
  BY <1>4, <1>5, <1>6, <1>7, <1>8, <1>9, <1>10, <1>11, <1>12, <1>13, <1>14,
     <1>16, <1>17, <1>18 DEF Next

(***************************************************************************)
(* The pipeline implements Custody: messages move between memory, error    *)
(* file and Kafka, and none is given up on the way.                        *)
(***************************************************************************)
THEOREM PromiseKept ==
    ASSUME NoWatcher
    PROVE  Spec => KeepsPromise
<1>1. Init => Promise!Init
  BY DEF Init, Promise!Init, Pending, Intact, IntactOf, Range
<1>2. TypeOK /\ Sound /\ [Next]_vars => [Promise!Next]_(Promise!vars)
  BY NoWatcher, CustodyStep
<1> QED
  BY <1>1, <1>2, TypeCorrect, SoundHolds, PTL DEF Spec, KeepsPromise, Promise!Spec

(***************************************************************************)
(* An accepted message is never lost but in a crash, and then only from    *)
(* memory.  The argument is on Custody: none of its steps loses one.       *)
(***************************************************************************)
THEOREM NothingLost ==
    ASSUME NoWatcher
    PROVE  Spec => []NoLoss
<1>1. Promise!Init => NoLoss
  BY DEF Promise!Init, NoLoss
<1>2. NoLoss /\ [Promise!Next]_(Promise!vars) => NoLoss'
  BY DEF NoLoss, Promise!vars, Promise!Next, Promise!Accept, Promise!Acknowledge,
         Promise!Drop, Promise!Reload, Promise!Record, Promise!Crash,
         Promise!Release, Promise!Leave
<1> QED
  BY <1>1, <1>2, PromiseKept, PTL DEF KeepsPromise, Promise!Spec

(***************************************************************************)
(* A torn record is met by the first load after the crash and renamed away *)
(* with the file, before anything can be appended behind it.               *)
(***************************************************************************)
THEOREM TornGone ==
    ASSUME NoWatcher
    PROVE  Spec => []TornGoneWhileServing
<1>1. Sound => TornGoneWhileServing
  BY DEF Sound, TornLast, TornGoneWhileServing, NetServing, ProducerUp
<1> QED
  BY <1>1, SoundHolds, NoWatcher, PTL

----------------------------------------------------------------------------
(***************************************************************************)
(* Whatever is in a thread, in memory, in the error file or with Kafka has *)
(* arrived through setMessage: no step makes a message up.                 *)
(***************************************************************************)
Put    == Pending \cup Range(file) \cup kafka
Placed == Put \cup Range(holding)

FromArrivals == Placed \subseteq arrived \cup {None, Torn}

(* Only a push of setMessage puts a message where none was: every other    *)
(* step moves what is there, and a crash adds a record cut short.          *)
LEMMA PutStep ==
    ASSUME TypeOK, [Next]_vars
    PROVE  \/ Put' \subseteq Put \cup {None, Torn}
           \/ \E s \in Senders : SetMessagePush(s) /\ Put' = Put \cup {holding[s]}
<1> DEFINE R == Messages \cup {Torn}
           Old == Put \cup {None, Torn}
<1>1. /\ file \in Seq(R) /\ queue \in Seq(Messages) /\ saveBuf \in Seq(Messages)
      /\ holding \in [Senders -> Messages \cup {None}]
  BY DEF TypeOK
<1>2. Pending \subseteq Old /\ Range(file) \subseteq Old /\ kafka \subseteq Old
  BY DEF Put
<1>3. ASSUME Pending' \subseteq Old, Range(file') \subseteq Old, kafka' \subseteq Old
      PROVE  Put' \subseteq Old
  BY <1>3 DEF Put
<1>4. ASSUME UNCHANGED <<queue, inflight, refused, saveBuf, file, kafka>>
      PROVE  Put' \subseteq Old
  BY <1>2, <1>3, <1>4 DEF Pending
<1>5. ASSUME NEW s \in Senders, NEW m \in Messages, SetMessageCheck(s, m)
      PROVE  Put' \subseteq Old
  BY <1>4, <1>5 DEF SetMessageCheck
<1>6. ASSUME NEW s \in Senders, SetMessagePush(s) PROVE Put' = Put \cup {holding[s]}
  BY <1>6, PendingFacts DEF SetMessagePush, Put
<1>7. CASE ProducerSend
  <2>1. Pending' \subseteq Pending
    BY <1>7, PendingFacts DEF ProducerSend, Pending
  <2> QED
    BY <1>2, <1>3, <1>7, <2>1 DEF ProducerSend
<1>8. ASSUME NEW m \in Messages, Deliver(m) PROVE Put' \subseteq Old
  <2>1. m \in Pending /\ Pending' \subseteq Pending
    BY <1>8 DEF Deliver, Pending
  <2> QED
    BY <1>2, <1>3, <1>8, <2>1 DEF Deliver
<1>9. ASSUME NEW m \in Messages, ErrorCallback(m) PROVE Put' \subseteq Old
  <2>1. m \in Pending \cup {None} /\ Pending' \subseteq Pending
    BY <1>9 DEF ErrorCallback, Pending
  <2>2. Range(file') \subseteq Range(file) \cup {m}
    <3>1. Range(Append(file, m)) = Range(file) \cup {m}
      BY <1>1, AppendRange
    <3>2. file' = file \/ file' = Append(file, m)
      BY <1>9 DEF ErrorCallback, AppendRecord
    <3> QED
      BY <3>1, <3>2
  <2> QED
    BY <1>2, <1>3, <1>9, <2>1, <2>2 DEF ErrorCallback
<1>10. CASE Boot \/ BootLoad \/ Resend \/ LoadEof \/ Stop \/ AimsStopped \/ ServersStopped
  BY <1>4, <1>10 DEF Boot, BootLoad, Resend, LoadEof, Stop, AimsStopped,
                     ServersStopped, history
<1>11. CASE LoadStep
  <2>1. file[loadPos + 1] \in Range(file)
    BY <1>1, <1>11 DEF LoadStep, RecordReadable, TypeOK, Range
  <2>2. Pending' = Pending \cup {file[loadPos + 1]}
    BY <1>11, PendingFacts
  <2> QED
    BY <1>2, <1>3, <1>11, <2>1, <2>2 DEF LoadStep
<1>12. CASE LoadEnd
  <2>1. Range(file') \subseteq Range(file) /\ Pending' = Pending
    BY <1>12 DEF LoadEnd, Pending, Range
  <2> QED
    BY <1>2, <1>3, <1>12, <2>1 DEF LoadEnd
<1>13. CASE SavePop
  <2>1. Range(saveBuf') = Range(saveBuf) \cup {Head(queue)}
    BY <1>1, <1>13, AppendRange, HeadTailProperties DEF SavePop, Pop
  <2>2. Pending' \subseteq Pending
    BY <1>13, <2>1, PendingFacts DEF SavePop, Pending
  <2> QED
    BY <1>2, <1>3, <1>13, <2>2 DEF SavePop
<1>14. CASE SaveEnd
  <2>1. saveBuf \in Seq(R)
    BY <1>1, SeqMonotonic, Messages \subseteq R
  <2>2. Range(file') \subseteq Range(file) \cup Range(saveBuf)
    <3>1. Range(file \o saveBuf) = Range(file) \cup Range(saveBuf)
      BY <1>1, <2>1, RangeConcatenation
    <3>2. file' = file \/ file' = file \o saveBuf
      BY <1>14 DEF SaveEnd
    <3> QED
      BY <3>1, <3>2
  <2>3. Range(saveBuf') = {}
    BY <1>14 DEF SaveEnd, Range
  <2>4. Pending' \subseteq Pending /\ Range(saveBuf) \subseteq Pending
    BY <1>14, <2>3 DEF SaveEnd, Pending
  <2> QED
    BY <1>2, <1>3, <1>14, <2>2, <2>4 DEF SaveEnd
<1>15. ASSUME MemoryGone, Range(file') \subseteq Old, UNCHANGED kafka
       PROVE  Put' \subseteq Old
  <2>1. Pending' = {}
    BY <1>15 DEF MemoryGone, Pending, Range
  <2> QED
    BY <1>2, <1>15, <2>1 DEF Put
<1>16. CASE Exit
  BY <1>2, <1>15, <1>16 DEF Exit
<1>17. CASE Crash
  <2>1. PICK n \in 0 .. Len(saveBuf), cut \in BOOLEAN : file' = file \o Written(n, cut)
    BY <1>17 DEF Crash
  <2>2. /\ Written(n, cut) \in Seq(R)
        /\ Range(Written(n, cut)) \subseteq Range(saveBuf) \cup {Torn}
    BY WrittenFacts
  <2>3. Range(file') \subseteq Range(file) \cup Range(saveBuf) \cup {Torn}
    BY <1>1, <2>1, <2>2, RangeConcatenation
  <2>4. Range(saveBuf) \subseteq Pending
    BY DEF Pending
  <2> QED
    BY <1>2, <1>15, <1>17, <2>3, <2>4 DEF Crash
<1>18. CASE UNCHANGED vars
  BY <1>4, <1>18 DEF vars
<1> QED
  BY <1>5, <1>6, <1>7, <1>8, <1>9, <1>10, <1>11, <1>12, <1>13, <1>14, <1>16, <1>17, <1>18
     DEF Next

LEMMA FromArrivalsStep ==
    ASSUME TypeOK, FromArrivals, [Next]_vars
    PROVE  FromArrivals'
<1>1. holding \in [Senders -> Messages \cup {None}]
  BY DEF TypeOK
<1>2. Put' \subseteq arrived \cup {None, Torn}
  <2>1. Put \subseteq arrived \cup {None, Torn} /\ \A s \in Senders : holding[s] \in Placed
    BY <1>1 DEF FromArrivals, Placed, Range
  <2> QED
    BY <2>1, PutStep DEF FromArrivals
<1>3. ASSUME NEW s \in Senders, NEW m \in Messages, SetMessageCheck(s, m)
      PROVE  FromArrivals'
  <2>1. Range(holding') \subseteq Range(holding) \cup {m} /\ arrived' = arrived \cup {m}
    BY <1>1, <1>3 DEF SetMessageCheck, Range
  <2> QED
    BY <1>2, <2>1 DEF FromArrivals, Placed
<1>4. ASSUME Range(holding') \subseteq Range(holding) \cup {None}, UNCHANGED arrived
      PROVE  FromArrivals'
  BY <1>2, <1>4 DEF FromArrivals, Placed
<1>5. ASSUME NEW s \in Senders, SetMessagePush(s) PROVE FromArrivals'
  <2>1. Range(holding') \subseteq Range(holding) \cup {None}
    BY <1>1, <1>5 DEF SetMessagePush, Range
  <2> QED
    BY <1>4, <1>5, <2>1 DEF SetMessagePush
<1>6. CASE Exit \/ Crash
  <2>1. Range(holding') \subseteq {None}
    BY <1>6 DEF Exit, Crash, MemoryGone, Range
  <2> QED
    BY <1>4, <1>6, <2>1 DEF Exit, Crash
<1>7. ASSUME UNCHANGED <<holding, arrived>> PROVE FromArrivals'
  BY <1>4, <1>7 DEF Range
<1>8. ASSUME NEW m \in Messages, Deliver(m) \/ ErrorCallback(m) PROVE FromArrivals'
  BY <1>7, <1>8 DEF Deliver, ErrorCallback
<1>9. CASE Boot \/ BootLoad \/ Resend \/ LoadStep \/ LoadEof \/ LoadEnd
  BY <1>7, <1>9 DEF Boot, BootLoad, Resend, LoadStep, LoadEof, LoadEnd, history
<1>10. CASE ProducerSend \/ Stop \/ AimsStopped \/ ServersStopped \/ SavePop \/ SaveEnd
  BY <1>7, <1>10 DEF ProducerSend, Stop, AimsStopped, ServersStopped, SavePop, SaveEnd, history
<1>11. CASE UNCHANGED vars
  BY <1>7, <1>11 DEF vars
<1> QED
  BY <1>3, <1>5, <1>6, <1>8, <1>9, <1>10, <1>11 DEF Next

THEOREM NothingMadeUp == Spec => []FromArrivals
<1>1. Init => FromArrivals
  BY DEF Init, FromArrivals, Placed, Put, Pending, Range
<1> QED
  BY <1>1, FromArrivalsStep, TypeCorrect, PTL DEF Spec

-----------------------------------------------------------------------------
(***************************************************************************)
(* Theorems about Message: a message is in one place only, whatever fails  *)
(* and whenever the process crashes or is started again.                   *)
(***************************************************************************)

----------------------------------------------------------------------------
(* How often a message is in a sequence, in a set, and in two sequences    *)
(* one after the other.                                                    *)
LEMMA OccurrencesNat ==
    ASSUME NEW S, NEW s \in Seq(S), NEW m
    PROVE  /\ IsFiniteSet({i \in DOMAIN s : s[i] = m})
           /\ Occurrences(s, m) \in Nat
<1>1. IsFiniteSet(1 .. Len(s)) /\ DOMAIN s = 1 .. Len(s)
  BY FS_Interval, LenProperties
<1>2. IsFiniteSet({i \in DOMAIN s : s[i] = m})
  BY <1>1, FS_Subset
<1> QED
  BY <1>2, FS_CardinalityType DEF Occurrences

LEMMA InSet ==
    ASSUME NEW S, NEW m
    PROVE  Cardinality({m} \cap S) = IF m \in S THEN 1 ELSE 0
<1>1. CASE m \in S
  <2>1. {m} \cap S = {m}
    BY <1>1
  <2> QED
    BY <1>1, <2>1, FS_Singleton
<1>2. CASE m \notin S
  <2>1. {m} \cap S = {}
    BY <1>2
  <2> QED
    BY <1>2, <2>1, FS_EmptySet
<1> QED
  BY <1>1, <1>2

LEMMA OccurrencesAbsent ==
    ASSUME NEW S, NEW s \in Seq(S), NEW m, m \notin Range(s)
    PROVE  Occurrences(s, m) = 0
<1>1. {i \in DOMAIN s : s[i] = m} = {}
  BY DEF Range
<1> QED
  BY <1>1, FS_EmptySet DEF Occurrences

LEMMA OccurrencesOne ==
    ASSUME NEW S, NEW e \in S, NEW m
    PROVE  Occurrences(<<e>>, m) = IF e = m THEN 1 ELSE 0
<1>1. <<e>> \in Seq(S) /\ DOMAIN <<e>> = {1} /\ <<e>>[1] = e
  OBVIOUS
<1>2. CASE e = m
  <2>1. {i \in DOMAIN <<e>> : <<e>>[i] = m} = {1}
    BY <1>1, <1>2
  <2>2. Cardinality({1}) = 1
    BY FS_Singleton
  <2> QED
    BY <1>2, <2>1, <2>2 DEF Occurrences
<1>3. CASE e # m
  <2>1. {i \in DOMAIN <<e>> : <<e>>[i] = m} = {}
    BY <1>1, <1>3
  <2> QED
    BY <1>3, <2>1, FS_EmptySet DEF Occurrences
<1> QED
  BY <1>2, <1>3

LEMMA OccurrencesConcat ==
    ASSUME NEW S, NEW s \in Seq(S), NEW t \in Seq(S), NEW m
    PROVE  Occurrences(s \o t, m) = Occurrences(s, m) + Occurrences(t, m)
<1> DEFINE n == Len(s)
           A == {i \in DOMAIN s : s[i] = m}
           B == {i \in DOMAIN t : t[i] = m}
           C == {i \in DOMAIN (s \o t) : (s \o t)[i] = m}
           B2 == {i \in n + 1 .. n + Len(t) : t[i - n] = m}
           F == [i \in B |-> i + n]
<1>1. n \in Nat /\ Len(t) \in Nat /\ DOMAIN s = 1 .. n /\ DOMAIN t = 1 .. Len(t)
  BY LenProperties
<1>2. /\ DOMAIN (s \o t) = 1 .. n + Len(t)
      /\ \A i \in 1 .. n + Len(t) : (s \o t)[i] = IF i <= n THEN s[i] ELSE t[i - n]
  BY ConcatProperties, LenProperties
<1>3. C = A \cup B2 /\ A \cap B2 = {}
  BY <1>1, <1>2
<1>4. ExistsBijection(B, B2)
  <2>1. F \in [B -> B2]
    BY <1>1
  <2>2. \A a, b \in B : F[a] = F[b] => a = b
    BY <1>1
  <2>3. ASSUME NEW j \in B2 PROVE \E i \in B : F[i] = j
    <3>1. j - n \in B /\ F[j - n] = j
      BY <1>1
    <3> QED
      BY <3>1
  <2>4. F \in Bijection(B, B2)
    BY <2>1, <2>2, <2>3, Fun_IsBij
  <2> QED
    BY <2>4, Fun_ExistsBij
<1>5. /\ IsFiniteSet(A) /\ IsFiniteSet(B)
      /\ Cardinality(A) \in Nat /\ Cardinality(B) \in Nat
  BY OccurrencesNat, FS_CardinalityType
<1> HIDE DEF A, B, C, B2, F
<1>6. IsFiniteSet(B2) /\ Cardinality(B2) = Cardinality(B)
  BY <1>4, <1>5, FS_Bijection
<1>7. Cardinality(C) = Cardinality(A) + Cardinality(B2) - Cardinality({})
  BY <1>3, <1>5, <1>6, FS_Union
<1>8. Cardinality(C) = Cardinality(A) + Cardinality(B)
  BY <1>5, <1>6, <1>7, FS_EmptySet
<1> QED
  BY <1>8 DEF Occurrences, A, B, C

LEMMA OccurrencesAppend ==
    ASSUME NEW S, NEW s \in Seq(S), NEW e \in S, NEW m
    PROVE  Occurrences(Append(s, e), m) = Occurrences(s, m) + IF e = m THEN 1 ELSE 0
<1>1. Append(s, e) = s \o <<e>> /\ <<e>> \in Seq(S)
  BY AppendIsConcat
<1>2. Occurrences(<<e>>, m) = IF e = m THEN 1 ELSE 0
  BY OccurrencesOne
<1>3. Occurrences(s \o <<e>>, m) = Occurrences(s, m) + Occurrences(<<e>>, m)
  BY <1>1, OccurrencesConcat
<1> QED
  BY <1>1, <1>2, <1>3

LEMMA OccurrencesTail ==
    ASSUME NEW S, NEW s \in Seq(S), s # <<>>, NEW m
    PROVE  Occurrences(s, m) = Occurrences(Tail(s), m) + IF Head(s) = m THEN 1 ELSE 0
<1>1. /\ Head(s) \in S /\ Tail(s) \in Seq(S) /\ <<Head(s)>> \in Seq(S)
      /\ Len(s) \in Nat /\ Len(s) >= 1
  BY HeadTailProperties, EmptySeq, LenProperties
<1>2. s = <<Head(s)>> \o Tail(s)
  <2>1. SubSeq(s, 1, Len(s)) = <<s[1]>> \o SubSeq(s, 2, Len(s))
    BY <1>1, SubSeqRecursiveFirst
  <2> QED
    BY <1>1, <2>1, SubSeqFull, TailIsSubSeq
<1>3. Occurrences(s, m) = Occurrences(<<Head(s)>>, m) + Occurrences(Tail(s), m)
  <2>1. Occurrences(<<Head(s)>> \o Tail(s), m)
            = Occurrences(<<Head(s)>>, m) + Occurrences(Tail(s), m)
    BY <1>1, OccurrencesConcat
  <2> QED
    BY <1>2, <2>1, Zenon
<1>4. Occurrences(Tail(s), m) \in Nat
  BY <1>1, OccurrencesNat
<1>5. Occurrences(<<Head(s)>>, m) = IF Head(s) = m THEN 1 ELSE 0
  BY <1>1, OccurrencesOne
<1> QED
  BY <1>3, <1>4, <1>5

----------------------------------------------------------------------------
(* The records of the error file that a load has read, and the others.     *)
Unread(f, k) == SubSeq(f, k + 1, Len(f))

LEMMA ReadAndUnread ==
    ASSUME NEW S, NEW f \in Seq(S), NEW k \in 0 .. Len(f), NEW m
    PROVE  /\ Unread(f, k) \in Seq(S) /\ SubSeq(f, 1, k) \in Seq(S)
           /\ Occurrences(f, m) = Occurrences(SubSeq(f, 1, k), m) + Occurrences(Unread(f, k), m)
<1>1. Len(f) \in Nat /\ k \in Nat /\ k <= Len(f)
  BY LenProperties
<1>2. Unread(f, k) \in Seq(S) /\ SubSeq(f, 1, k) \in Seq(S)
  BY <1>1 DEF Unread
<1>3. SubSeq(f, 1, k) \o Unread(f, k) = f
  <2>1. SubSeq(f, 1, k) \o SubSeq(f, k + 1, Len(f)) = SubSeq(f, 1, Len(f))
    <3>1. 1 \in 1 .. Len(f) + 1 /\ k \in 1 - 1 .. Len(f) /\ Len(f) \in k .. Len(f)
      BY <1>1
    <3> QED
      BY <3>1, ConcatAdjacentSubSeq
  <2> QED
    BY <2>1, SubSeqFull DEF Unread
<1>4. Occurrences(SubSeq(f, 1, k) \o Unread(f, k), m)
          = Occurrences(SubSeq(f, 1, k), m) + Occurrences(Unread(f, k), m)
  BY <1>2, OccurrencesConcat
<1>5. Occurrences(f, m) = Occurrences(SubSeq(f, 1, k), m) + Occurrences(Unread(f, k), m)
  BY <1>3, <1>4, Zenon
<1> QED
  BY <1>2, <1>5

LEMMA UnreadGrows ==
    ASSUME NEW S, NEW f \in Seq(S), NEW t \in Seq(S), NEW k \in 0 .. Len(f), NEW m
    PROVE  Occurrences(Unread(f \o t, k), m) = Occurrences(Unread(f, k), m) + Occurrences(t, m)
<1>1. /\ f \o t \in Seq(S) /\ Len(f \o t) = Len(f) + Len(t)
      /\ Len(f) \in Nat /\ Len(t) \in Nat /\ k \in Nat /\ k <= Len(f)
  BY ConcatProperties, LenProperties
<1>2. SubSeq(f \o t, 1, k) = SubSeq(f, 1, k)
  <2>1. CASE k = 0
    BY <2>1, SubSeqEmpty
  <2>2. CASE k # 0
    <3>1. 1 \in 1 .. Len(f) /\ k \in 1 .. Len(f)
      BY <1>1, <2>2
    <3> QED
      BY <3>1, SubSeqOfConcat1
  <2> QED
    BY <2>1, <2>2
<1>3. k \in 0 .. Len(f \o t)
  BY <1>1
<1>4. /\ Unread(f \o t, k) \in Seq(S)
      /\ Occurrences(f \o t, m) = Occurrences(SubSeq(f, 1, k), m) + Occurrences(Unread(f \o t, k), m)
  BY <1>1, <1>2, <1>3, ReadAndUnread
<1>5. /\ Unread(f, k) \in Seq(S) /\ SubSeq(f, 1, k) \in Seq(S)
      /\ Occurrences(f, m) = Occurrences(SubSeq(f, 1, k), m) + Occurrences(Unread(f, k), m)
  BY ReadAndUnread
<1>6. Occurrences(f \o t, m) = Occurrences(f, m) + Occurrences(t, m)
  BY OccurrencesConcat
<1>7. /\ Occurrences(SubSeq(f, 1, k), m) \in Nat /\ Occurrences(Unread(f, k), m) \in Nat
      /\ Occurrences(Unread(f \o t, k), m) \in Nat /\ Occurrences(t, m) \in Nat
  BY <1>4, <1>5, OccurrencesNat
<1> DEFINE all == Occurrences(f \o t, m)
           old == Occurrences(f, m)
           new == Occurrences(t, m)
           read == Occurrences(SubSeq(f, 1, k), m)
           rest == Occurrences(Unread(f, k), m)
           more == Occurrences(Unread(f \o t, k), m)
<1>8. all = read + more /\ old = read + rest /\ all = old + new
  BY <1>4, <1>5, <1>6
<1>9. read \in Nat /\ rest \in Nat /\ more \in Nat /\ new \in Nat
  BY <1>7
<1> HIDE DEF all, old, new, read, rest, more
<1>10. more = rest + new
  BY <1>8, <1>9
<1> QED
  BY <1>10 DEF more, rest, new

LEMMA UnreadStep ==
    ASSUME NEW S, NEW f \in Seq(S), NEW k \in Nat, k < Len(f), NEW m
    PROVE  Occurrences(Unread(f, k), m)
               = Occurrences(Unread(f, k + 1), m) + IF f[k + 1] = m THEN 1 ELSE 0
<1>1. Len(f) \in Nat /\ k + 1 \in 1 .. Len(f) /\ Len(f) \in k + 1 .. Len(f) /\ f[k + 1] \in S
  BY LenProperties
<1>2. Unread(f, k) = <<f[k + 1]>> \o SubSeq(f, k + 1 + 1, Len(f))
  BY <1>1, SubSeqRecursiveFirst DEF Unread
<1>3. <<f[k + 1]>> \in Seq(S) /\ Unread(f, k + 1) \in Seq(S)
  <2>1. k + 1 \in 0 .. Len(f)
    BY <1>1
  <2> QED
    BY <1>1, <2>1, ReadAndUnread
<1>4. Occurrences(Unread(f, k), m)
          = Occurrences(<<f[k + 1]>>, m) + Occurrences(Unread(f, k + 1), m)
  <2>1. Occurrences(<<f[k + 1]>> \o Unread(f, k + 1), m)
            = Occurrences(<<f[k + 1]>>, m) + Occurrences(Unread(f, k + 1), m)
    BY <1>3, OccurrencesConcat
  <2>2. Unread(f, k) = <<f[k + 1]>> \o Unread(f, k + 1)
    BY <1>2, Zenon DEF Unread
  <2> QED
    BY <2>1, <2>2, Zenon
<1>5. Occurrences(<<f[k + 1]>>, m) = IF f[k + 1] = m THEN 1 ELSE 0
  BY <1>1, OccurrencesOne
<1>6. Occurrences(Unread(f, k + 1), m) \in Nat
  BY <1>3, OccurrencesNat
<1> QED
  BY <1>4, <1>5, <1>6

(* A load that has not yet pushed a message finds every copy unread.       *)
LEMMA NotPushed ==
    ASSUME NEW S, NEW f \in Seq(S), NEW k \in 0 .. Len(f),
           NEW m, m \notin {f[i] : i \in 1 .. k}
    PROVE  Occurrences(Unread(f, k), m) = Occurrences(f, m)
<1>1. Len(f) \in Nat /\ k \in Nat /\ k <= Len(f)
  BY LenProperties
<1>2. m \notin Range(SubSeq(f, 1, k))
  <2>1. Len(SubSeq(f, 1, k)) = k /\ \A i \in 1 .. k : SubSeq(f, 1, k)[i] = f[i]
    BY <1>1
  <2>2. DOMAIN SubSeq(f, 1, k) = 1 .. k
    BY <1>1
  <2> QED
    BY <2>1, <2>2 DEF Range
<1>3. /\ Unread(f, k) \in Seq(S) /\ SubSeq(f, 1, k) \in Seq(S)
      /\ Occurrences(f, m) = Occurrences(SubSeq(f, 1, k), m) + Occurrences(Unread(f, k), m)
  BY ReadAndUnread
<1>4. Occurrences(SubSeq(f, 1, k), m) = 0 /\ Occurrences(Unread(f, k), m) \in Nat
  BY <1>2, <1>3, OccurrencesAbsent, OccurrencesNat
<1> QED
  BY <1>3, <1>4

----------------------------------------------------------------------------
(* The copies of a message, place by place.                                *)
InPlace(m, S) == IF m \in S THEN 1 ELSE 0

Sums ==
    \A m \in Messages :
        /\ Copies(m) = Occurrences(queue, m) + Occurrences(saveBuf, m)
                       + Occurrences(Unread(file, loadPos), m)
                       + InPlace(m, inflight) + InPlace(m, {refused}) + InPlace(m, kafka)
        /\ Occurrences(queue, m) \in Nat
        /\ Occurrences(saveBuf, m) \in Nat
        /\ Occurrences(Unread(file, loadPos), m) \in Nat

LEMMA CopiesSum == TypeOK => Sums
<1> SUFFICES ASSUME TypeOK, NEW m \in Messages
             PROVE  /\ Copies(m) = Occurrences(queue, m) + Occurrences(saveBuf, m)
                          + Occurrences(Unread(file, loadPos), m)
                          + InPlace(m, inflight) + InPlace(m, {refused}) + InPlace(m, kafka)
                    /\ Occurrences(queue, m) \in Nat
                    /\ Occurrences(saveBuf, m) \in Nat
                    /\ Occurrences(Unread(file, loadPos), m) \in Nat
  BY DEF Sums
<1> DEFINE R == Messages \cup {Torn}
<1>1. queue \in Seq(R) /\ saveBuf \in Seq(R) /\ file \in Seq(R) /\ loadPos \in 0 .. Len(file)
  BY SeqMonotonic, Messages \subseteq R DEF TypeOK
<1> HIDE DEF R
<1>2. Unread(file, loadPos) \in Seq(R) /\ queue \o saveBuf \in Seq(R)
  BY <1>1, ReadAndUnread, ConcatProperties
<1>3. Occurrences((queue \o saveBuf) \o Unread(file, loadPos), m)
          = Occurrences(queue \o saveBuf, m) + Occurrences(Unread(file, loadPos), m)
  BY <1>2, OccurrencesConcat
<1>4. Occurrences(queue \o saveBuf, m) = Occurrences(queue, m) + Occurrences(saveBuf, m)
  BY <1>1, OccurrencesConcat
<1>5. /\ Occurrences(queue, m) \in Nat
      /\ Occurrences(saveBuf, m) \in Nat
      /\ Occurrences(Unread(file, loadPos), m) \in Nat
  BY <1>1, <1>2, OccurrencesNat
<1>6. /\ Cardinality({m} \cap inflight) = InPlace(m, inflight)
      /\ Cardinality({m} \cap {refused}) = InPlace(m, {refused})
      /\ Cardinality({m} \cap kafka) = InPlace(m, kafka)
  BY InSet DEF InPlace
<1>7. Copies(m) = Occurrences((queue \o saveBuf) \o Unread(file, loadPos), m)
                  + InPlace(m, inflight) + InPlace(m, {refused}) + InPlace(m, kafka)
  BY <1>6 DEF Copies, Unread
<1>8. Copies(m) = Occurrences(queue, m) + Occurrences(saveBuf, m)
                          + Occurrences(Unread(file, loadPos), m)
                          + InPlace(m, inflight) + InPlace(m, {refused}) + InPlace(m, kafka)
  BY <1>3, <1>4, <1>7
<1> QED
  BY <1>5, <1>8

(***************************************************************************)
(* The strengthening.  A message past the limit check is nowhere else yet, *)
(* and outside a load the whole error file counts as unread.               *)
(***************************************************************************)
HeldApart == \A s \in Checked : holding[s] \notin Put

NoLoadNoPos == main \notin {"loading", "loaded", "resending", "resent"} => loadPos = 0

OnePlace == NoDuplicate /\ FreshHeld /\ HeldApart /\ NoLoadNoPos

LEMMA NoLoadStep == TypeOK /\ NoLoadNoPos /\ [Next]_vars => NoLoadNoPos'
<1> SUFFICES ASSUME TypeOK, NoLoadNoPos, [Next]_vars PROVE NoLoadNoPos'
  OBVIOUS
<1>1. ASSUME UNCHANGED <<main, loadPos>> PROVE NoLoadNoPos'
  BY <1>1 DEF NoLoadNoPos
<1>2. ASSUME NEW s \in Senders, NEW m \in Messages, SetMessageCheck(s, m) PROVE NoLoadNoPos'
  BY <1>1, <1>2 DEF SetMessageCheck
<1>3. ASSUME NEW s \in Senders, SetMessagePush(s) PROVE NoLoadNoPos'
  BY <1>1, <1>3 DEF SetMessagePush
<1>4. ASSUME NEW m \in Messages, Deliver(m) \/ ErrorCallback(m) PROVE NoLoadNoPos'
  BY <1>1, <1>4 DEF Deliver, ErrorCallback
<1>5. CASE ProducerSend \/ SavePop
  BY <1>1, <1>5 DEF ProducerSend, SavePop
<1>6. CASE Boot \/ BootLoad \/ Resend
  BY <1>6 DEF NoLoadNoPos, Boot, BootLoad, Resend, OpenToLoad
<1>7. CASE LoadStep \/ LoadEof
  BY <1>7 DEF NoLoadNoPos, LoadStep, LoadEof, Loading
<1>8. CASE LoadEnd \/ Exit \/ Crash
  BY <1>8 DEF NoLoadNoPos, LoadEnd, Exit, Crash, MemoryGone
<1>9. CASE Stop \/ AimsStopped \/ ServersStopped \/ SaveEnd
  BY <1>9 DEF NoLoadNoPos, Stop, AimsStopped, ServersStopped, SaveEnd
<1>10. CASE UNCHANGED vars
  BY <1>1, <1>10 DEF vars
<1> QED
  BY <1>2, <1>3, <1>4, <1>5, <1>6, <1>7, <1>8, <1>9, <1>10 DEF Next

LEMMA HeldApartStep ==
    ASSUME TypeOK, FromArrivals, FreshHeld, HeldApart, [Next]_vars
    PROVE  HeldApart'
<1> USE MessageConstants
<1>1. /\ holding \in [Senders -> Messages \cup {None}]
      /\ \A s \in Checked : holding[s] \in Messages \ {None, Torn}
  BY DEF TypeOK, Checked
<1>2. ASSUME NEW s \in Senders, NEW m \in Messages, SetMessageCheck(s, m) PROVE HeldApart'
  <2>1. Put' \subseteq Put
    BY <1>2 DEF SetMessageCheck, Put, Pending
  <2>2. m \notin Put
    BY <1>2 DEF SetMessageCheck, FromArrivals, Placed
  <2>3. \A t \in Checked' : (t \in Checked /\ holding'[t] = holding[t]) \/ holding'[t] = m
    BY <1>1, <1>2 DEF SetMessageCheck, Checked
  <2> QED
    BY <2>1, <2>2, <2>3 DEF HeldApart
<1>3. ASSUME NEW s \in Senders, SetMessagePush(s) PROVE HeldApart'
  <2>1. s \in Checked /\ Put' = Put \cup {holding[s]}
    BY <1>3, PendingFacts DEF SetMessagePush, Checked, Put
  <2>2. \A t \in Checked' : t \in Checked /\ t # s /\ holding'[t] = holding[t]
    BY <1>1, <1>3 DEF SetMessagePush, Checked
  <2>3. \A t \in Checked : t # s => holding[t] # holding[s]
    BY <2>1 DEF FreshHeld
  <2> QED
    BY <2>1, <2>2, <2>3 DEF HeldApart
<1>4. ASSUME \A t \in Checked' : t \in Checked /\ holding'[t] = holding[t]
      PROVE  HeldApart'
  <2>1. CASE \E s \in Senders : SetMessagePush(s)
    BY <1>3, <2>1
  <2>2. CASE ~ \E s \in Senders : SetMessagePush(s)
    <3>1. Put' \subseteq Put \cup {None, Torn}
      BY <2>2, PutStep
    <3> QED
      BY <1>1, <1>4, <3>1 DEF HeldApart
  <2> QED
    BY <2>1, <2>2
<1>5. ASSUME UNCHANGED holding PROVE HeldApart'
  BY <1>4, <1>5 DEF Checked
<1>6. ASSUME NEW m \in Messages, Deliver(m) \/ ErrorCallback(m) PROVE HeldApart'
  BY <1>5, <1>6 DEF Deliver, ErrorCallback
<1>7. CASE Boot \/ BootLoad \/ Resend \/ LoadStep \/ LoadEof \/ LoadEnd
  BY <1>5, <1>7 DEF Boot, BootLoad, Resend, LoadStep, LoadEof, LoadEnd
<1>8. CASE ProducerSend \/ Stop \/ AimsStopped \/ ServersStopped \/ SavePop \/ SaveEnd
  BY <1>5, <1>8 DEF ProducerSend, Stop, AimsStopped, ServersStopped, SavePop, SaveEnd
<1>9. CASE Exit \/ Crash
  BY <1>4, <1>9 DEF Exit, Crash, MemoryGone, Checked
<1>10. CASE UNCHANGED vars
  BY <1>5, <1>10 DEF vars
<1> QED
  BY <1>2, <1>3, <1>6, <1>7, <1>8, <1>9, <1>10 DEF Next

(* What a crash writes of the save buffer holds no message more often.     *)
LEMMA WrittenOnce ==
    ASSUME TypeOK, NEW n \in 0 .. Len(saveBuf), NEW cut \in BOOLEAN, NEW m \in Messages
    PROVE  Occurrences(Written(n, cut), m) <= Occurrences(saveBuf, m)
<1> DEFINE R == Messages \cup {Torn}
           b == SubSeq(saveBuf, 1, n)
           h == IF cut THEN <<Torn>> ELSE <<>>
<1>1. saveBuf \in Seq(R)
  BY SeqMonotonic, Messages \subseteq R DEF TypeOK
<1>2. h \in Seq(R) /\ m \notin Range(h)
  <2>1. <<>> \in Seq(R) /\ <<Torn>> \in Seq(R)
    BY EmptySeq
  <2>2. Range(<<>>) = {} /\ Range(<<Torn>>) = {Torn} /\ m # Torn
    BY MessageConstants DEF Range
  <2> QED
    BY <2>1, <2>2
<1>3. Written(n, cut) = b \o h
  BY DEF Written
<1>4. /\ Unread(saveBuf, n) \in Seq(R) /\ b \in Seq(R)
      /\ Occurrences(saveBuf, m) = Occurrences(b, m) + Occurrences(Unread(saveBuf, n), m)
  BY <1>1, ReadAndUnread
<1> HIDE DEF R, b, h
<1>5. Occurrences(b \o h, m) = Occurrences(b, m) + Occurrences(h, m)
  BY <1>2, <1>4, OccurrencesConcat
<1>6. Occurrences(h, m) = 0
  BY <1>2, OccurrencesAbsent
<1>7. Occurrences(b, m) \in Nat /\ Occurrences(Unread(saveBuf, n), m) \in Nat
  BY <1>4, OccurrencesNat
<1> QED
  BY <1>3, <1>4, <1>5, <1>6, <1>7

(* A message put into a set is counted there at most once.                 *)
LEMMA InPlaceFacts ==
    ASSUME NEW m, NEW S, NEW x
    PROVE  /\ InPlace(m, S) \in Nat
           /\ InPlace(m, {x}) \in Nat
           /\ InPlace(m, S \cup {x}) <= InPlace(m, S) + InPlace(m, {x})
           /\ x \in S => InPlace(m, S \ {x}) = InPlace(m, S) - InPlace(m, {x})
  BY DEF InPlace

(* No step but a push makes more copies of a message, and a push makes the *)
(* first one.                                                              *)
LEMMA CopiesStep ==
    ASSUME TypeOK, TypeOK', Sums, Sums', OnePlace, [Next]_vars,
           NEW m \in Messages, m \notin doubled'
    PROVE  Copies(m)' <= 1
<1> DEFINE R == Messages \cup {Torn}
           Q == Occurrences(queue, m)
           B == Occurrences(saveBuf, m)
           U == Occurrences(Unread(file, loadPos), m)
           I == InPlace(m, inflight)
           F == InPlace(m, {refused})
           K == InPlace(m, kafka)
<1>1. /\ Copies(m) = Q + B + U + I + F + K
      /\ Copies(m)' = Q' + B' + U' + I' + F' + K'
  BY DEF Sums, Q, B, U, I, F, K
<1>2. /\ Q \in Nat /\ B \in Nat /\ U \in Nat /\ I \in Nat /\ F \in Nat /\ K \in Nat
      /\ Q' \in Nat /\ B' \in Nat /\ U' \in Nat /\ I' \in Nat /\ F' \in Nat /\ K' \in Nat
  <2>1. /\ Q \in Nat /\ B \in Nat /\ U \in Nat /\ Q' \in Nat /\ B' \in Nat /\ U' \in Nat
    BY DEF Sums, Q, B, U
  <2>2. /\ I \in Nat /\ F \in Nat /\ K \in Nat /\ I' \in Nat /\ F' \in Nat /\ K' \in Nat
    BY DEF InPlace, I, F, K
  <2> QED
    BY <2>1, <2>2
<1>3. /\ queue \in Seq(R) /\ saveBuf \in Seq(R) /\ file \in Seq(R)
      /\ loadPos \in 0 .. Len(file) /\ Len(file) \in Nat /\ loadPos \in Nat
  BY SeqMonotonic, LenProperties DEF TypeOK, R
<1> HIDE DEF R
<1>4. ASSUME Q' + B' + U' + I' + F' + K' <= Q + B + U + I + F + K, doubled \subseteq doubled'
      PROVE  Copies(m)' <= 1
  <2>1. Copies(m) <= 1
    BY <1>4 DEF OnePlace, NoDuplicate
  <2>2. Copies(m) \in Nat /\ Copies(m)' \in Nat
    BY <1>1, <1>2
  <2>3. Copies(m)' <= Copies(m)
    BY <1>1, <1>4
  <2> QED
    BY <2>1, <2>2, <2>3
<1>5. ASSUME UNCHANGED <<queue, saveBuf, file, loadPos, inflight, refused, kafka, doubled>>
      PROVE  Copies(m)' <= 1
  <2>1. Q' = Q /\ B' = B /\ U' = U /\ I' = I /\ F' = F /\ K' = K
    BY <1>5 DEF Q, B, U, I, F, K
  <2> QED
    BY <1>2, <1>4, <1>5, <2>1
<1>6. ASSUME NEW s \in Senders, SetMessagePush(s) PROVE Copies(m)' <= 1
  <2>1. B' = B /\ U' = U /\ I' = I /\ F' = F /\ K' = K /\ doubled' = doubled
    BY <1>6 DEF SetMessagePush, B, U, I, F, K
  <2>2. holding[s] \in Messages /\ holding[s] \notin Put
    BY <1>6 DEF SetMessagePush, TypeOK, OnePlace, HeldApart, Checked
  <2>3. Q' = Q + IF holding[s] = m THEN 1 ELSE 0
    <3>1. Occurrences(Append(queue, holding[s]), m)
              = Occurrences(queue, m) + IF holding[s] = m THEN 1 ELSE 0
      BY <2>2, OccurrencesAppend DEF TypeOK
    <3> QED
      BY <1>6, <3>1 DEF SetMessagePush, Q
  <2>4. CASE holding[s] # m
    BY <1>2, <1>4, <2>1, <2>3, <2>4
  <2>5. CASE holding[s] = m
    <3>1. /\ m \notin Range(queue) /\ m \notin Range(saveBuf) /\ m \notin Range(file)
          /\ m \notin inflight /\ m \notin {refused} /\ m \notin kafka
      BY <2>2, <2>5, MessageConstants DEF Put, Pending
    <3>2. Q = 0 /\ B = 0
      BY <1>3, <3>1, OccurrencesAbsent DEF Q, B
    <3>3. U = 0
      <4>1. m \notin {file[j] : j \in 1 .. loadPos}
        BY <1>3, <3>1 DEF Range
      <4>2. Occurrences(Unread(file, loadPos), m) = Occurrences(file, m)
        BY <1>3, <4>1, NotPushed
      <4> QED
        BY <1>3, <3>1, <4>2, OccurrencesAbsent DEF U
    <3>4. I = 0 /\ F = 0 /\ K = 0
      BY <3>1 DEF I, F, K, InPlace
    <3> QED
      BY <1>1, <2>1, <2>3, <2>5, <3>2, <3>3, <3>4
  <2> QED
    BY <2>4, <2>5
<1>7. ASSUME Pop PROVE Q = Q' + InPlace(m, {Head(queue)}) /\ Head(queue) \in Messages
  <2>1. Occurrences(queue, m) = Occurrences(Tail(queue), m) + IF Head(queue) = m THEN 1 ELSE 0
    BY <1>3, <1>7, OccurrencesTail DEF Pop
  <2>2. InPlace(m, {Head(queue)}) = IF Head(queue) = m THEN 1 ELSE 0
    BY DEF InPlace
  <2> QED
    BY <1>7, <2>1, <2>2, HeadTailProperties DEF Pop, Q, TypeOK
<1>8. ASSUME NEW e \in Messages, file' = Append(file, e), UNCHANGED loadPos
      PROVE  U' = U + InPlace(m, {e})
  <2>1. Append(file, e) = file \o <<e>> /\ <<e>> \in Seq(R) /\ e \in R
    BY <1>3, AppendIsConcat DEF R
  <2>2. Occurrences(Unread(file \o <<e>>, loadPos), m)
            = Occurrences(Unread(file, loadPos), m) + Occurrences(<<e>>, m)
    <3>1. \A t \in Seq(R) : Occurrences(Unread(file \o t, loadPos), m)
              = Occurrences(Unread(file, loadPos), m) + Occurrences(t, m)
      BY <1>3, UnreadGrows
    <3> QED
      BY <2>1, <3>1, Zenon
  <2>3. Occurrences(<<e>>, m) = IF e = m THEN 1 ELSE 0
    BY <2>1, OccurrencesOne
  <2>4. InPlace(m, {e}) = IF e = m THEN 1 ELSE 0
    BY DEF InPlace
  <2> QED
    BY <1>8, <2>1, <2>2, <2>3, <2>4 DEF U
<1>9. CASE ProducerSend
  <2> DEFINE h == InPlace(m, {Head(queue)})
  <2>1. B' = B /\ U' = U /\ K' = K /\ doubled' = doubled
    BY <1>9 DEF ProducerSend, B, U, K
  <2>2. I' + F' <= I + F + h
    <3>1. CASE inflight' = inflight \cup {Head(queue)} /\ UNCHANGED refused
      <4>1. F' = F /\ I' <= I + h /\ h \in Nat
        BY <3>1, InPlaceFacts
      <4> QED
        BY <1>2, <4>1
    <3>2. CASE refused' = Head(queue) /\ UNCHANGED inflight
      <4>1. F' = h /\ I' = I /\ h \in Nat
        BY <3>2, InPlaceFacts
      <4> QED
        BY <1>2, <4>1
    <3> QED
      BY <1>9, <3>1, <3>2 DEF ProducerSend
  <2>3. Q = Q' + h /\ h \in Nat
    BY <1>7, <1>9, InPlaceFacts DEF ProducerSend
  <2> HIDE DEF h
  <2> QED
    BY <1>2, <1>4, <2>1, <2>2, <2>3
<1>10. ASSUME NEW e \in Messages, Deliver(e) PROVE Copies(m)' <= 1
  <2> DEFINE h == InPlace(m, {e})
  <2>1. Q' = Q /\ B' = B /\ U' = U /\ F' = F /\ doubled' = doubled
    BY <1>10 DEF Deliver, Q, B, U, F
  <2>2. I' = I - h /\ K' <= K + h /\ h \in Nat
    BY <1>10, InPlaceFacts DEF Deliver, I, K
  <2> HIDE DEF h
  <2> QED
    BY <1>2, <1>4, <2>1, <2>2
<1>11. ASSUME NEW e \in Messages, ErrorCallback(e) PROVE Copies(m)' <= 1
  <2> DEFINE h == InPlace(m, {e})
  <2>1. Q' = Q /\ B' = B /\ K' = K /\ doubled' = doubled
    BY <1>11 DEF ErrorCallback, Q, B, K
  <2>2. h \in Nat
    BY InPlaceFacts
  <2>3. refused' = None \/ refused' = refused
    BY <1>11 DEF ErrorCallback
  <2>4. F' <= F
    BY <1>2, <2>3, MessageConstants DEF F, InPlace
  <2>5. I' + F' <= I + F - h
    <3>1. CASE e = refused /\ refused' = None /\ UNCHANGED inflight
      <4>1. F' = 0 /\ F = h /\ I' = I
        BY <3>1, MessageConstants DEF F, I, InPlace
      <4> HIDE DEF h
      <4> QED
        BY <1>2, <4>1
    <3>2. CASE e \in inflight /\ inflight' = inflight \ {e} /\ UNCHANGED refused
      <4>1. F' = F /\ I' = I - h /\ h \in Nat
        BY <3>2, InPlaceFacts DEF F, I
      <4> HIDE DEF h
      <4> QED
        BY <1>2, <4>1
    <3> QED
      BY <1>11, <3>1, <3>2 DEF ErrorCallback
  <2>6. U' = U + h \/ U' = U
    <3>1. file' = Append(file, e) \/ file' = file
      BY <1>11 DEF ErrorCallback, AppendRecord
    <3>2. loadPos' = loadPos
      BY <1>11 DEF ErrorCallback
    <3>3. CASE file' = file
      BY <3>2, <3>3 DEF U
    <3> QED
      BY <1>8, <3>1, <3>2, <3>3
  <2> HIDE DEF h
  <2> QED
    BY <1>2, <1>4, <2>1, <2>2, <2>5, <2>6
<1>12. CASE LoadStep
  <2> DEFINE h == InPlace(m, {file[loadPos + 1]})
  <2>1. B' = B /\ I' = I /\ F' = F /\ K' = K /\ doubled' = doubled
    BY <1>12 DEF LoadStep, B, I, F, K
  <2>2. loadPos < Len(file) /\ file[loadPos + 1] \in R
    BY <1>3, <1>12 DEF LoadStep, RecordReadable
  <2>3. h = IF file[loadPos + 1] = m THEN 1 ELSE 0
    BY DEF InPlace
  <2>4. Q' = Q + h
    <3>1. Occurrences(Append(queue, file[loadPos + 1]), m)
              = Occurrences(queue, m) + IF file[loadPos + 1] = m THEN 1 ELSE 0
      BY <1>3, <2>2, OccurrencesAppend
    <3> QED
      BY <1>12, <2>3, <3>1 DEF LoadStep, Q
  <2>5. U = U' + h
    <3>1. Occurrences(Unread(file, loadPos), m) = Occurrences(Unread(file, loadPos + 1), m)
              + IF file[loadPos + 1] = m THEN 1 ELSE 0
      BY <1>3, <2>2, UnreadStep
    <3> QED
      BY <1>12, <2>3, <3>1 DEF LoadStep, U
  <2>6. h \in Nat
    BY InPlaceFacts
  <2> HIDE DEF h
  <2> QED
    BY <1>2, <1>4, <2>1, <2>4, <2>5, <2>6
<1>13. CASE LoadEnd
  <2>1. Q' = Q /\ B' = B /\ I' = I /\ F' = F /\ K' = K /\ doubled \subseteq doubled'
    BY <1>13 DEF LoadEnd
  <2>2. CASE file' = <<>>
    <3>1. Unread(<<>>, 0) = <<>>
      BY DEF Unread
    <3>2. Occurrences(<<>>, m) = 0
      <4>1. <<>> \in Seq(R) /\ m \notin Range(<<>>)
        BY EmptySeq DEF Range
      <4> QED
        BY <4>1, OccurrencesAbsent
    <3>3. U' = 0
      BY <1>13, <2>2, <3>1, <3>2 DEF LoadEnd
    <3> QED
      BY <1>2, <1>4, <2>1, <3>3
  <2>3. CASE file' = file /\ doubled' = doubled \cup Pushed
    <3>1. U = Occurrences(file, m)
      <4>1. m \notin {file[i] : i \in 1 .. loadPos}
        BY <2>3 DEF Pushed
      <4> QED
        BY <1>3, <4>1, NotPushed
    <3>2. U' = Occurrences(file, m)
      <4>1. Unread(file, 0) = file
        BY <1>3, SubSeqFull DEF Unread
      <4>2. file' = file /\ loadPos' = 0
        BY <1>13, <2>3 DEF LoadEnd
      <4> QED
        BY <4>1, <4>2
    <3> QED
      BY <1>2, <1>4, <2>1, <3>1, <3>2
  <2> QED
    BY <1>13, <2>2, <2>3 DEF LoadEnd
<1>14. CASE SavePop
  <2> DEFINE h == InPlace(m, {Head(queue)})
  <2>1. U' = U /\ I' = I /\ F' = F /\ K' = K /\ doubled' = doubled
    BY <1>14 DEF SavePop
  <2>2. Q = Q' + h /\ h \in Nat /\ Head(queue) \in R
    BY <1>7, <1>14, InPlaceFacts DEF SavePop, R
  <2>3. B' = B + h
    <3>1. Occurrences(Append(saveBuf, Head(queue)), m)
              = Occurrences(saveBuf, m) + IF Head(queue) = m THEN 1 ELSE 0
      BY <1>3, <2>2, OccurrencesAppend
    <3>2. h = IF Head(queue) = m THEN 1 ELSE 0
      BY DEF InPlace
    <3> QED
      BY <1>14, <3>1, <3>2 DEF SavePop
  <2> HIDE DEF h
  <2> QED
    BY <1>2, <1>4, <2>1, <2>2, <2>3
<1>15. CASE SaveEnd
  <2>1. Q' = Q /\ I' = I /\ F' = F /\ K' = K /\ doubled' = doubled
    BY <1>15 DEF SaveEnd, history
  <2>2. B' = 0
    <3>1. saveBuf' = <<>> /\ <<>> \in Seq(R) /\ m \notin Range(<<>>)
      BY <1>15, EmptySeq DEF SaveEnd, Range
    <3> QED
      BY <3>1, OccurrencesAbsent
  <2>3. U' = U + B \/ U' = U
    <3>1. Occurrences(Unread(file \o saveBuf, loadPos), m)
              = Occurrences(Unread(file, loadPos), m) + Occurrences(saveBuf, m)
      BY <1>3, UnreadGrows
    <3>2. loadPos' = loadPos /\ (file' = file \o saveBuf \/ file' = file)
      BY <1>15 DEF SaveEnd
    <3> QED
      BY <3>1, <3>2
  <2> QED
    BY <1>2, <1>4, <2>1, <2>2, <2>3
<1>16. ASSUME MemoryGone PROVE Q' = 0 /\ B' = 0 /\ I' = 0 /\ F' = 0
  <2>1. Occurrences(<<>>, m) = 0
    <3>1. <<>> \in Seq(R) /\ m \notin Range(<<>>)
      BY EmptySeq DEF Range
    <3> QED
      BY <3>1, OccurrencesAbsent
  <2>2. Q' = 0 /\ B' = 0
    BY <1>16, <2>1 DEF MemoryGone
  <2>3. I' = 0 /\ F' = 0
    BY <1>16, MessageConstants DEF MemoryGone, InPlace
  <2> QED
    BY <2>2, <2>3
<1>17. CASE Exit
  <2>1. U' = U /\ K' = K /\ doubled' = doubled
    BY <1>17 DEF Exit, MemoryGone, OnePlace, NoLoadNoPos
  <2> QED
    BY <1>2, <1>4, <1>16, <1>17, <2>1 DEF Exit
<1>18. CASE Crash
  <2>1. PICK n \in 0 .. Len(saveBuf), cut \in BOOLEAN : file' = file \o Written(n, cut)
    BY <1>18 DEF Crash
  <2>2. K' = K /\ doubled' = doubled \cup Pushed /\ loadPos' = 0
    BY <1>18 DEF Crash, MemoryGone
  <2>3. U = Occurrences(file, m)
    <3>1. m \notin {file[i] : i \in 1 .. loadPos}
      BY <2>2 DEF Pushed
    <3> QED
      BY <1>3, <3>1, NotPushed
  <2>4. /\ Written(n, cut) \in Seq(R)
        /\ Occurrences(Written(n, cut), m) <= B
    BY WrittenFacts, WrittenOnce DEF R
  <2>5. U' = U + Occurrences(Written(n, cut), m)
    <3>1. Occurrences(file \o Written(n, cut), m)
              = Occurrences(file, m) + Occurrences(Written(n, cut), m)
      BY <1>3, <2>4, OccurrencesConcat
    <3>2. file' \in Seq(R)
      BY DEF TypeOK, R
    <3>3. Unread(file', 0) = file'
      BY <3>2, SubSeqFull DEF Unread
    <3>4. U' = Occurrences(file', m)
      BY <2>2, <3>3
    <3> QED
      BY <2>1, <2>3, <3>1, <3>4
  <2>6. Occurrences(Written(n, cut), m) \in Nat
    BY <2>4, OccurrencesNat
  <2>7. Q' = 0 /\ B' = 0 /\ I' = 0 /\ F' = 0
    BY <1>16, <1>18 DEF Crash
  <2> DEFINE w == Occurrences(Written(n, cut), m)
  <2>8. U' = U + w /\ w <= B /\ w \in Nat
    BY <2>4, <2>5, <2>6
  <2> HIDE DEF w
  <2>9. Q' + B' + U' + I' + F' + K' <= Q + B + U + I + F + K
    BY <1>2, <2>2, <2>7, <2>8
  <2> QED
    BY <1>4, <2>2, <2>9
<1>19. ASSUME NEW s \in Senders, NEW e \in Messages, SetMessageCheck(s, e) PROVE Copies(m)' <= 1
  BY <1>5, <1>19 DEF SetMessageCheck
<1>20. CASE Boot \/ BootLoad \/ Resend \/ LoadEof
  BY <1>5, <1>20 DEF Boot, BootLoad, Resend, LoadEof, history
<1>21. CASE Stop \/ AimsStopped \/ ServersStopped
  BY <1>5, <1>21 DEF Stop, AimsStopped, ServersStopped, history
<1>22. CASE UNCHANGED vars
  BY <1>5, <1>22 DEF vars
<1> QED
  BY <1>6, <1>9, <1>10, <1>11, <1>12, <1>13, <1>14, <1>15, <1>17, <1>18,
     <1>19, <1>20, <1>21, <1>22 DEF Next

(***************************************************************************)
(* A message is in one place only: the queue, the producer, the save       *)
(* buffer, the unread part of the error file, or Kafka, except for the     *)
(* records a load had pushed when it was cut short or could not rename.    *)
(***************************************************************************)
THEOREM OneCopyOfEach == Spec => []NoDuplicate
<1>1. Init => OnePlace
  <2> SUFFICES ASSUME Init PROVE OnePlace
    OBVIOUS
  <2>1. FreshHeld /\ HeldApart /\ NoLoadNoPos
    BY DEF Init, FreshHeld, HeldApart, NoLoadNoPos, Checked
  <2>2. TypeOK
    BY MessageConstants DEF Init, TypeOK, MainStates
  <2>3. ASSUME NEW m \in Messages PROVE Copies(m) <= 1
    <3>1. <<>> \in Seq(Messages) /\ m \notin Range(<<>>) /\ Unread(<<>>, 0) = <<>>
      BY EmptySeq DEF Range, Unread
    <3>2. Occurrences(<<>>, m) = 0
      BY <3>1, OccurrencesAbsent
    <3>3. /\ Occurrences(queue, m) = 0 /\ Occurrences(saveBuf, m) = 0
          /\ Occurrences(Unread(file, loadPos), m) = 0
      BY <3>1, <3>2 DEF Init
    <3>4. InPlace(m, inflight) = 0 /\ InPlace(m, {refused}) = 0 /\ InPlace(m, kafka) = 0
      BY MessageConstants DEF Init, InPlace
    <3>5. Sums
      BY <2>2, CopiesSum
    <3>6. Copies(m) = 0 + 0 + 0 + 0 + 0 + 0
      BY <3>3, <3>4, <3>5, Zenon DEF Sums
    <3> QED
      BY <3>6
  <2> QED
    BY <2>1, <2>3 DEF OnePlace, NoDuplicate
<1>2. TypeOK /\ TypeOK' /\ Sums /\ Sums' /\ FromArrivals /\ OnePlace /\ [Next]_vars => OnePlace'
  <2> SUFFICES ASSUME TypeOK, TypeOK', Sums, Sums', FromArrivals, OnePlace, [Next]_vars
               PROVE  OnePlace'
    OBVIOUS
  <2>1. FreshHeld' /\ HeldApart' /\ NoLoadNoPos'
    BY FreshStep, HeldApartStep, NoLoadStep DEF OnePlace
  <2>2. NoDuplicate'
    BY CopiesStep DEF NoDuplicate
  <2> QED
    BY <2>1, <2>2 DEF OnePlace
<1>3. OnePlace => NoDuplicate
  BY DEF OnePlace
<1>4. TypeOK => Sums
  BY CopiesSum
<1> QED
  BY <1>1, <1>2, <1>3, <1>4, TypeCorrect, NothingMadeUp, PTL DEF Spec
=============================================================================
