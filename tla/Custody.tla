------------------------------ MODULE Custody ------------------------------
(***************************************************************************)
(* What aidt promises for the messages it accepts, without saying how: a   *)
(* message is pending in memory, recorded on disk or done, and it leaves   *)
(* one of the three only for another.  Only a crash takes pending messages *)
(* away, and only a message with no topic or no bytes may be dropped.      *)
(***************************************************************************)
CONSTANTS Messages, Droppable

VARIABLES
    owed,     \* messages accepted, less those a crash took
    pending,  \* in memory
    disk,     \* recorded where the next start reads them
    done      \* acknowledged by Kafka

vars == <<owed, pending, disk, done>>

Init == owed = {} /\ pending = {} /\ disk = {} /\ done = {}

Accept(m) ==
    /\ m \notin owed
    /\ owed' = owed \cup {m}
    /\ pending' = pending \cup {m}
    /\ UNCHANGED <<disk, done>>

(* Delivery is at least once: another copy of m may still be pending.      *)
Leave(S) == \E T \in SUBSET S : pending' = pending \ T

Acknowledge(m) ==
    /\ m \in pending
    /\ Leave({m})
    /\ done' = done \cup {m}
    /\ UNCHANGED <<owed, disk>>

Record(S) ==
    /\ Leave(S)
    /\ disk' = disk \cup S
    /\ UNCHANGED <<owed, done>>

Drop(m) ==
    /\ m \in Droppable
    /\ Leave({m})
    /\ UNCHANGED <<owed, disk, done>>

Reload(m) ==
    /\ m \in disk
    /\ pending' = pending \cup {m}
    /\ UNCHANGED <<owed, disk, done>>

(* The record may be given up once everything in it is back in memory.     *)
Release ==
    /\ disk \subseteq pending \cup done \cup Droppable
    /\ disk' = {}
    /\ UNCHANGED <<owed, pending, done>>

(* Some of the pending messages may reach the disk on the way down.        *)
Crash(S) ==
    /\ disk' = disk \cup S
    /\ pending' = {}
    /\ owed' = owed \cap (disk' \cup done)
    /\ UNCHANGED done

Next ==
    \/ \E m \in Messages : Accept(m) \/ Acknowledge(m) \/ Drop(m) \/ Reload(m)
    \/ \E S \in SUBSET pending : Record(S) \/ Crash(S)
    \/ Release

Spec == Init /\ [][Next]_vars
=============================================================================
