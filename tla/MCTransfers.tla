---------------------------- MODULE MCTransfers ----------------------------
(***************************************************************************)
(* Instances of Transfers for TLC.  E holds the files a and c and the      *)
(* directory S, which holds the file b and the directory T.                *)
(***************************************************************************)
EXTENDS Transfers

CONSTANTS E, S, T, a, b, c

MCDirs   == {E, S, T}
MCParent == E :> Root @@ S :> E @@ T :> S @@ a :> E @@ b :> S
Only(t, kind) == [p \in Transfers |-> IF p = t THEN kind ELSE None]
MCYmls   == {Only(E, "recursive"), Only(E, "dir"), Only(a, "file")}
MCAtStart == {{}, {E, a}, {E, S, b}}

\* A second file is added to the transfers.
TwoFiles  == E :> Root @@ a :> E @@ c :> E
AddedYmls == {Only(a, "file"), [p \in Transfers |-> "file"]}
FileAtStart == {{E, a}}
=============================================================================
