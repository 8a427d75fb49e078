------------------------------ MODULE MCReader ------------------------------
(***************************************************************************)
(* Instances of Reader for TLC: paths are model values.                    *)
(***************************************************************************)
EXTENDS Reader, TLC

CONSTANTS a, b, f, o

NoPaths == {}
OneDir  == {a}
TwoDirs == {a, b}
OneFile == {f}
OneOther == {o}
=============================================================================
