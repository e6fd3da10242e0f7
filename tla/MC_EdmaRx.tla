----------------------------- MODULE MC_EdmaRx -----------------------------
(* Small instances of EdmaRx for TLC.                                      *)
EXTENDS EdmaRx

\* Frames of the first lap are longer than the caller's buffer, later ones are
\* shorter: a length left from the last lap shows.
MCSizes == [k \in 1 .. MaxFrames |-> IF k <= N THEN {MaxLen + 1} ELSE {MaxLen - 1}]
=============================================================================
