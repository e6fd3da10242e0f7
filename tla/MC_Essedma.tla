----------------------------- MODULE MC_Essedma -----------------------------
(* Small instances of Essedma for TLC.                                     *)
EXTENDS Essedma
=============================================================================
