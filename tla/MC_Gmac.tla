------------------------------ MODULE MC_Gmac ------------------------------
(* Small instances of Gmac for TLC.                                        *)
EXTENDS Gmac
=============================================================================
