---------------------------- MODULE MC_SelfTest ----------------------------
(* Small instances of SelfTest for TLC.                                    *)
EXTENDS SelfTest
=============================================================================
