----------------------------- MODULE MC_EdmaTx -----------------------------
(* Small instances of EdmaTx for TLC.                                      *)
EXTENDS EdmaTx
=============================================================================
