--------------------------- MODULE MC_EssBringup ---------------------------
(* Small instances of EssBringup for TLC.                                  *)
EXTENDS EssBringup
=============================================================================
