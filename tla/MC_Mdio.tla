------------------------------ MODULE MC_Mdio ------------------------------
(* Small instances of Mdio for TLC.                                        *)
EXTENDS Mdio
=============================================================================
