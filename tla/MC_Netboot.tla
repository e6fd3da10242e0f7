----------------------------- MODULE MC_Netboot -----------------------------
(* Small instances of Netboot for TLC.                                     *)
EXTENDS Netboot, SequencesExt

CONSTANTS MaxUser,  \* longest line of the user's
          MaxFile   \* longest file

\* Lines up to a length; files, the empty one among them, over one character of
\* each kind.
MCUserLines == SeqOf({"u"}, MaxUser)
MCArgsFiles == SeqOf({"f", " ", "n"}, MaxFile)
=============================================================================
