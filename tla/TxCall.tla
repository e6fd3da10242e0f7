------------------------------- MODULE TxCall -------------------------------
(***************************************************************************)
(* What send() promises the network stack, which has one packet buffer for *)
(* everything: a call either drops the frame (too short) or puts it on the *)
(* wire, once, before it returns; calls do not overlap.  Frames are        *)
(* numbered by the call that sends them.  The promise ends with the first  *)
(* call that gives up on the engine.                                       *)
(***************************************************************************)
EXTENDS Naturals, Sequences

VARIABLES busy,   \* a call is under way
          number, \* the calls so far
          out,    \* the frames on the wire, oldest first
          late    \* a call has given up

txVars == <<busy, number, out>>

TxInit == busy = FALSE /\ number = 0 /\ out = << >>

OnWire == out # << >> /\ out[Len(out)] = number

CallShort == /\ ~busy
             /\ number' = number + 1
             /\ UNCHANGED <<busy, out>>

Call == /\ ~busy
        /\ busy' = TRUE
        /\ number' = number + 1
        /\ UNCHANGED out

Emit == /\ busy /\ ~OnWire
        /\ out' = Append(out, number)
        /\ UNCHANGED <<busy, number>>

Finish == /\ busy /\ OnWire
          /\ busy' = FALSE
          /\ UNCHANGED <<number, out>>

TxNext == CallShort \/ Call \/ Emit \/ Finish

TxSpec == TxInit /\ [][~late' => TxNext]_txVars
=============================================================================
