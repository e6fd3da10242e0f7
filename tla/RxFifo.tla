------------------------------- MODULE RxFifo -------------------------------
(***************************************************************************)
(* What the receive side of the driver promises its caller (net_poll() of  *)
(* depthcharge): a bounded first-in first-out channel.  A frame the engine *)
(* accepted reaches the caller exactly once, in order, cut to the length   *)
(* the caller asked for, and the engine turns a frame away only when the   *)
(* channel is within Slack places of being full.  Of some frames only the  *)
(* place is promised and not the contents: those of which the engine shows *)
(* the index before the data.                                              *)
(***************************************************************************)
EXTENDS Naturals, Sequences

CONSTANTS Capacity,   \* a number: frames the ring holds at most
          Slack,      \* at most Capacity: places lost when a frame is refused
          Lengths,    \* lengths a frame can be delivered with
          Doubtful,   \* numbers of frames whose contents are not promised
          Garbled     \* the contents of such a frame

VARIABLES queue,      \* frames accepted and not yet returned to the caller
          delivered,  \* frames returned to the caller, oldest first
          refused     \* frames turned away at the wire

fifoVars == <<queue, delivered, refused>>

FifoInit == /\ queue = << >>
            /\ delivered = << >>
            /\ refused = 0

\* Frames are numbered in the order in which they were accepted; both ends of a
\* frame carry its number.
Number == Len(delivered) + Len(queue) + 1

Accept(f) ==
    /\ Len(queue) < Capacity
    /\ queue' = Append(queue, f)
    /\ UNCHANGED <<delivered, refused>>

AcceptWhole(n) == Accept([head |-> Number, body |-> Number, len |-> n])

AcceptGarbled == Number \in Doubtful /\ Accept(Garbled)

Deliver ==
    /\ queue # << >>
    /\ delivered' = Append(delivered, Head(queue))
    /\ queue' = Tail(queue)
    /\ UNCHANGED refused

Refuse ==
    /\ Len(queue) + Slack >= Capacity
    /\ refused' = refused + 1
    /\ UNCHANGED <<queue, delivered>>

FifoNext == \/ \E n \in Lengths : AcceptWhole(n)
            \/ AcceptGarbled \/ Deliver \/ Refuse

FifoSpec == FifoInit /\ [][FifoNext]_fifoVars
=============================================================================
