-------------------------------- MODULE Gmac --------------------------------
(***************************************************************************)
(* The driver whose shape the port takes over (reference/                  *)
(* depthcharge-ipq806x.c): the Synopsys GMAC with one chain of receive and *)
(* one of transmit descriptors, each with an OWN bit that passes between   *)
(* driver and DMA, over a data cache.  DMA and cache are external.  A      *)
(* descriptor is one cache line (DESC_FLUSH_SIZE), its stores and the      *)
(* clean after them one step.                                              *)
(***************************************************************************)
EXTENDS Naturals, Sequences, FiniteSets

CONSTANTS NumRx, NumTx, \* NO_OF_RX_DESC, NO_OF_TX_DESC
          Lens,         \* lengths of received frames
          MaxLen,       \* maxlen of recv
          MaxFrames,    \* bound: frames received and sent
          MaxTimeouts,  \* bound: sends that give up after MAX_WAIT
          NotCached     \* no line in the data cache

\* Line 407 compares a transmit index with NO_OF_RX_DESC.
ASSUME RingAssumption == /\ NumRx \in Nat \ {0, 1} /\ NumTx \in Nat \ {0, 1}
                         /\ NumTx <= NumRx
ASSUME LengthAssumption == Lens \subseteq Nat /\ MaxLen \in Nat
ASSUME BoundAssumption == MaxFrames \in Nat /\ MaxTimeouts \in Nat

\* A receive descriptor, by what the driver looks at.
RxDesc == [owned : BOOLEAN, len : Nat]
ASSUME CacheAssumption == NotCached \notin RxDesc /\ NotCached \notin Nat

RxSlots == 0 .. NumRx - 1
TxSlots == 0 .. NumTx - 1

VARIABLES
    pc,               \* driver: where it is in start, recv or send
    next_rx,          \* driver: field of IpqEthDev
    len, out,         \* driver: *len so far, and the frames copied to buf
    next_tx,          \* driver
    rx_ram, rx_cache, \* receive descriptors in RAM, and as cached: owned, len
    buf_ram, buf_cache,\* receive buffers: number of the frame each holds
    rx_cur, rx_eng,   \* DMA: its receive descriptor; writing a frame
    received,         \* history: lengths of the frames received
    delivered,        \* history: frames recv has returned
    tx_ram,           \* transmit descriptors: owned, length of frame, eor
    tx_cur, tx_eng,   \* DMA: its transmit descriptor, and what it is at
    fetched,          \* DMA: the frame it has read
    pkt_cpu, pkt_ram, \* the caller's packet buffer
    wire,             \* history: frames sent
    sends, timeouts   \* history

rxVars == <<next_rx, len, out, rx_ram, rx_cache, buf_ram, buf_cache, rx_cur, rx_eng,
            received, delivered>>
txDriverVars == <<next_tx, pkt_cpu, sends, timeouts>>
txVars == <<txDriverVars, tx_ram, tx_cur, tx_eng, fetched, pkt_ram, wire>>
vars == <<pc, rxVars, txVars>>

TxFree(d, last) == [owned |-> FALSE, frame |-> 0, eor |-> d = last]
Owned == [owned |-> TRUE, len |-> 0]

\* ipq_gmac_tx_rx_desc_ring()
Init ==
    /\ pc = "init"
    /\ next_rx = 0 /\ next_tx = 0 /\ len = 0 /\ out = << >>
    /\ rx_ram = [d \in RxSlots |-> [owned |-> FALSE, len |-> 0]]
    /\ rx_cache = [d \in RxSlots |-> NotCached]
    /\ buf_ram = [d \in RxSlots |-> 0]
    /\ buf_cache = [d \in RxSlots |-> NotCached]
    /\ rx_cur = 0 /\ rx_eng = "off"
    /\ received = << >> /\ delivered = << >>
    /\ tx_ram = [d \in TxSlots |-> TxFree(d, NumTx - 1)]
    /\ tx_cur = 0 /\ tx_eng = "off" /\ fetched = 0
    /\ pkt_cpu = 0 /\ pkt_ram = 0
    /\ wire = << >> /\ sends = 0 /\ timeouts = 0

-----------------------------------------------------------------------------
(* Driver: ipq_eth_start(), from the first ipq_phy_check_link()            *)

\* The reset of the MAC puts both engines at the head of their chains.
Start ==
    /\ pc = "init"
    /\ rx_ram' = [d \in RxSlots |-> Owned]
    /\ rx_cache' = [d \in RxSlots |-> NotCached]
    /\ rx_cur' = 0 /\ rx_eng' = "idle"
    /\ tx_cur' = 0 /\ tx_eng' = "suspended"
    /\ pc' = "idle"
    /\ UNCHANGED <<next_rx, len, out, buf_ram, buf_cache, received, delivered,
                   txDriverVars, tx_ram, fetched, pkt_ram, wire>>

-----------------------------------------------------------------------------
(* Driver: ipq_eth_recv()                                                  *)

\* Mutant of Recv: the descriptors are not invalidated.
RecvStale ==
    /\ pc = "idle"
    /\ pc' = "look"
    /\ UNCHANGED <<rxVars, txVars>>

\* One invalidation of all descriptors, for the whole loop.
Recv ==
    /\ pc = "idle"
    /\ rx_cache' = [d \in RxSlots |-> NotCached]
    /\ pc' = "look"
    /\ UNCHANGED <<next_rx, len, out, rx_ram, buf_ram, buf_cache, rx_cur, rx_eng,
                   received, delivered, txVars>>

\* A CPU load: from the cache when the line is in it.
Load(cache, ram, d) == IF cache[d] = NotCached THEN ram[d] ELSE cache[d]
Seen == Load(rx_cache, rx_ram, next_rx)

\* Mutant of Fits: each frame by itself.
FitsAlone == Seen.len <= MaxLen
Fits == len + Seen.len <= MaxLen

\* The loop's condition, and its break: recv returns with what it has.
RecvReturn ==
    /\ pc = "look"
    /\ Seen.owned \/ ~Fits
    /\ rx_cache' = [rx_cache EXCEPT ![next_rx] = Seen]
    /\ delivered' = delivered \o out
    /\ len' = 0 /\ out' = << >>
    /\ pc' = "idle"
    /\ UNCHANGED <<next_rx, rx_ram, buf_ram, buf_cache, rx_cur, rx_eng,
                   received, txVars>>

\* Mutant of TakeFrame: the buffer is not invalidated.
TakeStale ==
    /\ pc = "look"
    /\ ~Seen.owned /\ Fits
    /\ rx_cache' = [rx_cache EXCEPT ![next_rx] = Seen]
    /\ pc' = "copy"
    /\ UNCHANGED <<next_rx, len, out, rx_ram, buf_ram, buf_cache, rx_cur, rx_eng,
                   received, delivered, txVars>>

\* A frame that fits: its buffer's lines are invalidated.
TakeFrame ==
    /\ pc = "look"
    /\ ~Seen.owned /\ Fits
    /\ rx_cache' = [rx_cache EXCEPT ![next_rx] = Seen]
    /\ buf_cache' = [buf_cache EXCEPT ![next_rx] = NotCached]
    /\ pc' = "copy"
    /\ UNCHANGED <<next_rx, len, out, rx_ram, buf_ram, rx_cur, rx_eng, received,
                   delivered, txVars>>

\* A frame of length zero is only reported.
CopyFrame ==
    /\ pc = "copy"
    /\ out' = IF Seen.len = 0 THEN out
              ELSE Append(out, Load(buf_cache, buf_ram, next_rx))
    /\ len' = len + Seen.len
    /\ pc' = "recycle"
    /\ UNCHANGED <<next_rx, rx_ram, rx_cache, buf_ram, buf_cache, rx_cur,
                   rx_eng, received, delivered, txVars>>

\* Back to the DMA, and on with the next descriptor, its line as it is.
RecycleRx ==
    /\ pc = "recycle"
    /\ rx_ram' = [rx_ram EXCEPT ![next_rx] = Owned]
    /\ rx_cache' = [rx_cache EXCEPT ![next_rx] = NotCached]
    /\ next_rx' = (next_rx + 1) % NumRx
    /\ pc' = "look"
    /\ UNCHANGED <<len, out, buf_ram, buf_cache, rx_cur, rx_eng, received,
                   delivered, txVars>>

RecvSteps == RecvReturn \/ TakeFrame \/ CopyFrame \/ RecycleRx

-----------------------------------------------------------------------------
(* Driver: ipq_eth_send()                                                  *)

\* The caller has a new frame in its buffer.  A descriptor the DMA owns would
\* be a "BUG" and NETDEV_TX_BUSY.
Send ==
    /\ pc = "idle" /\ Len(received) + sends < MaxFrames
    /\ sends' = sends + 1
    /\ pkt_cpu' = sends'
    /\ pc' = IF tx_ram[next_tx].owned THEN "busy" ELSE "give"
    /\ UNCHANGED <<rxVars, next_tx, timeouts, tx_ram, tx_cur, tx_eng, fetched,
                   pkt_ram, wire>>

GiveTx ==
    /\ pc = "give"
    /\ tx_ram' = [tx_ram EXCEPT ![next_tx].owned = TRUE,
                                ![next_tx].frame = sends]
    /\ pc' = "clean"
    /\ UNCHANGED <<rxVars, txDriverVars, tx_cur, tx_eng, fetched, pkt_ram,
                   wire>>

\* Mutant of CleanPacket: left out.
PacketNotCleaned ==
    /\ pc = "clean" /\ pc' = "demand"
    /\ UNCHANGED <<rxVars, txVars>>

\* Only now the packet, after the descriptor that points to it.
CleanPacket ==
    /\ pc = "clean"
    /\ pkt_ram' = pkt_cpu
    /\ pc' = "demand"
    /\ UNCHANGED <<rxVars, txDriverVars, tx_ram, tx_cur, tx_eng, fetched, wire>>

PollDemand ==
    /\ pc = "demand"
    /\ tx_eng' = IF tx_eng = "suspended" THEN "running" ELSE tx_eng
    /\ pc' = "wait"
    /\ UNCHANGED <<rxVars, txDriverVars, tx_ram, tx_cur, fetched, pkt_ram, wire>>

\* Mutant of SendLate: no end to the wait.
NeverLate == FALSE

SendDone ==
    /\ pc = "wait" /\ ~tx_ram[next_tx].owned
    /\ pc' = "reset"
    /\ UNCHANGED <<rxVars, txVars>>

SendLate ==
    /\ pc = "wait" /\ tx_ram[next_tx].owned /\ timeouts < MaxTimeouts
    /\ timeouts' = timeouts + 1
    /\ pc' = "reset"
    /\ UNCHANGED <<rxVars, next_tx, pkt_cpu, sends, tx_ram, tx_cur, tx_eng,
                   fetched, pkt_ram, wire>>

\* Which descriptor gets TxDescEndOfRing back: NO_OF_RX_DESC it says.
LastOf == NumRx - 1

\* The descriptor is taken back, done or not.
ResetTx ==
    /\ pc = "reset"
    /\ tx_ram' = [tx_ram EXCEPT ![next_tx] = TxFree(next_tx, LastOf)]
    /\ next_tx' = (next_tx + 1) % NumTx
    /\ pc' = "idle"
    /\ UNCHANGED <<rxVars, pkt_cpu, sends, timeouts, tx_cur, tx_eng, fetched,
                   pkt_ram, wire>>

SendSteps == \/ GiveTx \/ CleanPacket \/ PollDemand \/ SendDone \/ SendLate
             \/ ResetTx

-----------------------------------------------------------------------------
(* The hardware (external)                                                 *)

\* A frame goes to the descriptor the receive DMA is at, if that is its own;
\* the data is written before the descriptor is handed back.
RxWrite(n) ==
    /\ rx_eng = "idle" /\ rx_ram[rx_cur].owned
    /\ Len(received) + sends < MaxFrames
    /\ received' = Append(received, n)
    /\ buf_ram' = [buf_ram EXCEPT ![rx_cur] = Len(received')]
    /\ rx_eng' = "close"
    /\ UNCHANGED <<pc, next_rx, len, out, rx_ram, rx_cache, buf_cache, rx_cur,
                   delivered, txVars>>

RxClose ==
    /\ rx_eng = "close"
    /\ rx_ram' = [rx_ram EXCEPT ![rx_cur] =
                     [owned |-> FALSE, len |-> received[Len(received)]]]
    /\ rx_cur' = (rx_cur + 1) % NumRx
    /\ rx_eng' = "idle"
    /\ UNCHANGED <<pc, next_rx, len, out, rx_cache, buf_ram, buf_cache, received,
                   delivered, txVars>>

\* The core may load a line on its own account.
Prefetch(d) ==
    /\ pc # "init"
    /\ \/ /\ rx_cache[d] = NotCached
          /\ rx_cache' = [rx_cache EXCEPT ![d] = rx_ram[d]]
          /\ UNCHANGED buf_cache
       \/ /\ buf_cache[d] = NotCached
          /\ buf_cache' = [buf_cache EXCEPT ![d] = buf_ram[d]]
          /\ UNCHANGED rx_cache
    /\ UNCHANGED <<pc, next_rx, len, out, rx_ram, buf_ram, rx_cur, rx_eng, received,
                   delivered, txVars>>

\* DmaTxSecondFrame: a frame is read and the next descriptor looked at before
\* the first is closed; with nothing there the DMA waits for a poll demand.
TxFetch ==
    /\ tx_eng = "running"
    /\ IF tx_ram[tx_cur].owned
       THEN /\ fetched' = (IF tx_ram[tx_cur].frame = pkt_ram THEN pkt_ram ELSE 0)
            /\ tx_eng' = "close"
       ELSE /\ tx_eng' = "suspended"
            /\ UNCHANGED fetched
    /\ UNCHANGED <<pc, rxVars, txDriverVars, tx_ram, tx_cur, pkt_ram, wire>>

TxClose ==
    /\ tx_eng = "close"
    /\ wire' = Append(wire, fetched)
    /\ LET next == IF tx_ram[tx_cur].eor THEN 0 ELSE (tx_cur + 1) % NumTx
       IN  /\ tx_cur' = next
           /\ tx_eng' = IF tx_ram[next].owned THEN "running" ELSE "suspended"
    /\ tx_ram' = [tx_ram EXCEPT ![tx_cur].owned = FALSE]
    /\ UNCHANGED <<pc, rxVars, txDriverVars, fetched, pkt_ram>>

\* The packet's lines are written back of the cache's own accord.
EvictPacket ==
    /\ pkt_ram # pkt_cpu
    /\ pkt_ram' = pkt_cpu
    /\ UNCHANGED <<pc, rxVars, txDriverVars, tx_ram, tx_cur, tx_eng, fetched,
                   wire>>

Hardware == \/ \E n \in Lens : RxWrite(n)
            \/ RxClose \/ TxFetch \/ TxClose \/ EvictPacket
            \/ \E d \in RxSlots : Prefetch(d)

-----------------------------------------------------------------------------
Next == Start \/ Recv \/ RecvSteps \/ Send \/ SendSteps \/ Hardware

Spec == Init /\ [][Next]_vars

\* The stack polls for ever; a frame the DMA has begun to receive is handed
\* over.  The transmit side owes nothing.
FairSpec == Spec /\ WF_vars(Start) /\ WF_vars(Recv) /\ WF_vars(RecvSteps)
                 /\ WF_vars(SendSteps) /\ WF_vars(RxClose)

-----------------------------------------------------------------------------
(* Properties                                                              *)

\* What recv returns, call after call, is every frame that has a length, once
\* and in order, whole: the one invalidation before the loop never lets it take
\* an old image of a descriptor for a new frame, nor the bytes of the frame
\* before.
DeliveredInOrder ==
    \A j \in 1 .. Len(delivered) :
        /\ delivered[j] \in 1 .. Len(received) /\ received[delivered[j]] > 0
        /\ \A l \in 1 .. j - 1 : delivered[l] < delivered[j]
        /\ \A k \in 1 .. delivered[j] :
              received[k] > 0 => \E l \in 1 .. j : delivered[l] = k

\* No frame stays in the ring: a descriptor whose old image ended the loop is
\* found by a later call, and so is one that did not fit behind others.  One
\* longer than the whole buffer does stay, with every frame behind it: the loop
\* ends before it is given back, each time.
ReceivedIsDelivered ==
    \A k \in 1 .. MaxFrames :
        /\ Len(received) >= k /\ received[k] > 0
        /\ \A l \in 1 .. k : received[l] <= MaxLen
        ~> \E j \in 1 .. Len(delivered) : delivered[j] = k

\* Frames are copied one behind the other, never past the end of the buffer.
NeverPastBuffer == len <= MaxLen

\* Until a send gives up, each puts its frame on the wire once and before it
\* returns, although the descriptor is the DMA's before the packet is in RAM;
\* and no send ever meets a descriptor that is still owned ("BUG"), not even
\* after one that gave up.
SentWholeOnce ==
    /\ timeouts = 0 => /\ wire = [k \in 1 .. Len(wire) |-> k]
                       /\ pc = "idle" => Len(wire) = sends
    /\ pc # "busy"

\* send returns, if need be after MAX_WAIT.
SendReturns == pc = "give" ~> pc = "idle"
=============================================================================
