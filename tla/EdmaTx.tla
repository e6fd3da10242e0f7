------------------------------- MODULE EdmaTx -------------------------------
(***************************************************************************)
(* The transmit ring of the IPQ4019 EDMA driver (src/drivers/net/ipq4019.c)*)
(* edma_init_desc(), the TXQ half of edma_start_rx_tx() and                *)
(* ipq4019_eth_send(), against the DMA engine and the data cache, neither  *)
(* of which is in the repository.                                          *)
(*                                                                         *)
(* A packet takes PER transmit descriptors (TPDs), one cache line of them: *)
(* each points into the caller's one buffer, the last carries EOP and the  *)
(* length.  The driver flushes the packet, fills and flushes the TPDs,     *)
(* rings the doorbell and polls until the engine's consumer index has      *)
(* caught up, or gives up and returns all the same.                        *)
(***************************************************************************)
EXTENDS Naturals, Sequences

CONSTANTS NT,          \* NO_OF_TX_DESC
          PER,         \* EDMA_TPDS_PER_PACKET, the TPDs of one cache line
          StartIdx,    \* consumer indices edma_init_desc() may find
          MaxSends,    \* bound: calls of ipq4019_eth_send()
          MaxTimeouts, \* bound: sends that give up waiting (0: the engine is
                       \* never later than EDMA_TX_COMPLETE_TIMEOUT)
          NoStore      \* model value: no store to the TPD in the store buffer

ASSUME RingAssumption == /\ PER \in Nat \ {0}
                         /\ NT \in Nat /\ NT % PER = 0 /\ NT > PER
ASSUME StartAssumption == StartIdx \subseteq {i \in 0 .. NT - 1 : i % PER = 0}
ASSUME BoundAssumption == MaxSends \in Nat /\ MaxTimeouts \in Nat

Tpds == 0 .. NT - 1

\* A descriptor: which fragment of the buffer it points to (0: none), the
\* number of the frame whose length it carries, and EOP.
Tpd == [frag : 0 .. PER, frame : Nat, eop : BOOLEAN]
NoTpd == [frag |-> 0, frame |-> 0, eop |-> FALSE]

ASSUME StoreAssumption == NoStore \notin Tpd

VARIABLES
    tpd_head,        \* driver: field of IpqEdmaDev (tpd_tail is never used)
    pc,              \* driver: where it is in init, start or send
    first,           \* driver: index of the packet's first TPD
    stores,          \* CPU: stores to TPDs still in the store buffer
    tpd_cpu,         \* CPU: tpd_ring[] as the cache holds it
    tpd_ram,         \* RAM: tpd_ring[] as the engine reads it
    pkt_cpu, pkt_ram,\* the caller's buffer: number of the frame it holds
    txq_en,          \* register TXQ_CTRL, TXQ_EN
    prod, cons,      \* register TPD_IDX_Q: producer, consumer
    sw_cons,         \* register TX_SW_CONS_IDX_Q
    gather,          \* engine: fragments of the frame being put together
    wire,            \* history: frames emitted
    calls,           \* history: sends called
    completed,       \* history: frames whose send saw cons = prod
    timeouts         \* history: sends that gave up

cpuVars == <<stores, tpd_cpu, pkt_cpu>>
ramVars == <<tpd_ram, pkt_ram>>
engineVars == <<cons, gather, wire>>
historyVars == <<calls, completed, timeouts>>
vars == <<tpd_head, pc, first, cpuVars, ramVars, txq_en, prod, sw_cons,
          engineVars, historyVars>>

-----------------------------------------------------------------------------
(* Ring arithmetic                                                         *)

\* "tpd_head++; if (tpd_head == NO_OF_TX_DESC) tpd_head = 0;", i times.
Step(h, i) == IF h + i >= NT THEN h + i - NT ELSE h + i

\* The engine's own wrap, at the size in EDMA_REG_TPD_RING_SIZE.
HwNext(i) == IF i = NT - 1 THEN 0 ELSE i + 1

\* The TPDs of a packet that starts at h, fragment 1 first.
TpdOf(h, i) == Step(h, i - 1)

\* flush_range(first, PER * sizeof(edma_tpd)): the cache lines it covers.  A
\* line is PER TPDs; the range does not wrap with the ring.
Line(t) == t \div PER
Flushed(h) == {t \in Tpds : Line(t) \in Line(h) .. Line(h + PER - 1)}

-----------------------------------------------------------------------------
(* edma_alloc_rings() cleared the ring in the cache; the engine is off.    *)
Init ==
    /\ tpd_head = 0 /\ first = 0
    /\ pc = "alloc"
    /\ stores = [t \in Tpds |-> NoStore]
    /\ tpd_cpu = [t \in Tpds |-> NoTpd]
    /\ tpd_ram = [t \in Tpds |-> NoTpd]
    /\ pkt_cpu = 0 /\ pkt_ram = 0
    /\ txq_en = FALSE
    /\ cons \in StartIdx
    /\ prod = 0 /\ sw_cons = 0
    /\ gather = << >> /\ wire = << >>
    /\ calls = 0 /\ completed = {} /\ timeouts = 0

-----------------------------------------------------------------------------
(* Driver: edma_init_desc(), edma_start_rx_tx()                            *)

\* Whatever consumer index the hardware shows becomes head and producer.
InitDesc ==
    /\ pc = "alloc"
    /\ tpd_head' = cons /\ prod' = cons /\ sw_cons' = cons
    /\ pc' = "probed"
    /\ UNCHANGED <<first, cpuVars, ramVars, txq_en, engineVars, historyVars>>

StartTx ==
    /\ pc = "probed"
    /\ txq_en' = TRUE
    /\ pc' = "idle"
    /\ UNCHANGED <<tpd_head, first, cpuVars, ramVars, prod, sw_cons,
                   engineVars, historyVars>>

-----------------------------------------------------------------------------
(* Driver: ipq4019_eth_send()                                              *)

\* The caller has put its next frame in the buffer.  One shorter than
\* EDMA_MIN_PKT_SIZE is dropped and reported as sent.
SendShort ==
    /\ pc = "idle" /\ calls < MaxSends
    /\ calls' = calls + 1
    /\ pkt_cpu' = calls'
    /\ UNCHANGED <<tpd_head, pc, first, stores, tpd_cpu, ramVars, txq_en, prod,
                   sw_cons, engineVars, completed, timeouts>>

Send ==
    /\ pc = "idle" /\ calls < MaxSends
    /\ calls' = calls + 1
    /\ pkt_cpu' = calls'
    /\ pc' = "flush"
    /\ UNCHANGED <<tpd_head, first, stores, tpd_cpu, ramVars, txq_en, prod,
                   sw_cons, engineVars, completed, timeouts>>

\* Mutant of FlushPacket: the flush left out.
PacketNotFlushed ==
    /\ pc = "flush" /\ pc' = "fill"
    /\ UNCHANGED <<tpd_head, first, cpuVars, ramVars, txq_en, prod, sw_cons,
                   engineVars, historyVars>>

FlushPacket ==
    /\ pc = "flush"
    /\ pkt_ram' = pkt_cpu
    /\ pc' = "fill"
    /\ UNCHANGED <<tpd_head, first, cpuVars, tpd_ram, txq_en, prod, sw_cons,
                   engineVars, historyVars>>

\* Mutant of Descriptor: "i < EDMA_TPDS_PER_PACKET - 1" off by one.
DescriptorEarlyEop(i) == [frag |-> i, frame |-> pkt_cpu, eop |-> i >= PER - 1]
Descriptor(i) == [frag |-> i, frame |-> pkt_cpu, eop |-> i = PER]

\* The loop over the PER descriptors: only CPU stores, which no one else sees
\* until they reach RAM.
FillTpds ==
    /\ pc = "fill"
    /\ first' = tpd_head
    /\ stores' = [t \in Tpds |->
          IF \E i \in 1 .. PER : t = TpdOf(tpd_head, i)
          THEN Descriptor(CHOOSE i \in 1 .. PER : t = TpdOf(tpd_head, i))
          ELSE stores[t]]
    /\ tpd_head' = Step(tpd_head, PER)
    /\ pc' = "dsb"
    /\ UNCHANGED <<tpd_cpu, pkt_cpu, ramVars, txq_en, prod, sw_cons,
                   engineVars, historyVars>>

\* The cache once the stores to the TPDs in D have left the store buffer.
Drained(D) == [t \in Tpds |-> IF t \in D /\ stores[t] # NoStore
                              THEN stores[t] ELSE tpd_cpu[t]]

Dsb ==
    /\ pc = "dsb"
    /\ tpd_cpu' = Drained(Tpds)
    /\ stores' = [t \in Tpds |-> NoStore]
    /\ pc' = "clean"
    /\ UNCHANGED <<tpd_head, first, pkt_cpu, ramVars, txq_en, prod, sw_cons,
                   engineVars, historyVars>>

FlushTpds ==
    /\ pc = "clean"
    /\ tpd_ram' = [t \in Tpds |-> IF t \in Flushed(first) THEN tpd_cpu[t]
                                                          ELSE tpd_ram[t]]
    /\ pc' = "doorbell"
    /\ UNCHANGED <<tpd_head, first, cpuVars, pkt_ram, txq_en, prod, sw_cons,
                   engineVars, historyVars>>

Doorbell ==
    /\ pc = "doorbell"
    /\ prod' = tpd_head
    /\ pc' = "poll"
    /\ UNCHANGED <<tpd_head, first, cpuVars, ramVars, txq_en, sw_cons,
                   engineVars, historyVars>>

\* Mutants of CaughtUp and GivesUp: no wait at all, and no end to it.
NoWait == TRUE
NeverGivesUp == FALSE

\* A read of TPD_IDX_Q shows the two indices equal, or
\* EDMA_TX_COMPLETE_TIMEOUT reads did not.
CaughtUp == cons = prod
GivesUp == cons # prod /\ timeouts < MaxTimeouts

PollDone ==
    /\ pc = "poll"
    /\ CaughtUp
    /\ completed' = completed \cup {calls}
    /\ pc' = "return"
    /\ UNCHANGED <<tpd_head, first, cpuVars, ramVars, txq_en, prod, sw_cons,
                   engineVars, calls, timeouts>>

\* The timeout: a message, and on as if sent.
PollTimeout ==
    /\ pc = "poll"
    /\ GivesUp
    /\ timeouts' = timeouts + 1
    /\ pc' = "return"
    /\ UNCHANGED <<tpd_head, first, cpuVars, ramVars, txq_en, prod, sw_cons,
                   engineVars, calls, completed>>

Return ==
    /\ pc = "return"
    /\ sw_cons' = tpd_head
    /\ pc' = "idle"
    /\ UNCHANGED <<tpd_head, first, cpuVars, ramVars, txq_en, prod, engineVars,
                   historyVars>>

SendSteps == \/ FlushPacket \/ FillTpds \/ Dsb \/ FlushTpds \/ Doorbell
             \/ PollDone \/ PollTimeout \/ Return

-----------------------------------------------------------------------------
(* The hardware (external): engine, store buffer and cache                 *)

\* The engine takes the TPD at its consumer index, reads the fragment and
\* moves on; at EOP the gathered fragments leave as one frame.
EngineFetch ==
    /\ txq_en /\ cons # prod
    /\ LET tpd   == tpd_ram[cons]
           piece == [frag |-> tpd.frag, data |-> pkt_ram, len |-> tpd.frame]
       IN  IF tpd.eop
           THEN /\ wire' = Append(wire, Append(gather, piece))
                /\ gather' = << >>
           ELSE /\ gather' = Append(gather, piece)
                /\ UNCHANGED wire
    /\ cons' = HwNext(cons)
    /\ UNCHANGED <<tpd_head, pc, first, cpuVars, ramVars, txq_en, prod,
                   sw_cons, historyVars>>

\* A store leaves the store buffer of its own accord.
DrainStore(t) ==
    /\ stores[t] # NoStore
    /\ tpd_cpu' = Drained({t})
    /\ stores' = [stores EXCEPT ![t] = NoStore]
    /\ UNCHANGED <<tpd_head, pc, first, pkt_cpu, ramVars, txq_en, prod,
                   sw_cons, engineVars, historyVars>>

\* A line of TPDs is written back of the cache's own accord.
EvictLine(l) ==
    /\ \E t \in Tpds : Line(t) = l /\ tpd_cpu[t] # tpd_ram[t]
    /\ tpd_ram' = [t \in Tpds |-> IF Line(t) = l THEN tpd_cpu[t]
                                                 ELSE tpd_ram[t]]
    /\ UNCHANGED <<tpd_head, pc, first, cpuVars, pkt_ram, txq_en, prod,
                   sw_cons, engineVars, historyVars>>

\* So is the packet.
EvictPacket ==
    /\ pkt_ram # pkt_cpu
    /\ pkt_ram' = pkt_cpu
    /\ UNCHANGED <<tpd_head, pc, first, cpuVars, tpd_ram, txq_en, prod,
                   sw_cons, engineVars, historyVars>>

Hardware == \/ EngineFetch
            \/ \E t \in Tpds : DrainStore(t) \/ EvictLine(Line(t))
            \/ EvictPacket

-----------------------------------------------------------------------------
\* Every send the bound allows has returned; the system may rest.
Done == pc = "idle" /\ calls = MaxSends /\ UNCHANGED vars

Next == InitDesc \/ StartTx \/ SendShort \/ Send \/ SendSteps \/ Hardware \/ Done

Spec == Init /\ [][Next]_vars

\* send is straight-line code, so its steps are taken; the engine drains a
\* queue that is enabled.  The driver promises nothing about calls to come.
FairSpec == Spec /\ WF_vars(SendSteps) /\ WF_vars(EngineFetch)

\* A send against an engine that owes nothing.
DriverFairSpec == Spec /\ WF_vars(SendSteps)

-----------------------------------------------------------------------------
(* Properties                                                              *)

Fragment == [frag : 0 .. PER, data : Nat, len : Nat]

TypeOK ==
    /\ tpd_head \in Tpds /\ first \in Tpds
    /\ pc \in {"alloc", "probed", "idle", "flush", "fill", "dsb", "clean",
               "doorbell", "poll", "return"}
    /\ stores \in [Tpds -> Tpd \cup {NoStore}]
    /\ tpd_cpu \in [Tpds -> Tpd] /\ tpd_ram \in [Tpds -> Tpd]
    /\ pkt_cpu \in Nat /\ pkt_ram \in Nat
    /\ txq_en \in BOOLEAN
    /\ prod \in Tpds /\ cons \in Tpds /\ sw_cons \in Tpds
    /\ gather \in Seq(Fragment) /\ wire \in Seq(Seq(Fragment))
    /\ calls \in Nat /\ timeouts \in Nat
    /\ completed \subseteq Nat

\* A frame as its sender meant it: every fragment in its place, all bytes and
\* the length from the same call.
Whole(id) == [i \in 1 .. PER |-> [frag |-> i, data |-> id, len |-> id]]

\* The stack reuses its one buffer, and the next send the same descriptors, as
\* soon as send returns: by then, and until the doorbell of the next send, the
\* engine has nothing left to read, as long as no send gave up.
EngineDoneWhenReturned ==
    /\ timeouts = 0
    /\ pc \in {"return", "idle", "flush", "fill", "dsb", "clean", "doorbell"}
    => cons = prod /\ gather = << >>

\* Frames on the wire by number, 0 for one that nobody sent.
FrameOf(w) == IF \E id \in 1 .. calls : w = Whole(id)
              THEN CHOOSE id \in 1 .. calls : w = Whole(id)
              ELSE 0

TxCalls == INSTANCE TxCall WITH
    busy   <- pc \notin {"alloc", "probed", "idle"},
    number <- calls,
    out    <- [k \in 1 .. Len(wire) |-> FrameOf(wire[k])],
    late   <- timeouts > 0

\* Until the engine is late for the first time, send is a synchronous call that
\* puts its frame, whole, on the wire exactly once: see TxCall.
ImplementsTxCall == TxCalls!TxSpec

\* send always returns, through the timeout if the engine has stopped for good.
SendReturns == pc = "flush" ~> pc = "idle"

\* However late the engine is, what it follows is the driver's: it never loads
\* a descriptor nobody filled (a DMA from a zero address), and it finds the
\* fragments of a frame in order with EOP on the last.
FramesWellFormed ==
    /\ \A i \in 1 .. Len(gather) : gather[i].frag = i
    /\ \A k \in 1 .. Len(wire) :
          /\ Len(wire[k]) = PER
          /\ \A i \in 1 .. PER : wire[k][i].frag = i

\* A send that saw cons = prod had its frame transmitted, also when it is the
\* stack's retry after a send that timed out and left the engine its descriptors.
CompletedIsTransmitted ==
    \A id \in completed : \E k \in 1 .. Len(wire) : wire[k] = Whole(id)
=============================================================================
