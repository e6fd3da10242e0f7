------------------------------- MODULE EdmaRx -------------------------------
(***************************************************************************)
(* The receive ring of the IPQ4019 EDMA driver (src/drivers/net/ipq4019.c):*)
(* edma_init_rfd_ring(), the RXQ half of edma_start_rx_tx() and            *)
(* ipq4019_eth_recv(), against the DMA engine and the data cache, neither  *)
(* of which is in the repository.                                          *)
(*                                                                         *)
(* The ring has N receive-free descriptors (RFDs), one buffer each.  The   *)
(* engine owns the slots from its consumer index up to, not including, the *)
(* producer index the driver writes to the doorbell; it puts a frame in a  *)
(* buffer behind a receive descriptor (RRD) and advances the consumer      *)
(* index.  The driver reads the consumer index, then the RRD, copies the   *)
(* frame out and hands the slot back.  Each of these touches is a step, so *)
(* that the engine runs in between.                                        *)
(*                                                                         *)
(* A buffer is more than one line of the cache: its first line, with the   *)
(* RRD and the first bytes, and the lines of the rest of the frame (one    *)
(* stands for them all) are written, loaded and dropped apart.  recv never *)
(* clears a VALID bit, so nothing in a buffer tells a new frame from that  *)
(* of the last lap: what recv returns is right only of frames whose data   *)
(* is in RAM before their index can be read.  The frames of which this is  *)
(* not so are the history "early".                                         *)
(***************************************************************************)
EXTENDS Integers, Sequences, FiniteSets

CONSTANTS N,           \* NO_OF_RX_DESC
          MaxLen,      \* maxlen of ipq4019_eth_recv(), the caller's buffer
          Sizes,       \* lengths frame k may have on the wire (rrd6), for each k
          MayBeEarly,  \* frames whose index may be visible before their data
          GarbageValid,\* possible VALID bits of a never-written buffer
          MaxFrames,   \* bound: frames accepted in a behaviour
          MaxRefused,  \* bound: frames turned away in a behaviour
          MaxCached,   \* bound: lines of the buffers the cache holds at once
          NotCached,   \* model value: no cache line
          Garbled      \* model value: a frame of which nothing is promised

ASSUME RingAssumption == N \in Nat /\ N >= 3
ASSUME FrameAssumption == MaxLen \in Nat /\ Sizes \in [1 .. MaxFrames -> SUBSET Nat]
ASSUME ModeAssumption == MayBeEarly \subseteq Nat /\ GarbageValid \subseteq BOOLEAN
ASSUME BoundAssumption == /\ MaxFrames \in Nat /\ MaxRefused \in Nat
                          /\ MaxCached \in Nat

Slots == 0 .. N - 1
AllSizes == UNION {Sizes[k] : k \in 1 .. MaxFrames}

\* The lines of a buffer: RRD and first bytes; the rest of the frame.
Parts == {"first", "rest"}

\* What a line holds: the number of the frame its bytes come from (0: none) and,
\* in the first line, the VALID bit of rrd7 and the length of rrd6.
Line == [valid : BOOLEAN, id : Nat, size : Nat]

\* What recv returns: the frames that the two ends of the data come from, *len.
Received == [head : Nat, body : Nat, len : Nat]

ASSUME CacheAssumption == NotCached \notin Line /\ Garbled \notin Received

VARIABLES
    rfd_head, rfd_tail,   \* driver: the fields of IpqEdmaDev
    pc,                   \* driver: where it is in start or recv
    uip,                  \* the caller's buffer and *len
    rxq_en,               \* register RXQ_CTRL, EN
    prod, cons,           \* register RFD_IDX_Q: producer, consumer
    sw_cons,              \* register RX_SW_CONS_IDX_Q
    ram,                  \* net_rx_packets[] in memory, line by line
    cache,                \* the cache's lines of net_rx_packets[]
    eng, eng_slot,        \* engine: what is left to do of the frame in hand, slot
    eng_frame,            \* engine: the frame in hand
    accepted, refused,    \* history: frames taken from / left on the wire
    early,                \* history: frames shown before their data was there
    delivered             \* history: frames returned to the caller

driverVars == <<rfd_head, rfd_tail, pc, uip, delivered>>
engineVars == <<cons, ram, eng, eng_slot, eng_frame, accepted, refused, early>>
vars == <<driverVars, engineVars, rxq_en, prod, sw_cons, cache>>

-----------------------------------------------------------------------------
(* Ring arithmetic                                                         *)

\* Mutant of Bump: the wrap is taken one slot early.
BumpEarly(i) == IF i + 2 = N THEN 0 ELSE i + 1

\* "head++; if (head == NO_OF_RX_DESC) head = 0;"
Bump(i) == IF i + 1 = N THEN 0 ELSE i + 1

\* The engine's own wrap, at the size in EDMA_REG_RX_DESC0.
HwNext(i) == IF i = N - 1 THEN 0 ELSE i + 1

\* Slots from a up to, not including, b.
Dist(a, b) == IF b >= a THEN b - a ELSE b - a + N

\* "if (length > maxlen) length = maxlen;"
Cut(n) == IF n > MaxLen THEN MaxLen ELSE n

-----------------------------------------------------------------------------
(* The state edma_alloc_rings() and the ESS reset leave behind: indices 0, *)
(* queue disabled, buffers fresh from the heap and not cleared.            *)
Init ==
    /\ rfd_head = 0 /\ rfd_tail = 0
    /\ pc = "probed"
    /\ uip = [head |-> 0, body |-> 0, len |-> 0]
    /\ rxq_en = FALSE
    /\ prod = 0 /\ cons = 0 /\ sw_cons = 0
    /\ \E v \in GarbageValid :
          ram = [s \in Slots |-> [p \in Parts |-> [valid |-> v, id |-> 0, size |-> 0]]]
    /\ cache = [s \in Slots |-> [p \in Parts |-> NotCached]]
    /\ eng = {} /\ eng_slot = 0
    /\ eng_frame = [valid |-> FALSE, id |-> 0, size |-> 0]
    /\ accepted = 0 /\ refused = 0 /\ early = {}
    /\ delivered = << >>

-----------------------------------------------------------------------------
(* Driver: ipq4019_eth_start()                                             *)

\* Mutant of FirstHead: one slot too few given to the engine.
FirstHeadShort == N - 2
FirstHead == N - 1

InitRfdRing ==
    /\ pc = "probed"
    /\ rfd_head' = FirstHead
    /\ rfd_tail' = 0
    /\ prod' = rfd_head'
    /\ pc' = "ring"
    /\ UNCHANGED <<uip, delivered, engineVars, rxq_en, sw_cons, cache>>

StartRx ==
    /\ pc = "ring"
    /\ rxq_en' = TRUE
    /\ pc' = "idle"
    /\ UNCHANGED <<rfd_head, rfd_tail, uip, delivered, engineVars, prod,
                   sw_cons, cache>>

-----------------------------------------------------------------------------
(* Driver: ipq4019_eth_recv()                                              *)

\* Mutant of FrameWaiting: no look at the index, only at the RRD.
AlwaysWaiting == TRUE

\* "hw_tail == p->rfd_tail" is the driver's test for an empty ring.
FrameWaiting == cons # rfd_tail

\* Nothing was received: recv returns, *len 0.
PollEmpty ==
    /\ pc = "idle"
    /\ ~FrameWaiting
    /\ UNCHANGED vars

\* Mutants of Invalidated: invalidate_range() left out; over the RRD alone.
NotInvalidated == cache
InvalidatedRrd == [cache EXCEPT ![rfd_tail]["first"] = NotCached]

\* The cache after invalidate_range(rx_pkt, EDMA_RX_BUF_SIZE).
Invalidated == [cache EXCEPT ![rfd_tail] = [p \in Parts |-> NotCached]]

\* The index says that a frame is there: its buffer's lines are invalidated.
PollIndex ==
    /\ pc = "idle"
    /\ FrameWaiting
    /\ cache' = Invalidated
    /\ pc' = "rrd"
    /\ UNCHANGED <<rfd_head, rfd_tail, uip, delivered, engineVars, rxq_en,
                   prod, sw_cons>>

\* A CPU load from a line of slot s: from the cache when it holds the line.  A
\* load that misses and leaves the line behind is a Fill and a load that hits.
Seen(s, p) == IF cache[s][p] = NotCached THEN ram[s][p] ELSE cache[s][p]

\* The RRD is tested.  Not VALID: recv returns and leaves the slot where it
\* is, for the next poll to look at again.
CheckRrd ==
    /\ pc = "rrd"
    /\ pc' = IF Seen(rfd_tail, "first").valid THEN "copy" ELSE "idle"
    /\ UNCHANGED <<rfd_head, rfd_tail, uip, delivered, engineVars, rxq_en,
                   prod, sw_cons, cache>>

\* The length and the data are loaded when the RRD has been believed, with no
\* second invalidation.
CopyOut ==
    /\ pc = "copy"
    /\ uip' = [head |-> Seen(rfd_tail, "first").id,
               body |-> Seen(rfd_tail, "rest").id,
               len  |-> Cut(Seen(rfd_tail, "first").size)]
    /\ pc' = "recycle"
    /\ UNCHANGED <<rfd_head, rfd_tail, delivered, engineVars, rxq_en, prod,
                   sw_cons, cache>>

\* The doorbell gets the head from before it is advanced.
Recycle ==
    /\ pc = "recycle"
    /\ prod' = rfd_head
    /\ rfd_head' = Bump(rfd_head)
    /\ rfd_tail' = Bump(rfd_tail)
    /\ pc' = "return"
    /\ UNCHANGED <<uip, delivered, engineVars, rxq_en, sw_cons, cache>>

Return ==
    /\ pc = "return"
    /\ sw_cons' = rfd_tail
    /\ delivered' = Append(delivered, uip)
    /\ pc' = "idle"
    /\ UNCHANGED <<rfd_head, rfd_tail, uip, engineVars, rxq_en, prod, cache>>

Recv == PollEmpty \/ PollIndex \/ CheckRrd \/ CopyOut \/ Recycle \/ Return

-----------------------------------------------------------------------------
(* The hardware (external): the engine and the data cache                  *)

\* The engine takes a frame from the wire for the slot at its consumer index:
\* two lines to write and an index to publish, in an order of its own.
EngineTake(n) ==
    /\ rxq_en /\ eng = {} /\ cons # prod
    /\ accepted < MaxFrames /\ n \in Sizes[accepted + 1]
    /\ accepted' = accepted + 1
    /\ eng' = Parts \cup {"index"}
    /\ eng_slot' = cons
    /\ eng_frame' = [valid |-> TRUE, id |-> accepted + 1, size |-> n]
    /\ UNCHANGED <<driverVars, cons, ram, refused, early, rxq_en, prod, sw_cons,
                   cache>>

EngineWrite(p) ==
    /\ p \in eng
    /\ ram' = [ram EXCEPT ![eng_slot][p] = eng_frame]
    /\ eng' = eng \ {p}
    /\ UNCHANGED <<driverVars, cons, eng_slot, eng_frame, accepted, refused,
                   early, rxq_en, prod, sw_cons, cache>>

\* The index is published: after the data or, of some frames, before it is all
\* in RAM, whatever the buffer's VALID bit.
EnginePublish ==
    /\ "index" \in eng
    /\ eng = {"index"} \/ accepted \in MayBeEarly
    /\ cons' = HwNext(cons)
    /\ eng' = eng \ {"index"}
    /\ early' = IF eng' = {} THEN early ELSE early \cup {accepted}
    /\ UNCHANGED <<driverVars, ram, eng_slot, eng_frame, accepted, refused,
                   rxq_en, prod, sw_cons, cache>>

\* A frame that finds no free descriptor is lost.
EngineRefuse ==
    /\ rxq_en /\ eng = {} /\ cons = prod
    /\ refused < MaxRefused
    /\ refused' = refused + 1
    /\ UNCHANGED <<driverVars, cons, ram, eng, eng_slot, eng_frame, accepted,
                   early, rxq_en, prod, sw_cons, cache>>

EngineGoesOn == EnginePublish \/ \E p \in Parts : EngineWrite(p)
Engine == (\E n \in AllSizes : EngineTake(n)) \/ EngineGoesOn \/ EngineRefuse

\* The core may load a line at any time, on its own account too, and drop it.
Fill(s, p) ==
    /\ cache[s][p] = NotCached
    /\ Cardinality({l \in Slots \X Parts : cache[l[1]][l[2]] # NotCached}) < MaxCached
    /\ cache' = [cache EXCEPT ![s][p] = ram[s][p]]
    /\ UNCHANGED <<driverVars, engineVars, rxq_en, prod, sw_cons>>

Evict(s, p) ==
    /\ cache[s][p] # NotCached
    /\ cache' = [cache EXCEPT ![s][p] = NotCached]
    /\ UNCHANGED <<driverVars, engineVars, rxq_en, prod, sw_cons>>

-----------------------------------------------------------------------------
Next == \/ InitRfdRing \/ StartRx \/ Recv
        \/ Engine
        \/ \E s \in Slots, p \in Parts : Fill(s, p) \/ Evict(s, p)

Spec == Init /\ [][Next]_vars

\* The bootloader polls from a loop that never ends (net_poll), so a step of
\* start or recv that can be taken is taken; the engine finishes the frame it has
\* in hand.  Nothing obliges a frame to arrive.
Fairness == /\ WF_vars(InitRfdRing \/ StartRx)
            /\ WF_vars(Recv)
            /\ WF_vars(EngineGoesOn)

FairSpec == Spec /\ Fairness

-----------------------------------------------------------------------------
(* Properties                                                              *)

TypeOK ==
    /\ rfd_head \in Slots /\ rfd_tail \in Slots
    /\ pc \in {"probed", "ring", "idle", "rrd", "copy", "recycle", "return"}
    /\ uip \in Received
    /\ rxq_en \in BOOLEAN
    /\ prod \in Slots /\ cons \in Slots /\ sw_cons \in Slots
    /\ ram \in [Slots -> [Parts -> Line]]
    /\ cache \in [Slots -> [Parts -> Line \cup {NotCached}]]
    /\ eng \subseteq Parts \cup {"index"}
    /\ eng_slot \in Slots
    /\ eng_frame \in Line
    /\ accepted \in Nat /\ refused \in Nat
    /\ early \subseteq MayBeEarly
    /\ delivered \in Seq(Received)

\* While recv holds the slot at the tail, from the moment it believed the
\* consumer index until it rang the doorbell, the engine does not own that slot;
\* and from the moment it believed the RRD no write to it is under way, but for
\* the late data of a frame whose index came early.
EngineKeepsOff ==
    /\ pc \in {"rrd", "copy", "recycle"} =>
           Dist(cons, rfd_tail) >= Dist(cons, prod)
    /\ pc \in {"copy", "recycle"} /\ eng # {} /\ eng_slot = rfd_tail =>
           accepted \in early

\* recv takes "consumer index = rfd_tail" for "nothing received" although
\* indices wrap: the indices must therefore always count the frames that are
\* in the ring, so that a ring full of frames never looks empty.
IndicesCountFrames ==
    Dist(rfd_tail, cons) = accepted - Len(delivered)
                           - (IF "index" \in eng THEN 1 ELSE 0)
                           - (IF pc = "return" THEN 1 ELSE 0)

\* Every frame recv returns is the next one the engine accepted, all of it: none
\* skipped in the wrap, none returned twice, none torn or read from a previous
\* lap through a stale RRD or stale lines.  An early frame may be any of these,
\* but it takes the place of no other.
DeliveredInOrder ==
    /\ \A i \in 1 .. Len(delivered) :
          i \notin early => delivered[i].head = i /\ delivered[i].body = i
    /\ pc \in {"recycle", "return"} =>
          \A i \in {Len(delivered) + 1} :
             i \notin early => uip.head = i /\ uip.body = i

\* The frames in the ring, oldest first: the one recv is about to return and
\* the published slots from the tail on.
Handed == Len(delivered) + (IF pc = "return" THEN 1 ELSE 0)
Shown(k, f) == IF k \in early THEN Garbled ELSE f
InRing(i) == IF rfd_tail + i < N THEN rfd_tail + i ELSE rfd_tail + i - N
Stored(s) == [head |-> ram[s]["first"].id, body |-> ram[s]["rest"].id,
              len  |-> Cut(ram[s]["first"].size)]
FrameAt(s) == Shown(Handed + 1 + Dist(rfd_tail, s), Stored(s))
queue == (IF pc = "return" THEN <<Shown(Handed, uip)>> ELSE << >>)
         \o [i \in 1 .. Dist(rfd_tail, cons) |-> FrameAt(InRing(i - 1))]
returned == [i \in 1 .. Len(delivered) |-> Shown(i, delivered[i])]

Fifo == INSTANCE RxFifo WITH Capacity  <- N - 1,
                             Slack     <- 1,
                             Lengths   <- {Cut(n) : n \in AllSizes},
                             Doubtful  <- MayBeEarly,
                             delivered <- returned

\* The ring implements the bounded FIFO channel: see RxFifo.  The one unusable
\* place beyond the usual one is the doorbell that lags a slot behind.
ImplementsFifo == Fifo!FifoSpec

\* Every frame the engine accepted is returned by some later recv, the ones
\* whose RRD was not yet VALID when recv first looked included.
AcceptedIsDelivered ==
    \A k \in 1 .. MaxFrames : accepted >= k ~> Len(delivered) >= k
=============================================================================
