------------------------------ MODULE Essedma ------------------------------
(***************************************************************************)
(* The life of the U-Boot driver the port is made from (reference/         *)
(* uboot-essedma.c): probe with its error paths, start and stop around     *)
(* every use of the network, the receive ring that outlives a stop, and    *)
(* remove.  The port starts once and never stops.  The stack above, which  *)
(* holds a received packet from recv to free_pkt and stops the device only *)
(* in between, the engine and the memory allocator are external.           *)
(***************************************************************************)
EXTENDS Naturals, Sequences

CONSTANTS N,         \* PKTBUFSRX, the size of the receive ring
          WAN,       \* ESS_PORTS_NUM - 1, the WAN port; port 0 is the CPU's
          MaxProbes, \* bound: calls of essedma_probe()
          MaxStarts, \* bound: calls of ipq40xx_eth_start()
          MaxFrames, \* bound: frames the engine receives after a reset
          MayBeEarly \* frames whose index may be visible before their data

ASSUME SizeAssumption == N \in Nat /\ N > 2 /\ WAN \in Nat /\ WAN > 1
ASSUME BoundAssumption == /\ MaxProbes \in Nat /\ MaxStarts \in Nat
                          /\ MaxFrames \in Nat /\ MayBeEarly \subseteq Nat

Slots == 0 .. N - 1
Ports == 0 .. WAN
CPU == 0
LAN == 1 .. WAN - 1

VARIABLES
    pc, i,       \* driver: where it is, and the index of a port loop
    clk, rst,    \* ESS clock enabled, ESS reset asserted
    rings,       \* memory: descriptor rings allocated
    base,        \* engine: the rings its base registers point into
    rxq,         \* engine: receive queue enabled
    members,     \* switch: port VID members of every port
    head, tail,  \* driver: of rfd_ring
    prod, cons,  \* register RFD_IDX_Q
    slot,        \* net_rx_packets[]: VALID bit of each and the number of the
                 \* frame it holds (0: none of this reset's)
    late,        \* engine: the last frame's data is still to be written
    got, frames, \* history: what the stack was handed for each slot it freed
                 \* or holds (0: nothing), number of frames received by the
                 \* engine, both since the last reset
    early,       \* history: frames shown before their data was there
    probes, starts, \* history
    startedAt,   \* history: consumer index that the last start found
    pending      \* history: some start since the reset found frames nobody
                 \* had taken

ringVars == <<head, tail, prod, cons, slot, late, got, frames, early, startedAt,
              pending>>
blockVars == <<clk, rst, rings, base, rxq, members>>
vars == <<pc, i, blockVars, ringVars, probes, starts>>

\* The switch after a reset; an engine some other software left running.
AllForward == [p \in Ports |-> Ports \ {p}]

Init ==
    /\ pc = "off" /\ i = 0
    /\ clk \in BOOLEAN /\ rst \in BOOLEAN
    /\ rings = {}
    /\ \E on \in BOOLEAN : rxq = on /\ base = IF on THEN "foreign" ELSE "none"
    /\ members = AllForward
    /\ head = 0 /\ tail = 0 /\ prod = 0 /\ cons = 0
    /\ \E v \in BOOLEAN : slot = [s \in Slots |-> [valid |-> v, id |-> 0]]
    /\ late = FALSE /\ got = << >> /\ frames = 0 /\ early = {}
    /\ probes = 0 /\ starts = 0 /\ startedAt = 0 /\ pending = FALSE

Goto(a, b) == pc = a /\ pc' = b

-----------------------------------------------------------------------------
(* essedma_probe()                                                         *)

\* clk_enable(); a failure of it, or before it, changes nothing.
ProbeClock ==
    /\ pc = "off" /\ probes < MaxProbes
    /\ probes' = probes + 1
    /\ \/ clk' = TRUE /\ pc' = "reset"
       \/ UNCHANGED <<clk, pc>>
    /\ UNCHANGED <<i, rst, rings, base, rxq, members, ringVars, starts>>

\* Mutant of EssReset: the reset is left out.
NoEssReset == /\ Goto("reset", "devices")
              /\ UNCHANGED <<i, blockVars, ringVars, probes, starts>>

\* ess_reset(): engine and switch start from nothing, and so do the histories;
\* the buffers keep the VALID bits of what they held.
EssReset ==
    /\ Goto("reset", "devices")
    /\ rst' = FALSE
    /\ rxq' = FALSE /\ base' = "none" /\ prod' = 0 /\ cons' = 0
    /\ members' = AllForward
    /\ slot' = [s \in Slots |-> [slot[s] EXCEPT !.id = 0]]
    /\ late' = FALSE /\ got' = << >> /\ frames' = 0 /\ early' = {}
    /\ pending' = FALSE
    /\ UNCHANGED <<i, clk, rings, head, tail, startedAt, probes, starts>>

\* The MDIO device, essedma_of_switch() and essedma_of_phy(): any may fail.
FindDevices ==
    /\ pc = "devices" /\ pc' \in {"switch", "err"}
    /\ UNCHANGED <<i, blockVars, ringVars, probes, starts>>

\* PSGMII or RGMII, then ess_switch_init(): no port reaches any other.
SwitchInit ==
    /\ Goto("switch", "alloc")
    /\ members' = [p \in Ports |-> {}]
    /\ UNCHANGED <<i, clk, rst, rings, base, rxq, ringVars, probes, starts>>

\* Mutant of AfterFailedAlloc: the transmit ring is kept.
KeepTpdRing == rings
AfterFailedAlloc == {}

\* ipq40xx_edma_alloc_tx_rx_rings(); when the second allocation fails the first
\* ring is freed.
AllocTpd ==
    /\ pc = "alloc"
    /\ \/ rings' = {"tpd"} /\ pc' = "alloc2"
       \/ pc' = "err" /\ UNCHANGED rings
    /\ UNCHANGED <<i, clk, rst, base, rxq, members, ringVars, probes, starts>>

AllocRfd ==
    /\ pc = "alloc2"
    /\ \/ /\ rings' = {"tpd", "rfd"} /\ pc' = "desc"
          /\ head' = 0 /\ tail' = 0
       \/ /\ rings' = AfterFailedAlloc /\ pc' = "err"
          /\ UNCHANGED <<head, tail>>
    /\ UNCHANGED <<i, clk, rst, base, rxq, members, prod, cons, slot, late, got,
                   frames, early, startedAt, pending, probes, starts>>

\* ipq40xx_edma_stop_rx_tx(), ipq40xx_edma_configure(), which writes the queue
\* control register anew, and only then the base registers.
Configure ==
    /\ Goto("desc", "base")
    /\ rxq' = FALSE
    /\ UNCHANGED <<i, clk, rst, rings, base, members, ringVars, probes, starts>>

InitDesc ==
    /\ Goto("base", "close")
    /\ base' = "ours"
    /\ UNCHANGED <<i, clk, rst, rings, rxq, members, ringVars, probes, starts>>

\* A loop "for (i = 0; i < ESS_PORTS_NUM; i++)" that gives port i its members.
PortLoop(a, b, of) ==
    /\ pc = a
    /\ members' = [members EXCEPT ![i] = of]
    /\ IF i = WAN THEN pc' = b /\ i' = 0
                  ELSE pc' = a /\ i' = i + 1
    /\ UNCHANGED <<clk, rst, rings, base, rxq, ringVars, probes, starts>>

\* Mutant of DisabledMembers: the WAN port keeps the CPU port.
DisabledButWan(p) == IF p = CPU THEN {}
                     ELSE IF p = WAN THEN {CPU} ELSE LAN \ {p}

\* ess_switch_disable_lookup(), ess_switch_enable_lookup()
DisabledMembers(p) == IF p \in {CPU, WAN} THEN {} ELSE LAN \ {p}
EnabledMembers(p) == CASE p = CPU -> Ports \ {CPU}
                       [] p = WAN -> {CPU}
                       [] OTHER   -> ({CPU} \cup LAN) \ {p}

ProbeDisableLookup == PortLoop("close", "stopped", DisabledMembers(i))

ProbeError ==
    /\ Goto("err", "off")
    /\ rst' = TRUE /\ clk' = FALSE
    /\ UNCHANGED <<i, rings, base, rxq, members, ringVars, probes, starts>>

Probe == \/ ProbeClock \/ EssReset \/ FindDevices \/ SwitchInit
         \/ AllocTpd \/ AllocRfd \/ Configure \/ InitDesc
         \/ ProbeDisableLookup \/ ProbeError

-----------------------------------------------------------------------------
(* ipq40xx_eth_start(), _stop(), essedma_remove()                          *)

\* Mutant of StartRing: the tail starts anew as well, as it does in the port.
StartRingResetsTail ==
    /\ Goto("stopped", "queues") /\ starts < MaxStarts
    /\ starts' = starts + 1
    /\ head' = N - 1 /\ prod' = N - 1 /\ tail' = 0
    /\ startedAt' = cons
    /\ pending' = (pending \/ cons # tail)
    /\ UNCHANGED <<i, blockVars, cons, slot, late, got, frames, early, probes>>

\* ipq40xx_edma_init_rfd_ring(): head and producer index anew; the tail and the
\* engine's consumer index stay where the last stop left them.
StartRing ==
    /\ Goto("stopped", "queues") /\ starts < MaxStarts
    /\ starts' = starts + 1
    /\ head' = N - 1 /\ prod' = N - 1
    /\ startedAt' = cons
    /\ pending' = (pending \/ cons # tail)
    /\ UNCHANGED <<i, blockVars, tail, cons, slot, late, got, frames, early,
                   probes>>

StartQueues ==
    /\ Goto("queues", "open")
    /\ rxq' = TRUE
    /\ UNCHANGED <<i, clk, rst, rings, base, members, ringVars, probes, starts>>

StartLookup == PortLoop("open", "up", EnabledMembers(i))

StopLookup == \/ /\ Goto("up", "shut")
                 /\ UNCHANGED <<i, blockVars, ringVars, probes, starts>>
              \/ PortLoop("shut", "shut2", DisabledMembers(i))

StopQueues ==
    /\ Goto("shut2", "stopped")
    /\ rxq' = FALSE
    /\ UNCHANGED <<i, clk, rst, rings, base, members, ringVars, probes, starts>>

\* The rings are freed before the clock stops and the block is reset.
RemoveRings ==
    /\ Goto("stopped", "removing")
    /\ rings' = {}
    /\ UNCHANGED <<i, clk, rst, base, rxq, members, ringVars, probes, starts>>

RemoveBlock ==
    /\ Goto("removing", "off")
    /\ clk' = FALSE /\ rst' = TRUE
    /\ UNCHANGED <<i, rings, base, rxq, members, ringVars, probes, starts>>

Life == \/ StartRing \/ StartQueues \/ StartLookup \/ StopLookup \/ StopQueues
        \/ RemoveRings \/ RemoveBlock

-----------------------------------------------------------------------------
(* Reception                                                               *)

\* ipq40xx_eth_recv(): a slot at the tail with the VALID bit is handed to the
\* stack; without it recv returns 0, which is no error, and no packet.
Recv ==
    /\ pc = "up" /\ cons # tail
    /\ \/ /\ slot[tail].valid
          /\ pc' = "held" /\ got' = Append(got, slot[tail].id)
       \/ /\ ~slot[tail].valid
          /\ pc' = "zero" /\ UNCHANGED got
    /\ UNCHANGED <<i, blockVars, head, tail, prod, cons, slot, late, frames,
                   early, startedAt, pending, probes, starts>>

\* Mutant of Doorbell: the tail in its place.
DoorbellTail == (tail + 1) % N
Doorbell == head

\* ipq40xx_eth_free_pkt(): the doorbell rings before the head moves on.  The
\* stack frees what it was handed, and may do so when it was handed nothing.
FreePkt ==
    /\ pc \in {"held", "zero"} /\ pc' = "up"
    /\ got' = IF pc = "zero" THEN Append(got, 0) ELSE got
    /\ prod' = Doorbell
    /\ head' = (head + 1) % N
    /\ tail' = (tail + 1) % N
    /\ UNCHANGED <<i, blockVars, cons, slot, late, frames, early, startedAt,
                   pending, probes, starts>>

\* The stack takes the 0 for an empty ring and comes again (external).
IgnoreZero == /\ Goto("zero", "up")
              /\ UNCHANGED <<i, blockVars, ringVars, probes, starts>>

\* The engine fills the slot at its consumer index (external): data and index at
\* once, or, of a frame that may be early, the index first.  It is done with a
\* frame before it takes the next.
Filled == [valid |-> TRUE, id |-> frames']

Receive ==
    /\ rxq /\ clk /\ ~rst /\ base = "ours"
    /\ \E p \in Ports : CPU \in members[p]
    /\ cons # prod /\ frames < MaxFrames /\ ~late
    /\ frames' = frames + 1
    /\ cons' = (cons + 1) % N
    /\ \/ /\ slot' = [slot EXCEPT ![cons] = Filled]
          /\ UNCHANGED <<late, early>>
       \/ /\ frames' \in MayBeEarly
          /\ late' = TRUE /\ early' = early \cup {frames'}
          /\ UNCHANGED slot
    /\ UNCHANGED <<pc, i, blockVars, head, tail, prod, got, startedAt, pending,
                   probes, starts>>

\* The slot received into last.
LastSlot == IF cons = 0 THEN N - 1 ELSE cons - 1

\* The data of an early frame, at any time until the next reset (external).
LateData ==
    /\ late /\ late' = FALSE
    /\ slot' = [slot EXCEPT ![LastSlot] = [valid |-> TRUE, id |-> frames]]
    /\ UNCHANGED <<pc, i, blockVars, head, tail, prod, cons, got, frames, early,
                   startedAt, pending, probes, starts>>

-----------------------------------------------------------------------------
\* A driver that is not probed, or is stopped, may stay so.
Rest == pc \in {"off", "stopped"} /\ UNCHANGED vars

Next == \/ Probe \/ Life \/ Recv \/ FreePkt \/ IgnoreZero
        \/ Receive \/ LateData \/ Rest

Spec == Init /\ [][Next]_vars

-----------------------------------------------------------------------------
(* Properties                                                              *)

\* A probe that failed after it had the clock gives everything back: the block
\* is in reset without a clock and no ring stays allocated.
FailedProbeLeavesNothing ==
    [][pc = "err" /\ pc' = "off" => ~clk' /\ rst' /\ rings' = {}]_vars

\* From the reset of the first probe on the engine never receives into memory
\* that is not this driver's ring, be it freed by remove or a failed probe, or
\* left programmed by other software.
DmaOnlyIntoRings ==
    rxq /\ clk /\ ~rst /\ pc \notin {"off", "reset"} =>
        base = "ours" /\ rings = {"tpd", "rfd"}

\* While the receive queue is off no port reaches the CPU port, in any half
\* written state of the port loops of start and stop.
ClosedWhenDeaf ==
    pc \in {"stopped", "queues", "open", "up", "held", "zero", "shut", "shut2"} =>
        ((\E p \in Ports : CPU \in members[p]) => rxq)

\* Whatever becomes of recv's "no packet", every frame whose data was in RAM
\* before its index is handed to the stack once and in its place, and the one the
\* stack holds is not written over; unless a start found frames of the session
\* before it in the ring, since it tells the engine that they are free.  A frame
\* shown before its data may be lost or be an old one, but takes no other's place.
HandedInOrder ==
    ~pending =>
        /\ \A k \in 1 .. Len(got) : k \notin early => got[k] = k
        /\ pc = "held" /\ Len(got) \notin early => slot[tail].id = Len(got)

\* With nothing waiting the engine has a slot to receive into, unless the start
\* before found the consumer index at one of the last two slots: a start writes
\* the last slot as producer index, and the first doorbell after it writes the
\* same index again.  From there no frame is received until the next probe.
DeafOnlyFromLastSlots ==
    ~pending /\ pc = "up" /\ cons = tail /\ cons = prod =>
        startedAt \in {N - 2, N - 1}
=============================================================================
