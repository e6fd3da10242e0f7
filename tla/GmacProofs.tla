----------------------------- MODULE GmacProofs -----------------------------
(* Proofs about Gmac, for every number of descriptors that the code's      *)
(* comparison with the wrong constant allows, every set of frame lengths,  *)
(* every size of the caller's buffer and any number of frames.             *)
EXTENDS Gmac, Integers, TLAPS, SequenceTheorems

-----------------------------------------------------------------------------
(* Ring arithmetic                                                         *)

\* The receive descriptors one meets from a on before b.
Dist(a, b) == IF a <= b THEN b - a ELSE b + NumRx - a
Wrap(d) == IF d = NumRx - 1 THEN 0 ELSE d + 1

\* "(x + 1) % count", as driver and DMA advance their indices.
LEMMA WrapIsMod ==
    ASSUME NEW d \in RxSlots
    PROVE  (d + 1) % NumRx = Wrap(d) /\ Wrap(d) \in RxSlots /\ Wrap(d) # d
BY RingAssumption DEF RxSlots, Wrap

\* A distance around the ring is less than the ring and 0 only to oneself.
LEMMA DistInRing ==
    ASSUME NEW a \in RxSlots, NEW b \in RxSlots
    PROVE  Dist(a, b) \in 0 .. NumRx - 1 /\ ((Dist(a, b) = 0) <=> (a = b))
BY RingAssumption DEF RxSlots, Dist

\* Advancing the far end adds one, unless it arrives at the near end; the near
\* end takes one off, unless it was there, and then is farthest from it.
LEMMA DistWrap ==
    ASSUME NEW a \in RxSlots, NEW b \in RxSlots
    PROVE  /\ Dist(a, b) < NumRx - 1 => Dist(a, Wrap(b)) = Dist(a, b) + 1
           /\ Dist(a, b) = NumRx - 1 => Wrap(b) = a
           /\ a # b => Dist(Wrap(a), b) = Dist(a, b) - 1
           /\ Dist(Wrap(a), a) = NumRx - 1
BY RingAssumption DEF RxSlots, Dist, Wrap

\* The distance from a descriptor tells the descriptors of the ring apart.
LEMMA DistInjective ==
    ASSUME NEW a \in RxSlots, NEW b \in RxSlots, NEW c \in RxSlots,
           Dist(a, b) = Dist(a, c)
    PROVE  b = c
BY RingAssumption DEF RxSlots, Dist

-----------------------------------------------------------------------------
(* Types                                                                   *)

TxDesc == [owned : BOOLEAN, frame : Nat, eor : BOOLEAN]

Labels == {"init", "idle", "look", "copy", "recycle", "give", "clean",
           "demand", "wait", "reset"}

RxTypeOK == /\ next_rx \in RxSlots /\ rx_cur \in RxSlots
            /\ len \in Nat /\ out \in Seq(Nat) /\ delivered \in Seq(Nat)
            /\ received \in Seq(Nat)
            /\ rx_ram \in [RxSlots -> RxDesc]
            /\ rx_cache \in [RxSlots -> RxDesc \cup {NotCached}]
            /\ buf_ram \in [RxSlots -> Nat]
            /\ buf_cache \in [RxSlots -> Nat \cup {NotCached}]
            /\ rx_eng \in {"off", "idle", "close"}
            /\ (pc = "init" <=> rx_eng = "off")

TxTypeOK == /\ pc \in Labels
            /\ next_tx \in TxSlots /\ tx_cur \in TxSlots
            /\ tx_ram \in [TxSlots -> TxDesc]
            /\ tx_eng \in {"off", "suspended", "running", "close"}
            /\ pkt_cpu \in Nat /\ pkt_ram \in Nat /\ fetched \in Nat
            /\ wire \in Seq(Nat) /\ sends \in Nat /\ timeouts \in Nat

-----------------------------------------------------------------------------
(* The transmit side                                                       *)

\* Only the descriptor of the send under way is the DMA's, and the end of the
\* ring is marked nowhere but at its end.
OneOwned ==
    \A d \in TxSlots :
        /\ tx_ram[d].owned =>
              d = next_tx /\ pc \in {"clean", "demand", "wait", "reset"}
        /\ tx_ram[d].eor => d = NumTx - 1

\* The send's descriptor is with the DMA; it is done with it.
TxGiven == /\ tx_cur = next_tx /\ tx_ram[next_tx].owned
           /\ tx_ram[next_tx].frame = sends
           /\ Len(wire) + 1 = sends
TxOver == /\ tx_eng = "suspended" /\ ~tx_ram[next_tx].owned
          /\ tx_cur = (next_tx + 1) % NumTx
          /\ Len(wire) = sends

\* Until a send gives up, the DMA is at the driver's descriptor, and runs only
\* for a packet that is in RAM.
InStep ==
    timeouts = 0 =>
        /\ \A k \in 1 .. Len(wire) : wire[k] = k
        /\ pkt_cpu = sends
        /\ pc = "init" => tx_eng = "off" /\ next_tx = 0 /\ Len(wire) = sends
        /\ pc \in {"idle", "look", "copy", "recycle"} =>
              tx_eng = "suspended" /\ tx_cur = next_tx /\ Len(wire) = sends
        /\ pc = "give" => /\ tx_eng = "suspended" /\ tx_cur = next_tx
                          /\ Len(wire) + 1 = sends
        /\ pc = "clean" => TxGiven /\ tx_eng = "suspended"
        /\ pc = "demand" => /\ TxGiven /\ tx_eng = "suspended"
                            /\ pkt_ram = sends
        /\ pc = "wait" => /\ pkt_ram = sends
                          /\ \/ TxGiven /\ tx_eng = "running"
                             \/ TxGiven /\ tx_eng = "close" /\ fetched = sends
                             \/ TxOver
        /\ pc = "reset" => TxOver

TxInv == TxTypeOK /\ OneOwned /\ InStep

-----------------------------------------------------------------------------
(* The transmit side: the steps                                            *)

\* "(x + 1) % count", as driver and DMA advance their indices, and the other
\* way round, by the mark at the end of the ring.
LEMMA TxWrap ==
    ASSUME NEW d \in TxSlots
    PROVE  /\ (d + 1) % NumTx \in TxSlots /\ (d + 1) % NumTx # d
           /\ d = NumTx - 1 => (d + 1) % NumTx = 0
           /\ 0 \in TxSlots
BY RingAssumption DEF TxSlots

\* ipq_gmac_tx_rx_desc_ring() marks the last descriptor.
LEMMA TxInit == Init => TxInv
<1> SUFFICES ASSUME Init PROVE TxInv
    OBVIOUS
<1>1. ASSUME NEW d \in TxSlots
      PROVE  /\ TxFree(d, NumTx - 1) \in TxDesc
             /\ ~TxFree(d, NumTx - 1).owned
             /\ TxFree(d, NumTx - 1).eor => d = NumTx - 1
    BY DEF TxFree, TxDesc
<1>2. tx_ram = [d \in TxSlots |-> TxFree(d, NumTx - 1)]
    BY DEF Init
<1>3. tx_ram \in [TxSlots -> TxDesc] /\ OneOwned
    BY <1>1, <1>2 DEF OneOwned
<1>4. TxTypeOK
    BY <1>3, RingAssumption DEF Init, TxTypeOK, TxSlots, Labels
<1>5. InStep
    BY DEF Init, InStep
<1> QED BY <1>3, <1>4, <1>5 DEF TxInv

\* A step that leaves the transmit side alone, and the driver outside of send.
LEMMA TxUntouched ==
    ASSUME TxInv, UNCHANGED txVars,
           \/ pc' = pc
           \/ {pc, pc'} \subseteq {"idle", "look", "copy", "recycle"}
    PROVE  TxInv'
<1>1. TxTypeOK'
    BY DEF TxInv, TxTypeOK, txVars, txDriverVars, Labels
<1>2. OneOwned'
    BY DEF TxInv, OneOwned, txVars, txDriverVars
<1>3. InStep'
    BY DEF TxInv, InStep, TxGiven, TxOver, txVars, txDriverVars
<1> QED BY <1>1, <1>2, <1>3 DEF TxInv

\* The steps of the driver.
LEMMA TxDriverKeeps ==
    ASSUME TxInv, Start \/ Send \/ SendSteps
    PROVE  TxInv'
<1> USE DEF TxInv, TxTypeOK, Labels, TxDesc
<1>1. CASE Start
    BY <1>1, TxWrap DEF Start, OneOwned, InStep, txDriverVars
<1>2. CASE Send
    <2>1. ~tx_ram[next_tx].owned
        BY <1>2 DEF Send, OneOwned
    <2> QED BY <1>2, <2>1 DEF Send, OneOwned, InStep
<1>3. CASE GiveTx
    <2>1. /\ tx_ram' \in [TxSlots -> TxDesc]
          /\ \A d \in TxSlots : tx_ram'[d] =
                IF d = next_tx THEN [tx_ram[d] EXCEPT !.owned = TRUE,
                                                      !.frame = sends]
                ELSE tx_ram[d]
        BY <1>3 DEF GiveTx
    <2>2. ASSUME NEW d \in TxSlots
          PROVE  /\ tx_ram'[d].owned => d = next_tx /\ pc' = "clean"
                 /\ tx_ram'[d].eor => d = NumTx - 1
        <3>1. tx_ram[d] \in TxDesc /\ (tx_ram[d].eor => d = NumTx - 1)
              /\ ~tx_ram[d].owned
            BY <1>3 DEF GiveTx, OneOwned
        <3> QED BY <1>3, <2>1, <3>1 DEF GiveTx
    <2>3. InStep'
        BY <1>3, <2>1 DEF GiveTx, InStep, TxGiven, txDriverVars
    <2>4. OneOwned'
        BY <1>3, <2>2 DEF GiveTx, OneOwned, txDriverVars
    <2> QED BY <1>3, <2>1, <2>3, <2>4 DEF GiveTx, txDriverVars
<1>4. CASE CleanPacket
    BY <1>4 DEF CleanPacket, OneOwned, InStep, TxGiven, txDriverVars
<1>5. CASE PollDemand
    BY <1>5 DEF PollDemand, OneOwned, InStep, TxGiven, txDriverVars
<1>6. CASE SendDone
    BY <1>6 DEF SendDone, OneOwned, InStep, TxGiven, TxOver, txDriverVars, txVars
<1>7. CASE SendLate
    BY <1>7 DEF SendLate, OneOwned, InStep
<1>8. CASE ResetTx
    <2>1. TxFree(next_tx, LastOf) \in TxDesc
        BY DEF TxFree
    <2>2. /\ tx_ram' \in [TxSlots -> TxDesc]
          /\ \A d \in TxSlots : tx_ram'[d] =
                IF d = next_tx THEN TxFree(next_tx, LastOf) ELSE tx_ram[d]
        BY <1>8, <2>1 DEF ResetTx
    <2>3. next_tx = NumRx - 1 => next_tx = NumTx - 1
        BY RingAssumption DEF TxSlots
    <2>4. OneOwned'
        BY <1>8, <2>2, <2>3 DEF ResetTx, OneOwned, TxFree, LastOf
    <2>5. InStep'
        BY <1>8 DEF ResetTx, InStep, TxOver
    <2> QED BY <1>8, <2>2, <2>4, <2>5, TxWrap DEF ResetTx
<1> QED BY <1>1, <1>2, <1>3, <1>4, <1>5, <1>6, <1>7, <1>8 DEF SendSteps

\* The DMA closes the send's descriptor, and finds nothing in the next.
LEMMA TxCloseKeeps ==
    ASSUME TxInv, TxClose PROVE TxInv'
<1> DEFINE next == IF tx_ram[tx_cur].eor THEN 0 ELSE (tx_cur + 1) % NumTx
<1>1. next = (tx_cur + 1) % NumTx /\ next \in TxSlots /\ next # tx_cur
    BY TxWrap DEF TxInv, TxTypeOK, OneOwned
<1>2. /\ tx_eng = "close" /\ wire' = Append(wire, fetched)
      /\ tx_cur' = next
      /\ tx_eng' = IF tx_ram[next].owned THEN "running" ELSE "suspended"
      /\ tx_ram' = [tx_ram EXCEPT ![tx_cur].owned = FALSE]
      /\ UNCHANGED <<pc, next_tx, pkt_cpu, sends, timeouts, fetched, pkt_ram>>
    BY DEF TxClose, txDriverVars
<1> HIDE DEF next
<1> USE DEF TxInv
<1>3. /\ wire' \in Seq(Nat) /\ Len(wire') = Len(wire) + 1
      /\ \A k \in 1 .. Len(wire) : wire'[k] = wire[k]
      /\ wire'[Len(wire) + 1] = fetched
    BY <1>2, AppendProperties DEF TxTypeOK
<1>4. /\ tx_ram' \in [TxSlots -> TxDesc]
      /\ \A d \in TxSlots :
            tx_ram'[d] = IF d = tx_cur THEN [tx_ram[d] EXCEPT !.owned = FALSE]
                         ELSE tx_ram[d]
    BY <1>2 DEF TxTypeOK, TxDesc
<1>5. TxTypeOK'
    BY <1>1, <1>2, <1>3, <1>4 DEF TxTypeOK
<1>6. OneOwned'
    BY <1>2, <1>4 DEF OneOwned, TxTypeOK, TxDesc
<1>7. InStep'
    <2> SUFFICES ASSUME timeouts = 0 PROVE InStep'
        BY <1>2 DEF InStep
    <2>1. pc = "wait" /\ TxGiven /\ fetched = sends
        BY <1>2 DEF InStep, TxOver, TxTypeOK, Labels
    <2>2. TxOver'
        <3>1. ~tx_ram[next].owned
            BY <1>1, <2>1 DEF OneOwned, TxGiven
        <3> QED BY <1>1, <1>2, <1>3, <1>4, <2>1, <3>1
                DEF TxOver, TxGiven, TxTypeOK, TxDesc
    <2>3. \A k \in 1 .. Len(wire') : wire'[k] = k
        BY <1>3, <2>1 DEF TxGiven, InStep, TxTypeOK
    <2> QED BY <1>2, <2>1, <2>2, <2>3 DEF InStep
<1> QED BY <1>5, <1>6, <1>7

\* The DMA fetches, and the cache writes the packet back.
LEMMA TxHardwareKeeps ==
    ASSUME TxInv, TxFetch \/ TxClose \/ EvictPacket
    PROVE  TxInv'
<1>1. CASE TxFetch
    BY <1>1 DEF TxFetch, TxInv, TxTypeOK, OneOwned, InStep, TxGiven, TxOver,
                txDriverVars, Labels
<1>2. CASE EvictPacket
    BY <1>2 DEF EvictPacket, TxInv, TxTypeOK, OneOwned, InStep, TxGiven, TxOver,
                txDriverVars
<1> QED BY <1>1, <1>2, TxCloseKeeps

\* Every step keeps the transmit side's invariant.
LEMMA TxNext == TxInv /\ [Next]_vars => TxInv'
<1> SUFFICES ASSUME TxInv, [Next]_vars PROVE TxInv'
    OBVIOUS
<1>1. CASE Recv \/ RecvSteps
    BY <1>1, TxUntouched
       DEF Recv, RecvSteps, RecvReturn, TakeFrame, CopyFrame, RecycleRx
<1>2. CASE \/ \E n \in Lens : RxWrite(n)
           \/ RxClose
           \/ \E d \in RxSlots : Prefetch(d)
    BY <1>2, TxUntouched DEF RxWrite, RxClose, Prefetch
<1>3. CASE UNCHANGED vars
    BY <1>3, TxUntouched DEF vars
<1> QED BY <1>1, <1>2, <1>3, TxDriverKeeps, TxHardwareKeeps DEF Next, Hardware

\* The invariant holds in every reachable state.
LEMMA TxAlways == Spec => []TxInv
BY TxInit, TxNext, PTL DEF Spec

\* Until a send gives up, each puts its frame on the wire once, whole and before
\* it returns; and no send ever meets a descriptor that is still owned.
THEOREM GmacSentWholeOnce == Spec => []SentWholeOnce
<1>1. TxInv => SentWholeOnce
    <2> SUFFICES ASSUME TxInv PROVE SentWholeOnce
        OBVIOUS
    <2>1. pc # "busy"
        BY DEF TxInv, TxTypeOK, Labels
    <2>2. ASSUME timeouts = 0 PROVE wire = [k \in 1 .. Len(wire) |-> k]
        <3>1. \A k \in 1 .. Len(wire) : wire[k] = k
            BY <2>2 DEF TxInv, InStep
        <3>2. wire \in [1 .. Len(wire) -> Nat]
            BY DEF TxInv, TxTypeOK
        <3> QED BY <3>1, <3>2
    <2>3. timeouts = 0 /\ pc = "idle" => Len(wire) = sends
        BY DEF TxInv, InStep
    <2> QED BY <2>1, <2>2, <2>3 DEF SentWholeOnce
<1> QED BY <1>1, TxAlways, PTL

-----------------------------------------------------------------------------
(* The receive side                                                        *)

\* A cached image of a descriptor that says "not owned" is the one in RAM.
CacheSound ==
    \A d \in RxSlots : \/ rx_cache[d] = NotCached
                       \/ rx_cache[d].owned
                       \/ rx_cache[d] = rx_ram[d]

\* From the look at a descriptor to its return its line is its image, and the
\* lines of its buffer are the buffer's.
InHand ==
    /\ pc \in {"copy", "recycle"} =>
          /\ rx_cache[next_rx] = rx_ram[next_rx]
          /\ ~rx_ram[next_rx].owned
    /\ pc = "copy" =>
          /\ buf_cache[next_rx] \in {NotCached, buf_ram[next_rx]}
          /\ len + rx_ram[next_rx].len <= MaxLen
    /\ len <= MaxLen

\* Frames the DMA has handed over.
Closed == IF rx_eng = "close" THEN Len(received) - 1 ELSE Len(received)

\* The contents of the ring after c frames were given back: the frames that the
\* driver has not, from its descriptor on, and then the DMA's descriptors.
Ring(c) ==
    /\ c <= Closed /\ Closed - c <= NumRx
    /\ \/ Closed - c < NumRx /\ Dist(next_rx, rx_cur) = Closed - c
       \/ Closed - c = NumRx /\ rx_cur = next_rx
    /\ \A d \in RxSlots :
          IF Dist(next_rx, d) < Closed - c
          THEN /\ ~rx_ram[d].owned
               /\ rx_ram[d].len = received[c + Dist(next_rx, d) + 1]
               /\ buf_ram[d] = c + Dist(next_rx, d) + 1
          ELSE rx_ram[d].owned
    /\ rx_eng = "close" => /\ received # << >> /\ Closed - c < NumRx
                           /\ buf_ram[rx_cur] = Len(received)

\* All frames copied, in the calls before and in this one.
All == delivered \o out

\* These are the first n frames, but those without a length.
Gathered(n) ==
    /\ \A j \in 1 .. Len(All) :
          /\ All[j] \in 1 .. n /\ received[All[j]] > 0
          /\ \A l \in 1 .. j - 1 : All[l] < All[j]
    /\ \A k \in 1 .. n :
          received[k] > 0 => \E j \in 1 .. Len(All) : All[j] = k

\* A frame is copied before it is given back.
Copied(c) == IF pc = "recycle" THEN c + 1 ELSE c

RxFlow ==
    /\ pc = "init" => /\ received = << >> /\ All = << >>
                      /\ next_rx = 0 /\ rx_cur = 0
                      /\ \A d \in RxSlots : ~rx_ram[d].owned
    /\ pc # "init" =>
          \E c \in Nat : Ring(c) /\ Gathered(Copied(c))

RxInv == RxTypeOK /\ CacheSound /\ InHand /\ RxFlow

-----------------------------------------------------------------------------
(* The receive side: frames                                                *)

\* What recv sees of a descriptor is the descriptor, if it is not the DMA's.
LEMMA SeenIsRam ==
    ASSUME RxTypeOK, CacheSound
    PROVE  /\ Seen \in RxDesc
           /\ ~Seen.owned => Seen = rx_ram[next_rx]
BY DEF RxTypeOK, CacheSound, Seen, Load, RxDesc

\* The descriptor in hand holds the frame after those given back.
LEMMA HandIsNext ==
    ASSUME RxTypeOK, NEW c \in Nat, Ring(c), ~rx_ram[next_rx].owned
    PROVE  /\ c + 1 <= Closed
           /\ rx_ram[next_rx].len = received[c + 1]
           /\ buf_ram[next_rx] = c + 1
<1>1. next_rx \in RxSlots /\ Dist(next_rx, next_rx) = 0
    BY DistInRing DEF RxTypeOK
<1>2. 0 < Closed - c /\ Closed \in Int
    BY <1>1 DEF Ring, Closed, RxTypeOK
<1> QED BY <1>1, <1>2 DEF Ring

\* All frames copied have been received.
LEMMA CopiedIsReceived ==
    ASSUME RxTypeOK, InHand, NEW c \in Nat, Ring(c)
    PROVE  Copied(c) \in Nat /\ Copied(c) <= Closed /\ Closed <= Len(received)
<1>1. Closed <= Len(received) /\ c <= Closed
    BY DEF Ring, Closed, RxTypeOK
<1> QED BY <1>1, HandIsNext DEF InHand, Copied

\* The frames copied stay what they are while others are received.
LEMMA GatheredStays ==
    ASSUME RxTypeOK, NEW n \in Nat, Gathered(n), n <= Len(received), All' = All,
           \A k \in 1 .. Len(received) : received'[k] = received[k]
    PROVE  Gathered(n)'
<1>1. \A k \in 1 .. n : received'[k] = received[k]
    BY DEF RxTypeOK
<1> QED BY <1>1 DEF Gathered

\* A step that leaves the ring alone.
LEMMA RingStays ==
    ASSUME NEW c \in Nat, Ring(c),
           UNCHANGED <<next_rx, rx_cur, rx_ram, buf_ram, received, rx_eng>>
    PROVE  Ring(c)'
BY DEF Ring, Closed, Dist

\* A step that leaves ring and copies alone, and is not about a descriptor.
LEMMA FlowStays ==
    ASSUME RxTypeOK, InHand, RxFlow, pc # "init", pc' # "init",
           pc = "recycle" <=> pc' = "recycle",
           UNCHANGED <<next_rx, rx_cur, rx_ram, buf_ram, received, rx_eng>>,
           All' = All
    PROVE  RxFlow'
<1>1. PICK c \in Nat : Ring(c) /\ Gathered(Copied(c))
    BY DEF RxFlow
<1>2. Copied(c)' = Copied(c)
    BY DEF Copied
<1>3. Copied(c) \in Nat /\ Copied(c) <= Len(received)
    BY <1>1, CopiedIsReceived DEF RxTypeOK, Closed
<1>4. Gathered(Copied(c))'
    BY <1>1, <1>2, <1>3, GatheredStays
<1>5. Ring(c)'
    BY <1>1, RingStays
<1> QED BY <1>4, <1>5 DEF RxFlow

\* What this call copies comes behind what the calls before have copied.
LEMMA ConcatAppend ==
    ASSUME NEW s \in Seq(Nat), NEW t \in Seq(Nat), NEW n \in Nat
    PROVE  s \o Append(t, n) = Append(s \o t, n)
<1>1. /\ Append(t, n) = t \o <<n>> /\ <<n>> \in Seq(Nat)
      /\ s \o t \in Seq(Nat)
    BY AppendIsConcat
<1>2. Append(s \o t, n) = (s \o t) \o <<n>>
    BY <1>1, AppendIsConcat
<1> QED BY <1>1, <1>2, ConcatAssociative

\* A new frame behind all that were copied, or one without a length.
LEMMA GatheredGrows ==
    ASSUME RxTypeOK, NEW n \in Nat, Gathered(n), n + 1 <= Len(received),
           received' = received,
           All' = IF received[n + 1] = 0 THEN All ELSE Append(All, n + 1)
    PROVE  Gathered(n + 1)'
<1>1. All \in Seq(Nat)
    BY DEF All, RxTypeOK
<1>2. received[n + 1] \in Nat
    BY DEF RxTypeOK
<1>3. CASE received[n + 1] = 0
    BY <1>2, <1>3 DEF Gathered
<1>4. CASE received[n + 1] # 0
    <2>1. /\ Len(All') = Len(All) + 1 /\ Len(All) \in Nat
          /\ \A j \in 1 .. Len(All) : All'[j] = All[j]
          /\ All'[Len(All) + 1] = n + 1
        BY <1>1, <1>4, AppendProperties
    <2>2. ASSUME NEW j \in 1 .. Len(All')
          PROVE  /\ All'[j] \in 1 .. n + 1 /\ received[All'[j]] > 0
                 /\ \A l \in 1 .. j - 1 : All'[l] < All'[j]
        <3>1. CASE j = Len(All) + 1
            BY <1>2, <1>4, <2>1, <3>1 DEF Gathered
        <3>2. CASE j \in 1 .. Len(All)
            BY <2>1, <3>2 DEF Gathered
        <3> QED BY <2>1, <3>1, <3>2
    <2>3. ASSUME NEW k \in 1 .. n + 1, received[k] > 0
          PROVE  \E j \in 1 .. Len(All') : All'[j] = k
        <3>1. CASE k = n + 1
            BY <2>1, <3>1
        <3>2. CASE k \in 1 .. n
            BY <2>1, <2>3, <3>2 DEF Gathered
        <3> QED BY <3>1, <3>2
    <2> QED BY <2>2, <2>3 DEF Gathered
<1> QED BY <1>3, <1>4

-----------------------------------------------------------------------------
(* The receive side: the driver's steps                                    *)

\* ipq_gmac_tx_rx_desc_ring() leaves a chain without frames.
LEMMA RxInit == Init => RxInv
<1> SUFFICES ASSUME Init PROVE RxInv
    OBVIOUS
<1>1. RxTypeOK
    BY RingAssumption DEF Init, RxTypeOK, RxSlots, RxDesc
<1>2. CacheSound /\ InHand
    BY LengthAssumption DEF Init, CacheSound, InHand
<1>3. RxFlow
    BY DEF Init, RxFlow, All
<1> QED BY <1>1, <1>2, <1>3 DEF RxInv

\* ipq_eth_start() gives the DMA every descriptor.
LEMMA StartKeeps ==
    ASSUME RxInv, Start PROVE RxInv'
<1> USE DEF RxInv, Start, txDriverVars
<1>1. RxTypeOK'
    BY RingAssumption DEF RxTypeOK, RxSlots, RxDesc, Owned
<1>2. CacheSound' /\ InHand'
    BY DEF CacheSound, InHand
<1>3. Ring(0)'
    <2>1. 0 \in RxSlots /\ next_rx' = 0 /\ Closed' = 0
        BY RingAssumption DEF RxFlow, RxSlots, Closed
    <2>2. \A d \in RxSlots : Dist(0, d) \in 0 .. NumRx - 1
        BY <2>1, DistInRing
    <2>3. Dist(next_rx, rx_cur)' = 0
        BY <2>1, DistInRing DEF Dist
    <2>4. \A d \in RxSlots : Dist(next_rx, d)' = Dist(0, d)
        BY <2>1 DEF Dist
    <2> QED BY <2>1, <2>2, <2>3, <2>4, RingAssumption DEF Ring, Owned
<1>4. Gathered(0)' /\ Copied(0)' = 0
    BY DEF RxFlow, Gathered, All, Copied
<1>5. RxFlow'
    BY <1>3, <1>4 DEF RxFlow
<1> QED BY <1>1, <1>2, <1>5

\* recv invalidates the descriptors, looks at one and takes the frame.
LEMMA LookKeeps ==
    ASSUME RxInv, Recv \/ RecvReturn \/ TakeFrame
    PROVE  RxInv'
<1> USE DEF RxInv
<1>1. RxTypeOK'
    <2>1. Seen \in RxDesc
        BY SeenIsRam
    <2>2. delivered \o out \in Seq(Nat)
        BY DEF RxTypeOK
    <2>3. CASE Recv
        BY <2>3 DEF Recv, RxTypeOK
    <2>4. CASE RecvReturn
        BY <2>1, <2>2, <2>4 DEF RecvReturn, RxTypeOK
    <2>5. CASE TakeFrame
        BY <2>1, <2>5 DEF TakeFrame, RxTypeOK
    <2> QED BY <2>3, <2>4, <2>5
<1>2. CacheSound'
    BY SeenIsRam
       DEF Recv, RecvReturn, TakeFrame, CacheSound, RxTypeOK, Seen, Load
<1>3. InHand'
    <2>1. CASE Recv \/ RecvReturn
        BY <2>1, LengthAssumption DEF Recv, RecvReturn, InHand
    <2>2. CASE TakeFrame
        BY <2>2, SeenIsRam DEF TakeFrame, InHand, Fits, RxTypeOK
    <2> QED BY <2>1, <2>2
<1>4. All' = All
    <2>1. CASE RecvReturn
        <3>1. (delivered \o out) \o << >> = delivered \o out
            BY ConcatEmptySeq DEF RxTypeOK
        <3> QED BY <2>1, <3>1 DEF RecvReturn, All
    <2>2. CASE Recv \/ TakeFrame
        BY <2>2 DEF Recv, TakeFrame, All
    <2> QED BY <2>1, <2>2
<1>5. RxFlow'
    BY <1>4, FlowStays DEF Recv, RecvReturn, TakeFrame
<1> QED BY <1>1, <1>2, <1>3, <1>5

\* The frame is copied behind those of this call.
LEMMA CopyKeeps ==
    ASSUME RxInv, CopyFrame PROVE RxInv'
<1> USE DEF RxInv
<1>1. /\ ~rx_ram[next_rx].owned /\ Seen = rx_ram[next_rx]
      /\ Load(buf_cache, buf_ram, next_rx) = buf_ram[next_rx]
      /\ len + Seen.len <= MaxLen
    BY DEF CopyFrame, InHand, CacheSound, Seen, Load, RxTypeOK
<1>2. PICK c \in Nat : Ring(c) /\ Gathered(c)
    BY DEF CopyFrame, RxFlow, Copied
<1>3. /\ c + 1 <= Len(received)
      /\ Seen.len = received[c + 1]
      /\ Load(buf_cache, buf_ram, next_rx) = c + 1
    BY <1>1, <1>2, HandIsNext DEF Closed, RxTypeOK
<1>4. /\ out' = IF received[c + 1] = 0 THEN out ELSE Append(out, c + 1)
      /\ len' = len + received[c + 1] /\ pc' = "recycle" /\ pc = "copy"
      /\ UNCHANGED <<next_rx, rx_ram, rx_cache, buf_ram, buf_cache, rx_cur,
                     rx_eng, received, delivered>>
    BY <1>3 DEF CopyFrame
<1>5. received[c + 1] \in Nat
    BY <1>3 DEF RxTypeOK
<1>6. RxTypeOK'
    <2>1. Append(out, c + 1) \in Seq(Nat) /\ len' \in Nat
        BY <1>4, <1>5 DEF RxTypeOK
    <2> QED BY <1>4, <2>1 DEF RxTypeOK
<1>7. CacheSound' /\ InHand'
    BY <1>1, <1>3, <1>4 DEF CacheSound, InHand
<1>8. All' = IF received[c + 1] = 0 THEN All ELSE Append(All, c + 1)
    <2>1. delivered \o Append(out, c + 1) = Append(delivered \o out, c + 1)
        BY ConcatAppend DEF RxTypeOK
    <2> QED BY <1>4, <2>1 DEF All
<1>9. Gathered(c + 1)'
    BY <1>2, <1>3, <1>4, <1>8, GatheredGrows
<1>10. Ring(c)' /\ Copied(c)' = c + 1
    BY <1>2, <1>4, RingStays DEF Copied
<1>11. RxFlow'
    BY <1>4, <1>9, <1>10 DEF RxFlow
<1> QED BY <1>6, <1>7, <1>11

\* The descriptor goes back behind the last of the DMA's.
LEMMA RecycleKeeps ==
    ASSUME RxInv, RecycleRx PROVE RxInv'
<1> USE DEF RxInv
<1>1. /\ pc = "recycle" /\ pc' = "look"
      /\ rx_ram' = [rx_ram EXCEPT ![next_rx] = Owned]
      /\ rx_cache' = [rx_cache EXCEPT ![next_rx] = NotCached]
      /\ next_rx' = Wrap(next_rx)
      /\ UNCHANGED <<len, out, buf_ram, buf_cache, rx_cur, rx_eng, received,
                     delivered>>
    BY WrapIsMod DEF RecycleRx, RxTypeOK
<1>2. /\ next_rx \in RxSlots /\ rx_cur \in RxSlots
      /\ Wrap(next_rx) \in RxSlots
    BY WrapIsMod DEF RxTypeOK
<1>3. Owned \in RxDesc
    BY DEF Owned, RxDesc
<1>4. RxTypeOK'
    BY <1>1, <1>2, <1>3 DEF RxTypeOK
<1>5. CacheSound' /\ InHand'
    BY <1>1 DEF CacheSound, InHand, RxTypeOK
<1>6. PICK c \in Nat : Ring(c) /\ Gathered(c + 1)
    BY <1>1 DEF RxFlow, Copied
<1>7. /\ c + 1 <= Closed /\ Closed \in Int /\ Closed <= Len(received)
      /\ Closed' = Closed
    BY <1>1, <1>6, HandIsNext DEF Closed, InHand, RxTypeOK
<1>8. Gathered(c + 1)'
    BY <1>1, <1>6, <1>7, GatheredStays DEF All, RxTypeOK
<1>9. ASSUME NEW d \in RxSlots
      PROVE  IF Dist(next_rx, d)' < Closed - (c + 1)
             THEN /\ ~rx_ram'[d].owned
                  /\ rx_ram'[d].len = received[c + 1 + Dist(next_rx, d)' + 1]
                  /\ buf_ram[d] = c + 1 + Dist(next_rx, d)' + 1
             ELSE rx_ram'[d].owned
    <2>1. Dist(next_rx, d) \in 0 .. NumRx - 1
        BY <1>2, DistInRing
    <2>2. CASE d = next_rx
        <3>1. Dist(next_rx, d)' = NumRx - 1
            BY <1>1, <1>2, <2>2, DistWrap DEF Dist
        <3>2. rx_ram'[d].owned
            BY <1>1, <2>2 DEF Owned, RxTypeOK
        <3>3. ~(NumRx - 1 < Closed - (c + 1))
            BY <1>6, <1>7, RingAssumption DEF Ring
        <3> QED BY <3>1, <3>2, <3>3
    <2>3. CASE d # next_rx
        <3>1. Dist(next_rx, d)' = Dist(next_rx, d) - 1
            BY <1>1, <1>2, <2>3, DistWrap DEF Dist
        <3>2. rx_ram'[d] = rx_ram[d]
            BY <1>1, <2>3 DEF RxTypeOK
        <3>3. c + Dist(next_rx, d) + 1 = c + 1 + Dist(next_rx, d)' + 1
            BY <2>1, <3>1
        <3>4. Dist(next_rx, d)' < Closed - (c + 1)
              <=> Dist(next_rx, d) < Closed - c
            BY <1>7, <2>1, <3>1
        <3> QED BY <1>6, <3>2, <3>3, <3>4 DEF Ring
    <2> QED BY <2>2, <2>3
<1>10. \/ /\ Closed - (c + 1) < NumRx
          /\ Dist(next_rx, rx_cur)' = Closed - (c + 1)
    <2>1. CASE Closed - c = NumRx /\ rx_cur = next_rx
        <3>1. Dist(next_rx, rx_cur)' = NumRx - 1
            BY <1>1, <1>2, <2>1, DistWrap DEF Dist
        <3> QED BY <1>7, <2>1, <3>1, RingAssumption
    <2>2. CASE Closed - c < NumRx /\ Dist(next_rx, rx_cur) = Closed - c
        <3>1. rx_cur # next_rx
            BY <1>2, <1>7, <2>2, DistInRing
        <3>2. Dist(next_rx, rx_cur)' = Dist(next_rx, rx_cur) - 1
            BY <1>1, <1>2, <3>1, DistWrap DEF Dist
        <3> QED BY <1>7, <2>2, <3>2, RingAssumption
    <2> QED BY <1>6, <2>1, <2>2 DEF Ring
<1>11. rx_eng = "close" => received # << >> /\ buf_ram[rx_cur] = Len(received)
    BY <1>6 DEF Ring
<1>12. Ring(c + 1)'
    BY <1>1, <1>7, <1>9, <1>10, <1>11, RingAssumption DEF Ring
<1>13. RxFlow'
    BY <1>1, <1>8, <1>12 DEF RxFlow, Copied
<1> QED BY <1>4, <1>5, <1>13

-----------------------------------------------------------------------------
(* The receive side: the steps of DMA and cache                            *)

\* The DMA writes the data of a frame into the buffer it is at.
LEMMA WriteKeeps ==
    ASSUME RxInv, NEW n \in Lens, RxWrite(n) PROVE RxInv'
<1> USE DEF RxInv
<1>1. /\ rx_eng = "idle" /\ rx_eng' = "close" /\ rx_ram[rx_cur].owned
      /\ received' = Append(received, n)
      /\ buf_ram' = [buf_ram EXCEPT ![rx_cur] = Len(received')]
      /\ UNCHANGED <<pc, next_rx, len, out, rx_ram, rx_cache, buf_cache, rx_cur,
                     delivered>>
    BY DEF RxWrite
<1>2. /\ received' \in Seq(Nat) /\ Len(received') = Len(received) + 1
      /\ Len(received) \in Nat /\ received' # << >>
      /\ \A k \in 1 .. Len(received) : received'[k] = received[k]
    BY <1>1, AppendProperties, LengthAssumption DEF RxTypeOK
<1>3. RxTypeOK'
    BY <1>1, <1>2 DEF RxTypeOK
<1>4. CacheSound'
    BY <1>1 DEF CacheSound
<1>5. InHand'
    BY <1>1 DEF InHand, RxTypeOK
<1>6. pc # "init" /\ pc' # "init"
    BY <1>1 DEF RxTypeOK
<1>7. PICK c \in Nat : Ring(c) /\ Gathered(Copied(c))
    BY <1>6 DEF RxFlow
<1>8. Closed = Len(received) /\ Closed' = Len(received)
    BY <1>1, <1>2 DEF Closed
<1>9. Closed - c < NumRx /\ Dist(next_rx, rx_cur) = Closed - c
    <2>1. next_rx \in RxSlots /\ Dist(next_rx, next_rx) = 0
        BY DistInRing DEF RxTypeOK
    <2>2. CASE Closed - c = NumRx /\ rx_cur = next_rx
        BY <1>1, <1>7, <2>1, <2>2, RingAssumption DEF Ring
    <2> QED BY <1>7, <2>2 DEF Ring
<1>10. ASSUME NEW d \in RxSlots, Dist(next_rx, d) < Closed - c
       PROVE  /\ buf_ram'[d] = buf_ram[d]
              /\ received'[c + Dist(next_rx, d) + 1]
                    = received[c + Dist(next_rx, d) + 1]
    <2>1. d # rx_cur
        BY <1>9, <1>10, DistInRing DEF RxTypeOK
    <2>2. Dist(next_rx, d) \in 0 .. NumRx - 1
        BY DistInRing DEF RxTypeOK
    <2>3. c + Dist(next_rx, d) + 1 \in 1 .. Len(received)
        BY <1>2, <1>8, <1>10, <2>2, RingAssumption
    <2> QED BY <1>1, <1>2, <2>1, <2>3 DEF RxTypeOK
<1>11. Dist(next_rx, rx_cur)' = Dist(next_rx, rx_cur)
       /\ \A d \in RxSlots : Dist(next_rx, d)' = Dist(next_rx, d)
    BY <1>1 DEF Dist
<1>12. buf_ram'[rx_cur] = Len(received')
    BY <1>1 DEF RxTypeOK
<1>13. Ring(c)'
    BY <1>1, <1>2, <1>7, <1>8, <1>9, <1>10, <1>11, <1>12 DEF Ring
<1>14. Gathered(Copied(c))'
    <2>1. Copied(c) \in Nat /\ Copied(c) <= Len(received)
        BY <1>7, <1>8, CopiedIsReceived
    <2>2. Copied(c)' = Copied(c) /\ All' = All
        BY <1>1 DEF Copied, All
    <2> QED BY <1>2, <1>7, <2>1, <2>2, GatheredStays
<1>15. RxFlow'
    BY <1>6, <1>13, <1>14 DEF RxFlow
<1> QED BY <1>3, <1>4, <1>5, <1>15

\* The DMA hands the frame over.
LEMMA CloseKeeps ==
    ASSUME RxInv, RxClose PROVE RxInv'
<1> USE DEF RxInv
<1> DEFINE new == [owned |-> FALSE, len |-> received[Len(received)]]
<1>1. /\ rx_eng = "close" /\ rx_eng' = "idle" /\ pc # "init" /\ pc' # "init"
      /\ rx_ram' = [rx_ram EXCEPT ![rx_cur] = new]
      /\ rx_cur' = Wrap(rx_cur)
      /\ UNCHANGED <<pc, next_rx, len, out, rx_cache, buf_ram, buf_cache, received,
                     delivered>>
    BY WrapIsMod DEF RxClose, RxTypeOK
<1>2. PICK c \in Nat : Ring(c) /\ Gathered(Copied(c))
    BY <1>1 DEF RxFlow
<1>3. /\ Closed = Len(received) - 1 /\ Closed' = Len(received)
      /\ Len(received) \in Nat \ {0} /\ received[Len(received)] \in Nat
      /\ buf_ram[rx_cur] = Len(received)
    BY <1>1, <1>2 DEF Closed, Ring, RxTypeOK
<1>4. /\ next_rx \in RxSlots /\ rx_cur \in RxSlots /\ Wrap(rx_cur) \in RxSlots
      /\ Closed - c < NumRx /\ Dist(next_rx, rx_cur) = Closed - c
    <2>1. Closed - c < NumRx
        BY <1>1, <1>2 DEF Ring
    <2> QED BY <1>2, <1>3, <2>1, WrapIsMod, RingAssumption DEF Ring, RxTypeOK
<1>5. rx_ram[rx_cur].owned
    BY <1>2, <1>3, <1>4 DEF Ring
<1>6. new \in RxDesc /\ ~new.owned /\ new.len = received[Len(received)]
    BY <1>3 DEF RxDesc
<1> HIDE DEF new
<1>7. RxTypeOK'
    BY <1>1, <1>4, <1>6 DEF RxTypeOK
<1>8. \A d \in RxSlots : rx_ram'[d] = IF d = rx_cur THEN new ELSE rx_ram[d]
    BY <1>1 DEF RxTypeOK
<1>9. CacheSound'
    BY <1>1, <1>5, <1>8 DEF CacheSound
<1>10. InHand'
    <2>1. pc \in {"copy", "recycle"} => next_rx # rx_cur
        BY <1>5 DEF InHand
    <2> QED BY <1>1, <1>4, <1>8, <2>1 DEF InHand
<1>11. ASSUME NEW d \in RxSlots
       PROVE  IF Dist(next_rx, d) < Len(received) - c
              THEN /\ ~rx_ram'[d].owned
                   /\ rx_ram'[d].len = received[c + Dist(next_rx, d) + 1]
                   /\ buf_ram[d] = c + Dist(next_rx, d) + 1
              ELSE rx_ram'[d].owned
    <2>1. Dist(next_rx, d) \in 0 .. NumRx - 1
        BY <1>4, DistInRing
    <2>2. CASE d = rx_cur
        <3>1. c + Dist(next_rx, d) + 1 = Len(received)
            BY <1>3, <1>4, <2>2
        <3>2. Dist(next_rx, d) < Len(received) - c
            BY <1>3, <1>4, <2>2
        <3> QED BY <1>3, <1>6, <1>8, <2>2, <3>1, <3>2
    <2>3. CASE d # rx_cur
        <3>1. Dist(next_rx, d) # Closed - c
            BY <1>4, <2>3, DistInjective
        <3>2. Dist(next_rx, d) < Len(received) - c
              <=> Dist(next_rx, d) < Closed - c
            BY <1>3, <2>1, <3>1, RingAssumption
        <3>3. rx_ram'[d] = rx_ram[d]
            BY <1>8, <2>3
        <3> QED BY <1>2, <3>2, <3>3 DEF Ring
    <2> QED BY <2>2, <2>3
<1>12. \/ /\ Len(received) - c < NumRx
          /\ Dist(next_rx, Wrap(rx_cur)) = Len(received) - c
       \/ Len(received) - c = NumRx /\ Wrap(rx_cur) = next_rx
    <2>1. CASE Closed - c < NumRx - 1
        <3>1. Dist(next_rx, Wrap(rx_cur)) = Dist(next_rx, rx_cur) + 1
            BY <1>4, <2>1, DistWrap
        <3> QED BY <1>3, <1>4, <2>1, <3>1, RingAssumption
    <2>2. CASE Closed - c = NumRx - 1
        <3>1. Wrap(rx_cur) = next_rx
            BY <1>4, <2>2, DistWrap
        <3> QED BY <1>3, <2>2, <3>1, RingAssumption
    <2> QED BY <1>3, <1>4, <2>1, <2>2, RingAssumption
<1>13. /\ \A d \in RxSlots : Dist(next_rx, d)' = Dist(next_rx, d)
       /\ Dist(next_rx, rx_cur)' = Dist(next_rx, Wrap(rx_cur))
    BY <1>1 DEF Dist
<1>14. c <= Len(received) /\ Len(received) - c <= NumRx
    BY <1>2, <1>3, <1>4, RingAssumption DEF Ring
<1>15. Ring(c)'
    BY <1>1, <1>3, <1>11, <1>12, <1>13, <1>14 DEF Ring
<1>16. Gathered(Copied(c))'
    <2>1. Copied(c) \in Nat /\ Copied(c) <= Len(received)
        BY <1>2, <1>3, CopiedIsReceived
    <2>2. Copied(c)' = Copied(c) /\ All' = All
        BY <1>1 DEF Copied, All
    <2> QED BY <1>1, <1>2, <2>1, <2>2, GatheredStays
<1>17. RxFlow'
    BY <1>1, <1>15, <1>16 DEF RxFlow
<1> QED BY <1>7, <1>9, <1>10, <1>17

\* A line is loaded as it is in RAM.
LEMMA PrefetchKeeps ==
    ASSUME RxInv, NEW d \in RxSlots, Prefetch(d) PROVE RxInv'
<1> USE DEF RxInv, Prefetch
<1>1. RxTypeOK'
    BY DEF RxTypeOK
<1>2. CacheSound'
    BY DEF CacheSound, RxTypeOK
<1>3. InHand'
    BY DEF InHand, RxTypeOK
<1>4. RxFlow'
    <2>1. All' = All
        BY DEF All
    <2> QED BY <2>1, FlowStays
<1> QED BY <1>1, <1>2, <1>3, <1>4

\* The transmit side leaves the receive side alone.
LEMMA RxUntouched ==
    ASSUME RxInv, UNCHANGED rxVars,
           \/ pc' = pc
           \/ {pc, pc'} \cap {"init", "copy", "recycle"} = {}
    PROVE  RxInv'
<1> USE DEF RxInv, rxVars
<1>1. RxTypeOK'
    BY DEF RxTypeOK
<1>2. CacheSound' /\ InHand'
    BY DEF CacheSound, InHand
<1>3. RxFlow'
    <2>1. All' = All
        BY DEF All
    <2>2. CASE pc = "init"
        BY <2>1, <2>2 DEF RxFlow
    <2>3. CASE pc # "init"
        BY <2>1, <2>3, FlowStays
    <2> QED BY <2>2, <2>3
<1> QED BY <1>1, <1>2, <1>3

\* Every step keeps the receive side's invariant.
LEMMA RxNext == RxInv /\ [Next]_vars => RxInv'
<1> SUFFICES ASSUME RxInv, [Next]_vars PROVE RxInv'
    OBVIOUS
<1>1. CASE Send \/ SendSteps
    BY <1>1, RxUntouched
       DEF Send, SendSteps, GiveTx, CleanPacket, PollDemand, SendDone, SendLate,
           ResetTx
<1>2. CASE TxFetch \/ TxClose \/ EvictPacket
    BY <1>2, RxUntouched DEF TxFetch, TxClose, EvictPacket
<1>3. CASE UNCHANGED vars
    BY <1>3, RxUntouched DEF vars
<1> QED BY <1>1, <1>2, <1>3, StartKeeps, LookKeeps, CopyKeeps, RecycleKeeps,
           WriteKeeps, CloseKeeps, PrefetchKeeps
        DEF Next, RecvSteps, Hardware

\* The invariant holds in every reachable state.
LEMMA RxAlways == Spec => []RxInv
BY RxInit, RxNext, PTL DEF Spec

-----------------------------------------------------------------------------
(* The receive side: the theorems                                          *)

\* What is copied in one call stays in the caller's buffer.
THEOREM GmacNeverPastBuffer == Spec => []NeverPastBuffer
<1>1. RxInv => NeverPastBuffer
    BY DEF RxInv, InHand, NeverPastBuffer
<1> QED BY <1>1, RxAlways, PTL

\* For any number of frames and of laps, and whatever the cache loads, recv
\* returns every frame with a length, once, in order and whole.
THEOREM GmacDeliveredInOrder == Spec => []DeliveredInOrder
<1>1. RxInv => DeliveredInOrder
    <2> SUFFICES ASSUME RxInv, NEW j \in 1 .. Len(delivered)
                 PROVE  /\ delivered[j] \in 1 .. Len(received)
                        /\ received[delivered[j]] > 0
                        /\ \A l \in 1 .. j - 1 : delivered[l] < delivered[j]
                        /\ \A k \in 1 .. delivered[j] :
                              received[k] > 0 =>
                                  \E l \in 1 .. j : delivered[l] = k
        BY DEF DeliveredInOrder
    <2>1. /\ All \in Seq(Nat) /\ delivered \in Seq(Nat)
          /\ Len(delivered) <= Len(All)
          /\ Len(delivered) \in Nat /\ Len(All) \in Nat
          /\ \A l \in 1 .. Len(delivered) : All[l] = delivered[l]
        BY ConcatProperties DEF All, RxInv, RxTypeOK
    <2>2. pc # "init"
        BY <2>1 DEF RxInv, RxFlow
    <2>3. PICK c \in Nat : Ring(c) /\ Gathered(Copied(c))
        BY <2>2 DEF RxInv, RxFlow
    <2>4. /\ Copied(c) \in Nat /\ Copied(c) <= Len(received)
          /\ Len(received) \in Nat
        BY <2>3, CopiedIsReceived DEF RxInv, RxTypeOK, Closed
    <2>5. /\ j \in 1 .. Len(All) /\ All[j] = delivered[j]
          /\ \A l \in 1 .. j : All[l] = delivered[l]
        <3>1. /\ j \in 1 .. Len(All)
              /\ \A l \in 1 .. j : l \in 1 .. Len(delivered)
            BY <2>1
        <3>2. j \in 1 .. j
            OBVIOUS
        <3> QED BY <2>1, <3>1, <3>2
    <2>6. /\ delivered[j] \in 1 .. Copied(c) /\ received[delivered[j]] > 0
          /\ \A l \in 1 .. j - 1 : All[l] < delivered[j]
        BY <2>3, <2>5 DEF Gathered
    <2>7. \A l \in 1 .. j - 1 : delivered[l] < delivered[j]
        BY <2>5, <2>6
    <2>8. ASSUME NEW k \in 1 .. delivered[j], received[k] > 0
          PROVE  \E l \in 1 .. j : delivered[l] = k
        <3>1. k \in 1 .. Copied(c)
            BY <2>4, <2>6
        <3>2. PICK l \in 1 .. Len(All) : All[l] = k
            BY <2>3, <2>8, <3>1 DEF Gathered
        <3>3. ~(l > j)
            <4> SUFFICES ASSUME l > j PROVE FALSE
                OBVIOUS
            <4>1. j \in 1 .. l - 1
                BY <2>1
            <4>2. delivered[j] < k
                BY <2>3, <2>5, <3>2, <4>1 DEF Gathered
            <4> QED BY <2>6, <4>2
        <3>4. l \in 1 .. j
            BY <2>1, <3>3
        <3> QED BY <2>5, <3>2, <3>4
    <2> QED BY <2>4, <2>6, <2>7, <2>8
<1> QED BY <1>1, RxAlways, PTL
=============================================================================
