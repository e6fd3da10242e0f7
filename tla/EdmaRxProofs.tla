---------------------------- MODULE EdmaRxProofs ----------------------------
(* Proofs about EdmaRx, for every ring size N >= 3, every bound and every  *)
(* set of frame sizes.                                                     *)
EXTENDS EdmaRx, TLAPS, SequenceTheorems

-----------------------------------------------------------------------------
(* Ring arithmetic                                                         *)

\* "x++; if (x == NO_OF_RX_DESC) x = 0;" stays in the ring and moves.
LEMMA BumpInRing ==
    ASSUME NEW i \in Slots
    PROVE  Bump(i) \in Slots /\ Bump(i) # i
BY RingAssumption DEF Slots, Bump

\* A distance around the ring is less than the ring and 0 only to oneself.
LEMMA DistInRing ==
    ASSUME NEW a \in Slots, NEW b \in Slots
    PROVE  /\ Dist(a, b) \in 0 .. N - 1
           /\ (Dist(a, b) = 0) <=> (a = b)
BY RingAssumption DEF Slots, Dist

\* Advancing the far end adds one, unless it arrives at the near end.
LEMMA DistBumpFar ==
    ASSUME NEW a \in Slots, NEW b \in Slots, Dist(a, b) < N - 1
    PROVE  Dist(a, Bump(b)) = Dist(a, b) + 1
BY RingAssumption DEF Slots, Dist, Bump

\* Advancing the near end takes one off, unless it was already there.
LEMMA DistBumpNear ==
    ASSUME NEW a \in Slots, NEW b \in Slots, a # b
    PROVE  Dist(Bump(a), b) = Dist(a, b) - 1
BY RingAssumption DEF Slots, Dist, Bump

\* The distance from a slot tells the slots of the ring apart.
LEMMA DistInjective ==
    ASSUME NEW a \in Slots, NEW b \in Slots, NEW c \in Slots,
           Dist(a, b) = Dist(a, c)
    PROVE  b = c
BY RingAssumption DEF Slots, Dist

\* The slot before a is N - 1 away from it, the one before that N - 2.
LEMMA DistBehind ==
    ASSUME NEW a \in Slots, NEW h \in Slots, Bump(h) = a
    PROVE  /\ Dist(a, h) = N - 1
           /\ \A p \in Slots : Bump(p) = h => Dist(a, p) = N - 2
           /\ Dist(Bump(a), h) = N - 2
BY RingAssumption DEF Slots, Dist, Bump

\* The engine wraps where the driver does.
LEMMA SameWrap ==
    ASSUME NEW i \in Slots
    PROVE  HwNext(i) = Bump(i)
BY RingAssumption DEF Slots, HwNext, Bump

-----------------------------------------------------------------------------
(* Type correctness                                                        *)

\* edma_alloc_rings() leaves a state of the right shape.
LEMMA InitTypeOK == Init => TypeOK
<1> SUFFICES ASSUME Init PROVE TypeOK
    OBVIOUS
<1> USE RingAssumption DEF Init
<1>1. 0 \in Slots
    BY DEF Slots
<1>2. ram \in [Slots -> [Parts -> Line]]
    <2> PICK v \in GarbageValid :
                ram = [s \in Slots |-> [p \in Parts |-> [valid |-> v, id |-> 0, size |-> 0]]]
        OBVIOUS
    <2> [valid |-> v, id |-> 0, size |-> 0] \in Line
        BY ModeAssumption DEF Line
    <2> QED OBVIOUS
<1>3. cache \in [Slots -> [Parts -> Line \cup {NotCached}]]
    OBVIOUS
<1>4. eng_frame \in Line /\ uip \in Received
    BY DEF Line, Received
<1>5. delivered \in Seq(Received)
    OBVIOUS
<1> QED BY <1>1, <1>2, <1>3, <1>4, <1>5 DEF TypeOK

\* The lengths of the frames are numbers.
LEMMA SizesAreNat == AllSizes \subseteq Nat
BY FrameAssumption DEF AllSizes

\* A load returns a line, from the cache or from memory.
LEMMA SeenType ==
    ASSUME TypeOK, NEW s \in Slots, NEW p \in Parts
    PROVE  Seen(s, p) \in Line
BY DEF TypeOK, Seen

\* A write of the engine changes one line of one buffer.
LEMMA OneLineWritten ==
    ASSUME TypeOK, NEW p \in Parts, EngineWrite(p)
    PROVE  \A s \in Slots, q \in Parts :
              ram'[s][q] = IF s = eng_slot /\ q = p THEN eng_frame ELSE ram[s][q]
BY DEF TypeOK, EngineWrite

\* Every step of the driver, the engine and the cache keeps every index of the
\* ring below N and every buffer, line and counter of its kind.
LEMMA NextTypeOK == TypeOK /\ [Next]_vars => TypeOK'
<1> SUFFICES ASSUME TypeOK, [Next]_vars PROVE TypeOK'
    OBVIOUS
<1> USE RingAssumption, FrameAssumption
<1>1. CASE InitRfdRing
    BY <1>1 DEF InitRfdRing, FirstHead, TypeOK, Slots, engineVars
<1>2. CASE StartRx
    BY <1>2 DEF StartRx, TypeOK, engineVars
<1>3. CASE PollEmpty
    BY <1>3 DEF PollEmpty, TypeOK, vars, driverVars, engineVars
<1>4. CASE PollIndex
    BY <1>4 DEF PollIndex, Invalidated, TypeOK, engineVars
<1>5. CASE CheckRrd
    BY <1>5 DEF CheckRrd, TypeOK, engineVars
<1>6. CASE CopyOut
    <2>1. Seen(rfd_tail, "first") \in Line /\ Seen(rfd_tail, "rest") \in Line
        BY SeenType DEF TypeOK, Parts
    <2>2. uip' \in Received
        BY <1>6, <2>1 DEF CopyOut, Line, Received, Cut
    <2> QED BY <1>6, <2>2 DEF CopyOut, TypeOK, engineVars
<1>7. CASE Recycle
    BY <1>7, BumpInRing DEF Recycle, TypeOK, engineVars
<1>8. CASE Return
    BY <1>8 DEF Return, TypeOK, engineVars
<1>9. ASSUME NEW n \in AllSizes, EngineTake(n)
      PROVE  TypeOK'
    <2>1. eng_frame' \in Line /\ accepted' \in Nat
        BY <1>9, SizesAreNat DEF EngineTake, TypeOK, Line
    <2> QED BY <1>9, <2>1 DEF EngineTake, TypeOK, driverVars
<1>10. CASE EnginePublish
    <2>1. HwNext(cons) \in Slots
        BY BumpInRing, SameWrap DEF TypeOK
    <2>2. early' \subseteq MayBeEarly
        BY <1>10 DEF EnginePublish, TypeOK
    <2> QED BY <1>10, <2>1, <2>2 DEF EnginePublish, TypeOK, driverVars
<1>11. ASSUME NEW p \in Parts, EngineWrite(p)
       PROVE  TypeOK'
    <2>1. ram' \in [Slots -> [Parts -> Line]]
        BY <1>11 DEF EngineWrite, TypeOK
    <2> QED BY <1>11, <2>1 DEF EngineWrite, TypeOK, driverVars
<1>12. CASE EngineRefuse
    BY <1>12 DEF EngineRefuse, TypeOK, driverVars
<1>13. ASSUME NEW s \in Slots, NEW p \in Parts, Fill(s, p) \/ Evict(s, p)
       PROVE  TypeOK'
    <2>1. ram[s][p] \in Line
        BY DEF TypeOK
    <2>2. PICK v \in Line \cup {NotCached} : cache' = [cache EXCEPT ![s][p] = v]
        BY <1>13, <2>1 DEF Fill, Evict
    <2>3. [cache[s] EXCEPT ![p] = v] \in [Parts -> Line \cup {NotCached}]
        BY DEF TypeOK
    <2>4. cache' \in [Slots -> [Parts -> Line \cup {NotCached}]]
        BY <2>2, <2>3 DEF TypeOK
    <2> QED BY <1>13, <2>4 DEF Fill, Evict, TypeOK, driverVars, engineVars
<1>14. CASE UNCHANGED vars
    BY <1>14 DEF TypeOK, vars, driverVars, engineVars
<1> QED
    BY <1>1, <1>2, <1>3, <1>4, <1>5, <1>6, <1>7, <1>8, <1>9, <1>10, <1>11,
       <1>12, <1>13, <1>14 DEF Next, Recv, Engine, EngineGoesOn

\* Type correctness of the receive ring.
THEOREM TypeCorrect == Spec => []TypeOK
<1>1. Init => TypeOK
    BY InitTypeOK
<1>2. TypeOK /\ [Next]_vars => TypeOK'
    BY NextTypeOK
<1> QED BY <1>1, <1>2, PTL DEF Spec

-----------------------------------------------------------------------------
(* The inductive invariant                                                 *)

\* Before InitRfdRing nothing has moved; until StartRx the engine is off.
BeforeStart ==
    /\ rxq_en <=> pc \notin {"probed", "ring"}
    /\ pc \in {"probed", "ring"} =>
          /\ cons = 0 /\ rfd_tail = 0 /\ eng = {}
          /\ accepted = 0 /\ delivered = << >>
    /\ pc = "probed" => prod = 0

\* Once the ring is set up the head is one slot behind the tail, and the
\* doorbell is at the head or, after the first recv, one slot behind it.
DoorbellBehindTail ==
    pc # "probed" => /\ Bump(rfd_head) = rfd_tail
                     /\ prod = rfd_head \/ Bump(prod) = rfd_head

\* Walking from the tail, the consumer index is met no later than the
\* doorbell; recv is past its index test only while a frame is there.
ConsumerBetween ==
    /\ Dist(rfd_tail, cons) <= Dist(rfd_tail, prod)
    /\ pc \in {"rrd", "copy", "recycle"} => cons # rfd_tail
    /\ "index" \in eng => eng_slot = cons /\ cons # prod

RingInv == /\ TypeOK
           /\ BeforeStart
           /\ DoorbellBehindTail
           /\ ConsumerBetween
           /\ IndicesCountFrames

\* What both lines of a buffer hold of a frame that is there in full.
Whole(k) == {[valid |-> TRUE, id |-> k, size |-> n] : n \in AllSizes}

\* The frame in hand is the last one accepted; of one whose index is not out yet
\* the lines that are written are in RAM.
FrameInHand ==
    /\ eng # {} => eng_frame \in Whole(accepted)
    /\ "index" \in eng =>
          \A p \in Parts : p \in eng \/ ram[cons][p] \in Whole(accepted)

\* Data that is still to be written when its index is out belongs to the slot
\* published last, and its frame is an early one.
LateData ==
    eng # {} /\ "index" \notin eng => Bump(eng_slot) = cons /\ accepted \in early

\* The published slots hold the accepted frames, consecutively numbered from
\* the first one recv has not handed on yet, but for the early ones.
PublishedSlots ==
    \A s \in Slots, k \in Nat, p \in Parts :
        /\ Dist(rfd_tail, s) < Dist(rfd_tail, cons)
        /\ k = Handed + 1 + Dist(rfd_tail, s)
        /\ k \notin early
        => ram[s][p] \in Whole(k)

\* From the invalidation on the cache shows what memory holds of a frame that was
\* all there when its index was read.
CacheFresh ==
    pc \in {"rrd", "copy"} /\ Len(delivered) + 1 \notin early =>
        \A p \in Parts : cache[rfd_tail][p] \in {NotCached, ram[rfd_tail][p]}

FrameInv == /\ RingInv
            /\ FrameInHand
            /\ LateData
            /\ PublishedSlots
            /\ CacheFresh
            /\ DeliveredInOrder

-----------------------------------------------------------------------------
(* The ring indices: whatever the order of index and data                  *)

\* An engine that owns a slot can advance without passing the doorbell.
LEMMA RoomToAdvance ==
    ASSUME RingInv, cons # prod
    PROVE  /\ Dist(rfd_tail, cons) < Dist(rfd_tail, prod)
           /\ Dist(rfd_tail, cons) < N - 1
           /\ Dist(rfd_tail, Bump(cons)) = Dist(rfd_tail, cons) + 1
           /\ Bump(cons) # rfd_tail
<1> USE RingAssumption
<1>1. rfd_tail \in Slots /\ cons \in Slots /\ prod \in Slots
    BY DEF RingInv, TypeOK
<1>2. Dist(rfd_tail, cons) <= Dist(rfd_tail, prod)
    BY DEF RingInv, ConsumerBetween
<1>3. Dist(rfd_tail, cons) # Dist(rfd_tail, prod)
    BY <1>1, DistInjective
<1>4. /\ Dist(rfd_tail, cons) \in 0 .. N - 1
      /\ Dist(rfd_tail, prod) \in 0 .. N - 1
    BY <1>1, DistInRing
<1>5. Dist(rfd_tail, cons) < Dist(rfd_tail, prod) /\ Dist(rfd_tail, cons) < N - 1
    BY <1>2, <1>3, <1>4
<1>6. Dist(rfd_tail, Bump(cons)) = Dist(rfd_tail, cons) + 1
    BY <1>1, <1>5, DistBumpFar
<1>7. Bump(cons) # rfd_tail
    BY <1>1, <1>4, <1>6, DistInRing, BumpInRing
<1> QED BY <1>5, <1>6, <1>7

\* The state before start satisfies the invariant.
LEMMA InitRingInv == Init => RingInv
<1> SUFFICES ASSUME Init PROVE RingInv
    OBVIOUS
<1>1. TypeOK
    BY InitTypeOK
<1>2. Dist(0, 0) = 0
    BY RingAssumption DEF Dist
<1> QED BY <1>1, <1>2 DEF Init, RingInv, BeforeStart, DoorbellBehindTail,
                          ConsumerBetween, IndicesCountFrames

\* edma_init_rfd_ring() with the engine off.
LEMMA InitRfdRingKeepsRing ==
    ASSUME RingInv, InitRfdRing, TypeOK' PROVE RingInv'
<1>1. N - 1 \in Slots /\ Bump(N - 1) = 0 /\ Dist(0, 0) = 0
    BY RingAssumption DEF Slots, Bump, Dist
<1>2. Dist(0, N - 1) >= 0
    BY RingAssumption DEF Dist
<1> QED BY <1>1, <1>2
        DEF RingInv, InitRfdRing, FirstHead, BeforeStart, DoorbellBehindTail,
            ConsumerBetween, IndicesCountFrames, engineVars

\* recv hands the slot at the tail back through the old head.
LEMMA RecycleKeepsRing ==
    ASSUME RingInv, Recycle, TypeOK' PROVE RingInv'
<1> USE RingAssumption
<1>1. /\ rfd_tail \in Slots /\ rfd_head \in Slots
      /\ cons \in Slots /\ prod \in Slots
      /\ pc = "recycle"
    BY DEF RingInv, TypeOK, Recycle
<1>2. /\ Bump(rfd_head) = rfd_tail
      /\ prod = rfd_head \/ Bump(prod) = rfd_head
      /\ cons # rfd_tail
    BY <1>1 DEF RingInv, DoorbellBehindTail, ConsumerBetween
<1>3. /\ prod' = rfd_head /\ rfd_head' = Bump(rfd_head)
      /\ rfd_tail' = Bump(rfd_tail) /\ pc' = "return"
      /\ cons' = cons /\ eng' = eng /\ eng_slot' = eng_slot
      /\ rxq_en' = rxq_en /\ accepted' = accepted /\ delivered' = delivered
    BY DEF Recycle, engineVars
<1>4. Dist(rfd_tail', cons) = Dist(rfd_tail, cons) - 1
    BY <1>1, <1>2, <1>3, DistBumpNear
<1>5. Dist(rfd_tail, rfd_head) = N - 1 /\ Dist(rfd_tail', prod') = N - 2
    BY <1>1, <1>2, <1>3, DistBehind
<1>6. Dist(rfd_tail, cons) \in 0 .. N - 1 /\ Dist(rfd_tail, prod) \in 0 .. N - 1
    BY <1>1, DistInRing
<1>7. BeforeStart'
    BY <1>1, <1>3 DEF RingInv, BeforeStart
<1>8. DoorbellBehindTail'
    BY <1>2, <1>3 DEF DoorbellBehindTail
<1>9. ConsumerBetween'
    <2>1. Dist(rfd_tail', cons') <= Dist(rfd_tail', prod')
        BY <1>3, <1>4, <1>5, <1>6
    <2>2. ASSUME "index" \in eng PROVE eng_slot = cons /\ cons # rfd_head
        <3>1. eng_slot = cons /\ cons # prod
            BY <2>2 DEF RingInv, ConsumerBetween
        <3>2. Dist(rfd_tail, cons) < N - 1
            BY <3>1, RoomToAdvance
        <3> QED BY <3>1, <3>2, <1>5
    <2> QED BY <2>1, <2>2, <1>3 DEF ConsumerBetween
<1>10. IndicesCountFrames'
    BY <1>1, <1>3, <1>4, <1>6 DEF RingInv, IndicesCountFrames, TypeOK
<1> QED BY <1>7, <1>8, <1>9, <1>10 DEF RingInv

\* The return of recv counts the frame it hands on.
LEMMA ReturnKeepsRing ==
    ASSUME RingInv, Return, TypeOK' PROVE RingInv'
<1>1. Len(delivered') = Len(delivered) + 1 /\ Len(delivered) \in Nat
    BY DEF RingInv, TypeOK, Return
<1>2. pc = "return" /\ pc' = "idle"
    BY DEF Return
<1>3. Dist(rfd_tail, cons) \in Int /\ accepted \in Nat
    BY DistInRing DEF RingInv, TypeOK
<1> QED BY <1>1, <1>2, <1>3
        DEF RingInv, Return, BeforeStart, DoorbellBehindTail, ConsumerBetween,
            IndicesCountFrames, engineVars

\* The engine takes a slot it owns.
LEMMA EngineTakeKeepsRing ==
    ASSUME RingInv, NEW n \in AllSizes, EngineTake(n), TypeOK' PROVE RingInv'
<1>1. /\ cons # prod /\ rxq_en /\ eng = {}
      /\ accepted' = accepted + 1 /\ eng_slot' = cons /\ "index" \in eng'
      /\ UNCHANGED <<rfd_head, rfd_tail, pc, delivered, rxq_en, prod, cons>>
    BY DEF EngineTake, driverVars
<1>2. /\ Dist(rfd_tail, cons) \in Int
      /\ accepted \in Nat /\ Len(delivered) \in Nat
    BY DistInRing DEF RingInv, TypeOK
<1>3. pc \notin {"probed", "ring"}
    BY <1>1 DEF RingInv, BeforeStart
<1>4. BeforeStart' /\ DoorbellBehindTail' /\ ConsumerBetween'
    BY <1>1, <1>3 DEF RingInv, BeforeStart, DoorbellBehindTail, ConsumerBetween
<1>5. IndicesCountFrames'
    BY <1>1, <1>2 DEF RingInv, IndicesCountFrames
<1> QED BY <1>4, <1>5 DEF RingInv

\* The engine publishes the index of a slot it owns.
LEMMA EnginePublishKeepsRing ==
    ASSUME RingInv, EnginePublish, TypeOK' PROVE RingInv'
<1>0. HwNext(cons) = Bump(cons)
    BY SameWrap DEF RingInv, TypeOK
<1>1. /\ "index" \in eng /\ cons # prod /\ "index" \notin eng'
      /\ cons' = Bump(cons)
      /\ UNCHANGED <<rfd_head, rfd_tail, pc, delivered, rxq_en, prod, accepted>>
    BY <1>0 DEF EnginePublish, driverVars, RingInv, ConsumerBetween
<1>2. /\ Dist(rfd_tail, cons) < Dist(rfd_tail, prod)
      /\ Dist(rfd_tail, Bump(cons)) = Dist(rfd_tail, cons) + 1
      /\ Bump(cons) # rfd_tail
    BY <1>1, RoomToAdvance
<1>3. /\ Dist(rfd_tail, cons) \in Int /\ Dist(rfd_tail, prod) \in Int
      /\ accepted \in Nat /\ Len(delivered) \in Nat
    BY DistInRing DEF RingInv, TypeOK
<1>4. BeforeStart' /\ DoorbellBehindTail'
    BY <1>1 DEF RingInv, BeforeStart, DoorbellBehindTail
<1>5. ConsumerBetween' /\ IndicesCountFrames'
    BY <1>1, <1>2, <1>3 DEF RingInv, ConsumerBetween, IndicesCountFrames
<1> QED BY <1>4, <1>5 DEF RingInv

\* Every step keeps the ring invariant.
LEMMA NextRingInv == RingInv /\ [Next]_vars => RingInv'
<1> SUFFICES ASSUME RingInv, [Next]_vars PROVE RingInv'
    OBVIOUS
<1>0. TypeOK'
    BY NextTypeOK DEF RingInv
<1> USE DEF RingInv, BeforeStart, DoorbellBehindTail, ConsumerBetween,
            IndicesCountFrames
<1>1. CASE InitRfdRing
    BY <1>0, <1>1, InitRfdRingKeepsRing
<1>2. CASE StartRx
    BY <1>0, <1>2 DEF StartRx, engineVars
<1>3. CASE PollEmpty
    BY <1>0, <1>3 DEF PollEmpty, vars, driverVars, engineVars
<1>4. CASE PollIndex
    BY <1>0, <1>4 DEF PollIndex, FrameWaiting, engineVars
<1>5. CASE CheckRrd
    BY <1>0, <1>5 DEF CheckRrd, engineVars
<1>6. CASE CopyOut
    BY <1>0, <1>6 DEF CopyOut, engineVars
<1>7. CASE Recycle
    BY <1>0, <1>7, RecycleKeepsRing
<1>8. CASE Return
    BY <1>0, <1>8, ReturnKeepsRing
<1>9. ASSUME NEW n \in AllSizes, EngineTake(n)
      PROVE  RingInv'
    BY <1>0, <1>9, EngineTakeKeepsRing
<1>10. CASE EnginePublish
    BY <1>0, <1>10, EnginePublishKeepsRing
<1>11. ASSUME NEW p \in Parts, EngineWrite(p)
       PROVE  RingInv'
    <2>1. "index" \in eng' <=> "index" \in eng
        BY <1>11 DEF EngineWrite, Parts
    <2>2. eng # {}
        BY <1>11 DEF EngineWrite
    <2> QED BY <1>0, <1>11, <2>1, <2>2 DEF EngineWrite, driverVars
<1>12. CASE EngineRefuse
    BY <1>0, <1>12 DEF EngineRefuse, driverVars
<1>13. ASSUME NEW s \in Slots, NEW p \in Parts, Fill(s, p) \/ Evict(s, p)
       PROVE  RingInv'
    BY <1>0, <1>13 DEF Fill, Evict, driverVars, engineVars
<1>14. CASE UNCHANGED vars
    BY <1>0, <1>14 DEF vars, driverVars, engineVars
<1> QED
    BY <1>1, <1>2, <1>3, <1>4, <1>5, <1>6, <1>7, <1>8, <1>9, <1>10, <1>11,
       <1>12, <1>13, <1>14 DEF Next, Recv, Engine, EngineGoesOn

\* The ring invariant holds in every reachable state.
THEOREM RingCorrect == Spec => []RingInv
<1>1. Init => RingInv
    BY InitRingInv
<1>2. RingInv /\ [Next]_vars => RingInv'
    BY NextRingInv
<1> QED BY <1>1, <1>2, PTL DEF Spec

\* recv's test of the consumer index against the tail is exact for every ring
\* size: the distance between them counts the frames in the ring.
THEOREM IndicesAlwaysCountFrames == Spec => []IndicesCountFrames
<1>1. RingInv => IndicesCountFrames
    BY DEF RingInv
<1> QED BY <1>1, RingCorrect, PTL

-----------------------------------------------------------------------------
(* What recv returns: whatever the order of index and data                 *)

\* No frame is in the ring before start.
LEMMA InitFrameInv == Init => FrameInv
<1> SUFFICES ASSUME Init PROVE FrameInv
    OBVIOUS
<1>1. RingInv
    BY InitRingInv
<1>2. 0 \in Slots /\ cons = 0 /\ rfd_tail = 0 /\ Dist(0, 0) = 0
    BY RingAssumption DEF Init, Slots, Dist
<1>3. \A s \in Slots : ~(Dist(0, s) < 0)
    BY <1>2, DistInRing
<1>4. PublishedSlots /\ FrameInHand /\ LateData /\ CacheFresh
    BY <1>2, <1>3 DEF PublishedSlots, FrameInHand, LateData, CacheFresh, Init
<1>5. DeliveredInOrder
    BY DEF Init, DeliveredInOrder
<1> QED BY <1>1, <1>4, <1>5 DEF FrameInv

\* The frames in the ring are counted from the oldest one on.
LEMMA FramesCounted ==
    ASSUME RingInv
    PROVE  /\ Handed \in Nat /\ Len(delivered) \in Nat /\ accepted \in Nat
           /\ Dist(rfd_tail, cons) \in 0 .. N - 1
           /\ accepted = Handed + Dist(rfd_tail, cons)
                         + (IF "index" \in eng THEN 1 ELSE 0)
<1>1. Len(delivered) \in Nat /\ accepted \in Nat
    BY DEF RingInv, TypeOK
<1>2. Dist(rfd_tail, cons) \in 0 .. N - 1
    BY DistInRing DEF RingInv, TypeOK
<1> QED BY <1>1, <1>2 DEF Handed, RingInv, IndicesCountFrames

\* Of the published slots the engine writes only the last, with an early frame.
LEMMA LateSlot ==
    ASSUME FrameInv, eng # {}, NEW s \in Slots, s = eng_slot,
           Dist(rfd_tail, s) < Dist(rfd_tail, cons)
    PROVE  Handed + 1 + Dist(rfd_tail, s) \in early
<1>1. /\ RingInv /\ rfd_tail \in Slots /\ cons \in Slots
    BY DEF FrameInv, RingInv, TypeOK
<1>2. Dist(rfd_tail, s) \in 0 .. N - 1 /\ Dist(rfd_tail, cons) \in 0 .. N - 1
    BY <1>1, DistInRing
<1>3. "index" \notin eng
    <2>1. ASSUME "index" \in eng PROVE FALSE
        <3>1. s = cons
            BY <2>1 DEF FrameInv, RingInv, ConsumerBetween
        <3> QED BY <1>2, <3>1
    <2> QED BY <2>1
<1>4. Bump(s) = cons /\ accepted \in early
    BY <1>3 DEF FrameInv, LateData
<1>5. Dist(rfd_tail, cons) = Dist(rfd_tail, s) + 1
    <2>1. Dist(rfd_tail, s) < N - 1
        BY <1>2, RingAssumption
    <2> QED BY <1>1, <1>4, <2>1, DistBumpFar
<1>6. accepted = Handed + 1 + Dist(rfd_tail, s)
    BY <1>1, <1>2, <1>3, <1>5, FramesCounted
<1> QED BY <1>4, <1>6

\* Nothing is published when edma_init_rfd_ring() runs.
LEMMA InitRfdRingKeepsFrames ==
    ASSUME FrameInv, InitRfdRing, RingInv' PROVE FrameInv'
<1>1. /\ cons' = 0 /\ rfd_tail' = 0 /\ eng' = {} /\ pc' = "ring"
      /\ delivered' = << >>
    BY DEF FrameInv, RingInv, BeforeStart, InitRfdRing, engineVars
<1>2. 0 \in Slots /\ Dist(0, 0) = 0
    BY RingAssumption DEF Slots, Dist
<1>3. \A s \in Slots : ~(Dist(0, s) < 0)
    BY <1>2, DistInRing
<1>4. PublishedSlots' /\ FrameInHand' /\ LateData' /\ CacheFresh'
    BY <1>1, <1>2, <1>3 DEF PublishedSlots, FrameInHand, LateData, CacheFresh
<1>5. DeliveredInOrder'
    BY <1>1 DEF DeliveredInOrder
<1> QED BY <1>4, <1>5 DEF FrameInv

\* The invalidation empties the lines that recv is going to look at.
LEMMA PollIndexKeepsFrames ==
    ASSUME FrameInv, PollIndex, RingInv' PROVE FrameInv'
<1>1. /\ pc = "idle" /\ pc' = "rrd"
      /\ cache' = [cache EXCEPT ![rfd_tail] = [p \in Parts |-> NotCached]]
      /\ UNCHANGED <<uip, rfd_tail, delivered, cons, eng, eng_slot, eng_frame,
                     accepted, early, ram>>
    BY DEF PollIndex, Invalidated, engineVars
<1>2. \A p \in Parts : cache'[rfd_tail'][p] = NotCached
    BY <1>1 DEF FrameInv, RingInv, TypeOK
<1>3. CacheFresh'
    BY <1>2 DEF CacheFresh
<1> QED BY <1>1, <1>3 DEF FrameInv, PublishedSlots, Handed, FrameInHand, LateData,
                          DeliveredInOrder

\* The copy takes the next frame, if it is not an early one: the slot at the tail
\* is published and written, and the cache shows both lines as they are.
LEMMA CopyTakesTail ==
    ASSUME FrameInv, CopyOut, Len(delivered) + 1 \notin early
    PROVE  /\ \A p \in Parts : /\ Seen(rfd_tail, p) = ram[rfd_tail][p]
                               /\ ram[rfd_tail][p] \in Whole(Len(delivered) + 1)
           /\ uip' = [head |-> Len(delivered) + 1, body |-> Len(delivered) + 1,
                      len |-> Cut(ram[rfd_tail]["first"].size)]
<1>1. pc = "copy" /\ rfd_tail \in Slots /\ cons \in Slots /\ cons # rfd_tail
    BY DEF CopyOut, FrameInv, RingInv, TypeOK, ConsumerBetween
<1>2. Dist(rfd_tail, rfd_tail) = 0 /\ Dist(rfd_tail, cons) > 0
    BY <1>1, DistInRing
<1>3. Handed = Len(delivered) /\ Len(delivered) \in Nat
    BY <1>1, FramesCounted DEF Handed, FrameInv
<1>4. \A p \in Parts : ram[rfd_tail][p] \in Whole(Len(delivered) + 1)
    <2>1. Len(delivered) + 1 = Handed + 1 + Dist(rfd_tail, rfd_tail)
        BY <1>2, <1>3
    <2> QED BY <1>1, <1>2, <1>3, <2>1 DEF FrameInv, PublishedSlots
<1>5. \A p \in Parts : Seen(rfd_tail, p) = ram[rfd_tail][p]
    BY <1>1 DEF FrameInv, CacheFresh, Seen
<1>6. \A p \in Parts : Seen(rfd_tail, p).id = Len(delivered) + 1
    BY <1>4, <1>5 DEF Whole
<1> QED BY <1>4, <1>5, <1>6 DEF CopyOut, Parts

LEMMA CopyOutKeepsFrames ==
    ASSUME FrameInv, CopyOut, RingInv' PROVE FrameInv'
<1>1. /\ pc = "copy" /\ pc' = "recycle"
      /\ UNCHANGED <<rfd_tail, delivered, cons, eng, eng_slot, eng_frame,
                     accepted, early, ram, cache>>
    BY DEF CopyOut, engineVars
<1>2. DeliveredInOrder'
    <2>1. Len(delivered) + 1 \notin early =>
              uip'.head = Len(delivered) + 1 /\ uip'.body = Len(delivered) + 1
        BY CopyTakesTail
    <2> QED BY <1>1, <2>1 DEF FrameInv, DeliveredInOrder
<1> QED BY <1>1, <1>2 DEF FrameInv, PublishedSlots, Handed, FrameInHand, LateData,
                          CacheFresh

\* A slot that is published after the one at the tail was given back keeps the
\* number it had.
LEMMA NumberAfterRecycle ==
    ASSUME FrameInv, Recycle, NEW s \in Slots,
           Dist(rfd_tail', s) < Dist(rfd_tail', cons)
    PROVE  /\ Dist(rfd_tail, s) < Dist(rfd_tail, cons)
           /\ Handed' + 1 + Dist(rfd_tail', s) = Handed + 1 + Dist(rfd_tail, s)
<1>1. /\ pc = "recycle" /\ pc' = "return" /\ delivered' = delivered
      /\ rfd_tail' = Bump(rfd_tail)
    BY DEF Recycle
<1>2. /\ rfd_tail \in Slots /\ cons \in Slots /\ cons # rfd_tail
      /\ Len(delivered) \in Nat
    BY <1>1 DEF FrameInv, RingInv, TypeOK, ConsumerBetween
<1>3. Handed' = Handed + 1 /\ Handed \in Nat
    BY <1>1, <1>2 DEF Handed
<1>4. Dist(rfd_tail', cons) = Dist(rfd_tail, cons) - 1
    BY <1>1, <1>2, DistBumpNear
<1>5. Dist(rfd_tail, cons) \in 0 .. N - 1 /\ Dist(rfd_tail, s) \in 0 .. N - 1
    BY <1>2, DistInRing
<1>6. s # rfd_tail
    <2>1. Dist(Bump(rfd_tail), rfd_tail) = N - 1
        BY <1>2, RingAssumption DEF Dist, Bump, Slots
    <2> QED BY <1>1, <1>4, <1>5, <2>1, RingAssumption
<1>7. Dist(rfd_tail', s) = Dist(rfd_tail, s) - 1
    BY <1>1, <1>2, <1>6, DistBumpNear
<1> QED BY <1>3, <1>4, <1>5, <1>7

\* Giving the slot at the tail back leaves the rest of the ring in order.
LEMMA RecycleKeepsFrames ==
    ASSUME FrameInv, Recycle, RingInv' PROVE FrameInv'
<1>1. /\ pc = "recycle" /\ pc' = "return"
      /\ UNCHANGED <<uip, delivered, cons, eng, eng_slot, eng_frame, accepted,
                     early, ram, cache>>
    BY DEF Recycle, engineVars
<1>2. PublishedSlots'
    <2>1. SUFFICES ASSUME NEW s \in Slots, NEW k \in Nat, NEW p \in Parts,
                          Dist(rfd_tail', s) < Dist(rfd_tail', cons),
                          k = Handed' + 1 + Dist(rfd_tail', s), k \notin early
                   PROVE  ram[s][p] \in Whole(k)
        BY <1>1 DEF PublishedSlots
    <2>2. /\ Dist(rfd_tail, s) < Dist(rfd_tail, cons)
          /\ k = Handed + 1 + Dist(rfd_tail, s)
        BY <2>1, NumberAfterRecycle
    <2> QED BY <2>1, <2>2 DEF FrameInv, PublishedSlots
<1>3. FrameInHand' /\ LateData' /\ CacheFresh' /\ DeliveredInOrder'
    BY <1>1 DEF FrameInv, FrameInHand, LateData, CacheFresh, DeliveredInOrder
<1> QED BY <1>2, <1>3 DEF FrameInv

\* The returned frame extends the history in order.
LEMMA ReturnKeepsFrames ==
    ASSUME FrameInv, Return, RingInv' PROVE FrameInv'
<1>1. /\ pc = "return" /\ pc' = "idle"
      /\ delivered' = Append(delivered, uip)
      /\ UNCHANGED <<uip, rfd_tail, cons, eng, eng_slot, eng_frame, accepted,
                     early, ram, cache>>
    BY DEF Return, engineVars
<1>2. delivered \in Seq(Received) /\ uip \in Received
    BY DEF FrameInv, RingInv, TypeOK
<1>3. /\ Len(delivered') = Len(delivered) + 1
      /\ Len(delivered) \in Nat
      /\ delivered'[Len(delivered) + 1] = uip
      /\ \A i \in 1 .. Len(delivered) : delivered'[i] = delivered[i]
    BY <1>1, <1>2
<1>4. Len(delivered) + 1 \notin early =>
          uip.head = Len(delivered) + 1 /\ uip.body = Len(delivered) + 1
    BY <1>1 DEF FrameInv, DeliveredInOrder
<1>5. DeliveredInOrder'
    BY <1>1, <1>3, <1>4 DEF FrameInv, DeliveredInOrder
<1>6. Handed' = Handed
    BY <1>1, <1>3 DEF Handed
<1>7. PublishedSlots' /\ FrameInHand' /\ LateData' /\ CacheFresh'
    BY <1>1, <1>6 DEF FrameInv, PublishedSlots, FrameInHand, LateData, CacheFresh
<1> QED BY <1>5, <1>7 DEF FrameInv

\* The engine takes a frame for a slot that is not published.
LEMMA EngineTakeKeepsFrames ==
    ASSUME FrameInv, NEW n \in AllSizes, EngineTake(n), RingInv'
    PROVE  FrameInv'
<1>1. /\ eng' = Parts \cup {"index"} /\ accepted' = accepted + 1
      /\ eng_slot' = cons
      /\ eng_frame' = [valid |-> TRUE, id |-> accepted + 1, size |-> n]
      /\ UNCHANGED <<uip, rfd_tail, pc, delivered, cons, early, ram, cache>>
    BY DEF EngineTake, driverVars
<1>2. FrameInHand' /\ LateData'
    BY <1>1 DEF FrameInHand, LateData, Whole
<1> QED BY <1>1, <1>2 DEF FrameInv, PublishedSlots, Handed, CacheFresh,
                          DeliveredInOrder

\* A published slot holds the last frame accepted, which is the one after all
\* those already in the ring, or that frame is an early one.
LEMMA EnginePublishKeepsFrames ==
    ASSUME FrameInv, EnginePublish, RingInv' PROVE FrameInv'
<1>0. HwNext(cons) = Bump(cons) /\ RingInv
    BY SameWrap DEF FrameInv, RingInv, TypeOK
<1>1. /\ "index" \in eng /\ eng' = eng \ {"index"} /\ cons' = Bump(cons)
      /\ early' = IF eng' = {} THEN early ELSE early \cup {accepted}
      /\ UNCHANGED <<uip, rfd_tail, pc, delivered, accepted, ram, cache,
                     eng_slot, eng_frame>>
    BY <1>0 DEF EnginePublish, driverVars
<1>2. cons # prod /\ eng_slot = cons
    BY <1>1 DEF FrameInv, RingInv, ConsumerBetween
<1>3. Dist(rfd_tail, cons') = Dist(rfd_tail, cons) + 1
    BY <1>0, <1>1, <1>2, RoomToAdvance
<1>4. /\ rfd_tail \in Slots /\ cons \in Slots
    BY DEF FrameInv, RingInv, TypeOK
<1>5. /\ Dist(rfd_tail, cons) \in 0 .. N - 1
      /\ accepted = Handed + 1 + Dist(rfd_tail, cons)
      /\ Handed \in Nat /\ Handed' = Handed
    BY <1>0, <1>1, FramesCounted DEF Handed
<1>6. PublishedSlots'
    <2>1. SUFFICES ASSUME NEW s \in Slots, NEW k \in Nat, NEW p \in Parts,
                          Dist(rfd_tail, s) < Dist(rfd_tail, cons'),
                          k = Handed + 1 + Dist(rfd_tail, s), k \notin early'
                   PROVE  ram[s][p] \in Whole(k)
        BY <1>1, <1>5 DEF PublishedSlots
    <2>2. Dist(rfd_tail, s) \in 0 .. N - 1 /\ k \notin early
        BY <1>1, <1>4, <2>1, DistInRing
    <2>3. CASE Dist(rfd_tail, s) = Dist(rfd_tail, cons)
        <3>1. s = cons /\ k = accepted
            BY <1>4, <1>5, <2>1, <2>3, DistInjective
        <3>2. eng' = {}
            BY <1>1, <2>1, <3>1
        <3>3. p \notin eng
            BY <1>1, <3>2 DEF Parts
        <3> QED BY <1>1, <3>1, <3>3 DEF FrameInv, FrameInHand
    <2>4. CASE Dist(rfd_tail, s) < Dist(rfd_tail, cons)
        BY <2>1, <2>2, <2>4 DEF FrameInv, PublishedSlots
    <2> QED BY <1>3, <1>5, <2>1, <2>2, <2>3, <2>4
<1>7. FrameInHand' /\ LateData'
    BY <1>1, <1>2 DEF FrameInv, FrameInHand, LateData
<1>8. CacheFresh' /\ DeliveredInOrder'
    <2>1. early \subseteq early'
        BY <1>1
    <2> QED BY <1>1, <2>1 DEF FrameInv, CacheFresh, DeliveredInOrder
<1> QED BY <1>6, <1>7, <1>8 DEF FrameInv

\* Data is written behind no published slot and no line recv may load, but for
\* those of an early frame.
LEMMA EngineWriteKeepsFrames ==
    ASSUME FrameInv, NEW q \in Parts, EngineWrite(q), RingInv' PROVE FrameInv'
<1>1. /\ q \in eng /\ eng' = eng \ {q} /\ eng # {}
      /\ UNCHANGED <<uip, rfd_tail, pc, delivered, cons, accepted, early, cache,
                     eng_slot, eng_frame>>
    BY DEF EngineWrite, driverVars
<1>2. /\ rfd_tail \in Slots /\ eng_slot \in Slots /\ cons \in Slots
      /\ TypeOK /\ RingInv
      /\ pc \in {"rrd", "copy"} => cons # rfd_tail
      /\ "index" \in eng => eng_slot = cons
    BY DEF FrameInv, RingInv, TypeOK, ConsumerBetween
<1>3. \A s \in Slots, p \in Parts :
          ram'[s][p] = IF s = eng_slot /\ p = q THEN eng_frame ELSE ram[s][p]
    BY <1>2, OneLineWritten
<1>4. Handed' = Handed
    BY <1>1 DEF Handed
<1>5. PublishedSlots'
    <2>1. SUFFICES ASSUME NEW s \in Slots, NEW k \in Nat, NEW p \in Parts,
                          Dist(rfd_tail, s) < Dist(rfd_tail, cons),
                          k = Handed + 1 + Dist(rfd_tail, s), k \notin early
                   PROVE  ram'[s][p] \in Whole(k)
        BY <1>1, <1>4 DEF PublishedSlots
    <2>2. s # eng_slot
        BY <1>1, <2>1, LateSlot
    <2>3. ram'[s][p] = ram[s][p]
        BY <1>3, <2>2
    <2> QED BY <2>1, <2>3 DEF FrameInv, PublishedSlots
<1>6. FrameInHand'
    <2>1. "index" \in eng' <=> "index" \in eng
        BY <1>1 DEF Parts
    <2>2. \A p \in Parts : p \in eng' <=> p \in eng /\ p # q
        BY <1>1
    <2>3. eng_frame \in Whole(accepted)
        BY <1>1 DEF FrameInv, FrameInHand
    <2>4. ASSUME "index" \in eng, NEW p \in Parts
          PROVE  p \in eng' \/ ram'[cons][p] \in Whole(accepted)
        BY <1>2, <1>3, <2>2, <2>3, <2>4 DEF FrameInv, FrameInHand
    <2> QED BY <1>1, <2>1, <2>3, <2>4 DEF FrameInHand
<1>7. LateData'
    <2>1. "index" \in eng' <=> "index" \in eng
        BY <1>1 DEF Parts
    <2> QED BY <1>1, <2>1 DEF FrameInv, LateData
<1>8. CacheFresh'
    <2>1. SUFFICES ASSUME pc \in {"rrd", "copy"}, Len(delivered) + 1 \notin early,
                          NEW p \in Parts
                   PROVE  cache[rfd_tail][p] \in {NotCached, ram'[rfd_tail][p]}
        BY <1>1 DEF CacheFresh
    <2>2. rfd_tail # eng_slot
        <3>1. Dist(rfd_tail, rfd_tail) = 0 /\ Dist(rfd_tail, cons) > 0
            BY <1>2, <2>1, DistInRing
        <3>2. Handed = Len(delivered) /\ Len(delivered) \in Nat
            BY <1>2, <2>1, FramesCounted DEF Handed
        <3> QED BY <1>1, <1>2, <2>1, <3>1, <3>2, LateSlot
    <2> QED BY <1>2, <1>3, <2>1, <2>2 DEF FrameInv, CacheFresh
<1>9. DeliveredInOrder'
    BY <1>1 DEF FrameInv, DeliveredInOrder
<1> QED BY <1>5, <1>6, <1>7, <1>8, <1>9 DEF FrameInv

\* A line that is loaded shows what is in RAM, and one that is dropped nothing.
LEMMA CacheKeepsFrames ==
    ASSUME FrameInv, RingInv', NEW s \in Slots, NEW p \in Parts,
           Fill(s, p) \/ Evict(s, p)
    PROVE  FrameInv'
<1>1. UNCHANGED <<uip, rfd_tail, pc, delivered, cons, eng, eng_slot, eng_frame,
                  accepted, early, ram>>
    BY DEF Fill, Evict, driverVars, engineVars
<1>2. rfd_tail \in Slots /\ cache \in [Slots -> [Parts -> Line \cup {NotCached}]]
    BY DEF FrameInv, RingInv, TypeOK
<1>3. \A q \in Parts : cache'[rfd_tail][q] \in
          {NotCached, ram[rfd_tail][q], cache[rfd_tail][q]}
    BY <1>2 DEF Fill, Evict
<1>4. CacheFresh'
    BY <1>1, <1>3 DEF FrameInv, CacheFresh
<1> QED BY <1>1, <1>4 DEF FrameInv, PublishedSlots, Handed, FrameInHand, LateData,
                          DeliveredInOrder

\* Every step keeps the frames of the ring in order.
LEMMA NextFrameInv == FrameInv /\ [Next]_vars => FrameInv'
<1> SUFFICES ASSUME FrameInv, [Next]_vars PROVE FrameInv'
    OBVIOUS
<1>0. RingInv'
    BY NextRingInv DEF FrameInv
<1> DEFINE S == <<uip, rfd_tail, pc, delivered, cons, eng, eng_slot, eng_frame,
                  accepted, early, ram, cache>>
<1>a. UNCHANGED S => FrameInv'
    BY <1>0 DEF FrameInv, PublishedSlots, Handed, FrameInHand, LateData, CacheFresh,
                DeliveredInOrder
<1>1. CASE InitRfdRing
    BY <1>0, <1>1, InitRfdRingKeepsFrames
<1>2. CASE StartRx \/ CheckRrd
    BY <1>0, <1>2 DEF StartRx, CheckRrd, engineVars, FrameInv, PublishedSlots,
                      Handed, FrameInHand, LateData, CacheFresh, DeliveredInOrder
<1>3. CASE PollEmpty
    BY <1>a, <1>3 DEF PollEmpty, vars, driverVars, engineVars
<1>4. CASE PollIndex
    BY <1>0, <1>4, PollIndexKeepsFrames
<1>6. CASE CopyOut
    BY <1>0, <1>6, CopyOutKeepsFrames
<1>7. CASE Recycle
    BY <1>0, <1>7, RecycleKeepsFrames
<1>8. CASE Return
    BY <1>0, <1>8, ReturnKeepsFrames
<1>9. ASSUME NEW n \in AllSizes, EngineTake(n)
      PROVE  FrameInv'
    BY <1>0, <1>9, EngineTakeKeepsFrames
<1>10. CASE EnginePublish
    BY <1>0, <1>10, EnginePublishKeepsFrames
<1>11. ASSUME NEW p \in Parts, EngineWrite(p)
       PROVE  FrameInv'
    BY <1>0, <1>11, EngineWriteKeepsFrames
<1>12. CASE EngineRefuse
    BY <1>a, <1>12 DEF EngineRefuse, driverVars
<1>13. ASSUME NEW s \in Slots, NEW p \in Parts, Fill(s, p) \/ Evict(s, p)
       PROVE  FrameInv'
    BY <1>0, <1>13, CacheKeepsFrames
<1>14. CASE UNCHANGED vars
    BY <1>a, <1>14 DEF vars, driverVars, engineVars
<1> QED
    BY <1>1, <1>2, <1>3, <1>4, <1>6, <1>7, <1>8, <1>9, <1>10, <1>11,
       <1>12, <1>13, <1>14 DEF Next, Recv, Engine, EngineGoesOn

\* The order of the frames holds in every reachable state.
LEMMA FramesCorrect == Spec => []FrameInv
<1>1. Init => FrameInv
    BY InitFrameInv
<1>2. FrameInv /\ [Next]_vars => FrameInv'
    BY NextFrameInv
<1> QED BY <1>1, <1>2, PTL DEF Spec

\* The ring keeps the engine off the slot recv is reading.
LEMMA FrameInvKeepsOff ==
    ASSUME FrameInv PROVE EngineKeepsOff
<1> SUFFICES ASSUME pc \in {"rrd", "copy", "recycle"}
             PROVE  /\ Dist(cons, rfd_tail) >= Dist(cons, prod)
                    /\ eng # {} /\ eng_slot = rfd_tail => accepted \in early
    BY DEF EngineKeepsOff
<1>1. rfd_tail \in Slots /\ cons \in Slots /\ prod \in Slots /\ RingInv
    BY DEF FrameInv, RingInv, TypeOK
<1>2. /\ cons # rfd_tail
      /\ Dist(rfd_tail, cons) <= Dist(rfd_tail, prod)
      /\ "index" \in eng => eng_slot = cons
    BY DEF FrameInv, RingInv, ConsumerBetween
<1>3. Dist(cons, rfd_tail) >= Dist(cons, prod)
    BY <1>1, <1>2, RingAssumption DEF Dist, Slots
<1> QED BY <1>2, <1>3 DEF FrameInv, LateData

\* For every ring size the engine never owns the slot recv is looking at, and
\* writes the buffer recv is copying from only with the late data of a frame whose
\* index it showed early.
THEOREM EngineAlwaysKeepsOff == Spec => []EngineKeepsOff
<1>1. FrameInv => EngineKeepsOff
    BY FrameInvKeepsOff
<1> QED BY <1>1, FramesCorrect, PTL

\* For every ring size, any number of laps and whatever the cache loads or drops
\* of a buffer's lines, recv returns the frames the engine accepted one by one in
\* order, none lost in a wrap of the indices and none repeated; all of those whose
\* data was in RAM before their index are whole, neither torn nor read through a
\* stale line.  Nothing is said of what an early frame holds.
THEOREM FramesDeliveredInOrder == Spec => []DeliveredInOrder
<1>1. FrameInv => DeliveredInOrder
    BY DEF FrameInv
<1> QED BY <1>1, FramesCorrect, PTL

-----------------------------------------------------------------------------
(* The ring implements the channel RxFifo                                  *)

\* What recv copied is what the slot at the tail holds, of a frame that did not
\* come early, and after a recv the doorbell is a slot behind the head.
Frames == Received \cup {Garbled}

CopyIsFrame ==
    /\ pc = "recycle" /\ Len(delivered) + 1 \notin early => uip = Stored(rfd_tail)
    /\ pc = "return" => Bump(prod) = rfd_head

FifoInv == FrameInv /\ CopyIsFrame

\* The slots from the tail on, one by one.
LEMMA InRingIs ==
    ASSUME NEW i \in 0 .. N - 1, rfd_tail \in Slots
    PROVE  InRing(i) \in Slots /\ Dist(rfd_tail, InRing(i)) = i
BY RingAssumption DEF InRing, Slots, Dist

\* A slot is found again by its distance from the tail.
LEMMA InRingOf ==
    ASSUME NEW s \in Slots, rfd_tail \in Slots
    PROVE  InRing(Dist(rfd_tail, s)) = s
BY RingAssumption DEF InRing, Slots, Dist

\* The channel's queue, frame by frame.
Returning == IF pc = "return" THEN 1 ELSE 0
Held == Shown(Handed, uip)

QueueFrames ==
    /\ queue \in Seq(Frames)
    /\ Len(queue) = Returning + Dist(rfd_tail, cons)
    /\ pc = "return" => queue[1] = Held
    /\ \A i \in 0 .. Dist(rfd_tail, cons) - 1 :
          queue[Returning + i + 1] = FrameAt(InRing(i))

\* What a slot will hand to recv is a frame of the channel.
LEMMA FrameAtType ==
    ASSUME TypeOK, NEW s \in Slots
    PROVE  FrameAt(s) \in Frames
<1>1. ram[s]["first"] \in Line /\ ram[s]["rest"] \in Line
    BY DEF TypeOK, Parts
<1>2. Stored(s) \in Received
    BY <1>1, FrameAssumption DEF Stored, Line, Received, Cut
<1> QED BY <1>2 DEF FrameAt, Shown, Frames

\* The queue of the refinement mapping, read off slot by slot.
LEMMA QueueIs == TypeOK => QueueFrames
<1> SUFFICES ASSUME TypeOK PROVE QueueFrames
    OBVIOUS
<1> DEFINE d == Dist(rfd_tail, cons)
           held == IF pc = "return" THEN << Held >> ELSE << >>
           slots == [i \in 1 .. d |-> FrameAt(InRing(i - 1))]
<1>1. rfd_tail \in Slots /\ d \in 0 .. N - 1 /\ d \in Nat
    BY DistInRing, RingAssumption DEF TypeOK
<1>2. held \in Seq(Frames) /\ Len(held) = Returning
      /\ (pc = "return" => held[1] = Held)
    <2>1. Held \in Frames
        BY DEF TypeOK, Frames, Held, Shown
    <2>2. CASE pc = "return"
        BY <2>1, <2>2 DEF Returning
    <2>3. CASE pc # "return"
        BY <2>3 DEF Returning
    <2> QED BY <2>2, <2>3
<1> HIDE DEF d
<1>3. \A i \in 1 .. d : FrameAt(InRing(i - 1)) \in Frames
    <2>1. ASSUME NEW i \in 1 .. d PROVE i - 1 \in 0 .. N - 1
        BY <1>1, <2>1, RingAssumption
    <2> QED BY <1>1, <2>1, InRingIs, FrameAtType
<1>4. slots \in Seq(Frames) /\ Len(slots) = d
    BY <1>1, <1>3, IsASeq, LenProperties
<1>5. \A i \in 0 .. d - 1 : slots[i + 1] = FrameAt(InRing(i))
    <2>1. ASSUME NEW i \in 0 .. d - 1 PROVE i + 1 \in 1 .. d /\ i + 1 - 1 = i
        BY <1>1, <2>1
    <2> QED BY <2>1
<1> HIDE DEF held, slots
<1>6. /\ held \o slots \in Seq(Frames) /\ Len(held \o slots) = Returning + d
      /\ \A i \in 1 .. Returning + d :
            (held \o slots)[i] = IF i <= Returning THEN held[i]
                                                 ELSE slots[i - Returning]
    BY <1>2, <1>4, ConcatProperties
<1>7. Returning \in {0, 1} /\ (pc = "return" => Returning = 1)
    BY DEF Returning
<1>8. pc = "return" => (held \o slots)[1] = Held
    BY <1>1, <1>2, <1>6, <1>7
<1>9. ASSUME NEW i \in 0 .. d - 1
      PROVE  (held \o slots)[Returning + i + 1] = FrameAt(InRing(i))
    <2> DEFINE j == Returning + i + 1
    <2>1. j \in 1 .. Returning + d /\ ~(j <= Returning) /\ j - Returning = i + 1
        BY <1>1, <1>7, <1>9
    <2>2. slots[i + 1] = FrameAt(InRing(i))
        BY <1>5, <1>9
    <2> HIDE DEF j
    <2>3. (held \o slots)[j] = slots[j - Returning]
        BY <1>6, <2>1
    <2> QED BY <2>1, <2>2, <2>3 DEF j
<1>10. queue = held \o slots
    BY DEF queue, held, slots, d, Held
<1> QED BY <1>6, <1>8, <1>9, <1>10 DEF QueueFrames, d

\* The same in the next state.
LEMMA QueueIsNext == TypeOK' => QueueFrames'
BY QueueIs, PTL

\* The ring as counted by its indices.
LEMMA QueueLength ==
    ASSUME FifoInv
    PROVE  /\ Len(delivered) \in Nat /\ Dist(rfd_tail, cons) \in 0 .. N - 1
           /\ Returning \in {0, 1} /\ Handed = Len(delivered) + Returning
           /\ Handed \in Nat
           /\ accepted = Handed + Dist(rfd_tail, cons)
                         + (IF "index" \in eng THEN 1 ELSE 0)
BY FramesCounted DEF FifoInv, FrameInv, Returning, Handed

\* The engine has a slot to advance to only below the channel's capacity, and
\* finds none only when it is within one place of it.
LEMMA RingRoom ==
    ASSUME FifoInv, pc # "probed"
    PROVE  /\ cons # prod => Returning + Dist(rfd_tail, cons) < N - 1
           /\ cons = prod => Returning + Dist(rfd_tail, cons) + 1 >= N - 1
<1> DEFINE d == Dist(rfd_tail, cons)  b == Dist(rfd_tail, prod)
<1>1. /\ rfd_tail \in Slots /\ rfd_head \in Slots /\ prod \in Slots /\ RingInv
      /\ Bump(rfd_head) = rfd_tail
      /\ prod = rfd_head \/ Bump(prod) = rfd_head
      /\ pc = "return" => Bump(prod) = rfd_head
    BY DEF FifoInv, FrameInv, RingInv, TypeOK, DoorbellBehindTail, CopyIsFrame
<1>2. b \in {N - 1, N - 2} /\ (pc = "return" => b = N - 2)
    BY <1>1, DistBehind
<1>3. d \in 0 .. N - 1 /\ Returning \in {0, 1} /\ (pc # "return" => Returning = 0)
    BY QueueLength DEF Returning
<1>4. cons # prod => d < b
    BY <1>1, RoomToAdvance
<1>5. cons = prod => d = b
    OBVIOUS
<1> HIDE DEF d, b
<1>6. cons # prod => Returning + d < N - 1
    BY <1>2, <1>3, <1>4, RingAssumption
<1>7. cons = prod => Returning + d + 1 >= N - 1
    BY <1>2, <1>3, <1>5, RingAssumption
<1> QED BY <1>6, <1>7 DEF d

\* Two queues with the same frames are the same.
LEMMA SameQueue ==
    ASSUME QueueFrames, QueueFrames', Returning' = Returning,
           Dist(rfd_tail, cons)' = Dist(rfd_tail, cons),
           rfd_tail' = rfd_tail, Dist(rfd_tail, cons) \in Nat,
           pc = "return" => Held' = Held /\ pc' = "return",
           \A i \in 0 .. Dist(rfd_tail, cons) - 1 :
               FrameAt(InRing(i))' = FrameAt(InRing(i))
    PROVE  queue' = queue
<1> DEFINE d == Dist(rfd_tail, cons)  k == Returning
<1>1. /\ queue \in Seq(Frames) /\ queue' \in Seq(Frames)
      /\ Len(queue) = k + d /\ Len(queue') = k + d /\ d \in Nat
      /\ (k = 1 /\ pc = "return") \/ k = 0
    BY DEF QueueFrames, Frames, Returning
<1>2. \A i \in 0 .. d - 1 : queue'[k + i + 1] = queue[k + i + 1]
    BY DEF QueueFrames
<1>3. k = 1 => queue'[1] = queue[1]
    BY <1>1 DEF QueueFrames
<1> HIDE DEF d, k
<1>4. ASSUME NEW j \in 1 .. k + d PROVE queue'[j] = queue[j]
    <2>1. CASE j <= k
        BY <1>1, <1>3, <1>4, <2>1
    <2>2. CASE ~(j <= k)
        <3>1. j - k - 1 \in 0 .. d - 1 /\ k + (j - k - 1) + 1 = j
            BY <1>1, <1>4, <2>2
        <3> QED BY <1>2, <3>1
    <2> QED BY <2>1, <2>2
<1> QED BY <1>1, <1>4, SeqEqual

\* One more slot from the tail on appends its frame.
LEMMA LongerQueue ==
    ASSUME QueueFrames, QueueFrames', Returning' = Returning,
           Dist(rfd_tail, cons)' = Dist(rfd_tail, cons) + 1,
           rfd_tail' = rfd_tail, Dist(rfd_tail, cons) \in Nat,
           pc = "return" => Held' = Held /\ pc' = "return",
           \A i \in 0 .. Dist(rfd_tail, cons) - 1 :
               FrameAt(InRing(i))' = FrameAt(InRing(i)),
           NEW f \in Frames,
           \A i \in Nat : i = Dist(rfd_tail, cons) => FrameAt(InRing(i))' = f
    PROVE  queue' = Append(queue, f)
<1> DEFINE d == Dist(rfd_tail, cons)  k == Returning
<1>1. /\ queue \in Seq(Frames) /\ queue' \in Seq(Frames)
      /\ Len(queue) = k + d /\ Len(queue') = k + (d + 1) /\ d \in Nat
      /\ (k = 1 /\ pc = "return") \/ k = 0
    BY DEF QueueFrames, Frames, Returning
<1>2. \A i \in 0 .. d - 1 : queue'[k + i + 1] = queue[k + i + 1]
    <2>1. ASSUME NEW i \in 0 .. d - 1 PROVE i \in 0 .. (d + 1) - 1
        BY <1>1, <2>1
    <2> QED BY <2>1 DEF QueueFrames
<1>3. k = 1 => queue'[1] = queue[1]
    BY <1>1 DEF QueueFrames
<1>4. queue'[k + d + 1] = f
    <2>1. d \in 0 .. (d + 1) - 1
        BY <1>1
    <2>2. \A i \in 0 .. (d + 1) - 1 : queue'[k + i + 1] = FrameAt(InRing(i))'
        BY DEF QueueFrames
    <2> QED BY <1>1, <2>1, <2>2
<1> HIDE DEF d, k
<1>5. /\ Append(queue, f) \in Seq(Frames) /\ Len(Append(queue, f)) = k + d + 1
      /\ \A j \in 1 .. k + d : Append(queue, f)[j] = queue[j]
      /\ Append(queue, f)[k + d + 1] = f
    BY <1>1, AppendProperties
<1>6. ASSUME NEW j \in 1 .. k + d + 1 PROVE queue'[j] = Append(queue, f)[j]
    <2>1. CASE j = k + d + 1
        BY <1>4, <1>5, <2>1
    <2>2. CASE j # k + d + 1 /\ j <= k
        BY <1>1, <1>3, <1>5, <1>6, <2>2
    <2>3. CASE j # k + d + 1 /\ ~(j <= k)
        <3>1. /\ j - k - 1 \in 0 .. d - 1 /\ k + (j - k - 1) + 1 = j
              /\ j \in 1 .. k + d
            BY <1>1, <1>6, <2>3
        <3> QED BY <1>2, <1>5, <3>1
    <2> QED BY <2>1, <2>2, <2>3
<1>7. Len(queue') = k + d + 1
    BY <1>1
<1> QED BY <1>1, <1>5, <1>6, <1>7, SeqEqual

\* The slots from the tail on are the published ones.
LEMMA OtherSlots ==
    TypeOK => \A i \in 0 .. Dist(rfd_tail, cons) - 1 :
                 InRing(i) \in Slots /\ Dist(rfd_tail, InRing(i)) < Dist(rfd_tail, cons)
<1> SUFFICES ASSUME TypeOK, NEW i \in 0 .. Dist(rfd_tail, cons) - 1
             PROVE  /\ InRing(i) \in Slots
                    /\ Dist(rfd_tail, InRing(i)) < Dist(rfd_tail, cons)
    OBVIOUS
<1> DEFINE d == Dist(rfd_tail, cons)
<1>1. rfd_tail \in Slots /\ cons \in Slots /\ d \in 0 .. N - 1
    BY DistInRing DEF TypeOK
<1> HIDE DEF d
<1>2. i \in 0 .. N - 1 /\ i < d
    <2>1. i \in 0 .. d - 1
        BY DEF d
    <2> QED BY <1>1, <2>1, RingAssumption
<1> QED BY <1>1, <1>2, InRingIs DEF d

\* The same in the next state.
LEMMA OtherSlotsNext ==
    TypeOK' => (\A i \in 0 .. Dist(rfd_tail, cons) - 1 :
                 InRing(i) \in Slots /\ Dist(rfd_tail, InRing(i)) < Dist(rfd_tail, cons))'
BY OtherSlots, PTL

\* What is published in a step is put behind the frames there.
LEMMA PublishGrows ==
    ASSUME FifoInv, TypeOK', cons # prod, cons' = Bump(cons),
           UNCHANGED <<rfd_tail, pc>>, Held' = Held,
           \A s \in Slots : Dist(rfd_tail, s) < Dist(rfd_tail, cons) =>
               FrameAt(s)' = FrameAt(s),
           NEW f \in Frames, \A s \in Slots : s = cons => FrameAt(s)' = f
    PROVE  queue' = Append(queue, f) /\ Len(queue) = Returning + Dist(rfd_tail, cons)
<1> DEFINE d == Dist(rfd_tail, cons)
<1>1. TypeOK /\ RingInv /\ rfd_tail \in Slots /\ cons \in Slots
    BY DEF FifoInv, FrameInv, RingInv, TypeOK
<1>2. QueueFrames /\ QueueFrames'
    BY <1>1, QueueIs, QueueIsNext
<1>3. d \in 0 .. N - 1 /\ d \in Nat /\ d' = d + 1 /\ Returning' = Returning
    BY <1>1, DistInRing, RoomToAdvance, RingAssumption DEF Returning
<1>4. ASSUME NEW i \in 0 .. d - 1 PROVE FrameAt(InRing(i))' = FrameAt(InRing(i))
    <2>1. InRing(i) \in Slots /\ Dist(rfd_tail, InRing(i)) < d
        BY <1>1, <1>4, OtherSlots
    <2>2. InRing(i)' = InRing(i)
        BY DEF InRing
    <2> QED BY <2>1, <2>2
<1>5. InRing(d) = cons
    BY <1>1, InRingOf
<1>6. \A i \in Nat : i = d => FrameAt(InRing(i))' = f
    <2>1. \A i \in Nat : InRing(i)' = InRing(i)
        BY DEF InRing
    <2> QED BY <1>1, <1>5, <2>1
<1>7. pc = "return" => Held' = Held /\ pc' = "return"
    OBVIOUS
<1>8. Len(queue) = Returning + d
    BY <1>2 DEF QueueFrames
<1> QED BY <1>2, <1>3, <1>4, <1>6, <1>7, <1>8, LongerQueue

\* Between doorbell and return the frame copied stands for the slot given back.
LEMMA RecycleKeepsQueue ==
    ASSUME FifoInv, Recycle, TypeOK' PROVE queue' = queue
<1> DEFINE d == Dist(rfd_tail, cons)
<1>1. /\ TypeOK /\ rfd_tail \in Slots /\ cons \in Slots /\ cons # rfd_tail
      /\ pc = "recycle" /\ pc' = "return" /\ rfd_tail' = Bump(rfd_tail)
      /\ UNCHANGED <<uip, delivered, cons, early, ram>>
      /\ Len(delivered) + 1 \notin early => uip = Stored(rfd_tail)
    BY DEF Recycle, engineVars, FifoInv, FrameInv, RingInv, TypeOK,
           ConsumerBetween, CopyIsFrame
<1>2. QueueFrames /\ QueueFrames'
    BY <1>1, QueueIs, QueueIsNext
<1>3. d \in 0 .. N - 1 /\ d # 0 /\ d' = d - 1 /\ d \in Nat
    BY <1>1, DistInRing, DistBumpNear, RingAssumption
<1>4. Returning = 0 /\ Returning' = 1
    BY <1>1 DEF Returning
<1>5. /\ queue \in Seq(Frames) /\ queue' \in Seq(Frames)
      /\ Len(queue) = d /\ Len(queue') = 1 + (d - 1)
    BY <1>2, <1>3, <1>4 DEF QueueFrames, Frames
<1>6. ASSUME NEW s \in Slots, Dist(rfd_tail, s)' < Dist(rfd_tail, cons)'
      PROVE  FrameAt(s)' = FrameAt(s)
    <2>1. (Handed + 1 + Dist(rfd_tail, s))' = Handed + 1 + Dist(rfd_tail, s)
        BY <1>6, <1>1, NumberAfterRecycle DEF FifoInv
    <2> QED BY <1>1, <2>1 DEF FrameAt, Shown, Stored
<1>7. queue'[1] = queue[1]
    <2>1. InRing(0) = rfd_tail
        BY <1>1, RingAssumption DEF InRing, Slots
    <2>2. 0 \in 0 .. d - 1 /\ 0 + 0 + 1 = 1
        BY <1>3
    <2>3. queue[1] = FrameAt(InRing(0))
        BY <1>2, <1>4, <2>2 DEF QueueFrames
    <2>4. queue'[1] = Held'
        BY <1>1, <1>2 DEF QueueFrames
    <2>5. Held' = Shown(Len(delivered) + 1, uip)
        BY <1>1 DEF Held, Handed, Shown
    <2>6. FrameAt(rfd_tail) = Shown(Len(delivered) + 1, Stored(rfd_tail))
        <3>1. Dist(rfd_tail, rfd_tail) = 0 /\ Handed = Len(delivered)
              /\ Len(delivered) \in Nat
            BY <1>1, DistInRing, QueueLength DEF Handed
        <3> QED BY <3>1 DEF FrameAt
    <2> QED BY <1>1, <2>1, <2>3, <2>4, <2>5, <2>6 DEF Shown
<1>8. ASSUME NEW i \in 0 .. (d - 1) - 1
      PROVE  queue'[1 + i + 1] = queue[0 + (i + 1) + 1]
    <2>1. InRing(i)' = InRing(i + 1)
        <3>1. i \in Int /\ 0 <= i /\ i < N - 2
            BY <1>3, <1>8, RingAssumption
        <3> QED BY <1>1, <3>1, RingAssumption DEF InRing, Bump, Slots
    <2>2. queue'[1 + i + 1] = FrameAt(InRing(i))'
        BY <1>2, <1>3, <1>4, <1>8 DEF QueueFrames
    <2>3. queue[0 + (i + 1) + 1] = FrameAt(InRing(i + 1))
        <3>1. i + 1 \in 0 .. d - 1
            BY <1>3, <1>8
        <3> QED BY <1>2, <1>4, <3>1 DEF QueueFrames
    <2>4. FrameAt(InRing(i))' = FrameAt(InRing(i + 1))
        <3>1. i \in 0 .. d' - 1 /\ TypeOK'
            BY <1>3, <1>8
        <3>2. InRing(i)' \in Slots /\ Dist(rfd_tail, InRing(i))' < Dist(rfd_tail, cons)'
            BY <3>1, OtherSlotsNext
        <3> QED BY <1>6, <2>1, <3>2
    <2> QED BY <2>2, <2>3, <2>4
<1> HIDE DEF d
<1>9. ASSUME NEW j \in 1 .. d PROVE queue'[j] = queue[j]
    <2>1. CASE j = 1
        BY <1>7, <2>1
    <2>2. CASE j # 1
        <3>1. /\ j - 2 \in 0 .. (d - 1) - 1 /\ 1 + (j - 2) + 1 = j
              /\ 0 + (j - 2 + 1) + 1 = j
            BY <1>3, <1>9, <2>2
        <3> QED BY <1>8, <3>1
    <2> QED BY <2>1, <2>2
<1>10. Len(queue') = d
    BY <1>3, <1>5
<1> QED BY <1>5, <1>9, <1>10, SeqEqual

\* What was returned, as the channel shows it.
ReturnedFrames ==
    /\ returned \in Seq(Frames) /\ Len(returned) = Len(delivered)
    /\ \A i \in 1 .. Len(delivered) : returned[i] = Shown(i, delivered[i])

LEMMA ReturnedIs == TypeOK => ReturnedFrames
<1> SUFFICES ASSUME TypeOK PROVE ReturnedFrames
    OBVIOUS
<1>1. delivered \in Seq(Received) /\ Len(delivered) \in Nat
    BY DEF TypeOK
<1>2. \A i \in 1 .. Len(delivered) : Shown(i, delivered[i]) \in Frames
    BY <1>1 DEF Shown, Frames
<1> DEFINE n == Len(delivered)
           out == [i \in 1 .. n |-> Shown(i, delivered[i])]
<1>3. \A i \in 1 .. n : out[i] = Shown(i, delivered[i])
    OBVIOUS
<1>4. out \in Seq(Frames) /\ Len(out) = n
    <2> HIDE DEF n
    <2>1. n \in Nat /\ \A i \in 1 .. n : Shown(i, delivered[i]) \in Frames
        BY <1>1, <1>2 DEF n
    <2> QED BY <2>1, IsASeq, LenProperties
<1>5. returned = out
    BY DEF returned
<1> QED BY <1>3, <1>4, <1>5 DEF ReturnedFrames

\* The same in the next state.
LEMMA ReturnedIsNext == TypeOK' => ReturnedFrames'
BY ReturnedIs, PTL

\* What was returned once stays as it is.
LEMMA ReturnedStands ==
    ASSUME TypeOK, TypeOK', delivered' = delivered,
           \A i \in 1 .. Len(delivered) : i \in early' <=> i \in early
    PROVE  returned' = returned
<1>1. /\ returned \in Seq(Frames) /\ Len(returned) = Len(delivered)
      /\ \A i \in 1 .. Len(delivered) : returned[i] = Shown(i, delivered[i])
    BY ReturnedIs DEF ReturnedFrames
<1>2. /\ returned' \in Seq(Frames) /\ Len(returned') = Len(delivered)
      /\ \A i \in 1 .. Len(delivered) :
            returned'[i] = (IF i \in early' THEN Garbled ELSE delivered[i])
    BY ReturnedIsNext DEF ReturnedFrames, Shown
<1>3. \A i \in 1 .. Len(returned) : returned'[i] = returned[i]
    BY <1>1, <1>2 DEF Shown
<1> QED BY <1>1, <1>2, <1>3, SeqEqual

\* The return takes the head of the queue and puts it behind what was returned.
LEMMA ReturnTakesHead ==
    ASSUME FifoInv, Return, TypeOK'
    PROVE  /\ queue # << >> /\ Head(queue) = Held /\ queue' = Tail(queue)
           /\ returned' = Append(returned, Held)
<1> DEFINE d == Dist(rfd_tail, cons)
<1>1. /\ TypeOK /\ pc = "return" /\ pc' = "idle"
      /\ delivered' = Append(delivered, uip)
      /\ UNCHANGED <<uip, rfd_tail, cons, early, ram>>
    BY DEF Return, engineVars, FifoInv, FrameInv, RingInv
<1>2. QueueFrames /\ QueueFrames'
    BY <1>1, QueueIs, QueueIsNext
<1>3. d \in Nat /\ d' = d /\ Returning = 1 /\ Returning' = 0
    BY <1>1, DistInRing, RingAssumption DEF TypeOK, Returning
<1>4. /\ queue \in Seq(Frames) /\ queue' \in Seq(Frames)
      /\ Len(queue) = 1 + d /\ Len(queue') = d /\ queue[1] = Held
    BY <1>1, <1>2, <1>3 DEF QueueFrames, Frames
<1>a. /\ delivered \in Seq(Received) /\ uip \in Received
      /\ Len(delivered) \in Nat /\ Len(delivered') = Len(delivered) + 1
      /\ Handed = Len(delivered) + 1 /\ Handed' = Handed
      /\ delivered'[Len(delivered) + 1] = uip
      /\ \A i \in 1 .. Len(delivered) : delivered'[i] = delivered[i]
    BY <1>1 DEF TypeOK, Handed
<1>5. ASSUME NEW i \in 0 .. d - 1
      PROVE  queue'[0 + i + 1] = queue[1 + i + 1]
    <2>1. FrameAt(InRing(i))' = FrameAt(InRing(i))
        BY <1>1, <1>a DEF FrameAt, InRing, Shown, Stored
    <2> QED BY <1>2, <1>3, <1>5, <2>1 DEF QueueFrames
<1> HIDE DEF d
<1>6. /\ queue # << >> /\ Head(queue) = queue[1]
      /\ Tail(queue) \in Seq(Frames) /\ Len(Tail(queue)) = d
      /\ \A j \in 1 .. d : Tail(queue)[j] = queue[j + 1]
    <2>1. queue # << >>
        BY <1>3, <1>4
    <2>2. /\ Tail(queue) \in Seq(Frames) /\ Len(Tail(queue)) = Len(queue) - 1
          /\ \A j \in 1 .. Len(Tail(queue)) : Tail(queue)[j] = queue[j + 1]
        BY <1>4, <2>1, HeadTailProperties
    <2>3. Len(Tail(queue)) = d
        BY <1>3, <1>4, <2>2
    <2> QED BY <2>1, <2>2, <2>3
<1>7. ASSUME NEW j \in 1 .. d PROVE queue'[j] = Tail(queue)[j]
    <2>1. j - 1 \in 0 .. d - 1 /\ 0 + (j - 1) + 1 = j /\ 1 + (j - 1) + 1 = j + 1
        BY <1>3, <1>7
    <2> QED BY <1>5, <1>6, <2>1
<1>8. queue' = Tail(queue)
    BY <1>4, <1>6, <1>7, SeqEqual
<1>9. returned' = Append(returned, Held)
    <2>1. /\ returned \in Seq(Frames) /\ Len(returned) = Len(delivered)
          /\ \A i \in 1 .. Len(delivered) : returned[i] = Shown(i, delivered[i])
        BY <1>1, ReturnedIs DEF ReturnedFrames
    <2>2. /\ returned' \in Seq(Frames) /\ Len(returned') = Len(delivered) + 1
          /\ \A i \in 1 .. Len(delivered) + 1 :
                returned'[i] = (IF i \in early THEN Garbled ELSE delivered'[i])
        BY <1>1, <1>a, ReturnedIsNext DEF ReturnedFrames, Shown
    <2>3. Held \in Frames
        BY <1>a DEF Held, Shown, Frames
    <2>4. /\ Append(returned, Held) \in Seq(Frames)
          /\ Len(Append(returned, Held)) = Len(delivered) + 1
          /\ Append(returned, Held)[Len(delivered) + 1] = Held
          /\ \A i \in 1 .. Len(delivered) : Append(returned, Held)[i] = returned[i]
        BY <2>1, <2>3, AppendProperties
    <2>5. ASSUME NEW i \in 1 .. Len(delivered) + 1
          PROVE  returned'[i] = Append(returned, Held)[i]
        <3>1. CASE i = Len(delivered) + 1
            BY <1>a, <2>2, <2>4, <3>1 DEF Held, Shown
        <3>2. CASE i # Len(delivered) + 1
            <4>1. i \in 1 .. Len(delivered)
                BY <1>a, <2>5, <3>2
            <4> QED BY <1>a, <2>1, <2>2, <2>4, <4>1 DEF Shown
        <3> QED BY <3>1, <3>2
    <2> QED BY <2>2, <2>4, <2>5, SeqEqual
<1> QED BY <1>4, <1>6, <1>8, <1>9

\* In every other step but a publication nothing the channel shows moves.
LEMMA ChannelStands ==
    ASSUME FifoInv, TypeOK', UNCHANGED <<rfd_tail, cons, delivered, early, uip>>,
           pc = "return" <=> pc' = "return",
           \A s \in Slots : Dist(rfd_tail, s) < Dist(rfd_tail, cons) =>
               FrameAt(s)' = FrameAt(s)
    PROVE  queue' = queue /\ returned' = returned
<1> DEFINE d == Dist(rfd_tail, cons)
<1>1. TypeOK
    BY DEF FifoInv, FrameInv, RingInv
<1>2. QueueFrames /\ QueueFrames'
    BY <1>1, QueueIs, QueueIsNext
<1>3. d \in Nat /\ d' = d /\ Returning' = Returning /\ Held' = Held
    <2>1. d \in Nat
        BY <1>1, DistInRing, RingAssumption DEF TypeOK
    <2>2. Returning' = Returning /\ Held' = Held
        BY DEF Returning, Held, Handed, Shown
    <2> QED BY <2>1, <2>2
<1>4. ASSUME NEW i \in 0 .. d - 1 PROVE FrameAt(InRing(i))' = FrameAt(InRing(i))
    <2>1. InRing(i) \in Slots /\ Dist(rfd_tail, InRing(i)) < d
        BY <1>1, <1>4, OtherSlots
    <2>2. InRing(i)' = InRing(i)
        BY DEF InRing
    <2> QED BY <2>1, <2>2
<1>5. queue' = queue
    BY <1>2, <1>3, <1>4, SameQueue
<1> QED BY <1>1, <1>5, ReturnedStands

\* The copy takes the frame at the tail, and the engine leaves it alone until the
\* slot is given back.
LEMMA NextFifoInv == FifoInv /\ [Next]_vars => FifoInv'
<1> SUFFICES ASSUME FifoInv, [Next]_vars PROVE FifoInv'
    OBVIOUS
<1>0. FrameInv' /\ FrameInv
    BY NextFrameInv DEF FifoInv
<1>a. /\ rfd_tail \in Slots /\ cons \in Slots /\ eng_slot \in Slots
      /\ TypeOK /\ RingInv
      /\ pc \in {"rrd", "copy", "recycle"} => cons # rfd_tail
    BY <1>0 DEF FrameInv, RingInv, TypeOK, ConsumerBetween
<1> SUFFICES CopyIsFrame'
    BY <1>0 DEF FifoInv
<1> USE DEF FifoInv, CopyIsFrame
<1>1. CASE InitRfdRing
    BY <1>1, <1>a DEF InitRfdRing, engineVars, RingInv, BeforeStart
<1>2. CASE StartRx \/ PollIndex \/ CheckRrd
    BY <1>2 DEF StartRx, PollIndex, CheckRrd, engineVars
<1>3. CASE CopyOut
    <2>1. UNCHANGED <<rfd_tail, delivered, early, ram>> /\ pc' = "recycle"
        BY <1>3 DEF CopyOut, engineVars
    <2>2. ASSUME Len(delivered) + 1 \notin early PROVE uip' = Stored(rfd_tail)
        <3>1. \A p \in Parts : ram[rfd_tail][p].id = Len(delivered) + 1
            BY <1>0, <1>3, <2>2, CopyTakesTail DEF Whole
        <3> QED BY <1>0, <1>3, <2>2, <3>1, CopyTakesTail DEF Stored, Parts
    <2> QED BY <2>1, <2>2 DEF Stored
<1>4. CASE Recycle
    BY <1>4 DEF Recycle, engineVars
<1>5. CASE Return
    BY <1>5 DEF Return, engineVars
<1>6. ASSUME NEW n \in AllSizes, EngineTake(n) PROVE CopyIsFrame'
    BY <1>6 DEF EngineTake, driverVars, Stored
<1>7. CASE EnginePublish
    <2>1. early \subseteq early'
        BY <1>7 DEF EnginePublish
    <2> QED BY <1>7, <2>1 DEF EnginePublish, driverVars, Stored
<1>8. ASSUME NEW p \in Parts, EngineWrite(p) PROVE CopyIsFrame'
    <2>1. /\ UNCHANGED <<rfd_head, prod, rfd_tail, delivered, early, uip, pc>>
          /\ eng # {}
        BY <1>8 DEF EngineWrite, driverVars
    <2>2. ASSUME pc = "recycle", Len(delivered) + 1 \notin early
          PROVE  Stored(rfd_tail)' = Stored(rfd_tail)
        <3>1. Dist(rfd_tail, rfd_tail) = 0 /\ Dist(rfd_tail, cons) > 0
            BY <1>a, <2>2, DistInRing
        <3>2. Handed = Len(delivered) /\ Len(delivered) \in Nat
            BY <1>a, <2>2, FramesCounted DEF Handed
        <3>3. rfd_tail # eng_slot
            BY <1>0, <1>a, <2>1, <2>2, <3>1, <3>2, LateSlot
        <3>4. \A q \in Parts : ram'[rfd_tail][q] = ram[rfd_tail][q]
            BY <1>8, <1>a, <3>3, OneLineWritten
        <3> QED BY <2>1, <3>4 DEF Stored, Parts
    <2> QED BY <2>1, <2>2
<1>9. CASE EngineRefuse
    BY <1>9 DEF EngineRefuse, driverVars, Stored
<1>10. ASSUME NEW s \in Slots, NEW p \in Parts, Fill(s, p) \/ Evict(s, p)
       PROVE  CopyIsFrame'
    BY <1>10 DEF Fill, Evict, driverVars, engineVars, Stored
<1>11. CASE UNCHANGED vars
    BY <1>11 DEF vars, driverVars, engineVars, Stored
<1> QED BY <1>1, <1>2, <1>3, <1>4, <1>5, <1>6, <1>7, <1>8, <1>9, <1>10, <1>11
        DEF Next, Recv, Engine, EngineGoesOn, PollEmpty

\* The initial states map to the empty channel.
LEMMA InitFifo == Init => FifoInv /\ Fifo!FifoInit
<1> SUFFICES ASSUME Init PROVE FifoInv /\ Fifo!FifoInit
    OBVIOUS
<1>1. FifoInv
    BY InitFrameInv DEF Init, FifoInv, CopyIsFrame
<1>2. Dist(0, 0) = 0 /\ TypeOK
    BY InitTypeOK, RingAssumption DEF Dist
<1>3. queue \in Seq(Frames) /\ Len(queue) = 0
    BY <1>2, QueueIs DEF Init, QueueFrames, Returning
<1>4. returned \in Seq(Frames) /\ Len(returned) = 0
    BY <1>2, ReturnedIs DEF Init, ReturnedFrames
<1>5. queue = << >> /\ returned = << >>
    BY <1>3, <1>4, EmptySeq
<1> QED BY <1>1, <1>5 DEF Init, Fifo!FifoInit

\* A frame accepted is the one whose index is published: whole, or an early one.
LEMMA PublishRefines ==
    ASSUME FifoInv, TypeOK', EnginePublish
    PROVE  Fifo!FifoNext
<1>1. /\ TypeOK /\ RingInv /\ FrameInv
      /\ rfd_tail \in Slots /\ cons \in Slots /\ HwNext(cons) = Bump(cons)
    BY SameWrap DEF FifoInv, FrameInv, RingInv, TypeOK
<1>2. /\ "index" \in eng /\ eng' = eng \ {"index"} /\ cons' = Bump(cons)
      /\ eng = {"index"} \/ accepted \in MayBeEarly
      /\ early' = IF eng' = {} THEN early ELSE early \cup {accepted}
      /\ UNCHANGED <<uip, rfd_tail, pc, delivered, accepted, ram, refused>>
    BY <1>1 DEF EnginePublish, driverVars
<1>3. cons # prod /\ pc # "probed"
    BY <1>1, <1>2 DEF RingInv, ConsumerBetween, BeforeStart
<1>4. /\ Dist(rfd_tail, cons) \in 0 .. N - 1 /\ Handed \in Nat
      /\ accepted = Handed + Dist(rfd_tail, cons) + 1 /\ accepted \in Nat
      /\ Handed = Len(delivered) + Returning /\ Handed' = Handed
      /\ Returning \in {0, 1} /\ Len(delivered) \in Nat
    BY <1>1, <1>2, QueueLength DEF Handed, TypeOK
<1>5. \A k \in Nat : k # accepted => (k \in early' <=> k \in early)
    BY <1>2
<1>6. Held' = Held /\ returned' = returned
    <2>1. Handed # accepted /\ \A i \in 1 .. Len(delivered) : i # accepted
        BY <1>4
    <2>2. Held' = Held
        BY <1>2, <1>4, <1>5, <2>1 DEF Held, Shown
    <2>3. \A i \in 1 .. Len(delivered) : i \in early' <=> i \in early
        BY <1>5, <2>1
    <2> QED BY <1>1, <1>2, <2>2, <2>3, ReturnedStands
<1>7. ASSUME NEW s \in Slots, Dist(rfd_tail, s) < Dist(rfd_tail, cons)
      PROVE  FrameAt(s)' = FrameAt(s)
    <2> DEFINE k == Handed + 1 + Dist(rfd_tail, s)
    <2>1. Dist(rfd_tail, s) \in 0 .. N - 1
        BY <1>1, DistInRing
    <2>2. k \in Nat /\ k # accepted
        BY <1>4, <1>7, <2>1
    <2>3. k' = k /\ (k \in early' <=> k \in early) /\ Stored(s)' = Stored(s)
        BY <1>2, <1>4, <1>5, <2>2 DEF Stored
    <2> QED BY <2>3 DEF FrameAt, Shown
<1> DEFINE f == IF accepted \in early' THEN Garbled ELSE Stored(cons)
<1>8. ASSUME NEW s \in Slots, s = cons PROVE FrameAt(s)' = f
    <2>1. (Handed + 1 + Dist(rfd_tail, s))' = accepted
        BY <1>2, <1>4, <1>8
    <2>2. Stored(s)' = Stored(cons)
        BY <1>2, <1>8 DEF Stored
    <2> QED BY <2>1, <2>2 DEF FrameAt, Shown
<1>9. Stored(cons) \in Received
    <2>1. ram[cons]["first"] \in Line /\ ram[cons]["rest"] \in Line
        BY <1>1 DEF TypeOK, Parts
    <2> QED BY <2>1, FrameAssumption DEF Stored, Line, Received, Cut
<1>10. f \in Frames
    BY <1>9 DEF Frames
<1> HIDE DEF f
<1>11. queue' = Append(queue, f) /\ Len(queue) = Returning + Dist(rfd_tail, cons)
    BY <1>2, <1>3, <1>6, <1>7, <1>8, <1>10, PublishGrows
<1>12. Len(queue) < N - 1
    BY <1>3, <1>11, RingRoom
<1>13. Fifo!Number = accepted
    <2>1. Len(returned) = Len(delivered)
        BY <1>1, ReturnedIs DEF ReturnedFrames
    <2> QED BY <1>4, <1>11, <2>1 DEF Fifo!Number
<1>14. Fifo!Accept(f)
    BY <1>2, <1>6, <1>11, <1>12 DEF Fifo!Accept
<1>15. CASE accepted \in early'
    <2>1. accepted \in MayBeEarly
        BY <1>15 DEF TypeOK
    <2>2. f = Garbled
        BY <1>15 DEF f
    <2> QED BY <1>13, <1>14, <2>1, <2>2 DEF Fifo!FifoNext, Fifo!AcceptGarbled
<1>16. CASE accepted \notin early'
    <2>1. eng = {"index"}
        BY <1>2, <1>16
    <2>2. \A p \in Parts : ram[cons][p] \in Whole(accepted)
        BY <1>1, <1>2, <2>1 DEF FrameInv, FrameInHand, Parts
    <2>3. PICK n \in AllSizes :
              ram[cons]["first"] = [valid |-> TRUE, id |-> accepted, size |-> n]
        BY <2>2 DEF Parts, Whole
    <2>4. ram[cons]["rest"].id = accepted
        BY <2>2 DEF Parts, Whole
    <2>5. f = [head |-> accepted, body |-> accepted, len |-> Cut(n)]
        BY <1>16, <2>3, <2>4 DEF f, Stored
    <2>6. Fifo!AcceptWhole(Cut(n))
        BY <1>13, <1>14, <2>5 DEF Fifo!AcceptWhole
    <2> QED BY <2>6 DEF Fifo!FifoNext
<1> QED BY <1>15, <1>16

\* What RxFifo shows.
Channel == <<queue, returned, refused>>

\* Late data is written to no slot of the queue, but for one whose frame is an
\* early one.
LEMMA WriteStands ==
    ASSUME FifoInv, TypeOK', NEW p \in Parts, EngineWrite(p)
    PROVE  UNCHANGED Channel
<1>1. /\ UNCHANGED <<rfd_tail, cons, delivered, early, uip, pc, refused>>
      /\ eng # {} /\ TypeOK /\ RingInv /\ FrameInv
    BY DEF EngineWrite, driverVars, FifoInv, FrameInv, RingInv
<1>2. ASSUME NEW s \in Slots, Dist(rfd_tail, s) < Dist(rfd_tail, cons)
      PROVE  FrameAt(s)' = FrameAt(s)
    <2>1. (Handed + 1 + Dist(rfd_tail, s))' = Handed + 1 + Dist(rfd_tail, s)
        BY <1>1 DEF Handed
    <2>2. CASE s = eng_slot
        <3>1. Handed + 1 + Dist(rfd_tail, s) \in early
            BY <1>1, <1>2, <2>2, LateSlot
        <3> QED BY <1>1, <2>1, <3>1 DEF FrameAt, Shown
    <2>3. CASE s # eng_slot
        <3>1. \A q \in Parts : ram'[s][q] = ram[s][q]
            BY <1>1, <2>3, OneLineWritten
        <3>2. Stored(s)' = Stored(s)
            BY <3>1 DEF Stored, Parts
        <3> QED BY <1>1, <2>1, <3>2 DEF FrameAt, Shown
    <2> QED BY <2>2, <2>3
<1> QED BY <1>1, <1>2, ChannelStands DEF Channel

\* Every step of the ring is one of the channel, or changes nothing it shows.
LEMMA StepRefines ==
    ASSUME FifoInv, FifoInv', [Next]_vars
    PROVE  Fifo!FifoNext \/ UNCHANGED Channel
<1>0. TypeOK /\ TypeOK' /\ RingInv
    BY DEF FifoInv, FrameInv, RingInv
<1>a. ASSUME UNCHANGED <<rfd_tail, cons, delivered, early, uip, ram>>,
             pc = "return" <=> pc' = "return"
      PROVE  queue' = queue /\ returned' = returned
    <2>1. \A s \in Slots : FrameAt(s)' = FrameAt(s)
        BY <1>a DEF FrameAt, Handed, Shown, Stored
    <2> QED BY <1>0, <1>a, <2>1, ChannelStands
<1>1. CASE InitRfdRing
    <2>1. UNCHANGED <<rfd_tail, cons, delivered, early, uip, ram, refused>>
          /\ pc # "return" /\ pc' # "return"
        BY <1>0, <1>1 DEF InitRfdRing, engineVars, RingInv, BeforeStart
    <2> QED BY <1>a, <2>1 DEF Channel
<1>2. CASE StartRx \/ PollIndex \/ CheckRrd
    <2>1. UNCHANGED <<rfd_tail, cons, delivered, early, uip, ram, refused>>
          /\ pc # "return" /\ pc' # "return"
        BY <1>2 DEF StartRx, PollIndex, CheckRrd, engineVars
    <2> QED BY <1>a, <2>1 DEF Channel
<1>b. CASE CopyOut
    <2>1. UNCHANGED <<rfd_tail, cons, delivered, early, ram, refused>>
          /\ pc # "return" /\ pc' # "return"
        BY <1>b DEF CopyOut, engineVars
    <2>2. queue' = queue
        BY <2>1 DEF queue, FrameAt, Handed, Shown, Stored, InRing
    <2>3. returned' = returned
        BY <1>0, <2>1, ReturnedStands
    <2> QED BY <2>1, <2>2, <2>3 DEF Channel
<1>3. CASE Recycle
    <2>1. returned' = returned
        BY <1>0, <1>3, ReturnedStands DEF Recycle, engineVars
    <2> QED BY <1>0, <1>3, <2>1, RecycleKeepsQueue DEF Recycle, engineVars, Channel
<1>4. CASE Return
    BY <1>0, <1>4, ReturnTakesHead
       DEF Return, engineVars, Fifo!FifoNext, Fifo!Deliver
<1>5. ASSUME NEW n \in AllSizes, EngineTake(n)
      PROVE  UNCHANGED Channel
    BY <1>a, <1>5 DEF EngineTake, driverVars, Channel
<1>6. CASE EnginePublish
    BY <1>0, <1>6, PublishRefines
<1>7. ASSUME NEW p \in Parts, EngineWrite(p)
      PROVE  UNCHANGED Channel
    BY <1>0, <1>7, WriteStands
<1>8. CASE EngineRefuse
    <2>1. /\ UNCHANGED <<rfd_tail, cons, delivered, early, uip, ram, pc>>
          /\ refused' = refused + 1 /\ cons = prod /\ pc # "probed"
        BY <1>0, <1>8 DEF EngineRefuse, driverVars, RingInv, BeforeStart
    <2>2. queue' = queue /\ returned' = returned
        BY <1>a, <2>1
    <2>3. Len(queue) + 1 >= N - 1
        BY <1>0, <2>1, RingRoom, QueueIs DEF QueueFrames
    <2> QED BY <2>1, <2>2, <2>3 DEF Fifo!FifoNext, Fifo!Refuse
<1>9. ASSUME NEW s \in Slots, NEW p \in Parts, Fill(s, p) \/ Evict(s, p)
      PROVE  UNCHANGED Channel
    BY <1>a, <1>9 DEF Fill, Evict, driverVars, engineVars, Channel
<1>10. CASE UNCHANGED vars
    BY <1>a, <1>10 DEF vars, driverVars, engineVars, Channel
<1> QED BY <1>1, <1>2, <1>b, <1>3, <1>4, <1>5, <1>6, <1>7, <1>8, <1>9, <1>10
        DEF Next, Recv, Engine, EngineGoesOn, PollEmpty

\* For every ring size the ring and its two actors are one bounded channel: every
\* frame accepted is handed out once, in its place and, if its data was in RAM
\* before its index, whole and cut to the caller's length; the engine turns a frame
\* away only within one place of N - 1 (ipq4019_eth_recv()).
THEOREM RxImplementsFifo == Spec => ImplementsFifo
<1>1. Init => FifoInv /\ Fifo!FifoInit
    BY InitFifo
<1>2. FifoInv /\ [Next]_vars => FifoInv'
    BY NextFifoInv
<1>3. FifoInv /\ FifoInv' /\ [Next]_vars => [Fifo!FifoNext]_(Fifo!fifoVars)
    BY StepRefines DEF Channel, Fifo!fifoVars
<1> QED BY <1>1, <1>2, <1>3, PTL DEF Spec, ImplementsFifo, Fifo!FifoSpec
=============================================================================
