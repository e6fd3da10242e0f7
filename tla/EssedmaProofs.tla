---------------------------- MODULE EssedmaProofs ----------------------------
(* Proofs about Essedma, for every number of ports, every ring size and any *)
(* number of probes, sessions and frames.                                   *)
EXTENDS Essedma, Integers, TLAPS

-----------------------------------------------------------------------------
(* The inductive invariant                                                 *)

\* The labels at which the queue is off, on, and the rings allocated.
Off == {"devices", "switch", "alloc", "alloc2", "desc", "base", "close",
        "stopped", "queues", "err", "removing"}
On == {"open", "up", "held", "zero", "shut", "shut2"}
WithoutRings == {"off", "reset", "devices", "switch", "alloc", "err", "removing"}
WithRings == {"close", "stopped", "queues"} \cup On

LifeTypeOK == /\ pc \in {"off", "reset"} \cup Off \cup On
              /\ i \in Ports
              /\ members \in [Ports -> SUBSET Ports]

\* From the reset on the queue is on only between start and stop.
QueueByLabel == /\ pc \in Off => ~rxq
                /\ pc \in On => rxq

\* The rings are there from probe to remove, and the engine points into them
\* before any queue is turned on.
RingsByLabel == /\ pc \in WithoutRings => rings = {}
                /\ pc = "alloc2" => rings = {"tpd"}
                /\ pc \in {"desc", "base"} \cup WithRings =>
                       rings = {"tpd", "rfd"}
                /\ pc \in WithRings => base = "ours"

\* The port loops: what the index has passed is closed, and between a loop that
\* closed the ports and the next that opens them all are.
ClosedSoFar ==
    /\ pc \notin {"close", "open", "shut"} => i = 0
    /\ pc \in {"close", "shut"} =>
          \A p \in Ports : p < i => CPU \notin members[p]
    /\ pc \in {"shut2", "stopped", "queues"} =>
          \A p \in Ports : CPU \notin members[p]

LifeInv == LifeTypeOK /\ QueueByLabel /\ RingsByLabel /\ ClosedSoFar

-----------------------------------------------------------------------------
\* A machine on which nothing of this driver has run yet.
LEMMA InitLifeInv == Init => LifeInv
BY SizeAssumption
   DEF Init, LifeInv, LifeTypeOK, QueueByLabel, RingsByLabel, ClosedSoFar, Off,
       On, WithoutRings, WithRings, Ports, AllForward

\* A turn of a port loop that closes leaves the ports up to its index closed.
LEMMA DisabledIsClosed ==
    ASSUME NEW p \in Ports
    PROVE  DisabledMembers(p) \in SUBSET Ports /\ CPU \notin DisabledMembers(p)
BY SizeAssumption DEF DisabledMembers, Ports, LAN, CPU

\* A turn of the loop that opens gives a port members among the ports.
LEMMA EnabledInPorts ==
    ASSUME NEW p \in Ports
    PROVE  EnabledMembers(p) \in SUBSET Ports
BY SizeAssumption DEF EnabledMembers, Ports, LAN, CPU

\* The loops of ess_switch_disable_lookup(), in probe and in stop.
LEMMA ClosingLoop ==
    ASSUME LifeInv, NEW a, NEW b, PortLoop(a, b, DisabledMembers(i)),
           \/ a = "close" /\ b = "stopped"
           \/ a = "shut" /\ b = "shut2"
    PROVE  LifeInv'
<1> USE SizeAssumption
<1>1. /\ pc = a
      /\ members' = [members EXCEPT ![i] = DisabledMembers(i)]
      /\ UNCHANGED <<rings, base, rxq>>
    BY DEF PortLoop
<1>2. i \in Ports /\ members \in [Ports -> SUBSET Ports]
    BY DEF LifeInv, LifeTypeOK
<1>3. members' \in [Ports -> SUBSET Ports]
    BY <1>1, <1>2, DisabledIsClosed
<1>4. ASSUME NEW p \in Ports, p < i + 1
      PROVE  CPU \notin members'[p]
    <2>1. CASE p = i
        BY <1>1, <1>2, <2>1, DisabledIsClosed
    <2>2. CASE p # i
        <3>1. p < i
            BY <1>2, <1>4, <2>2 DEF Ports
        <3>2. CPU \notin members[p]
            BY <1>1, <3>1 DEF LifeInv, ClosedSoFar
        <3> QED BY <1>1, <1>2, <2>2, <3>2
    <2> QED BY <2>1, <2>2
<1>5. CASE i = WAN /\ pc' = b /\ i' = 0
    <2>1. \A p \in Ports : CPU \notin members'[p]
        BY <1>4, <1>5 DEF Ports
    <2> QED BY <1>1, <1>3, <1>5, <2>1
            DEF LifeInv, LifeTypeOK, QueueByLabel, RingsByLabel, ClosedSoFar,
                Off, On, WithoutRings, WithRings, Ports
<1>6. CASE i # WAN /\ pc' = a /\ i' = i + 1
    BY <1>1, <1>2, <1>3, <1>4, <1>6
       DEF LifeInv, LifeTypeOK, QueueByLabel, RingsByLabel, ClosedSoFar,
           Off, On, WithoutRings, WithRings, Ports
<1> QED BY <1>5, <1>6 DEF PortLoop

\* probe, from the clock to the closing of the ports, and its error path.
LEMMA ProbeKeepsLife ==
    ASSUME LifeInv, Probe PROVE LifeInv'
<1>a. CASE ProbeDisableLookup
    BY <1>a, ClosingLoop DEF ProbeDisableLookup
<1> USE DEF LifeInv, LifeTypeOK, QueueByLabel, RingsByLabel, ClosedSoFar, Off,
            On, WithoutRings, WithRings, Goto
<1>1. CASE ProbeClock
    BY <1>1 DEF ProbeClock
<1>2. CASE EssReset
    BY <1>2, SizeAssumption DEF EssReset, AllForward, Ports
<1>3. CASE FindDevices
    BY <1>3 DEF FindDevices, blockVars
<1>4. CASE SwitchInit
    BY <1>4 DEF SwitchInit
<1>5. CASE AllocTpd
    BY <1>5 DEF AllocTpd
<1>6. CASE AllocRfd
    BY <1>6 DEF AllocRfd, AfterFailedAlloc
<1>7. CASE Configure
    BY <1>7 DEF Configure
<1>8. CASE InitDesc
    BY <1>8, SizeAssumption DEF InitDesc, Ports
<1>9. CASE ProbeError
    BY <1>9 DEF ProbeError
<1> QED BY <1>1, <1>2, <1>3, <1>4, <1>5, <1>6, <1>7, <1>8, <1>9, <1>a DEF Probe

\* start, stop and remove.
LEMMA LifeKeepsLife ==
    ASSUME LifeInv, Life PROVE LifeInv'
<1>a. CASE PortLoop("shut", "shut2", DisabledMembers(i))
    BY <1>a, ClosingLoop
<1> USE DEF LifeInv, LifeTypeOK, QueueByLabel, RingsByLabel, ClosedSoFar, Off,
            On, WithoutRings, WithRings, Goto
<1>1. CASE StartRing
    BY <1>1 DEF StartRing, blockVars
<1>2. CASE StartQueues
    BY <1>2 DEF StartQueues
<1>3. CASE StartLookup
    <2>1. members' \in [Ports -> SUBSET Ports]
        BY <1>3, EnabledInPorts DEF StartLookup, PortLoop
    <2> QED BY <1>3, <2>1, SizeAssumption DEF StartLookup, PortLoop, Ports
<1>4. CASE Goto("up", "shut")
           /\ UNCHANGED <<i, blockVars, ringVars, probes, starts>>
    BY <1>4, SizeAssumption DEF blockVars, Ports
<1>5. CASE StopQueues
    BY <1>5 DEF StopQueues
<1>6. CASE RemoveRings
    BY <1>6 DEF RemoveRings
<1>7. CASE RemoveBlock
    BY <1>7 DEF RemoveBlock
<1> QED BY <1>1, <1>2, <1>3, <1>4, <1>5, <1>6, <1>7, <1>a DEF Life, StopLookup

\* Every step keeps the invariant.
LEMMA NextLifeInv == LifeInv /\ [Next]_vars => LifeInv'
<1> SUFFICES ASSUME LifeInv, [Next]_vars PROVE LifeInv'
    OBVIOUS
<1>1. CASE Probe
    BY <1>1, ProbeKeepsLife
<1>2. CASE Life
    BY <1>2, LifeKeepsLife
<1> USE DEF LifeInv, LifeTypeOK, QueueByLabel, RingsByLabel, ClosedSoFar, Off,
            On, WithoutRings, WithRings
<1>3. CASE Recv
    BY <1>3 DEF Recv, blockVars
<1>4. CASE FreePkt \/ IgnoreZero
    BY <1>4 DEF FreePkt, IgnoreZero, Goto, blockVars
<1>5. CASE Receive \/ LateData
    BY <1>5 DEF Receive, LateData, blockVars
<1>6. CASE UNCHANGED vars
    BY <1>6 DEF vars, blockVars
<1> QED BY <1>1, <1>2, <1>3, <1>4, <1>5, <1>6 DEF Next, Rest

\* The invariant holds in every reachable state.
LEMMA LifeCorrect == Spec => []LifeInv
<1>1. Init => LifeInv
    BY InitLifeInv
<1>2. LifeInv /\ [Next]_vars => LifeInv'
    BY NextLifeInv
<1> QED BY <1>1, <1>2, PTL DEF Spec

-----------------------------------------------------------------------------
(* The theorems                                                            *)

\* Over any number of probes, failures, sessions and removes the engine receives
\* only into the rings that are allocated then.
THEOREM SessionDmaIntoRings == Spec => []DmaOnlyIntoRings
<1>1. LifeInv => DmaOnlyIntoRings
    BY DEF LifeInv, LifeTypeOK, QueueByLabel, RingsByLabel, DmaOnlyIntoRings,
           Off, On, WithRings
<1> QED BY <1>1, LifeCorrect, PTL

\* For any number of ports, none reaches the CPU port while the queue is off,
\* between any two writes of the loops of start and stop.
THEOREM SessionClosedWhenDeaf == Spec => []ClosedWhenDeaf
<1>1. LifeInv => ClosedWhenDeaf
    BY DEF LifeInv, LifeTypeOK, QueueByLabel, ClosedSoFar, ClosedWhenDeaf, Off,
           On
<1> QED BY <1>1, LifeCorrect, PTL

\* Wherever a probe fails after the clock was on, clock, reset and rings are
\* given back.
THEOREM SessionFailedProbe == Spec => FailedProbeLeavesNothing
<1>1. LifeInv /\ [Next]_vars =>
          [pc = "err" /\ pc' = "off" => ~clk' /\ rst' /\ rings' = {}]_vars
    <2> SUFFICES ASSUME LifeInv, Next, pc = "err", pc' = "off"
                 PROVE  ~clk' /\ rst' /\ rings' = {}
        OBVIOUS
    <2>1. rings = {}
        BY DEF LifeInv, RingsByLabel, WithoutRings
    <2>2. ProbeError
        BY DEF Next, Probe, Life, Goto, ProbeClock, EssReset, FindDevices,
               SwitchInit, AllocTpd, AllocRfd, Configure, InitDesc,
               ProbeDisableLookup, PortLoop, StartRing, StartQueues,
               StartLookup, StopLookup, StopQueues, RemoveRings, RemoveBlock,
               Recv, FreePkt, IgnoreZero, Receive, LateData, Rest, vars
    <2> QED BY <2>1, <2>2 DEF ProbeError
<1> QED BY <1>1, LifeCorrect, PTL DEF Spec, FailedProbeLeavesNothing

-----------------------------------------------------------------------------
(* The receive ring: arithmetic                                            *)

\* The slots one meets from a on before b.
Dist(a, b) == IF a <= b THEN b - a ELSE b + N - a
Wrap(s) == IF s = N - 1 THEN 0 ELSE s + 1

\* "(x + 1) % count", as driver and engine advance their indices.
LEMMA WrapIsMod ==
    ASSUME NEW s \in Slots
    PROVE  (s + 1) % N = Wrap(s) /\ Wrap(s) \in Slots /\ Wrap(s) # s
BY SizeAssumption DEF Slots, Wrap

\* A distance around the ring is less than the ring and 0 only to oneself.
LEMMA DistInRing ==
    ASSUME NEW a \in Slots, NEW b \in Slots
    PROVE  Dist(a, b) \in 0 .. N - 1 /\ ((Dist(a, b) = 0) <=> (a = b))
BY SizeAssumption DEF Slots, Dist

\* Advancing the far end adds one, unless it arrives at the near end; the near
\* end takes one off, unless it was there; both change nothing.
LEMMA DistWrap ==
    ASSUME NEW a \in Slots, NEW b \in Slots
    PROVE  /\ Dist(a, b) < N - 1 => Dist(a, Wrap(b)) = Dist(a, b) + 1
           /\ a # b => Dist(Wrap(a), b) = Dist(a, b) - 1
           /\ Dist(Wrap(a), Wrap(b)) = Dist(a, b)
           /\ Dist(a, b) = 1 => b = Wrap(a)
BY SizeAssumption DEF Slots, Dist, Wrap

\* The distance from a slot tells the slots of the ring apart.
LEMMA DistInjective ==
    ASSUME NEW a \in Slots, NEW b \in Slots, NEW c \in Slots,
           Dist(a, b) = Dist(a, c)
    PROVE  b = c
BY SizeAssumption DEF Slots, Dist

-----------------------------------------------------------------------------
(* The receive ring: the invariant                                         *)

RingTypeOK == /\ head \in Slots /\ tail \in Slots
              /\ prod \in Slots /\ cons \in Slots
              /\ slot \in [Slots -> [valid : BOOLEAN, id : Nat]]
              /\ late \in BOOLEAN /\ early \in SUBSET Nat
              /\ got \in Seq(Nat) /\ frames \in Nat
              /\ startedAt \in Slots /\ pending \in BOOLEAN

Session == {"queues"} \cup On
WithIndices == {"desc", "base", "close", "stopped"} \cup Session

\* ess_reset() leaves an empty ring to the allocation that follows.
NothingReceived ==
    pc \in {"devices", "switch", "alloc", "alloc2"} =>
        cons = 0 /\ prod = 0 /\ got = << >> /\ frames = 0 /\ ~late /\ ~pending

InOrder == ~pending => \A k \in 1 .. Len(got) : k \notin early => got[k] = k

\* Data that are late are those of the last frame received.
LateIsEarly == late => frames \in early

\* The frames the stack is done with.
Taken == IF pc = "held" THEN Len(got) - 1 ELSE Len(got)

\* A slot holds a frame, whole and marked, unless that was shown too early.
Holds(s, k) == k \notin early => slot[s] = [valid |-> TRUE, id |-> k]

\* From the tail on come the frames not taken yet, up to the consumer index,
\* then what the engine may still fill, then at most one slot it was not told
\* of; together less than the ring.
Laid ==
    ~pending /\ pc \in WithIndices =>
        /\ frames = Taken + Dist(tail, cons)
        /\ Dist(tail, cons) <= Dist(tail, prod)
        /\ Dist(tail, prod) <= Dist(tail, head)
        /\ \A s \in Slots : Dist(tail, s) < Dist(tail, cons) =>
                               Holds(s, Taken + Dist(tail, s) + 1)
        /\ pc \in {"held", "zero"} => cons # tail
        /\ pc = "held" => got # << >>
        /\ pc = "zero" => Taken + 1 \in early

\* The doorbell is a slot behind the head once the first packet is freed, and
\* tail and head move together.
Behind ==
    /\ pc \in Session => head = prod \/ head = Wrap(prod)
    /\ ~pending /\ pc \in Session => Dist(tail, head) = Dist(startedAt, N - 1)

RingInv == RingTypeOK /\ NothingReceived /\ InOrder /\ LateIsEarly /\ Laid
           /\ Behind

-----------------------------------------------------------------------------
(* The receive ring: the steps                                             *)

\* A machine on which nothing of this driver has run yet.
LEMMA InitRingInv == Init => RingInv
BY SizeAssumption
   DEF Init, RingInv, RingTypeOK, NothingReceived, InOrder, LateIsEarly, Laid,
       Behind, WithIndices, Session, On, Slots

\* A step that leaves the ring alone and goes to a label that promises no more.
LEMMA RingUntouched ==
    ASSUME RingInv, UNCHANGED ringVars,
           pc' \in {"devices", "switch", "alloc", "alloc2"} =>
               pc \in {"devices", "switch", "alloc", "alloc2"},
           pc' \in WithIndices => pc \in WithIndices,
           pc' \in Session => pc \in Session,
           pc' = "held" <=> pc = "held",
           pc' = "zero" => pc = "zero"
    PROVE  RingInv'
<1> USE DEF ringVars
<1>1. RingTypeOK' /\ NothingReceived' /\ InOrder' /\ LateIsEarly'
    BY DEF RingInv, RingTypeOK, NothingReceived, InOrder, LateIsEarly
<1>2. Taken' = Taken
    BY DEF Taken
<1>3. Laid' /\ Behind'
    BY <1>2 DEF RingInv, Laid, Behind, Holds, Dist, Wrap
<1> QED BY <1>1, <1>3 DEF RingInv

\* probe: the reset empties engine and histories, the allocation the indices.
LEMMA ProbeKeepsRing ==
    ASSUME RingInv, LifeInv, Probe PROVE RingInv'
<1> USE DEF Goto, WithIndices, Session, On
<1>1. CASE EssReset
    <2>1. /\ pc' = "devices" /\ prod' = 0 /\ cons' = 0
          /\ slot' = [s \in Slots |-> [slot[s] EXCEPT !.id = 0]]
          /\ late' = FALSE /\ got' = << >> /\ frames' = 0 /\ early' = {}
          /\ pending' = FALSE
          /\ UNCHANGED <<head, tail, startedAt>>
        BY <1>1 DEF EssReset
    <2>2. RingTypeOK'
        <3>1. 0 \in Slots /\ << >> \in Seq(Nat)
            BY SizeAssumption DEF Slots
        <3>2. slot' \in [Slots -> [valid : BOOLEAN, id : Nat]]
            BY <2>1 DEF RingInv, RingTypeOK
        <3> QED BY <2>1, <3>1, <3>2 DEF RingInv, RingTypeOK
    <2> QED BY <2>1, <2>2
            DEF RingInv, NothingReceived, InOrder, LateIsEarly, Laid, Behind
<1>2. CASE AllocRfd /\ rings' = {"tpd", "rfd"}
    <2>1. /\ pc = "alloc2" /\ pc' = "desc" /\ head' = 0 /\ tail' = 0
          /\ UNCHANGED <<prod, cons, slot, late, got, frames, early, startedAt,
                         pending>>
        BY <1>2 DEF AllocRfd, AfterFailedAlloc
    <2>2. cons = 0 /\ prod = 0 /\ got = << >> /\ frames = 0 /\ ~pending
        BY <2>1 DEF RingInv, NothingReceived
    <2> QED BY <2>1, <2>2, SizeAssumption
            DEF RingInv, RingTypeOK, NothingReceived, InOrder, LateIsEarly,
                Laid, Behind, Taken, Slots, Dist
<1>3. CASE ProbeClock \/ FindDevices \/ SwitchInit \/ AllocTpd \/ Configure
           \/ InitDesc \/ ProbeDisableLookup \/ ProbeError
           \/ (AllocRfd /\ pc' = "err")
    <2>1. UNCHANGED ringVars
        BY <1>3 DEF ProbeClock, FindDevices, SwitchInit, AllocTpd, AllocRfd,
                    Configure, InitDesc, ProbeDisableLookup, PortLoop,
                    ProbeError, ringVars
    <2>2. /\ pc' \in {"devices", "switch", "alloc", "alloc2"} =>
                pc \in {"devices", "switch", "alloc", "alloc2"}
          /\ pc' \in WithIndices => pc \in WithIndices
          /\ pc' \in Session => pc \in Session
          /\ pc' = "held" <=> pc = "held"
          /\ pc' = "zero" => pc = "zero"
        BY <1>3 DEF ProbeClock, FindDevices, SwitchInit, AllocTpd, AllocRfd,
                    Configure, InitDesc, ProbeDisableLookup, PortLoop,
                    ProbeError
    <2> QED BY <2>1, <2>2, RingUntouched
<1> QED BY <1>1, <1>2, <1>3 DEF Probe, AllocRfd

\* ipq40xx_edma_init_rfd_ring(): with nothing left in the ring, all of it up to
\* the last slot is the engine's; with something left nothing is claimed.
LEMMA StartKeepsRing ==
    ASSUME RingInv, StartRing PROVE RingInv'
<1> USE SizeAssumption DEF StartRing, Goto, RingInv
<1>1. RingTypeOK' /\ NothingReceived' /\ InOrder' /\ LateIsEarly'
    BY DEF RingTypeOK, NothingReceived, InOrder, LateIsEarly, Slots
<1>2. pc' = "queues" /\ head' = N - 1 /\ prod' = N - 1 /\ startedAt' = cons
      /\ UNCHANGED <<tail, cons, slot, got, frames, early>>
    OBVIOUS
<1>3. ~pending' => ~pending /\ cons = tail
    OBVIOUS
<1>4. Taken' = Taken
    BY DEF Taken
<1>5. tail \in Slots /\ cons \in Slots /\ N - 1 \in Slots
    BY DEF RingTypeOK, Slots
<1>6. Dist(tail, tail) = 0 /\ Dist(tail, N - 1) \in 0 .. N - 1
    BY <1>5, DistInRing
<1>7. ASSUME ~pending' PROVE frames = Taken
    <2>1. frames = Taken + Dist(tail, cons) /\ Dist(tail, cons) = 0
        BY <1>3, <1>6, <1>7 DEF Laid, WithIndices
    <2> QED BY <2>1 DEF RingTypeOK, Taken
<1>8. \A s \in Slots : Dist(tail, s) \in 0 .. N - 1
    BY <1>5, DistInRing
<1>9. Laid'
    <2>1. ASSUME ~pending'
          PROVE  /\ frames' = Taken' + Dist(tail', cons')
                 /\ Dist(tail', cons') = 0
                 /\ Dist(tail', prod') = Dist(tail', head')
                 /\ Dist(tail', prod') >= 0
                 /\ \A s \in Slots : ~(Dist(tail', s) < 0)
        BY <1>2, <1>3, <1>4, <1>6, <1>7, <1>8, <2>1 DEF RingTypeOK, Taken
    <2> HIDE DEF StartRing, RingInv
    <2>2. ASSUME ~pending'
          PROVE  /\ Dist(tail', cons') <= Dist(tail', prod')
                 /\ Dist(tail', prod') <= Dist(tail', head')
                 /\ \A s \in Slots : ~(Dist(tail', s) < Dist(tail', cons'))
        BY <1>2, <1>6, <2>1, <2>2
    <2> QED BY <1>2, <2>1, <2>2 DEF Laid
<1>10. Behind'
    BY <1>2, <1>3 DEF Behind
<1> QED BY <1>1, <1>9, <1>10

\* The slot at the tail holds the frame that follows the last one.
LEMMA TailHolds ==
    ASSUME RingInv, ~pending, pc \in WithIndices, cons # tail
    PROVE  Holds(tail, Taken + 1)
<1>1. RingTypeOK /\ Taken \in Int
    BY DEF RingInv, RingTypeOK, Taken
<1>2. /\ Dist(tail, tail) = 0 /\ Dist(tail, cons) # 0
      /\ Dist(tail, cons) \in 0 .. N - 1
    BY <1>1, DistInRing DEF RingTypeOK
<1>3. Dist(tail, tail) < Dist(tail, cons)
    BY <1>2, SizeAssumption
<1>4. Holds(tail, Taken + Dist(tail, tail) + 1)
    BY <1>1, <1>3 DEF RingInv, Laid, RingTypeOK
<1> QED BY <1>1, <1>2, <1>4

\* A slot with the VALID bit: the stack is handed the frame that follows the
\* last one, and the tail stays on it until it is freed.
LEMMA HandedKeepsRing ==
    ASSUME RingInv, pc = "up", pc' = "held", cons # tail,
           got' = Append(got, slot[tail].id),
           UNCHANGED <<head, tail, prod, cons, slot, late, frames, early,
                       startedAt, pending>>
    PROVE  RingInv'
<1>2. RingTypeOK
    BY DEF RingInv
<1>3. slot[tail].id \in Nat /\ got' \in Seq(Nat) /\ Len(got') = Len(got) + 1
      /\ (\A k \in 1 .. Len(got) : got'[k] = got[k])
      /\ got'[Len(got) + 1] = slot[tail].id
    BY <1>2 DEF RingTypeOK
<1>4. RingTypeOK'
    BY <1>2, <1>3 DEF RingTypeOK
<1>5. Taken' = Taken
    BY <1>2, <1>3 DEF Taken, RingTypeOK
<1>6. ASSUME ~pending, Len(got) + 1 \notin early
      PROVE  slot[tail].id = Len(got) + 1
    <2>1. Holds(tail, Taken + 1) /\ Taken = Len(got)
        BY <1>6, TailHolds DEF WithIndices, Session, On, Taken
    <2> QED BY <1>6, <2>1 DEF Holds
<1>7. InOrder'
    <2> SUFFICES ASSUME ~pending', NEW k \in 1 .. Len(got'), k \notin early
                 PROVE  got'[k] = k
        BY DEF InOrder
    <2>1. CASE k \in 1 .. Len(got)
        BY <1>3, <2>1 DEF RingInv, InOrder
    <2>2. CASE k = Len(got) + 1
        BY <1>3, <1>6, <2>2
    <2> QED BY <1>2, <1>3, <2>1, <2>2 DEF RingTypeOK
<1>8. Laid'
    <2>1. got' # << >>
        BY <1>2, <1>3 DEF RingTypeOK
    <2> QED BY <1>5, <2>1
            DEF RingInv, Laid, Holds, Dist, WithIndices, Session, On
<1>9. NothingReceived' /\ LateIsEarly' /\ Behind'
    BY DEF RingInv, NothingReceived, LateIsEarly, Behind, Dist, Wrap, Session, On
<1> QED BY <1>4, <1>7, <1>8, <1>9 DEF RingInv

\* Only the label moves: recv returned 0, or the stack comes again after that.
LEMMA ZeroKeepsRing ==
    ASSUME RingInv, UNCHANGED ringVars,
           \/ /\ pc = "up" /\ pc' = "zero" /\ cons # tail
              /\ ~pending => Taken + 1 \in early
           \/ pc = "zero" /\ pc' = "up"
    PROVE  RingInv'
<1> USE DEF ringVars
<1>1. RingTypeOK' /\ NothingReceived' /\ InOrder' /\ LateIsEarly'
    BY DEF RingInv, RingTypeOK, NothingReceived, InOrder, LateIsEarly
<1>2. Taken' = Taken
    BY DEF Taken
<1>3. Laid'
    BY <1>2 DEF RingInv, Laid, Holds, Dist, WithIndices, Session, On
<1>4. Behind'
    BY DEF RingInv, Behind, Dist, Wrap, Session, On
<1> QED BY <1>1, <1>3, <1>4 DEF RingInv

\* ipq40xx_eth_recv() of a slot that was received into.
LEMMA RecvKeepsRing ==
    ASSUME RingInv, Recv PROVE RingInv'
<1>1. CASE pc' = "held"
    BY <1>1, HandedKeepsRing DEF Recv
<1>2. CASE pc' = "zero"
    <2>1. ASSUME ~pending PROVE Taken + 1 \in early
        BY <1>2, <2>1, TailHolds DEF Recv, Holds, WithIndices, Session, On
    <2> QED BY <1>2, <2>1, ZeroKeepsRing DEF Recv, ringVars
<1> QED BY <1>1, <1>2 DEF Recv

\* What Laid says of the distances from the tail.
LEMMA LaidInRing ==
    ASSUME RingInv, ~pending, pc \in WithIndices
    PROVE  /\ frames = Taken + Dist(tail, cons)
           /\ Dist(tail, cons) <= Dist(tail, head)
           /\ \A s \in Slots : Dist(tail, s) < Dist(tail, cons) =>
                                  Holds(s, Taken + Dist(tail, s) + 1)
           /\ pc \in {"held", "zero"} => cons # tail
           /\ pc = "held" => got # << >>
           /\ pc = "zero" => Taken + 1 \in early
<1>1. /\ Dist(tail, cons) \in 0 .. N - 1 /\ Dist(tail, prod) \in 0 .. N - 1
      /\ Dist(tail, head) \in 0 .. N - 1
    BY DistInRing DEF RingInv, RingTypeOK
<1>2. Dist(tail, cons) <= Dist(tail, prod) /\ Dist(tail, prod) <= Dist(tail, head)
    BY DEF RingInv, Laid
<1>3. Dist(tail, cons) <= Dist(tail, head)
    BY <1>1, <1>2, SizeAssumption
<1> QED BY <1>3 DEF RingInv, Laid

\* A freed packet, or a slot freed unhanded, moves tail, head and doorbell by one
\* slot.
LEMMA FreeKeepsRing ==
    ASSUME RingInv, FreePkt PROVE RingInv'
<1>1. RingTypeOK
    BY DEF RingInv
<1>2. /\ pc \in {"held", "zero"} /\ pc' = "up"
      /\ got' = IF pc = "zero" THEN Append(got, 0) ELSE got
      /\ prod' = head /\ head' = Wrap(head) /\ tail' = Wrap(tail)
      /\ UNCHANGED <<cons, slot, late, frames, early, startedAt, pending>>
    BY <1>1, WrapIsMod DEF FreePkt, Doorbell, RingTypeOK
<1>3. RingTypeOK'
    <2>1. got' \in Seq(Nat)
        BY <1>1, <1>2 DEF RingTypeOK
    <2> QED BY <1>1, <1>2, <2>1, WrapIsMod DEF RingTypeOK
<1>4. Dist(Wrap(tail), Wrap(head)) = Dist(tail, head)
    BY <1>1, DistWrap DEF RingTypeOK
<1>5. ASSUME ~pending
      PROVE  /\ Taken' = Taken + 1 /\ Taken \in Nat
             /\ cons # tail /\ head # tail
             /\ Dist(Wrap(tail), cons) = Dist(tail, cons) - 1
             /\ Dist(Wrap(tail), head) = Dist(tail, head) - 1
    <2>1. /\ cons # tail /\ Dist(tail, cons) <= Dist(tail, head)
          /\ pc = "held" => got # << >>
        BY <1>2, <1>5, LaidInRing DEF WithIndices, Session, On
    <2>2. head # tail
        BY <1>1, <2>1, DistInRing DEF RingTypeOK
    <2>3. Taken' = Taken + 1 /\ Taken \in Nat
        <3>1. CASE pc = "held"
            BY <1>1, <1>2, <2>1, <3>1 DEF Taken, RingTypeOK
        <3>2. CASE pc = "zero"
            BY <1>1, <1>2, <3>2 DEF Taken, RingTypeOK
        <3> QED BY <1>2, <3>1, <3>2
    <2> QED BY <1>1, <2>1, <2>2, <2>3, DistWrap DEF RingTypeOK
<1>6. Laid'
    <2> SUFFICES ASSUME ~pending'
                 PROVE  /\ frames' = Taken' + Dist(tail', cons')
                        /\ Dist(tail', cons') <= Dist(tail', prod')
                        /\ Dist(tail', prod') <= Dist(tail', head')
                        /\ \A s \in Slots :
                              Dist(tail', s) < Dist(tail', cons') =>
                                 Holds(s, Taken' + Dist(tail', s) + 1)
        BY <1>2 DEF Laid, Holds
    <2>1. ~pending
        BY <1>2
    <2>2. /\ frames = Taken + Dist(tail, cons)
          /\ Dist(tail, cons) <= Dist(tail, head)
          /\ \A s \in Slots : Dist(tail, s) < Dist(tail, cons) =>
                                 Holds(s, Taken + Dist(tail, s) + 1)
        BY <1>2, <2>1, LaidInRing DEF WithIndices, Session, On
    <2>3. Dist(tail, cons) \in Nat /\ Dist(tail, head) \in Nat
        BY <1>1, DistInRing DEF RingTypeOK
    <2>4. ASSUME NEW s \in Slots,
                 Dist(Wrap(tail), s) < Dist(Wrap(tail), cons)
          PROVE  Holds(s, Taken + 1 + Dist(Wrap(tail), s) + 1)
        <3>1. s # tail
            <4>1. Dist(Wrap(tail), tail) = N - 1
                BY <1>1, SizeAssumption DEF RingTypeOK, Dist, Wrap, Slots
            <4>2. Dist(Wrap(tail), cons) \in 0 .. N - 1
                BY <1>1, WrapIsMod, DistInRing DEF RingTypeOK
            <4> QED BY <2>4, <4>1, <4>2, SizeAssumption
        <3>2. Dist(Wrap(tail), s) = Dist(tail, s) - 1
            BY <1>1, <3>1, DistWrap DEF RingTypeOK
        <3>3. Dist(tail, s) \in Nat
            BY <1>1, DistInRing DEF RingTypeOK
        <3>4. /\ Dist(tail, s) < Dist(tail, cons)
              /\ Taken + 1 + Dist(Wrap(tail), s) + 1 = Taken + Dist(tail, s) + 1
            BY <1>5, <2>1, <2>3, <2>4, <3>2, <3>3
        <3> QED BY <2>2, <3>4
    <2>5. frames = Taken + 1 + (Dist(tail, cons) - 1)
        BY <1>5, <2>1, <2>2, <2>3
    <2> QED BY <1>2, <1>4, <1>5, <2>1, <2>2, <2>3, <2>4, <2>5
<1>7. NothingReceived' /\ LateIsEarly'
    BY <1>2 DEF RingInv, NothingReceived, LateIsEarly
<1>9. InOrder'
    <2> SUFFICES ASSUME ~pending, NEW k \in 1 .. Len(got'), k \notin early
                 PROVE  got'[k] = k
        BY <1>2 DEF InOrder
    <2>1. CASE k \in 1 .. Len(got)
        <3>1. got'[k] = got[k]
            BY <1>1, <1>2, <2>1 DEF RingTypeOK
        <3> QED BY <2>1, <3>1 DEF RingInv, InOrder
    <2>2. CASE k \notin 1 .. Len(got)
        <3>1. pc = "zero" /\ k = Taken + 1
            BY <1>1, <1>2, <2>2 DEF RingTypeOK, Taken
        <3>2. Taken + 1 \in early
            BY <1>2, <3>1, LaidInRing DEF WithIndices, Session, On
        <3> QED BY <3>1, <3>2
    <2> QED BY <2>1, <2>2
<1>8. Behind'
    BY <1>2, <1>4 DEF RingInv, Behind, Session, On
<1> QED BY <1>3, <1>6, <1>7, <1>8, <1>9 DEF RingInv

\* The engine takes the slot that follows the frames not taken yet, which no
\* frame not taken yet is in, and not the one the stack holds.
LEMMA ReceiveKeepsRing ==
    ASSUME RingInv, LifeInv, Receive PROVE RingInv'
<1>1. RingTypeOK
    BY DEF RingInv
<1>2. /\ rxq /\ cons # prod
      /\ frames' = frames + 1
      /\ cons' = Wrap(cons)
      /\ \/ /\ slot' = [slot EXCEPT ![cons] = [valid |-> TRUE, id |-> frames + 1]]
            /\ UNCHANGED <<late, early>> /\ ~late
         \/ /\ late' = TRUE /\ early' = early \cup {frames + 1}
            /\ UNCHANGED slot
      /\ UNCHANGED <<pc, head, tail, prod, got, startedAt, pending>>
    BY <1>1, WrapIsMod DEF Receive, Filled, RingTypeOK
<1>3. RingTypeOK' /\ LateIsEarly'
    <2>a. cons \in Slots /\ slot \in [Slots -> [valid : BOOLEAN, id : Nat]]
          /\ late \in BOOLEAN /\ early \subseteq Nat /\ frames + 1 \in Nat
        BY <1>1 DEF RingTypeOK
    <2>b. [valid |-> TRUE, id |-> frames + 1] \in [valid : BOOLEAN, id : Nat]
        BY <2>a
    <2>1. slot' \in [Slots -> [valid : BOOLEAN, id : Nat]]
        BY <1>2, <2>a, <2>b
    <2>2. late' \in BOOLEAN /\ early' \in SUBSET Nat
        BY <1>2, <2>a
    <2>3. LateIsEarly'
        BY <1>2 DEF LateIsEarly
    <2> QED BY <1>1, <1>2, <2>1, <2>2, <2>3, WrapIsMod DEF RingTypeOK
<1>4. Taken' = Taken /\ early \subseteq early'
    BY <1>2 DEF Taken
<1>5. NothingReceived' /\ InOrder' /\ Behind'
    <2>1. pc \notin {"devices", "switch", "alloc", "alloc2"}
        BY <1>2 DEF LifeInv, QueueByLabel, Off
    <2> QED BY <1>2, <1>4, <2>1
            DEF RingInv, NothingReceived, InOrder, Behind, Dist, Wrap
<1>6. Laid'
    <2> SUFFICES ASSUME ~pending, pc \in WithIndices
                 PROVE  /\ frames' = Taken + Dist(tail, cons')
                        /\ Dist(tail, cons') <= Dist(tail, prod)
                        /\ Dist(tail, prod) <= Dist(tail, head)
                        /\ \A s \in Slots :
                              Dist(tail, s) < Dist(tail, cons') =>
                                 Holds(s, Taken + Dist(tail, s) + 1)'
                        /\ pc \in {"held", "zero"} => cons' # tail
                        /\ pc = "held" => got # << >>
                        /\ pc = "zero" => Taken + 1 \in early'
        BY <1>2, <1>4 DEF Laid, Dist, Holds
    <2>1. /\ frames = Taken + Dist(tail, cons)
          /\ Dist(tail, cons) <= Dist(tail, prod)
          /\ Dist(tail, prod) <= Dist(tail, head)
          /\ \A s \in Slots : Dist(tail, s) < Dist(tail, cons) =>
                                 Holds(s, Taken + Dist(tail, s) + 1)
          /\ pc = "held" => got # << >>
          /\ pc = "zero" => Taken + 1 \in early'
        BY <1>4 DEF RingInv, Laid
    <2>2. /\ Dist(tail, cons) \in 0 .. N - 1 /\ Dist(tail, prod) \in 0 .. N - 1
          /\ \A s \in Slots : Dist(tail, s) \in 0 .. N - 1
        BY <1>1, DistInRing DEF RingTypeOK
    <2>3. Dist(tail, cons) # Dist(tail, prod)
        BY <1>1, <1>2, DistInjective DEF RingTypeOK
    <2>4. Dist(tail, cons') = Dist(tail, cons) + 1
        BY <1>1, <1>2, <2>1, <2>2, <2>3, DistWrap, SizeAssumption DEF RingTypeOK
    <2>5. ASSUME NEW s \in Slots, Dist(tail, s) < Dist(tail, cons) + 1
          PROVE  Holds(s, Taken + Dist(tail, s) + 1)'
        <3>1. CASE s = cons
            <4>1. Taken + Dist(tail, s) + 1 = frames + 1
                BY <2>1, <3>1
            <4>2. /\ frames + 1 \notin early' =>
                        slot'[cons] = [valid |-> TRUE, id |-> frames + 1]
                  /\ (Taken + Dist(tail, s) + 1)' = Taken + Dist(tail, s) + 1
                BY <1>1, <1>2, <1>4 DEF RingTypeOK, Dist
            <4> QED BY <3>1, <4>1, <4>2 DEF Holds
        <3>2. CASE s # cons
            <4>1. Dist(tail, s) # Dist(tail, cons)
                BY <1>1, <3>2, DistInjective DEF RingTypeOK
            <4>2. Dist(tail, s) < Dist(tail, cons)
                BY <2>2, <2>5, <4>1, SizeAssumption
            <4>3. Holds(s, Taken + Dist(tail, s) + 1)
                BY <2>1, <4>2
            <4>4. slot'[s] = slot[s]
                BY <1>1, <1>2, <3>2 DEF RingTypeOK
            <4>5. (Taken + Dist(tail, s) + 1)' = Taken + Dist(tail, s) + 1
                BY <1>2, <1>4 DEF Dist
            <4> QED BY <1>4, <4>3, <4>4, <4>5 DEF Holds
        <3> QED BY <3>1, <3>2
    <2>6. Taken \in Int /\ frames \in Nat
        BY <1>1 DEF Taken, RingTypeOK
    <2>7. cons' # tail
        BY <1>1, <1>3, <2>2, <2>4, DistInRing, SizeAssumption DEF RingTypeOK
    <2>8. /\ frames' = Taken + Dist(tail, cons')
          /\ Dist(tail, cons') <= Dist(tail, prod)
        BY <1>2, <2>1, <2>2, <2>3, <2>4, <2>6, SizeAssumption
    <2> QED BY <2>1, <2>4, <2>5, <2>7, <2>8
<1> QED BY <1>3, <1>5, <1>6 DEF RingInv

\* Late data go to the slot received into last, whose frame is an early one.
LEMMA LateDataKeepsRing ==
    ASSUME RingInv, LifeInv, LateData PROVE RingInv'
<1>1. RingTypeOK
    BY DEF RingInv
<1>2. /\ late /\ late' = FALSE
      /\ slot' = [slot EXCEPT ![LastSlot] = [valid |-> TRUE, id |-> frames]]
      /\ UNCHANGED <<pc, head, tail, prod, cons, got, frames, early, startedAt,
                     pending>>
    BY DEF LateData
<1>3. LastSlot \in Slots /\ Wrap(LastSlot) = cons /\ LastSlot # cons
    BY <1>1, SizeAssumption DEF RingTypeOK, LastSlot, Slots, Wrap
<1>4. RingTypeOK' /\ NothingReceived' /\ InOrder' /\ LateIsEarly' /\ Behind'
    <2>1. slot' \in [Slots -> [valid : BOOLEAN, id : Nat]]
        BY <1>1, <1>2, <1>3 DEF RingTypeOK
    <2> QED BY <1>1, <1>2, <2>1
            DEF RingInv, RingTypeOK, NothingReceived, InOrder, LateIsEarly,
                Behind, Dist, Wrap
<1>5. Taken' = Taken
    BY <1>2 DEF Taken
<1>6. ASSUME ~pending, pc \in WithIndices, NEW s \in Slots,
             Dist(tail, s) < Dist(tail, cons)
      PROVE  Holds(s, Taken + Dist(tail, s) + 1)'
    <2>1. (Taken + Dist(tail, s) + 1)' = Taken + Dist(tail, s) + 1
        BY <1>2, <1>5 DEF Dist
    <2>2. Holds(s, Taken + Dist(tail, s) + 1)
          /\ frames = Taken + Dist(tail, cons)
        BY <1>6, LaidInRing
    <2>3. CASE s # LastSlot
        <3>1. slot'[s] = slot[s]
            BY <1>1, <1>2, <2>3 DEF RingTypeOK
        <3> QED BY <1>2, <2>1, <2>2, <3>1 DEF Holds
    <2>4. CASE s = LastSlot
        <3>1. Dist(tail, s) \in 0 .. N - 1 /\ Dist(tail, cons) \in 0 .. N - 1
            BY <1>1, DistInRing DEF RingTypeOK
        <3>2. Dist(tail, cons) = Dist(tail, s) + 1
            BY <1>1, <1>3, <1>6, <2>4, <3>1, DistWrap, SizeAssumption
               DEF RingTypeOK
        <3>3. Taken \in Int
            BY <1>1 DEF Taken, RingTypeOK
        <3>4. Taken + Dist(tail, s) + 1 = frames
            BY <2>2, <3>1, <3>2, <3>3
        <3>5. frames \in early
            BY <1>2 DEF RingInv, LateIsEarly
        <3> QED BY <1>2, <2>1, <3>4, <3>5 DEF Holds
    <2> QED BY <2>3, <2>4
<1>7. Laid'
    <2> SUFFICES ASSUME ~pending, pc \in WithIndices
                 PROVE  Laid'
        BY <1>2 DEF Laid
    <2>1. \A s \in Slots : Dist(tail, s) < Dist(tail, cons) =>
                              Holds(s, Taken + Dist(tail, s) + 1)'
        BY <1>6
    <2> QED BY <1>2, <1>5, <2>1 DEF RingInv, Laid, Dist, Holds
<1> QED BY <1>4, <1>7 DEF RingInv

\* Every step keeps the ring as it is described.
LEMMA NextRingInv == RingInv /\ LifeInv /\ [Next]_vars => RingInv'
<1> SUFFICES ASSUME RingInv, LifeInv, [Next]_vars PROVE RingInv'
    OBVIOUS
<1>1. CASE Probe
    BY <1>1, ProbeKeepsRing
<1>2. CASE StartRing
    BY <1>2, StartKeepsRing
<1>3. CASE StartQueues \/ StartLookup \/ StopLookup \/ StopQueues
           \/ RemoveRings \/ RemoveBlock
    <2>1. UNCHANGED ringVars
        BY <1>3 DEF StartQueues, StartLookup, StopLookup, StopQueues,
                    RemoveRings, RemoveBlock, PortLoop, ringVars
    <2>2. /\ pc' \in {"devices", "switch", "alloc", "alloc2"} =>
                pc \in {"devices", "switch", "alloc", "alloc2"}
          /\ pc' \in WithIndices => pc \in WithIndices
          /\ pc' \in Session => pc \in Session
          /\ pc' = "held" <=> pc = "held"
          /\ pc' = "zero" => pc = "zero"
        BY <1>3 DEF StartQueues, StartLookup, StopLookup, StopQueues,
                    RemoveRings, RemoveBlock, PortLoop, Goto, WithIndices,
                    Session, On
    <2> QED BY <2>1, <2>2, RingUntouched
<1>4. CASE Recv
    BY <1>4, RecvKeepsRing
<1>5. CASE FreePkt
    BY <1>5, FreeKeepsRing
<1>6. CASE Receive
    BY <1>6, ReceiveKeepsRing
<1>7. CASE IgnoreZero
    BY <1>7, ZeroKeepsRing DEF IgnoreZero, Goto
<1>8. CASE LateData
    BY <1>8, LateDataKeepsRing
<1>9. CASE UNCHANGED vars
    BY <1>9, RingUntouched DEF vars
<1> QED BY <1>1, <1>2, <1>3, <1>4, <1>5, <1>6, <1>7, <1>8, <1>9
        DEF Next, Life, Rest

\* Both invariants hold in every reachable state.
LEMMA RingCorrect == Spec => []RingInv
<1>1. Init => RingInv
    BY InitRingInv
<1>2. RingInv /\ LifeInv /\ [Next]_vars => RingInv'
    BY NextRingInv
<1> QED BY <1>1, <1>2, LifeCorrect, PTL DEF Spec

\* For every ring size and over any number of sessions, every frame whose data
\* was there before its index is handed to the stack once and in its place, and
\* stays as it is while the stack holds it, whatever the stack makes of a recv
\* that returned 0; unless a start found frames in the ring that nobody had taken.
THEOREM SessionHandedInOrder == Spec => []HandedInOrder
<1>1. RingInv => HandedInOrder
    <2> SUFFICES ASSUME RingInv, ~pending
                 PROVE  /\ \A k \in 1 .. Len(got) : k \notin early => got[k] = k
                        /\ pc = "held" /\ Len(got) \notin early =>
                               slot[tail].id = Len(got)
        BY DEF HandedInOrder
    <2>1. InOrder
        BY DEF RingInv
    <2>2. ASSUME pc = "held", Len(got) \notin early
          PROVE  slot[tail].id = Len(got)
        <3>1. Holds(tail, Taken + 1)
            BY <2>2, TailHolds DEF RingInv, Laid, WithIndices, Session, On
        <3>2. Taken + 1 = Len(got)
            BY <2>2 DEF Taken, RingInv, RingTypeOK
        <3> QED BY <2>2, <3>1, <3>2 DEF Holds
    <2> QED BY <2>1, <2>2 DEF InOrder
<1> QED BY <1>1, RingCorrect, PTL

\* For every ring size, with nothing waiting the engine has a slot to receive
\* into, unless the start found the consumer index at one of the last two.
THEOREM SessionDeafOnlyFromLastSlots == Spec => []DeafOnlyFromLastSlots
<1>1. RingInv => DeafOnlyFromLastSlots
    <2> SUFFICES ASSUME RingInv, ~pending, pc = "up", cons = tail, cons = prod
                 PROVE  startedAt \in {N - 2, N - 1}
        BY DEF DeafOnlyFromLastSlots
    <2>1. RingTypeOK /\ Behind
        BY DEF RingInv
    <2>2. /\ head = tail \/ head = Wrap(tail)
          /\ Dist(tail, head) = Dist(startedAt, N - 1)
        BY <2>1 DEF Behind, Session, On
    <2> QED BY <2>1, <2>2, SizeAssumption DEF RingTypeOK, Dist, Wrap, Slots
<1> QED BY <1>1, RingCorrect, PTL
=============================================================================
