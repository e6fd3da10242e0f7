---------------------------- MODULE EdmaTxProofs ----------------------------
(* Proofs about EdmaTx, for every ring of whole packets, every number of   *)
(* descriptors per packet and any number of sends.                         *)
EXTENDS EdmaTx, SequenceTheorems, TLAPS

-----------------------------------------------------------------------------
(* Ring arithmetic                                                         *)

\* Indices at which a packet may start: the first TPD of a line.
LineStarts == {h \in Tpds : h % PER = 0}

\* A multiple of PER by its quotient.
LEMMA Quotient ==
    ASSUME NEW h \in Nat, h % PER = 0
    PROVE  h \div PER \in Nat /\ h = PER * (h \div PER)
BY RingAssumption

\* Every multiple of PER has remainder 0.
LEMMA Multiple ==
    ASSUME NEW a \in Nat
    PROVE  (PER * a) % PER = 0
BY RingAssumption

\* The TPDs of a packet do not wrap.
LEMMA PacketFits ==
    ASSUME NEW h \in LineStarts
    PROVE  /\ h \in Nat /\ h + PER <= NT
           /\ (h + PER) % PER = 0
<1> DEFINE a == h \div PER
           b == NT \div PER
<1>1. h \in Nat /\ h < NT /\ h % PER = 0 /\ PER \in Nat \ {0} /\ NT \in Nat
    BY RingAssumption DEF LineStarts, Tpds
<1>2. a \in Nat /\ h = PER * a /\ b \in Nat /\ NT = PER * b
    BY <1>1, Quotient, RingAssumption
<1> HIDE DEF a, b
<1>3. a < b
    BY <1>1, <1>2
<1>4. PER * (a + 1) <= PER * b
    BY <1>1, <1>2, <1>3
<1>5. PER * (a + 1) = h + PER
    BY <1>1, <1>2
<1>6. (PER * (a + 1)) % PER = 0
    BY <1>2, Multiple
<1> QED BY <1>1, <1>2, <1>4, <1>5, <1>6

\* Fragment i of a packet is i - 1 behind its first; so is its place in the line.
LEMMA PacketTpds ==
    ASSUME NEW h \in LineStarts, NEW i \in 1 .. PER
    PROVE  /\ TpdOf(h, i) = h + i - 1
           /\ h + i - 1 \in Tpds
           /\ (h + i - 1) % PER = i - 1
           /\ h + i - 1 \in Flushed(h)
<1>1. /\ h \in Nat /\ h + PER <= NT /\ h % PER = 0
      /\ PER \in Nat \ {0} /\ NT \in Nat
    BY PacketFits, RingAssumption DEF LineStarts
<1>2. /\ TpdOf(h, i) = h + i - 1
      /\ h + i - 1 \in Tpds
    BY <1>1 DEF TpdOf, Step, Tpds
<1>3. \A j \in 0 .. PER - 1 : (h + j) % PER = j /\ (h + j) \div PER = h \div PER
    BY <1>1
<1>4. i - 1 \in 0 .. PER - 1 /\ PER - 1 \in 0 .. PER - 1 /\ h + i - 1 = h + (i - 1)
      /\ h + PER - 1 = h + (PER - 1)
    BY <1>1
<1>5. /\ (h + i - 1) % PER = i - 1
      /\ Line(h + i - 1) = Line(h) /\ Line(h + PER - 1) = Line(h)
    BY <1>3, <1>4 DEF Line
<1>6. Line(h) \in Nat
    BY <1>1 DEF Line
<1> QED BY <1>2, <1>5, <1>6 DEF Flushed

\* "tpd_head" comes to the next line, or to the first.
LEMMA NextPacket ==
    ASSUME NEW h \in LineStarts
    PROVE  Step(h, PER) \in LineStarts /\ Step(h, PER) # h
<1>1. /\ h \in Nat /\ h + PER <= NT /\ (h + PER) % PER = 0
      /\ PER \in Nat \ {0} /\ NT \in Nat /\ NT > PER
    BY PacketFits, RingAssumption
<1>2. 0 % PER = 0
    BY <1>1, Multiple
<1> QED BY <1>1, <1>2 DEF Step, LineStarts, Tpds

\* The engine wraps where the driver does.
LEMMA HwNextInRing ==
    ASSUME NEW t \in Tpds
    PROVE  /\ HwNext(t) \in Tpds
           /\ t % PER < PER /\ t % PER \in Nat
           /\ t % PER # PER - 1 => HwNext(t) = t + 1 /\ HwNext(t) % PER = (t % PER) + 1
           /\ t % PER = PER - 1 => HwNext(t) % PER = 0
<1>1. t \in Nat /\ t < NT /\ PER \in Nat \ {0} /\ NT \in Nat /\ NT % PER = 0
    BY RingAssumption DEF Tpds
<1>2. t % PER < PER /\ t % PER \in Nat
    BY <1>1
<1>3. 0 % PER = 0
    BY <1>1, Multiple
<1> DEFINE q == t \div PER
           r == t % PER
<1>4. q \in Nat /\ t = PER * q + r /\ r \in 0 .. PER - 1
    BY <1>1
<1> HIDE DEF q, r
<1>5. CASE r # PER - 1
    <2>1. (PER * q + (r + 1)) % PER = r + 1
        <3>1. (PER * q) % PER = 0 /\ PER * q \in Nat
            BY <1>1, <1>4, Multiple
        <3> QED BY <1>1, <1>4, <1>5, <3>1
    <2>2. (t + 1) % PER = r + 1
        BY <1>1, <1>4, <2>1
    <2>3. t # NT - 1
        BY <1>1, <1>4, <1>5, <2>2
    <2> QED BY <1>1, <1>2, <1>4, <1>5, <2>2, <2>3 DEF HwNext, Tpds, r
<1>6. CASE r = PER - 1
    <2>1. t + 1 = PER * (q + 1)
        BY <1>1, <1>4, <1>6
    <2>2. (t + 1) % PER = 0
        BY <1>4, <2>1, Multiple
    <2> QED BY <1>1, <1>2, <1>3, <1>6, <2>2 DEF HwNext, Tpds, r
<1> QED BY <1>5, <1>6

\* TPDs from a up to, not including, b.
Dist(a, b) == IF b >= a THEN b - a ELSE b - a + NT

\* What is pending after the engine has moved on was pending before.
LEMMA PendingShrinks ==
    ASSUME NEW a \in Tpds, NEW b \in Tpds, NEW t \in Tpds, a # b,
           Dist(HwNext(a), t) < Dist(HwNext(a), b)
    PROVE  Dist(a, t) < Dist(a, b)
BY RingAssumption DEF Tpds, Dist, HwNext

\* What is pending after a doorbell was pending before or is of the packet.
LEMMA PendingGrows ==
    ASSUME NEW a \in Tpds, NEW h \in LineStarts, NEW t \in Tpds,
           Dist(a, t) < Dist(a, Step(h, PER))
    PROVE  Dist(a, t) < Dist(a, h) \/ t \in h .. h + PER - 1
<1>1. /\ h \in Nat /\ h + PER <= NT /\ NT \in Nat /\ PER \in Nat \ {0}
      /\ a \in 0 .. NT - 1 /\ t \in 0 .. NT - 1
    BY PacketFits, RingAssumption DEF Tpds
<1>2. CASE h + PER = NT
    <2>1. Step(h, PER) = 0
        BY <1>1, <1>2 DEF Step
    <2> QED BY <1>1, <1>2, <2>1 DEF Dist
<1>3. CASE h + PER < NT
    <2>1. Step(h, PER) = h + PER
        BY <1>1, <1>3 DEF Step
    <2> QED BY <1>1, <1>3, <2>1 DEF Dist
<1> QED BY <1>1, <1>2, <1>3

-----------------------------------------------------------------------------
(* Type correctness                                                        *)

\* The ring as edma_alloc_rings() leaves it.
LEMMA InitTypeOK == Init => TypeOK
<1> SUFFICES ASSUME Init PROVE TypeOK
    OBVIOUS
<1>1. 0 \in Tpds /\ cons \in Tpds
    BY RingAssumption, StartAssumption DEF Init, Tpds
<1>2. NoTpd \in Tpd
    BY RingAssumption DEF NoTpd, Tpd
<1>3. gather \in Seq(Fragment) /\ wire \in Seq(Seq(Fragment))
    BY DEF Init
<1> QED BY <1>1, <1>2, <1>3 DEF Init, TypeOK

\* A descriptor that the loop of send writes is one.
LEMMA DescriptorType ==
    ASSUME TypeOK, NEW i \in 1 .. PER
    PROVE  Descriptor(i) \in Tpd
BY RingAssumption DEF TypeOK, Descriptor, Tpd

\* What the cache holds once stores have left the store buffer.
LEMMA DrainedType ==
    ASSUME TypeOK, NEW D
    PROVE  Drained(D) \in [Tpds -> Tpd]
BY DEF TypeOK, Drained

\* Every step of send, the engine and the cache keeps indices in the ring and
\* every descriptor, fragment and counter of its kind.
LEMMA NextTypeOK == TypeOK /\ [Next]_vars => TypeOK'
<1> SUFFICES ASSUME TypeOK, [Next]_vars PROVE TypeOK'
    OBVIOUS
<1> USE DEF cpuVars, ramVars, engineVars, historyVars
<1>1. CASE InitDesc
    BY <1>1 DEF InitDesc, TypeOK
<1>2. CASE StartTx
    BY <1>2 DEF StartTx, TypeOK
<1>3. CASE SendShort
    BY <1>3 DEF SendShort, TypeOK
<1>4. CASE Send
    BY <1>4 DEF Send, TypeOK
<1>5. CASE FlushPacket
    BY <1>5 DEF FlushPacket, TypeOK
<1>6. CASE FillTpds
    <2>1. stores' \in [Tpds -> Tpd \cup {NoStore}]
        <3>1. ASSUME NEW t \in Tpds, \E i \in 1 .. PER : t = TpdOf(tpd_head, i)
              PROVE  Descriptor(CHOOSE i \in 1 .. PER :
                                    t = TpdOf(tpd_head, i)) \in Tpd
            <4>1. (CHOOSE i \in 1 .. PER : t = TpdOf(tpd_head, i)) \in 1 .. PER
                BY <3>1
            <4> QED BY <4>1, DescriptorType
        <3> QED BY <1>6, <3>1 DEF FillTpds, TypeOK
    <2>2. tpd_head' \in Tpds
        BY <1>6, RingAssumption DEF FillTpds, TypeOK, Step, Tpds
    <2> QED BY <1>6, <2>1, <2>2 DEF FillTpds, TypeOK
<1>7. CASE Dsb
    BY <1>7, DrainedType DEF Dsb, TypeOK
<1>8. CASE FlushTpds
    BY <1>8 DEF FlushTpds, TypeOK
<1>9. CASE Doorbell
    BY <1>9 DEF Doorbell, TypeOK
<1>10. CASE PollDone
    BY <1>10 DEF PollDone, TypeOK
<1>11. CASE PollTimeout
    BY <1>11 DEF PollTimeout, TypeOK
<1>12. CASE Return
    BY <1>12 DEF Return, TypeOK
<1>13. CASE EngineFetch
    <2> DEFINE tpd == tpd_ram[cons]
               piece == [frag |-> tpd.frag, data |-> pkt_ram, len |-> tpd.frame]
    <2>1. piece \in Fragment
        BY DEF TypeOK, Tpd, Fragment
    <2>2. Append(gather, piece) \in Seq(Fragment)
        BY <2>1 DEF TypeOK
    <2>3. Append(wire, Append(gather, piece)) \in Seq(Seq(Fragment))
        BY <2>2 DEF TypeOK
    <2>4. << >> \in Seq(Fragment)
        OBVIOUS
    <2>5. cons' \in Tpds
        BY <1>13, HwNextInRing DEF EngineFetch, TypeOK
    <2>6. gather' \in Seq(Fragment) /\ wire' \in Seq(Seq(Fragment))
        <3>1. CASE tpd.eop
            BY <1>13, <2>3, <2>4, <3>1 DEF EngineFetch
        <3>2. CASE ~tpd.eop
            BY <1>13, <2>2, <3>2 DEF EngineFetch, TypeOK
        <3> QED BY <3>1, <3>2
    <2> QED BY <1>13, <2>5, <2>6 DEF EngineFetch, TypeOK
<1>14. ASSUME NEW t \in Tpds, DrainStore(t)
       PROVE  TypeOK'
    BY <1>14, DrainedType DEF DrainStore, TypeOK
<1>15. ASSUME NEW l, EvictLine(l)
       PROVE  TypeOK'
    BY <1>15 DEF EvictLine, TypeOK
<1>16. CASE EvictPacket
    BY <1>16 DEF EvictPacket, TypeOK
<1>17. CASE UNCHANGED vars
    BY <1>17 DEF TypeOK, vars
<1> QED
    BY <1>1, <1>2, <1>3, <1>4, <1>5, <1>6, <1>7, <1>8, <1>9, <1>10, <1>11,
       <1>12, <1>13, <1>14, <1>15, <1>16, <1>17
       DEF Next, SendSteps, Hardware, Done

\* Type correctness of the transmit ring.
THEOREM TxTypeCorrect == Spec => []TypeOK
<1>1. Init => TypeOK
    BY InitTypeOK
<1>2. TypeOK /\ [Next]_vars => TypeOK'
    BY NextTypeOK
<1> QED BY <1>1, <1>2, PTL DEF Spec

-----------------------------------------------------------------------------
(* The shape of what the engine follows, however late it is                *)

\* The TPDs of the packet that starts at h.
Packet(h) == h .. h + PER - 1

\* A descriptor of TPD t that the loop of send has written, for some frame.
Shaped(d, t) == d.frag = (t % PER) + 1 /\ d.eop = (t % PER = PER - 1)

\* What happens between filling and ringing.
Ringing == {"dsb", "clean", "doorbell"}

\* Indices that only ever move by packets.
Indices ==
    /\ tpd_head \in LineStarts /\ first \in LineStarts /\ prod \in LineStarts
    /\ txq_en <=> pc \notin {"alloc", "probed"}
    /\ pc = "alloc" => cons \in LineStarts
    /\ pc \in Ringing => prod = first
    /\ pc \in Ringing \cup {"poll"} => tpd_head = Step(first, PER)
    /\ pc \notin Ringing \cup {"alloc"} => prod = tpd_head

\* Every copy of a TPD is as edma_alloc_rings() left it or as send wrote it.
Copies ==
    \A t \in Tpds : /\ stores[t] # NoStore => Shaped(stores[t], t)
                    /\ tpd_cpu[t] = NoTpd \/ Shaped(tpd_cpu[t], t)
                    /\ tpd_ram[t] = NoTpd \/ Shaped(tpd_ram[t], t)

\* The packet on its way from the store buffer to RAM.
Filled ==
    \A t \in Packet(first) :
       /\ pc = "dsb" => stores[t] # NoStore \/ Shaped(tpd_cpu[t], t)
       /\ pc = "clean" => Shaped(tpd_cpu[t], t)
       /\ pc = "doorbell" => Shaped(tpd_cpu[t], t) /\ Shaped(tpd_ram[t], t)

\* Everything between the engine's index and the doorbell's is written.
Pending ==
    pc # "alloc" =>
       \A t \in Tpds : Dist(cons, t) < Dist(cons, prod)
                       => Shaped(tpd_cpu[t], t) /\ Shaped(tpd_ram[t], t)

\* The engine has gathered as many fragments as it is into a packet.
Gathered == Len(gather) = cons % PER

ShapeInv == /\ TypeOK /\ Indices /\ Copies /\ Filled /\ Pending
            /\ Gathered /\ FramesWellFormed

\* A TPD of a packet by its place.
LEMMA PacketPlace ==
    ASSUME NEW h \in LineStarts, NEW t \in Packet(h)
    PROVE  /\ t \in Tpds /\ t \in Flushed(h)
           /\ (t % PER) + 1 \in 1 .. PER
           /\ t = h + ((t % PER) + 1) - 1
           /\ t = TpdOf(h, (t % PER) + 1)
<1>1. /\ h \in Nat /\ h + PER <= NT /\ PER \in Nat \ {0}
    BY PacketFits, RingAssumption
<1> DEFINE i == t - h + 1
<1>2. i \in 1 .. PER /\ t = h + i - 1
    BY <1>1 DEF Packet
<1> HIDE DEF i
<1>3. t = TpdOf(h, i) /\ t \in Tpds /\ t % PER = i - 1 /\ t \in Flushed(h)
    BY <1>2, PacketTpds
<1> QED BY <1>1, <1>2, <1>3

\* Which stores the loop of send makes.
LEMMA FillWrites ==
    ASSUME TypeOK, Indices, FillTpds
    PROVE  /\ \A t \in Packet(tpd_head) : stores'[t] = Descriptor((t % PER) + 1)
           /\ \A t \in Tpds \ Packet(tpd_head) : stores'[t] = stores[t]
<1>1. tpd_head \in LineStarts
    BY DEF Indices
<1>2. tpd_head \in Nat /\ PER \in Nat \ {0}
    BY <1>1, PacketFits, RingAssumption
<1>3. ASSUME NEW t \in Packet(tpd_head)
      PROVE  stores'[t] = Descriptor((t % PER) + 1)
    <2>1. /\ t \in Tpds /\ (t % PER) + 1 \in 1 .. PER
          /\ t = TpdOf(tpd_head, (t % PER) + 1)
        BY <1>1, <1>3, PacketPlace
    <2>2. \A i \in 1 .. PER : t = TpdOf(tpd_head, i) => i = (t % PER) + 1
        <3> TAKE i \in 1 .. PER
        <3>1. TpdOf(tpd_head, i) = tpd_head + i - 1
              /\ (tpd_head + i - 1) % PER = i - 1
            BY <1>1, PacketTpds
        <3> QED BY <1>2, <3>1
    <2>3. (CHOOSE i \in 1 .. PER : t = TpdOf(tpd_head, i)) = (t % PER) + 1
        BY <2>1, <2>2
    <2> QED BY <2>1, <2>3 DEF FillTpds
<1>4. ASSUME NEW t \in Tpds \ Packet(tpd_head)
      PROVE  stores'[t] = stores[t]
    <2>1. \A i \in 1 .. PER : t # TpdOf(tpd_head, i)
        <3> TAKE i \in 1 .. PER
        <3>1. TpdOf(tpd_head, i) = tpd_head + i - 1
            BY <1>1, PacketTpds
        <3> QED BY <1>2, <1>4, <3>1 DEF Packet
    <2> QED BY <2>1 DEF FillTpds
<1> QED BY <1>3, <1>4

\* What the loop writes is shaped.
LEMMA DescriptorShaped ==
    ASSUME NEW t \in Tpds
    PROVE  Shaped(Descriptor((t % PER) + 1), t)
<1>1. t % PER \in Nat /\ PER \in Nat \ {0}
    BY HwNextInRing, RingAssumption
<1> QED BY <1>1 DEF Shaped, Descriptor

\* A drained or evicted copy is one that was there before.
LEMMA DrainedCopy ==
    ASSUME TypeOK, Copies, NEW D, NEW t \in Tpds
    PROVE  /\ Drained(D)[t] = NoTpd \/ Shaped(Drained(D)[t], t)
           /\ Shaped(tpd_cpu[t], t) => Shaped(Drained(D)[t], t)
           /\ stores[t] # NoStore /\ t \in D => Shaped(Drained(D)[t], t)
BY DEF Copies, Drained

\* Before the first call nothing is on its way and every line is empty.
LEMMA InitShape == Init => ShapeInv
<1> SUFFICES ASSUME Init PROVE ShapeInv
    OBVIOUS
<1>1. TypeOK
    BY InitTypeOK
<1>2. 0 \in LineStarts /\ cons \in LineStarts
    <2>1. 0 % PER = 0
        BY RingAssumption, Multiple
    <2> QED BY <2>1, RingAssumption, StartAssumption DEF Init, LineStarts, Tpds
<1>3. Indices
    BY <1>2 DEF Init, Indices, Ringing
<1>4. Copies /\ Filled /\ Pending
    BY DEF Init, Copies, Filled, Pending
<1>5. Gathered /\ FramesWellFormed
    BY <1>2 DEF Init, Gathered, FramesWellFormed, LineStarts
<1> QED BY <1>1, <1>3, <1>4, <1>5 DEF ShapeInv

\* The engine's step: it follows shaped descriptors only, and what is left of
\* the pending ones is still written.
LEMMA FetchShape ==
    ASSUME ShapeInv, EngineFetch
    PROVE  Pending' /\ Gathered' /\ FramesWellFormed'
<1> USE DEF ShapeInv
<1> DEFINE tpd == tpd_ram[cons]
           piece == [frag |-> tpd.frag, data |-> pkt_ram, len |-> tpd.frame]
<1>1. /\ cons \in Tpds /\ prod \in Tpds /\ cons # prod /\ pc # "alloc"
      /\ cons' = HwNext(cons) /\ pc' = pc /\ prod' = prod
      /\ tpd_cpu' = tpd_cpu /\ tpd_ram' = tpd_ram
    BY DEF EngineFetch, TypeOK, Indices, cpuVars, ramVars
<1>2. Pending'
    BY <1>1, PendingShrinks DEF Pending
<1>3. Dist(cons, cons) < Dist(cons, prod)
    BY <1>1, RingAssumption DEF Dist, Tpds
<1>4. Shaped(tpd, cons)
    BY <1>1, <1>3 DEF Pending
<1>5. /\ piece.frag = Len(gather) + 1
      /\ tpd.eop = (Len(gather) = PER - 1)
      /\ gather \in Seq(Fragment) /\ piece \in Fragment
      /\ wire \in Seq(Seq(Fragment))
    BY <1>1, <1>4 DEF Shaped, Gathered, TypeOK, Tpd, Fragment
<1> DEFINE g == Append(gather, piece)
<1>6. /\ g \in Seq(Fragment) /\ Len(g) = Len(gather) + 1
      /\ \A i \in 1 .. Len(g) : g[i].frag = i
    <2>1. /\ g \in Seq(Fragment) /\ Len(g) = Len(gather) + 1 /\ Len(gather) \in Nat
          /\ \A i \in 1 .. Len(gather) : g[i] = gather[i]
          /\ g[Len(gather) + 1] = piece
        BY <1>5
    <2>2. \A i \in 1 .. Len(gather) : gather[i].frag = i
        BY DEF FramesWellFormed
    <2>3. piece.frag = Len(gather) + 1
        BY <1>5
    <2> HIDE DEF g, piece
    <2>4. \A i \in 1 .. Len(gather) + 1 : g[i].frag = i
        BY <2>1, <2>2, <2>3
    <2> QED BY <2>1, <2>4
<1> HIDE DEF g, piece, tpd
<1>7. cons % PER = Len(gather) /\ cons % PER \in Nat /\ PER \in Nat
    BY <1>1, HwNextInRing, RingAssumption DEF Gathered
<1>8. CASE tpd.eop
    <2>1. wire' = Append(wire, g) /\ gather' = << >>
        BY <1>8 DEF EngineFetch, g, piece, tpd
    <2>2. Len(g) = PER /\ HwNext(cons) % PER = 0
        <3>1. Len(gather) = PER - 1
            BY <1>5, <1>8 DEF tpd
        <3> QED BY <1>1, <1>6, <1>7, <3>1, HwNextInRing
    <2>3. /\ Len(wire') = Len(wire) + 1 /\ Len(wire) \in Nat
          /\ \A k \in 1 .. Len(wire) : wire'[k] = wire[k]
          /\ wire'[Len(wire) + 1] = g
        BY <1>5, <1>6, <2>1
    <2>4. Gathered'
        BY <1>1, <2>1, <2>2 DEF Gathered
    <2>5. ASSUME NEW k \in 1 .. Len(wire')
          PROVE  /\ Len(wire'[k]) = PER
                 /\ \A i \in 1 .. PER : wire'[k][i].frag = i
        <3>1. CASE k \in 1 .. Len(wire)
            BY <2>3, <3>1 DEF FramesWellFormed
        <3>2. CASE k = Len(wire) + 1
            BY <1>6, <2>2, <2>3, <3>2
        <3> QED BY <2>3, <2>5, <3>1, <3>2
    <2>6. \A i \in 1 .. Len(gather') : gather'[i].frag = i
        BY <2>1
    <2>7. FramesWellFormed'
        BY <2>5, <2>6 DEF FramesWellFormed
    <2> QED BY <1>2, <2>4, <2>7
<1>9. CASE ~tpd.eop
    <2>1. wire' = wire /\ gather' = g
        BY <1>9 DEF EngineFetch, g, piece, tpd
    <2>2. HwNext(cons) % PER = (cons % PER) + 1
        BY <1>1, <1>5, <1>7, <1>9, HwNextInRing
    <2>3. Gathered'
        BY <1>1, <1>6, <1>7, <2>1, <2>2 DEF Gathered
    <2>4. FramesWellFormed'
        BY <1>6, <2>1 DEF FramesWellFormed
    <2> QED BY <1>2, <2>3, <2>4
<1> QED BY <1>8, <1>9

\* Every step keeps the shape.
LEMMA NextShape == ShapeInv /\ [Next]_vars => ShapeInv'
<1> SUFFICES ASSUME ShapeInv, [Next]_vars PROVE ShapeInv'
    OBVIOUS
<1> USE DEF cpuVars, ramVars, engineVars, historyVars
<1>t. TypeOK /\ TypeOK'
    BY NextTypeOK DEF ShapeInv
<1>i. Indices /\ Copies /\ Filled /\ Pending /\ Gathered /\ FramesWellFormed
    BY DEF ShapeInv
<1>h. /\ tpd_head \in LineStarts /\ first \in LineStarts /\ prod \in LineStarts
      /\ cons \in Tpds /\ prod \in Tpds
    BY <1>t, <1>i DEF Indices, TypeOK
<1>1. CASE InitDesc
    <2>1. Indices'
        BY <1>1, <1>i DEF InitDesc, Indices, Ringing
    <2>2. Copies' /\ Filled' /\ Gathered' /\ FramesWellFormed'
        BY <1>1, <1>i DEF InitDesc, Copies, Filled, Gathered, FramesWellFormed
    <2>3. Pending'
        BY <1>1, <1>h, RingAssumption DEF InitDesc, Pending, Dist, Tpds
    <2> QED BY <1>t, <2>1, <2>2, <2>3 DEF ShapeInv
<1>2. ASSUME StartTx \/ SendShort \/ Send \/ FlushPacket \/ PollDone
             \/ PollTimeout \/ Return \/ EvictPacket \/ UNCHANGED vars
      PROVE  ShapeInv'
    <2>1. /\ UNCHANGED <<tpd_head, first, stores, tpd_cpu, tpd_ram, prod, cons,
                         gather, wire>>
          /\ pc = "alloc" <=> pc' = "alloc"
          /\ \/ pc' = pc /\ txq_en' = txq_en
             \/ pc = "probed" /\ pc' = "idle" /\ txq_en'
             \/ /\ {pc, pc'} \subseteq {"idle", "flush", "fill", "poll", "return"}
                /\ pc' # "poll" /\ txq_en' = txq_en
        BY <1>2 DEF StartTx, SendShort, Send, FlushPacket, PollDone, PollTimeout,
                    Return, EvictPacket, vars
    <2>2. Indices'
        BY <1>i, <2>1 DEF Indices, Ringing
    <2>3. Copies' /\ Pending' /\ Gathered' /\ FramesWellFormed'
        BY <1>i, <2>1 DEF Copies, Pending, Gathered, FramesWellFormed
    <2>4. Filled'
        BY <1>i, <2>1 DEF Filled
    <2> QED BY <1>t, <2>2, <2>3, <2>4 DEF ShapeInv
<1>3. CASE FillTpds
    <2>0. /\ first' = tpd_head /\ tpd_head' = Step(tpd_head, PER)
          /\ pc = "fill" /\ pc' = "dsb"
          /\ UNCHANGED <<tpd_cpu, tpd_ram, prod, cons, txq_en, gather, wire>>
        BY <1>3 DEF FillTpds
    <2>1. Indices'
        BY <1>h, <1>i, <2>0, NextPacket DEF Indices, Ringing
    <2>2. \A t \in Packet(tpd_head) : Shaped(stores'[t], t) /\ stores'[t] # NoStore
        <3> TAKE t \in Packet(tpd_head)
        <3>1. t \in Tpds /\ (t % PER) + 1 \in 1 .. PER
            BY <1>h, PacketPlace
        <3>2. stores'[t] = Descriptor((t % PER) + 1)
            BY <1>3, <1>i, <1>t, FillWrites
        <3> QED BY <1>t, <3>1, <3>2, DescriptorShaped, DescriptorType, StoreAssumption
    <2>3. Copies'
        <3>1. \A t \in Tpds \ Packet(tpd_head) : stores'[t] = stores[t]
            BY <1>3, <1>i, <1>t, FillWrites
        <3> QED BY <1>i, <2>0, <2>2, <3>1 DEF Copies
    <2>4. Filled'
        BY <2>0, <2>2 DEF Filled
    <2>5. Pending' /\ Gathered' /\ FramesWellFormed'
        BY <1>i, <2>0 DEF Pending, Gathered, FramesWellFormed
    <2> QED BY <1>t, <2>1, <2>3, <2>4, <2>5 DEF ShapeInv
<1>4. CASE Dsb
    <2>0. /\ tpd_cpu' = Drained(Tpds) /\ pc = "dsb" /\ pc' = "clean"
          /\ stores' = [t \in Tpds |-> NoStore]
          /\ UNCHANGED <<tpd_head, first, tpd_ram, prod, cons, txq_en, gather, wire>>
        BY <1>4 DEF Dsb
    <2>1. Indices' /\ Gathered' /\ FramesWellFormed'
        BY <1>i, <2>0 DEF Indices, Ringing, Gathered, FramesWellFormed
    <2>2. Copies'
        BY <1>t, <1>i, <2>0, DrainedCopy DEF Copies
    <2>3. Filled'
        BY <1>t, <1>i, <1>h, <2>0, DrainedCopy, PacketPlace DEF Filled
    <2>4. Pending'
        BY <1>t, <1>i, <2>0, DrainedCopy DEF Pending
    <2> QED BY <1>t, <2>1, <2>2, <2>3, <2>4 DEF ShapeInv
<1>5. CASE FlushTpds
    <2>0. /\ pc = "clean" /\ pc' = "doorbell"
          /\ \A t \in Tpds : tpd_ram'[t] = tpd_cpu[t] \/ tpd_ram'[t] = tpd_ram[t]
          /\ \A t \in Flushed(first) : t \in Tpds => tpd_ram'[t] = tpd_cpu[t]
          /\ UNCHANGED <<tpd_head, first, stores, tpd_cpu, prod, cons, txq_en, gather,
                         wire>>
        BY <1>5 DEF FlushTpds
    <2>1. Indices' /\ Gathered' /\ FramesWellFormed'
        BY <1>i, <2>0 DEF Indices, Ringing, Gathered, FramesWellFormed
    <2>2. Copies' /\ Pending'
        BY <1>i, <2>0 DEF Copies, Pending
    <2>3. Filled'
        BY <1>i, <1>h, <2>0, PacketPlace DEF Filled
    <2> QED BY <1>t, <2>1, <2>2, <2>3 DEF ShapeInv
<1>6. CASE Doorbell
    <2>0. /\ pc = "doorbell" /\ pc' = "poll" /\ prod' = tpd_head
          /\ UNCHANGED <<tpd_head, first, stores, tpd_cpu, tpd_ram, cons, txq_en, gather,
                         wire>>
        BY <1>6 DEF Doorbell
    <2>1. prod = first /\ prod' = Step(first, PER)
        BY <1>i, <2>0 DEF Indices, Ringing
    <2>2. Indices' /\ Copies' /\ Filled' /\ Gathered' /\ FramesWellFormed'
        BY <1>i, <2>0 DEF Indices, Ringing, Copies, Filled, Gathered, FramesWellFormed
    <2>3. Pending'
        <3>1. SUFFICES ASSUME NEW t \in Tpds, Dist(cons, t) < Dist(cons, Step(first, PER))
                       PROVE  Shaped(tpd_cpu[t], t) /\ Shaped(tpd_ram[t], t)
            BY <2>0, <2>1 DEF Pending
        <3>2. Dist(cons, t) < Dist(cons, first) \/ t \in Packet(first)
            BY <1>h, <3>1, PendingGrows DEF Packet
        <3> QED BY <1>i, <2>0, <2>1, <3>1, <3>2 DEF Pending, Filled
    <2> QED BY <1>t, <2>2, <2>3 DEF ShapeInv
<1>7. CASE EngineFetch
    <2>0. /\ txq_en /\ UNCHANGED <<tpd_head, pc, first, stores, tpd_cpu, tpd_ram, prod,
                                   txq_en>>
        BY <1>7 DEF EngineFetch
    <2>1. Indices' /\ Copies' /\ Filled'
        BY <1>i, <2>0 DEF Indices, Copies, Filled
    <2> QED BY <1>7, <1>t, <2>1, FetchShape DEF ShapeInv
<1>8. ASSUME NEW s \in Tpds, DrainStore(s)
      PROVE  ShapeInv'
    <2>0. /\ tpd_cpu' = Drained({s}) /\ stores' = [stores EXCEPT ![s] = NoStore]
          /\ stores[s] # NoStore
          /\ UNCHANGED <<tpd_head, pc, first, tpd_ram, prod, cons, txq_en, gather, wire>>
        BY <1>8 DEF DrainStore
    <2>1. Indices' /\ Gathered' /\ FramesWellFormed'
        BY <1>i, <2>0 DEF Indices, Ringing, Gathered, FramesWellFormed
    <2>2. \A t \in Tpds : /\ t # s => stores'[t] = stores[t]
                          /\ t = s => stores'[t] = NoStore
        BY <1>t, <2>0 DEF TypeOK
    <2>3. Copies'
        BY <1>t, <1>i, <2>0, <2>2, DrainedCopy DEF Copies
    <2>4. Filled'
        <3>1. \A t \in Packet(first) : t \in Tpds
            BY <1>h, PacketPlace
        <3>2. \A t \in Tpds : /\ Shaped(tpd_cpu[t], t) => Shaped(tpd_cpu'[t], t)
                              /\ t = s => Shaped(tpd_cpu'[t], t)
            BY <1>t, <1>i, <2>0, DrainedCopy
        <3> QED BY <1>i, <2>0, <2>2, <3>1, <3>2 DEF Filled
    <2>5. Pending'
        BY <1>t, <1>i, <2>0, DrainedCopy DEF Pending
    <2> QED BY <1>t, <2>1, <2>3, <2>4, <2>5 DEF ShapeInv
<1>9. ASSUME NEW l, EvictLine(l)
      PROVE  ShapeInv'
    <2>0. /\ \A t \in Tpds : tpd_ram'[t] = tpd_cpu[t] \/ tpd_ram'[t] = tpd_ram[t]
          /\ UNCHANGED <<tpd_head, pc, first, stores, tpd_cpu, prod, cons, txq_en, gather,
                         wire>>
        BY <1>9 DEF EvictLine
    <2>1. Indices' /\ Gathered' /\ FramesWellFormed'
        BY <1>i, <2>0 DEF Indices, Ringing, Gathered, FramesWellFormed
    <2>2. Copies' /\ Pending'
        BY <1>i, <2>0 DEF Copies, Pending
    <2>3. Filled'
        BY <1>h, <1>i, <2>0, PacketPlace DEF Filled
    <2> QED BY <1>t, <2>1, <2>2, <2>3 DEF ShapeInv
<1> QED
    BY <1>1, <1>2, <1>3, <1>4, <1>5, <1>6, <1>7, <1>8, <1>9
       DEF Next, SendSteps, Hardware, Done

\* However late the engine is, and however many sends gave up on it, it follows
\* only descriptors that send wrote and finds each frame's fragments in order.
THEOREM TxFramesWellFormed == Spec => []FramesWellFormed
<1>1. Init => ShapeInv
    BY InitShape
<1>2. ShapeInv /\ [Next]_vars => ShapeInv'
    BY NextShape
<1>3. ShapeInv => FramesWellFormed
    BY DEF ShapeInv
<1> QED BY <1>1, <1>2, <1>3, PTL DEF Spec

-----------------------------------------------------------------------------
(* What an engine that was never late leaves                               *)

\* Only while send polls is there anything to read, and it is of its packet.
CaughtUpInv ==
    timeouts = 0 =>
       /\ pc \notin {"alloc", "poll"} => cons = prod
       /\ pc = "poll" => cons = prod \/ cons \in Packet(first)

\* The engine's step within a packet, and off its end to the next one.
LEMMA FetchInPacket ==
    ASSUME NEW h \in LineStarts, NEW t \in Packet(h)
    PROVE  /\ t % PER # PER - 1 => HwNext(t) \in Packet(h)
           /\ t % PER = PER - 1 => HwNext(t) = Step(h, PER)
<1>1. /\ h \in Nat /\ h + PER <= NT /\ PER \in Nat \ {0} /\ NT \in Nat
    BY PacketFits, RingAssumption
<1>2. /\ t \in Tpds /\ t % PER \in Nat /\ t % PER < PER /\ t = h + (t % PER)
    <2>1. /\ t \in Tpds /\ t = h + ((t % PER) + 1) - 1
        BY PacketPlace
    <2>2. t % PER \in Nat /\ t % PER < PER
        BY <2>1, HwNextInRing
    <2> QED BY <1>1, <2>1, <2>2
<1> DEFINE r == t % PER
<1>3. r \in Nat /\ r < PER /\ t = h + r
    BY <1>2
<1> HIDE DEF r
<1>4. r # PER - 1 => HwNext(t) \in Packet(h)
    BY <1>1, <1>3 DEF HwNext, Packet
<1>5. r = PER - 1 => HwNext(t) = Step(h, PER)
    BY <1>1, <1>3 DEF HwNext, Step
<1> QED BY <1>4, <1>5 DEF r

\* While no send has given up, the indices part only between the doorbell and
\* the end of the poll.
LEMMA NextCaughtUp ==
    ShapeInv /\ CaughtUpInv /\ [Next]_vars => CaughtUpInv'
<1> SUFFICES ASSUME ShapeInv, CaughtUpInv, [Next]_vars, timeouts' = 0
             PROVE  /\ pc' \notin {"alloc", "poll"} => cons' = prod'
                    /\ pc' = "poll" => cons' = prod' \/ cons' \in Packet(first)'
    BY DEF CaughtUpInv
<1> USE DEF cpuVars, ramVars, engineVars, historyVars
<1>i. Indices /\ TypeOK
    BY DEF ShapeInv
<1>1. CASE PollTimeout
    BY <1>1, <1>i DEF PollTimeout, TypeOK
<1>2. CASE Doorbell
    <2>1. /\ cons = first /\ first \in LineStarts
        BY <1>2, <1>i DEF Doorbell, CaughtUpInv, Indices, Ringing
    <2>2. first \in Packet(first)
        BY <2>1, PacketFits, RingAssumption DEF Packet
    <2> QED BY <1>2, <2>1, <2>2 DEF Doorbell
<1>3. CASE EngineFetch
    <2>1. /\ timeouts = 0 /\ pc # "alloc" /\ cons # prod
          /\ UNCHANGED <<pc, prod, first>> /\ cons' = HwNext(cons)
        BY <1>3, <1>i DEF EngineFetch, Indices
    <2>2. pc = "poll" /\ cons \in Packet(first)
        BY <2>1 DEF CaughtUpInv
    <2>3. first \in LineStarts /\ prod = Step(first, PER)
        BY <1>i, <2>2 DEF Indices, Ringing
    <2> QED BY <2>1, <2>2, <2>3, FetchInPacket
<1>4. CASE InitDesc
    BY <1>4 DEF InitDesc
<1>5. ASSUME StartTx \/ SendShort \/ Send \/ FlushPacket \/ FillTpds \/ Dsb
             \/ FlushTpds \/ PollDone \/ Return
      PROVE  pc' \notin {"alloc", "poll"} /\ cons' = prod'
    BY <1>5 DEF CaughtUpInv, StartTx, SendShort, Send, FlushPacket, FillTpds, Dsb,
                FlushTpds, PollDone, Return, CaughtUp
<1>6. ASSUME EvictPacket \/ UNCHANGED vars \/ (\E l : EvictLine(l))
             \/ (\E s \in Tpds : DrainStore(s))
      PROVE  UNCHANGED <<pc, cons, prod, first, timeouts>>
    BY <1>6 DEF EvictPacket, EvictLine, DrainStore, vars
<1>7. UNCHANGED <<pc, cons, prod, first, timeouts>>
      => /\ pc' \notin {"alloc", "poll"} => cons' = prod'
         /\ pc' = "poll" => cons' = prod' \/ cons' \in Packet(first)'
    BY DEF CaughtUpInv, Packet
<1>8. \/ InitDesc \/ StartTx \/ SendShort \/ Send \/ SendSteps \/ EngineFetch
      \/ EvictPacket \/ UNCHANGED vars \/ (\E l : EvictLine(l))
      \/ (\E s \in Tpds : DrainStore(s))
    BY DEF Next, Hardware, Done
<1> QED BY <1>1, <1>2, <1>3, <1>4, <1>5, <1>6, <1>7, <1>8 DEF SendSteps

\* Nothing is left to read, and nothing half gathered, whenever send is not
\* polling.
LEMMA CaughtUpMeansDone ==
    ASSUME ShapeInv, CaughtUpInv, timeouts = 0, pc \notin {"alloc", "poll"}
    PROVE  cons = prod /\ gather = << >>
<1>1. cons = prod /\ prod \in LineStarts /\ Gathered /\ gather \in Seq(Fragment)
    BY DEF CaughtUpInv, ShapeInv, Indices, TypeOK
<1>2. Len(gather) = 0
    BY <1>1 DEF LineStarts, Gathered
<1> QED BY <1>1, <1>2

\* The buffer and the descriptors are the caller's again when send returns: the
\* engine has nothing left to read until the next doorbell.
THEOREM TxEngineDone == Spec => []EngineDoneWhenReturned
<1>1. Init => ShapeInv /\ CaughtUpInv
    BY InitShape DEF Init, CaughtUpInv
<1>2. ShapeInv /\ CaughtUpInv /\ [Next]_vars => (ShapeInv /\ CaughtUpInv)'
    BY NextShape, NextCaughtUp
<1>3. ShapeInv /\ CaughtUpInv => EngineDoneWhenReturned
    BY CaughtUpMeansDone DEF EngineDoneWhenReturned
<1> QED BY <1>1, <1>2, <1>3, PTL DEF Spec

-----------------------------------------------------------------------------
(* Every frame whole, once and in order: the refinement of TxCall          *)

\* The packet and its length come from the call under way.
Packets ==
    /\ pkt_cpu = calls
    /\ pc \in {"fill", "poll"} \cup Ringing => pkt_ram = calls

\* So does every descriptor, wherever its line is.
DescriptorsOfCall ==
    /\ pc # "dsb" => \A t \in Tpds : stores[t] = NoStore
    /\ \A t \in Packet(first) :
          LET d == Descriptor((t % PER) + 1)
          IN  /\ pc = "dsb" => \/ stores[t] = d
                               \/ stores[t] = NoStore /\ tpd_cpu[t] = d
              /\ pc = "clean" => tpd_cpu[t] = d
              /\ pc \in {"doorbell", "poll"} => tpd_cpu[t] = d /\ tpd_ram[t] = d

\* So does what the engine has gathered.
GatheredOfCall ==
    pc = "poll" => \A i \in 1 .. Len(gather) :
                      gather[i] = [frag |-> i, data |-> calls, len |-> calls]

\* The call under way has put its frame on the wire.
Emitted == pc = "return" \/ (pc = "poll" /\ cons = prod)

\* It has yet to.
Owed == pc \in {"flush", "fill"} \cup Ringing \/ (pc = "poll" /\ cons # prod)

\* The wire holds whole frames of earlier calls, and of this one once emitted.
WireOfCalls ==
    /\ \A k \in 1 .. Len(wire) : \E id \in 1 .. calls : wire[k] = Whole(id)
    /\ Owed => \A k \in 1 .. Len(wire) : \E id \in 1 .. calls - 1 : wire[k] = Whole(id)
    /\ Emitted => wire # << >> /\ wire[Len(wire)] = Whole(calls)
    /\ Owed => calls # 0

OnTimeInv ==
    /\ ShapeInv /\ CaughtUpInv
    /\ timeouts = 0 => /\ Packets /\ DescriptorsOfCall /\ GatheredOfCall
                       /\ WireOfCalls

\* The loop's descriptors survive leaving the store buffer one at a time.
LEMMA DrainedOfCall ==
    ASSUME TypeOK, DescriptorsOfCall, pc = "dsb", first \in LineStarts,
           NEW D, NEW t \in Packet(first)
    PROVE  \/ Drained(D)[t] = Descriptor((t % PER) + 1)
           \/ stores[t] = Descriptor((t % PER) + 1) /\ t \notin D
<1>1. t \in Tpds /\ Descriptor((t % PER) + 1) # NoStore
    BY PacketPlace, DescriptorType, StoreAssumption
<1> QED BY <1>1 DEF DescriptorsOfCall, Drained

\* What the engine gathers while send polls is the call's own frame.
LEMMA FetchOfCall ==
    ASSUME OnTimeInv, timeouts = 0, EngineFetch
    PROVE  /\ pc = "poll" /\ cons # prod
           /\ \/ /\ cons' = prod /\ gather' = << >>
                 /\ wire' = Append(wire, Whole(calls))
              \/ /\ cons' # prod /\ wire' = wire
                 /\ \A i \in 1 .. Len(gather') :
                       gather'[i] = [frag |-> i, data |-> calls, len |-> calls]
<1>1. /\ ShapeInv /\ CaughtUpInv /\ Packets /\ DescriptorsOfCall
      /\ GatheredOfCall /\ Indices /\ Gathered /\ TypeOK
    BY DEF OnTimeInv, ShapeInv
<1>2. /\ pc = "poll" /\ cons # prod /\ cons \in Packet(first)
      /\ first \in LineStarts /\ prod = Step(first, PER)
    BY <1>1 DEF EngineFetch, CaughtUpInv, Indices, Ringing
<1>3. /\ cons \in Tpds /\ (cons % PER) + 1 \in 1 .. PER
      /\ cons % PER = Len(gather) /\ cons % PER \in Nat /\ PER \in Nat \ {0}
      /\ cons' = HwNext(cons)
    BY <1>1, <1>2, PacketPlace, HwNextInRing, RingAssumption DEF Gathered, EngineFetch
<1>4. /\ tpd_ram[cons] = Descriptor((cons % PER) + 1)
      /\ pkt_ram = calls /\ pkt_cpu = calls
    BY <1>1, <1>2 DEF DescriptorsOfCall, Packets
<1> DEFINE piece == [frag |-> tpd_ram[cons].frag, data |-> pkt_ram,
                     len |-> tpd_ram[cons].frame]
           n == Len(gather) + 1
           g == Append(gather, piece)
<1>5. piece = [frag |-> n, data |-> calls, len |-> calls]
      /\ tpd_ram[cons].eop = (n = PER)
    BY <1>3, <1>4 DEF Descriptor
<1>6. /\ Len(g) = n /\ DOMAIN g = 1 .. n /\ g \in Seq(Fragment)
      /\ \A i \in 1 .. n : g[i] = [frag |-> i, data |-> calls, len |-> calls]
    <2>1. gather \in Seq(Fragment) /\ piece \in Fragment /\ Len(gather) \in Nat
        BY <1>1, <1>3, <1>5 DEF TypeOK, Fragment
    <2>2. /\ Len(g) = n /\ DOMAIN g = 1 .. n /\ g \in Seq(Fragment)
          /\ g[n] = piece
          /\ \A i \in 1 .. Len(gather) : g[i] = gather[i]
        BY <2>1
    <2>3. \A i \in 1 .. Len(gather) :
             gather[i] = [frag |-> i, data |-> calls, len |-> calls]
        BY <1>1, <1>2 DEF GatheredOfCall
    <2> HIDE DEF g, piece
    <2>4. \A i \in 1 .. n : g[i] = [frag |-> i, data |-> calls, len |-> calls]
        <3> TAKE i \in 1 .. n
        <3>1. CASE i = n
            BY <1>5, <2>2, <3>1
        <3>2. CASE i \in 1 .. Len(gather)
            BY <2>2, <2>3, <3>2
        <3> QED BY <2>1, <3>1, <3>2
    <2> QED BY <2>2, <2>4
<1>7. EngineFetch
      => /\ n = PER => wire' = Append(wire, g) /\ gather' = << >>
         /\ n # PER => wire' = wire /\ gather' = g
    BY <1>5 DEF EngineFetch
<1> HIDE DEF g, piece
<1>8. CASE n = PER
    <2>1. cons' = prod
        BY <1>2, <1>3, <1>8, FetchInPacket
    <2>2. g = Whole(calls)
        BY <1>6, <1>8 DEF Whole
    <2> QED BY <1>2, <1>7, <1>8, <2>1, <2>2
<1>9. CASE n # PER
    <2>1. cons' % PER = n /\ n # 0
        BY <1>3, <1>9, HwNextInRing
    <2>2. prod % PER = 0
        BY <1>1 DEF Indices, LineStarts
    <2> QED BY <1>2, <1>6, <1>7, <1>9, <2>1, <2>2
<1> QED BY <1>8, <1>9

\* The same for the contents: no call has been made and the wire is empty.
LEMMA InitOnTime == Init => OnTimeInv
<1> SUFFICES ASSUME Init PROVE OnTimeInv
    OBVIOUS
<1>1. ShapeInv /\ CaughtUpInv
    BY InitShape DEF Init, CaughtUpInv
<1>2. Packets /\ DescriptorsOfCall /\ GatheredOfCall /\ WireOfCalls
    BY DEF Init, Packets, DescriptorsOfCall, GatheredOfCall, WireOfCalls, Emitted,
           Owed, Ringing
<1> QED BY <1>1, <1>2 DEF OnTimeInv

\* While no send has given up, every step keeps packet, descriptors, fragments
\* and wire of the calls they belong to.
LEMMA NextOnTime == OnTimeInv /\ [Next]_vars => OnTimeInv'
<1> SUFFICES ASSUME OnTimeInv, [Next]_vars PROVE OnTimeInv'
    OBVIOUS
<1> USE DEF cpuVars, ramVars, engineVars, historyVars
<1>s. (ShapeInv /\ CaughtUpInv)'
    BY NextShape, NextCaughtUp DEF OnTimeInv
<1> SUFFICES ASSUME timeouts' = 0
             PROVE  (Packets /\ DescriptorsOfCall /\ GatheredOfCall /\ WireOfCalls)'
    BY <1>s DEF OnTimeInv
<1>t. TypeOK /\ Indices /\ first \in LineStarts /\ tpd_head \in LineStarts
    BY DEF OnTimeInv, ShapeInv, Indices
<1>z. timeouts = 0
    <2>1. CASE PollTimeout
        BY <1>t, <2>1 DEF PollTimeout, TypeOK
    <2>2. ASSUME \/ InitDesc \/ StartTx \/ SendShort \/ Send \/ FlushPacket \/ FillTpds
                 \/ Dsb \/ FlushTpds \/ Doorbell \/ PollDone \/ Return
          PROVE  timeouts' = timeouts
        BY <2>2 DEF InitDesc, StartTx, SendShort, Send, FlushPacket, FillTpds, Dsb,
                    FlushTpds, Doorbell, PollDone, Return
    <2>3. ASSUME \/ EngineFetch \/ EvictPacket \/ (\E s \in Tpds : DrainStore(s))
                 \/ (\E l : EvictLine(l)) \/ UNCHANGED vars
          PROVE  timeouts' = timeouts
        BY <2>3 DEF EngineFetch, EvictPacket, DrainStore, EvictLine, vars
    <2> QED BY <2>1, <2>2, <2>3 DEF Next, SendSteps, Hardware, Done
<1>i. Packets /\ DescriptorsOfCall /\ GatheredOfCall /\ WireOfCalls
    BY <1>z DEF OnTimeInv
<1>w. ASSUME UNCHANGED <<wire, calls>>, Owed' => Owed, Emitted' => Emitted
      PROVE  WireOfCalls'
    BY <1>i, <1>w DEF WireOfCalls
<1>1. ASSUME InitDesc \/ StartTx
      PROVE  (Packets /\ DescriptorsOfCall /\ GatheredOfCall /\ WireOfCalls)'
    <2>1. /\ pc \in {"alloc", "probed"} /\ pc' \in {"probed", "idle"}
          /\ UNCHANGED <<first, stores, tpd_cpu, tpd_ram, pkt_cpu, calls, wire>>
        BY <1>1 DEF InitDesc, StartTx
    <2> QED BY <1>i, <1>w, <2>1 DEF Packets, DescriptorsOfCall, GatheredOfCall,
           Emitted, Owed, Ringing
<1>2. ASSUME SendShort \/ Send
      PROVE  (Packets /\ DescriptorsOfCall /\ GatheredOfCall /\ WireOfCalls)'
    <2>1. /\ pc = "idle" /\ pc' \in {"idle", "flush"}
          /\ calls \in Nat /\ calls' = calls + 1 /\ pkt_cpu' = calls'
          /\ UNCHANGED <<first, stores, wire>>
        BY <1>2, <1>t DEF SendShort, Send, TypeOK
    <2>2. Packets' /\ DescriptorsOfCall' /\ GatheredOfCall'
        BY <1>i, <2>1 DEF Packets, DescriptorsOfCall, GatheredOfCall, Ringing
    <2>3. WireOfCalls'
        <3>1. calls' - 1 = calls /\ 1 .. calls \subseteq 1 .. calls' /\ calls' # 0
            BY <2>1
        <3>2. \A k \in 1 .. Len(wire) : \E id \in 1 .. calls : wire[k] = Whole(id)
            BY <1>i DEF WireOfCalls
        <3>3. ~Emitted'
            BY <2>1 DEF Emitted
        <3> QED BY <2>1, <3>1, <3>2, <3>3 DEF WireOfCalls
    <2> QED BY <2>2, <2>3
<1>3. CASE FlushPacket
    <2>1. /\ pc = "flush" /\ pc' = "fill" /\ pkt_ram' = pkt_cpu
          /\ UNCHANGED <<first, stores, pkt_cpu, calls, wire>>
        BY <1>3 DEF FlushPacket
    <2> QED BY <1>i, <1>w, <2>1 DEF Packets, DescriptorsOfCall, GatheredOfCall,
           Emitted, Owed, Ringing
<1>4. CASE FillTpds
    <2>0. /\ pc = "fill" /\ pc' = "dsb" /\ first' = tpd_head
          /\ UNCHANGED <<pkt_cpu, pkt_ram, calls, wire>>
        BY <1>4 DEF FillTpds
    <2>1. Packets' /\ GatheredOfCall' /\ WireOfCalls'
        BY <1>i, <1>w, <2>0 DEF Packets, GatheredOfCall, Emitted, Owed, Ringing
    <2>2. \A t \in Packet(tpd_head) : stores'[t] = Descriptor((t % PER) + 1)
        BY <1>4, <1>t, FillWrites
    <2>3. DescriptorsOfCall'
        BY <2>0, <2>2 DEF DescriptorsOfCall, Descriptor
    <2> QED BY <2>1, <2>3
<1>5. CASE Dsb
    <2>0. /\ pc = "dsb" /\ pc' = "clean" /\ tpd_cpu' = Drained(Tpds)
          /\ stores' = [t \in Tpds |-> NoStore]
          /\ UNCHANGED <<first, pkt_cpu, pkt_ram, calls, wire>>
        BY <1>5 DEF Dsb
    <2>1. Packets' /\ GatheredOfCall' /\ WireOfCalls'
        BY <1>i, <1>w, <2>0 DEF Packets, GatheredOfCall, Emitted, Owed, Ringing
    <2>2. \A t \in Packet(first) : tpd_cpu'[t] = Descriptor((t % PER) + 1)
        BY <1>i, <1>t, <2>0, DrainedOfCall, PacketPlace
    <2>3. DescriptorsOfCall'
        BY <2>0, <2>2 DEF DescriptorsOfCall, Descriptor
    <2> QED BY <2>1, <2>3
<1>6. CASE FlushTpds
    <2>0. /\ pc = "clean" /\ pc' = "doorbell"
          /\ \A t \in Flushed(first) : t \in Tpds => tpd_ram'[t] = tpd_cpu[t]
          /\ UNCHANGED <<first, stores, tpd_cpu, pkt_cpu, pkt_ram, calls, wire>>
        BY <1>6 DEF FlushTpds
    <2>1. Packets' /\ GatheredOfCall' /\ WireOfCalls'
        BY <1>i, <1>w, <2>0 DEF Packets, GatheredOfCall, Emitted, Owed, Ringing
    <2>2. \A t \in Packet(first) : /\ tpd_cpu[t] = Descriptor((t % PER) + 1)
                                   /\ tpd_ram'[t] = tpd_cpu[t]
        BY <1>i, <1>t, <2>0, PacketPlace DEF DescriptorsOfCall
    <2>3. DescriptorsOfCall'
        BY <1>i, <2>0, <2>2 DEF DescriptorsOfCall, Descriptor
    <2> QED BY <2>1, <2>3
<1>7. CASE Doorbell
    <2>0. /\ pc = "doorbell" /\ pc' = "poll" /\ prod' = tpd_head
          /\ UNCHANGED <<first, stores, tpd_cpu, tpd_ram, pkt_cpu, pkt_ram, calls,
                         wire, cons, gather>>
        BY <1>7 DEF Doorbell
    <2>1. Packets' /\ DescriptorsOfCall'
        BY <1>i, <2>0 DEF Packets, DescriptorsOfCall, Descriptor, Ringing
    <2>2. cons = prod /\ gather = << >>
        BY <1>z, <2>0, CaughtUpMeansDone DEF OnTimeInv
    <2>3. cons' # prod'
        BY <1>t, <2>0, <2>2, NextPacket DEF Indices, Ringing
    <2>4. GatheredOfCall'
        BY <2>0, <2>2 DEF GatheredOfCall
    <2>5. WireOfCalls'
        BY <1>w, <2>0, <2>3 DEF Emitted, Owed, Ringing
    <2> QED BY <2>1, <2>4, <2>5
<1>8. ASSUME PollDone \/ Return
      PROVE  (Packets /\ DescriptorsOfCall /\ GatheredOfCall /\ WireOfCalls)'
    <2>1. /\ \/ pc = "poll" /\ cons = prod /\ pc' = "return"
             \/ pc = "return" /\ pc' = "idle"
          /\ UNCHANGED <<first, stores, pkt_cpu, calls, wire>>
        BY <1>8 DEF PollDone, CaughtUp, Return
    <2> QED BY <1>i, <1>w, <2>1 DEF Packets, DescriptorsOfCall, GatheredOfCall,
           Emitted, Owed, Ringing
<1>9. CASE PollTimeout
    BY <1>9, <1>t, <1>z DEF PollTimeout, TypeOK
<1>10. CASE EngineFetch
    <2>0. UNCHANGED <<pc, first, stores, tpd_cpu, tpd_ram, pkt_cpu, pkt_ram, calls, prod>>
        BY <1>10 DEF EngineFetch
    <2>1. Packets' /\ DescriptorsOfCall'
        BY <1>i, <2>0 DEF Packets, DescriptorsOfCall, Descriptor, Ringing
    <2>2. pc = "poll" /\ Owed /\ ~Emitted
        BY <1>10, <1>z, FetchOfCall DEF Owed, Emitted
    <2>3. CASE /\ cons' = prod /\ gather' = << >>
               /\ wire' = Append(wire, Whole(calls))
        <3>1. wire \in Seq(Seq(Fragment)) /\ calls \in Nat
            BY <1>t DEF TypeOK
        <3>2. /\ Len(wire') = Len(wire) + 1 /\ Len(wire) \in Nat
              /\ \A k \in 1 .. Len(wire) : wire'[k] = wire[k]
              /\ wire'[Len(wire) + 1] = Whole(calls) /\ wire' # << >>
            BY <2>3, <3>1
        <3>3. calls \in 1 .. calls
            <4>1. calls # 0
                BY <1>i, <2>2 DEF WireOfCalls
            <4> QED BY <3>1, <4>1
        <3>4. \A k \in 1 .. Len(wire') : \E id \in 1 .. calls : wire'[k] = Whole(id)
            BY <1>i, <3>2, <3>3 DEF WireOfCalls
        <3>5. WireOfCalls'
            <4>1. ~Owed'
                BY <2>0, <2>2, <2>3 DEF Owed, Emitted, Ringing
            <4> QED BY <2>0, <3>2, <3>4, <4>1 DEF WireOfCalls
        <3> QED BY <2>1, <2>3, <3>5 DEF GatheredOfCall
    <2>4. CASE /\ cons' # prod /\ wire' = wire
               /\ \A i \in 1 .. Len(gather') :
                     gather'[i] = [frag |-> i, data |-> calls, len |-> calls]
        <3>1. ~Emitted' /\ Owed
            BY <2>0, <2>2, <2>4 DEF Emitted, Owed
        <3> QED BY <1>w, <2>0, <2>1, <2>4, <3>1 DEF GatheredOfCall
    <2> QED BY <1>10, <1>z, <2>3, <2>4, FetchOfCall
<1>11. ASSUME NEW s \in Tpds, DrainStore(s)
       PROVE  (Packets /\ DescriptorsOfCall /\ GatheredOfCall /\ WireOfCalls)'
    <2>0. /\ tpd_cpu' = Drained({s}) /\ stores' = [stores EXCEPT ![s] = NoStore]
          /\ pc = "dsb" /\ pc' = pc
          /\ UNCHANGED <<first, pkt_cpu, pkt_ram, calls, wire>>
        BY <1>11, <1>i DEF DrainStore, DescriptorsOfCall
    <2>1. Packets' /\ GatheredOfCall' /\ WireOfCalls'
        BY <1>i, <1>w, <2>0 DEF Packets, GatheredOfCall, Emitted, Owed, Ringing
    <2>2. \A t \in Packet(first) :
             \/ stores'[t] = Descriptor((t % PER) + 1)
             \/ stores'[t] = NoStore /\ tpd_cpu'[t] = Descriptor((t % PER) + 1)
        <3> TAKE t \in Packet(first)
        <3>1. /\ t \in Tpds
              /\ t = s => stores'[t] = NoStore
              /\ t # s => stores'[t] = stores[t] /\ tpd_cpu'[t] = tpd_cpu[t]
            BY <1>t, <2>0, PacketPlace DEF TypeOK, Drained
        <3>2. CASE t = s
            BY <1>i, <1>t, <2>0, <3>1, <3>2, DrainedOfCall
        <3>3. CASE t # s
            BY <1>i, <2>0, <3>1, <3>3 DEF DescriptorsOfCall
        <3> QED BY <3>2, <3>3
    <2>3. DescriptorsOfCall'
        BY <2>0, <2>2 DEF DescriptorsOfCall, Descriptor
    <2> QED BY <2>1, <2>3
<1>12. ASSUME NEW l, EvictLine(l)
       PROVE  (Packets /\ DescriptorsOfCall /\ GatheredOfCall /\ WireOfCalls)'
    <2>0. /\ \A t \in Tpds : tpd_ram'[t] = tpd_cpu[t] \/ tpd_ram'[t] = tpd_ram[t]
          /\ UNCHANGED <<pc, first, stores, tpd_cpu, pkt_cpu, pkt_ram, calls, wire, cons,
                         prod, gather>>
        BY <1>12 DEF EvictLine
    <2>1. Packets' /\ GatheredOfCall' /\ WireOfCalls'
        BY <1>i, <1>w, <2>0 DEF Packets, GatheredOfCall, Emitted, Owed, Ringing
    <2>2. \A t \in Packet(first) : t \in Tpds
        BY <1>t, PacketPlace
    <2>3. DescriptorsOfCall'
        BY <1>i, <2>0, <2>2 DEF DescriptorsOfCall, Descriptor
    <2> QED BY <2>1, <2>3
<1>13. ASSUME EvictPacket \/ UNCHANGED vars
       PROVE  (Packets /\ DescriptorsOfCall /\ GatheredOfCall /\ WireOfCalls)'
    <2>0. /\ pkt_ram' = pkt_cpu \/ pkt_ram' = pkt_ram
          /\ UNCHANGED <<pc, first, stores, tpd_cpu, tpd_ram, pkt_cpu, calls, wire, cons,
                         prod, gather>>
        BY <1>13 DEF EvictPacket, vars
    <2> QED BY <1>i, <1>w, <2>0 DEF Packets, DescriptorsOfCall, Descriptor,
           GatheredOfCall, Emitted, Owed, Ringing
<1> QED
    BY <1>1, <1>2, <1>3, <1>4, <1>5, <1>6, <1>7, <1>8, <1>9, <1>10, <1>11, <1>12,
       <1>13 DEF Next, SendSteps, Hardware, Done

\* The abstract state that TxCall sees.
Busy == pc \notin {"alloc", "probed", "idle"}
Out == [k \in 1 .. Len(wire) |-> FrameOf(wire[k])]

\* A whole frame tells its call.
LEMMA WholeIsOne ==
    ASSUME NEW id \in Nat, NEW other \in Nat, Whole(id) = Whole(other)
    PROVE  id = other
<1>1. 1 \in 1 .. PER
    BY RingAssumption
<1>2. Whole(id)[1].data = id /\ Whole(other)[1].data = other
    BY <1>1 DEF Whole
<1> QED BY <1>2

\* A whole frame of call id is mapped to the frame of that call.
LEMMA FrameOfWhole ==
    ASSUME calls \in Nat, NEW id \in 1 .. calls
    PROVE  FrameOf(Whole(id)) = id
<1>1. \A other \in 1 .. calls : Whole(other) = Whole(id) => other = id
    BY WholeIsOne
<1> QED BY <1>1 DEF FrameOf

\* Calls to come do not change what is on the wire.
LEMMA OutKept ==
    ASSUME OnTimeInv, timeouts = 0, wire' = wire, calls' \in Nat, calls' >= calls
    PROVE  Out' = Out
<1>1. WireOfCalls /\ calls \in Nat
    BY DEF OnTimeInv, ShapeInv, TypeOK
<1>2. ASSUME NEW k \in 1 .. Len(wire)
      PROVE  FrameOf(wire[k])' = FrameOf(wire[k])
    <2>1. PICK id \in 1 .. calls : wire[k] = Whole(id)
        BY <1>1 DEF WireOfCalls
    <2>2. FrameOf(wire[k]) = id
        BY <1>1, <2>1, FrameOfWhole
    <2>3. id \in 1 .. calls'
        BY <1>1, <2>1
    <2>4. \A other \in 1 .. calls' : Whole(other) = Whole(id) => other = id
        BY <1>1, <2>1, WholeIsOne
    <2>5. FrameOf(wire[k])' = id
        BY <2>1, <2>3, <2>4 DEF FrameOf
    <2> QED BY <2>2, <2>5
<1> QED BY <1>2 DEF Out

\* The call under way is on the wire exactly when it has been emitted.
LEMMA OutShowsCall ==
    ASSUME OnTimeInv, timeouts = 0
    PROVE  /\ Len(Out) = Len(wire) /\ Out \in Seq(Nat)
           /\ Emitted => Out # << >> /\ Out[Len(Out)] = calls
           /\ Owed => ~(Out # << >> /\ Out[Len(Out)] = calls)
<1>1. WireOfCalls /\ calls \in Nat /\ Len(wire) \in Nat /\ wire \in Seq(Seq(Fragment))
    BY DEF OnTimeInv, ShapeInv, TypeOK
<1>2. \A k \in 1 .. Len(wire) : FrameOf(wire[k]) \in Nat
    <2> TAKE k \in 1 .. Len(wire)
    <2>1. PICK id \in 1 .. calls : wire[k] = Whole(id)
        BY <1>1 DEF WireOfCalls
    <2> QED BY <1>1, <2>1, FrameOfWhole
<1>3. Len(Out) = Len(wire) /\ Out \in Seq(Nat)
      /\ \A k \in 1 .. Len(wire) : Out[k] = FrameOf(wire[k])
    BY <1>1, <1>2 DEF Out
<1>4. ASSUME Emitted
      PROVE  Out # << >> /\ Out[Len(Out)] = calls
    <2>1. wire # << >> /\ wire[Len(wire)] = Whole(calls)
        BY <1>1, <1>4 DEF WireOfCalls
    <2>2. Len(wire) \in 1 .. Len(wire)
        BY <1>1, <2>1
    <2>3. PICK id \in 1 .. calls : wire[Len(wire)] = Whole(id)
        BY <1>1, <2>2 DEF WireOfCalls
    <2>4. id = calls
        <3>1. id \in Nat /\ Whole(id) = Whole(calls)
            BY <1>1, <2>1, <2>3
        <3> HIDE <2>1, <2>3
        <3> QED BY <1>1, <3>1, WholeIsOne
    <2> QED BY <1>1, <1>3, <2>1, <2>2, <2>3, <2>4, FrameOfWhole
<1>5. ASSUME Owed, Out # << >>
      PROVE  Out[Len(Out)] # calls
    <2>1. Len(wire) \in 1 .. Len(wire)
        BY <1>1, <1>3, <1>5
    <2>2. PICK id \in 1 .. calls - 1 : wire[Len(wire)] = Whole(id)
        BY <1>1, <1>5, <2>1 DEF WireOfCalls
    <2>3. FrameOf(wire[Len(wire)]) = id
        BY <1>1, <2>2, FrameOfWhole
    <2> QED BY <1>1, <1>3, <2>1, <2>2, <2>3
<1> QED BY <1>3, <1>4, <1>5

\* Append, element by element.
LEMMA AppendByElements ==
    ASSUME NEW s \in Seq(Nat), NEW x \in Nat
    PROVE  [k \in 1 .. Len(s) + 1 |-> IF k = Len(s) + 1 THEN x ELSE s[k]]
           = Append(s, x)
<1> DEFINE t == [k \in 1 .. Len(s) + 1 |-> IF k = Len(s) + 1 THEN x ELSE s[k]]
<1>1. /\ t \in Seq(Nat) /\ Len(t) = Len(s) + 1 /\ Len(s) \in Nat
      /\ Append(s, x) \in Seq(Nat) /\ Len(Append(s, x)) = Len(s) + 1
    OBVIOUS
<1>2. \A k \in 1 .. Len(t) : t[k] = Append(s, x)[k]
    OBVIOUS
<1> HIDE DEF t
<1>3. t = Append(s, x)
    BY <1>1, <1>2, SeqEqual
<1> QED BY <1>3 DEF t

\* Every step before the first timeout is a step of TxCall or leaves what it
\* sees alone.
LEMMA NextRefines ==
    OnTimeInv /\ OnTimeInv' /\ [Next]_vars
    => [~(timeouts > 0)' => TxCalls!TxNext]_(TxCalls!txVars)
<1> SUFFICES ASSUME OnTimeInv, OnTimeInv', [Next]_vars, ~(timeouts > 0)'
             PROVE  TxCalls!TxNext \/ UNCHANGED <<Busy, calls, Out>>
    BY DEF TxCalls!txVars, Busy, Out
<1> USE DEF cpuVars, ramVars, engineVars, historyVars
<1>t. /\ TypeOK /\ TypeOK' /\ timeouts' = 0 /\ Indices /\ CaughtUpInv
      /\ calls \in Nat /\ calls' \in Nat /\ wire \in Seq(Seq(Fragment))
    BY DEF OnTimeInv, ShapeInv, TypeOK
<1>1. CASE PollTimeout
    BY <1>1, <1>t DEF PollTimeout, TypeOK
<1>2. ASSUME \/ InitDesc \/ StartTx \/ FlushPacket \/ FillTpds \/ Dsb \/ FlushTpds
             \/ Doorbell \/ PollDone \/ EvictPacket \/ (\E s \in Tpds : DrainStore(s))
             \/ (\E l : EvictLine(l)) \/ UNCHANGED vars
      PROVE  UNCHANGED <<Busy, calls, Out>>
    <2>1. timeouts' = timeouts /\ UNCHANGED <<Busy, calls, wire>>
        BY <1>2 DEF InitDesc, StartTx, FlushPacket, FillTpds, Dsb, FlushTpds, Doorbell,
                    PollDone, EvictPacket, DrainStore, EvictLine, vars, Busy
    <2> QED BY <1>t, <2>1, OutKept
<1>3. CASE SendShort
    <2>1. /\ timeouts' = timeouts /\ ~Busy /\ ~Busy' /\ wire' = wire
          /\ calls' = calls + 1
        BY <1>3 DEF SendShort, Busy
    <2>2. Out' = Out
        BY <1>t, <2>1, OutKept
    <2> QED BY <2>1, <2>2 DEF TxCalls!TxNext, TxCalls!CallShort, Busy, Out
<1>4. CASE Send
    <2>1. /\ timeouts' = timeouts /\ ~Busy /\ Busy' /\ wire' = wire
          /\ calls' = calls + 1
        BY <1>4 DEF Send, Busy
    <2>2. Out' = Out
        BY <1>t, <2>1, OutKept
    <2> QED BY <2>1, <2>2 DEF TxCalls!TxNext, TxCalls!Call, Busy, Out
<1>5. CASE Return
    <2>1. /\ timeouts' = timeouts /\ Busy /\ ~Busy' /\ wire' = wire
          /\ calls' = calls /\ Emitted
        BY <1>5 DEF Return, Busy, Emitted
    <2>2. Out' = Out /\ Out # << >> /\ Out[Len(Out)] = calls
        BY <1>t, <2>1, OutKept, OutShowsCall
    <2> QED BY <2>1, <2>2 DEF TxCalls!TxNext, TxCalls!Finish, TxCalls!OnWire, Busy, Out
<1>6. CASE EngineFetch
    <2>1. timeouts = 0 /\ UNCHANGED <<pc, calls, prod>>
        BY <1>6, <1>t DEF EngineFetch
    <2>2. /\ pc = "poll" /\ cons # prod
          /\ \/ cons' = prod /\ wire' = Append(wire, Whole(calls))
             \/ wire' = wire
        BY <1>6, <2>1, FetchOfCall
    <2>3. CASE wire' = wire
        BY <1>t, <2>1, <2>3, OutKept DEF Busy
    <2>4. CASE cons' = prod /\ wire' = Append(wire, Whole(calls))
        <3>1. Owed /\ Emitted' /\ calls # 0
            BY <2>1, <2>2, <2>4 DEF Owed, Emitted, OnTimeInv, WireOfCalls
        <3>2. /\ Len(wire') = Len(wire) + 1 /\ Len(wire) \in Nat
              /\ \A k \in 1 .. Len(wire) : wire'[k] = wire[k]
              /\ wire'[Len(wire) + 1] = Whole(calls)
            BY <1>t, <2>4
        <3>3. FrameOf(Whole(calls)) = calls
            BY <1>t, <3>1, FrameOfWhole
        <3>4. Out' = Append(Out, calls)
            <4>1. Out' = [k \in 1 .. Len(wire) + 1 |->
                             IF k = Len(wire) + 1 THEN calls ELSE FrameOf(wire[k])]
                <5>1. \A k \in 1 .. Len(wire') : FrameOf(wire[k])' = FrameOf(wire'[k])
                    BY <2>1 DEF FrameOf
                <5> QED BY <3>2, <3>3, <5>1 DEF Out
            <4>2. /\ Out \in Seq(Nat) /\ Len(Out) = Len(wire)
                  /\ \A k \in 1 .. Len(wire) : Out[k] = FrameOf(wire[k])
                BY <2>1, <3>2, OutShowsCall DEF Out
            <4>3. Out' = [k \in 1 .. Len(Out) + 1 |->
                             IF k = Len(Out) + 1 THEN calls ELSE Out[k]]
                BY <3>2, <4>1, <4>2
            <4> QED BY <1>t, <4>2, <4>3, AppendByElements
        <3>5. ~(Out # << >> /\ Out[Len(Out)] = calls)
            BY <2>1, <3>1, OutShowsCall
        <3>6. Busy /\ Busy'
            BY <2>1, <2>2 DEF Busy
        <3> QED BY <2>1, <3>4, <3>5, <3>6
                DEF TxCalls!TxNext, TxCalls!Emit, TxCalls!OnWire, Busy, Out
    <2> QED BY <2>2, <2>3, <2>4
<1> QED
    BY <1>1, <1>2, <1>3, <1>4, <1>5, <1>6 DEF Next, SendSteps, Hardware, Done

\* Until the engine is late for the first time, send is a synchronous call that
\* puts its frame on the wire whole, once, before it returns.
THEOREM TxImplementsTxCall == Spec => ImplementsTxCall
<1>1. Init => OnTimeInv /\ TxCalls!TxInit
    BY InitOnTime DEF Init, TxCalls!TxInit
<1>2. OnTimeInv /\ [Next]_vars => OnTimeInv'
    BY NextOnTime
<1>3. OnTimeInv /\ OnTimeInv' /\ [Next]_vars
      => [~(timeouts > 0)' => TxCalls!TxNext]_(TxCalls!txVars)
    BY NextRefines
<1> QED BY <1>1, <1>2, <1>3, PTL DEF Spec, ImplementsTxCall, TxCalls!TxSpec
=============================================================================
