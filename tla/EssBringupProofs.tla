-------------------------- MODULE EssBringupProofs --------------------------
(* Proofs about EssBringup, for every number of ports, of attempts and of  *)
(* MDIO reads that time out, and for a cold or a warm start.               *)
EXTENDS EssBringup, TLAPS

-----------------------------------------------------------------------------
(* ipq4019_eth_init() from a label on                                      *)

FromAdd     == {"add"}
FromDisable == {"disable", "lan_only", "hwaddr"} \cup FromAdd
FromStop    == {"stop", "desc"} \cup FromDisable
FromFlood   == {"flood", "alloc"} \cup FromStop
FromMac     == {"mac"} \cup FromFlood
FromSwitch  == {"switch", "clear"} \cup FromMac
FromMdio    == {"mdio"} \cup FromSwitch
FromAres    == {"ares"} \cup FromMdio
FromRelease == {"release"} \cup FromAres
FromAssert  == {"assert"} \cup FromRelease
FromClock   == {"clock"} \cup FromAssert
FromPinmux  == {"pinmux"} \cup FromClock

\* ipq4019_eth_start(), inside the first call of ready().
Starting == {"ring", "rxq", "txq", "enable", "all_ports"}

-----------------------------------------------------------------------------
(* The parts of TypeOK                                                     *)

GccType == [pins : BOOLEAN, clk : BOOLEAN, reset : BOOLEAN,
            ares : BOOLEAN, toggled : BOOLEAN, mdio : BOOLEAN]
SwType == [members : [Ports -> SUBSET Ports],
           flood : SUBSET (0 .. WAN + 1), mac : BOOLEAN]
EdmaType == [rx_on : BOOLEAN, tx_on : BOOLEAN,
             base : {"none", "foreign", "ours"}, rfds : BOOLEAN,
             hwaddr : BOOLEAN]
PollerType == [initted : BOOLEAN, gave_up : BOOLEAN,
               retry_count : 0 .. MaxRetries]
DevType == [rings : BOOLEAN, added : 0 .. MaxRetries, started : BOOLEAN]

\* The shape of a state, part by part.
Shape == /\ pc \in Labels /\ i \in Ports
         /\ poller \in PollerType /\ dev \in DevType
         /\ v \in [Phys -> BOOLEAN] /\ link \in [Phys -> BOOLEAN]
         /\ gcc \in GccType /\ sw \in SwType /\ edma \in EdmaType
         /\ fails \in 0 .. MaxMdioFails
         /\ isolated \in BOOLEAN
         /\ seen \subseteq Phys

\* Shape is TypeOK with its parts named.
LEMMA ShapeIsTypeOK == Shape <=> TypeOK
BY DEF Shape, TypeOK, PollerType, DevType, GccType, SwType, EdmaType

-----------------------------------------------------------------------------
(* The inductive invariant                                                 *)

Added == dev.added = 1

\* The loop index is 0 outside the loops, and a PHY in the one over PHYs.
LoopIndex ==
    /\ pc \notin {"clear", "disable", "enable", "phys"} => i = 0
    /\ pc = "phys" => i \in Phys

\* eth_init() runs under an attempt and before there is a device, start()
\* and the link test after; the poller knows which.
DeviceOnce ==
    /\ dev.added \in {0, 1}
    /\ poller.initted <=> Added
    /\ pc \in FromPinmux => ~Added /\ poller.retry_count > 0
    /\ pc \in Starting => Added /\ ~dev.started
    /\ pc \in {"phys", "judge", "net", "kernel"} => Added /\ dev.started
    /\ dev.started => Added

\* What eth_init() has set up so far, and keeps once the device is there.
ClocksUp ==
    /\ pc \in FromClock \/ Added => gcc.pins
    /\ pc \in FromAssert \/ Added => gcc.clk
    /\ pc \in FromRelease \/ Added => gcc.toggled
    /\ pc \in FromAres \/ Added => ~gcc.reset
    /\ pc \in FromMdio \/ Added => ~gcc.ares
    /\ pc \in FromSwitch \/ Added => gcc.mdio

\* After the block reset both queues are off until start() runs, and then
\* the engine has its rings.
EngineInHand ==
    /\ pc \in FromStop \/ Added => dev.rings
    /\ pc \in FromDisable \/ Added => edma.base = "ours"
    /\ pc = "add" \/ Added => edma.hwaddr
    /\ gcc.toggled /\ ~Added => ~edma.rx_on
    /\ pc \notin {"txq", "enable", "all_ports"} /\ ~dev.started /\ Added =>
          ~edma.rx_on
    /\ pc = "rxq" \/ (Added /\ edma.rx_on) => edma.rfds
    /\ pc \in {"txq", "enable", "all_ports"} \/ dev.started => edma.rx_on
    /\ pc \in {"enable", "all_ports"} \/ dev.started => edma.tx_on

\* Half-way through a loop the ports below the index have their new members;
\* after the first loop every port has those of one of the three masks.
SwitchInHand ==
    /\ pc \in FromRelease \ FromMac => ~isolated
    /\ pc \in FromMac \/ Added => isolated
    /\ pc \in FromFlood \/ Added => sw.mac
    /\ pc = "clear" => \A p \in Ports : p < i => sw.members[p] = {}
    /\ isolated => \A p \in Ports :
          sw.members[p] \in {{}, DisabledMembers(p), EnabledMembers(p)}
    /\ pc = "enable" => \A p \in Ports :
          p < i => sw.members[p] = EnabledMembers(p)
    /\ pc = "all_ports" \/ dev.started => \A p \in Ports :
          sw.members[p] = EnabledMembers(p)

\* v[] holds a link bit only if it was read in this call of ready().
OnlyWhatWasRead == \A p \in Phys : v[p] => p \in seen

LifeInv == /\ TypeOK
           /\ LoopIndex
           /\ DeviceOnce
           /\ ClocksUp
           /\ EngineInHand
           /\ SwitchInHand
           /\ CpuReachedOnlyWhenReceiving
           /\ OnlyWhatWasRead

-----------------------------------------------------------------------------
(* It holds at first                                                       *)

\* depthcharge has not polled yet.
LEMMA InitLifeInv == Init => LifeInv
<1> SUFFICES ASSUME Init PROVE LifeInv
    OBVIOUS
<1> USE PortAssumption, BoundAssumption, StartsAssumption DEF Init
<1>1. Shape
  <2> USE DEF SwType, GccType, EdmaType, PollerType, DevType
  <2>1. i \in Ports /\ pc \in Labels
      BY DEF Ports, Labels
  <2>2. sw \in SwType
      BY DEF ResetSwitch, FloodAll, Ports
  <2>3. edma \in EdmaType
      BY DEF WarmEdma, ResetEdma
  <2>4. gcc \in GccType
      OBVIOUS
  <2>5. /\ poller \in PollerType
        /\ dev \in DevType
      OBVIOUS
  <2>6. /\ v \in [Phys -> BOOLEAN] /\ link \in [Phys -> BOOLEAN]
        /\ isolated \in BOOLEAN /\ seen \subseteq Phys
      OBVIOUS
  <2>7. fails \in 0 .. MaxMdioFails
      OBVIOUS
  <2> QED BY <2>1, <2>2, <2>3, <2>4, <2>5, <2>6, <2>7 DEF Shape
<1>2. LoopIndex /\ DeviceOnce /\ ClocksUp /\ EngineInHand
    BY DEF LoopIndex, DeviceOnce, ClocksUp, EngineInHand, Added, Starting,
           FromAdd, FromDisable, FromStop, FromFlood, FromMac, FromSwitch,
           FromMdio, FromAres, FromRelease, FromAssert, FromClock, FromPinmux
<1>3. SwitchInHand /\ CpuReachedOnlyWhenReceiving /\ OnlyWhatWasRead
    BY DEF SwitchInHand, CpuReachedOnlyWhenReceiving, OnlyWhatWasRead, Added,
           FromAdd, FromDisable, FromStop, FromFlood, FromMac, FromSwitch,
           FromMdio, FromAres, FromRelease
<1> QED BY <1>1, <1>2, <1>3, ShapeIsTypeOK DEF LifeInv

-----------------------------------------------------------------------------
(* Every step keeps it, one part at a time                                 *)

\* After a step: the loop index is in its loop.
LEMMA NextLoopIndex == LifeInv /\ [Next]_vars => LoopIndex'
<1> SUFFICES ASSUME LifeInv, [Next]_vars PROVE LoopIndex'
    OBVIOUS
<1> LoopIndex /\ i \in Ports
    BY ShapeIsTypeOK DEF LifeInv, Shape
<1> USE PortAssumption
<1> USE DEF Goto, World, LoopIndex, Ports, Phys
<1>1. CASE Poller
    BY <1>1
       DEF Poller, PollerIdle, PollerGiveUp, PollerAttempt, MayTry
<1>2. CASE EthInit
    BY <1>2
       DEF EthInit, PinmuxInit, EnableClock, AssertReset, ReleaseReset,
           ClearPortResets, MdioInit, SwitchBegin, ClearMembers,
           EnableCpuMac, SwitchEnd, AllocRings, AllocFails, StopRxTx,
           InitDesc, DisableLookup, DisableFlood, WriteHwaddr, AddDevice,
           PortLoop, SetFlood
<1>3. CASE Ready
    BY <1>3
       DEF Ready, NoDevice, CallReady, InitRfdRing, StartRx, StartTx,
           EnableLookup, EnableFlood, ReadPhy, ReadPhyFails, Judge, NextPhy,
           PortLoop, SetFlood
<1>4. CASE HandOff \/ Over \/ UNCHANGED vars
    BY <1>4 DEF HandOff, Over, vars
<1>5. CASE \E p \in Phys : LinkChange(p)
    BY <1>5 DEF LinkChange
<1> QED BY <1>1, <1>2, <1>3, <1>4, <1>5 DEF Next, Driver

\* After a step: at most one device, and no bring-up above it.
LEMMA NextDeviceOnce == LifeInv /\ [Next]_vars => DeviceOnce'
<1> SUFFICES ASSUME LifeInv, [Next]_vars PROVE DeviceOnce'
    OBVIOUS
<1> /\ DeviceOnce
    /\ poller \in PollerType
    /\ dev \in DevType
    BY ShapeIsTypeOK DEF LifeInv, Shape
<1> USE DEF PollerType, DevType, Added, Goto, World, DeviceOnce, FromAdd,
            FromDisable, FromStop, FromFlood, FromMac, FromSwitch, FromMdio,
            FromAres, FromRelease, FromAssert, FromClock, FromPinmux, Starting
<1>1. CASE Poller
    BY <1>1
       DEF Poller, PollerIdle, PollerGiveUp, PollerAttempt, MayTry
<1>2. CASE EthInit
    BY <1>2
       DEF EthInit, PinmuxInit, EnableClock, AssertReset, ReleaseReset,
           ClearPortResets, MdioInit, SwitchBegin, ClearMembers,
           EnableCpuMac, SwitchEnd, AllocRings, AllocFails, StopRxTx,
           InitDesc, DisableLookup, DisableFlood, WriteHwaddr, AddDevice,
           PortLoop, SetFlood
<1>3. CASE Ready
    BY <1>3
       DEF Ready, NoDevice, CallReady, InitRfdRing, StartRx, StartTx,
           EnableLookup, EnableFlood, ReadPhy, ReadPhyFails, Judge, NextPhy,
           PortLoop, SetFlood
<1>4. CASE HandOff \/ Over \/ UNCHANGED vars
    BY <1>4 DEF HandOff, Over, vars
<1>5. CASE \E p \in Phys : LinkChange(p)
    BY <1>5 DEF LinkChange
<1> QED BY <1>1, <1>2, <1>3, <1>4, <1>5 DEF Next, Driver

\* After a step: pins, clock, resets and MDIO are as far as the label says.
LEMMA NextClocksUp == LifeInv /\ [Next]_vars => ClocksUp'
<1> SUFFICES ASSUME LifeInv, [Next]_vars PROVE ClocksUp'
    OBVIOUS
<1> /\ DeviceOnce /\ ClocksUp
    /\ gcc \in GccType
    /\ dev \in DevType
    BY ShapeIsTypeOK DEF LifeInv, Shape
<1> USE DEF GccType, DevType, Added, Goto, World, DeviceOnce, ClocksUp,
            FromAdd, FromDisable, FromStop, FromFlood, FromMac, FromSwitch,
            FromMdio, FromAres, FromRelease, FromAssert, FromClock,
            FromPinmux, Starting
<1>1. CASE Poller
    BY <1>1
       DEF Poller, PollerIdle, PollerGiveUp, PollerAttempt, MayTry
<1>2. CASE EthInit
    BY <1>2
       DEF EthInit, PinmuxInit, EnableClock, AssertReset, ReleaseReset,
           ClearPortResets, MdioInit, SwitchBegin, ClearMembers,
           EnableCpuMac, SwitchEnd, AllocRings, AllocFails, StopRxTx,
           InitDesc, DisableLookup, DisableFlood, WriteHwaddr, AddDevice,
           PortLoop, SetFlood
<1>3. CASE Ready
    BY <1>3
       DEF Ready, NoDevice, CallReady, InitRfdRing, StartRx, StartTx,
           EnableLookup, EnableFlood, ReadPhy, ReadPhyFails, Judge, NextPhy,
           PortLoop, SetFlood
<1>4. CASE HandOff \/ Over \/ UNCHANGED vars
    BY <1>4 DEF HandOff, Over, vars
<1>5. CASE \E p \in Phys : LinkChange(p)
    BY <1>5 DEF LinkChange
<1> QED BY <1>1, <1>2, <1>3, <1>4, <1>5 DEF Next, Driver

\* After a step: the engine is off, or has what it needs.
LEMMA NextEngineInHand == LifeInv /\ [Next]_vars => EngineInHand'
<1> SUFFICES ASSUME LifeInv, [Next]_vars PROVE EngineInHand'
    OBVIOUS
<1> /\ DeviceOnce /\ ClocksUp /\ EngineInHand
    /\ dev \in DevType
    /\ edma \in EdmaType
    BY ShapeIsTypeOK DEF LifeInv, Shape
<1> pc \in FromRelease \/ Added => gcc.toggled
    BY DEF LifeInv, ClocksUp
<1> USE DEF EdmaType, DevType, Added, Goto, World, DeviceOnce, EngineInHand,
            FromAdd, FromDisable, FromStop, FromFlood, FromMac, FromSwitch,
            FromMdio, FromAres, FromRelease, FromAssert, FromClock,
            FromPinmux, Starting
<1>1. CASE Poller
    BY <1>1
       DEF Poller, PollerIdle, PollerGiveUp, PollerAttempt, MayTry
<1>2. CASE EthInit
  <2>1. CASE PinmuxInit
      BY <2>1 DEF PinmuxInit
  <2>2. CASE EnableClock
      BY <2>2 DEF EnableClock
  <2>3. CASE AssertReset
      BY <2>3 DEF AssertReset, ResetEdma
  <2>4. CASE ReleaseReset
      BY <2>4 DEF ReleaseReset
  <2>5. CASE ClearPortResets
      BY <2>5 DEF ClearPortResets
  <2>6. CASE MdioInit
      BY <2>6 DEF MdioInit
  <2>7. CASE SwitchBegin
      BY <2>7 DEF SwitchBegin
  <2>8. CASE ClearMembers
      BY <2>8 DEF ClearMembers, PortLoop
  <2>9. CASE EnableCpuMac
      BY <2>9 DEF EnableCpuMac
  <2>10. CASE SwitchEnd
      BY <2>10 DEF SwitchEnd, SetFlood
  <2>11. CASE AllocRings
      BY <2>11 DEF AllocRings
  <2>12. CASE AllocFails
      BY <2>12 DEF AllocFails
  <2>13. CASE StopRxTx
      BY <2>13 DEF StopRxTx
  <2>14. CASE InitDesc
      BY <2>14 DEF InitDesc
  <2>15. CASE DisableLookup
      BY <2>15 DEF DisableLookup, PortLoop
  <2>16. CASE DisableFlood
      BY <2>16 DEF DisableFlood, SetFlood
  <2>17. CASE WriteHwaddr
      BY <2>17 DEF WriteHwaddr
  <2>18. CASE AddDevice
      BY <2>18 DEF AddDevice
  <2> QED BY <1>2, <2>1, <2>2, <2>3, <2>4, <2>5, <2>6, <2>7, <2>8, <2>9,
             <2>10, <2>11, <2>12, <2>13, <2>14, <2>15, <2>16, <2>17, <2>18
         DEF EthInit
<1>3. CASE Ready
    BY <1>3
       DEF Ready, NoDevice, CallReady, InitRfdRing, StartRx, StartTx,
           EnableLookup, EnableFlood, ReadPhy, ReadPhyFails, Judge, NextPhy,
           PortLoop, SetFlood
<1>4. CASE HandOff \/ Over \/ UNCHANGED vars
    BY <1>4 DEF HandOff, Over, vars
<1>5. CASE \E p \in Phys : LinkChange(p)
    BY <1>5 DEF LinkChange
<1> QED BY <1>1, <1>2, <1>3, <1>4, <1>5 DEF Next, Driver

\* After a step: the CPU port is reachable only if the engine receives.
LEMMA NextCpu == LifeInv /\ [Next]_vars => CpuReachedOnlyWhenReceiving'
<1> SUFFICES ASSUME LifeInv, [Next]_vars PROVE CpuReachedOnlyWhenReceiving'
    OBVIOUS
<1> USE PortAssumption
<1> /\ sw \in SwType
    /\ i \in Ports /\ isolated \in BOOLEAN
    BY ShapeIsTypeOK DEF LifeInv, Shape
<1> CpuReachedOnlyWhenReceiving
    BY DEF LifeInv
<1>a. pc \in FromRelease \ FromMac => ~isolated
    BY DEF LifeInv, SwitchInHand
<1>b. pc = "clear" => \A p \in Ports : p < i => sw.members[p] = {}
    BY DEF LifeInv, SwitchInHand
<1>c. pc = "stop" => ~edma.rx_on
    BY DEF LifeInv, EngineInHand, ClocksUp, DeviceOnce, Added, FromAdd,
           FromDisable, FromStop, FromFlood, FromMac, FromSwitch, FromMdio,
           FromAres, FromRelease, FromAssert, FromClock, FromPinmux
<1>d. pc = "enable" => edma.rx_on
    BY DEF LifeInv, EngineInHand
<1>e. pc = "clear" => ~isolated
    BY <1>a DEF FromRelease, FromAres, FromMdio, FromSwitch, FromMac,
                FromFlood, FromStop, FromDisable, FromAdd
<1>f. edma \in EdmaType
    BY ShapeIsTypeOK DEF LifeInv, Shape
<1> USE <1>b, <1>c, <1>d, <1>e, <1>f
<1> USE DEF SwType, EdmaType, Added, Goto, World, CPU,
            CpuReachedOnlyWhenReceiving
<1>1. CASE Poller
    BY <1>1
       DEF Poller, PollerIdle, PollerGiveUp, PollerAttempt, MayTry
<1>2. CASE EthInit
  <2>1. CASE PinmuxInit
      BY <2>1 DEF PinmuxInit
  <2>2. CASE EnableClock
      BY <2>2 DEF EnableClock
  <2>3. CASE AssertReset
      BY <2>3 DEF AssertReset
  <2>4. CASE ReleaseReset
      BY <2>4 DEF ReleaseReset
  <2>5. CASE ClearPortResets
      BY <2>5 DEF ClearPortResets
  <2>6. CASE MdioInit
      BY <2>6 DEF MdioInit
  <2>7. CASE SwitchBegin
      BY <2>7 DEF SwitchBegin
  <2>8. CASE ClearMembers
      BY <2>8 DEF ClearMembers, PortLoop, Ports
  <2>9. CASE EnableCpuMac
      BY <2>9 DEF EnableCpuMac
  <2>10. CASE SwitchEnd
      BY <2>10 DEF SwitchEnd, SetFlood
  <2>11. CASE AllocRings
      BY <2>11 DEF AllocRings
  <2>12. CASE AllocFails
      BY <2>12 DEF AllocFails
  <2>13. CASE StopRxTx
      BY <2>13 DEF StopRxTx
  <2>14. CASE InitDesc
      BY <2>14 DEF InitDesc
  <2>15. CASE DisableLookup
      BY <2>15 DEF DisableLookup, PortLoop, DisabledMembers, LAN
  <2>16. CASE DisableFlood
      BY <2>16 DEF DisableFlood, SetFlood
  <2>17. CASE WriteHwaddr
      BY <2>17 DEF WriteHwaddr
  <2>18. CASE AddDevice
      BY <2>18 DEF AddDevice
  <2> QED BY <1>2, <2>1, <2>2, <2>3, <2>4, <2>5, <2>6, <2>7, <2>8, <2>9,
             <2>10, <2>11, <2>12, <2>13, <2>14, <2>15, <2>16, <2>17, <2>18
         DEF EthInit
<1>3. CASE Ready
  <2>1. CASE NoDevice
      BY <2>1 DEF NoDevice
  <2>2. CASE CallReady
      BY <2>2 DEF CallReady
  <2>3. CASE InitRfdRing
      BY <2>3 DEF InitRfdRing
  <2>4. CASE StartRx
      BY <2>4 DEF StartRx
  <2>5. CASE StartTx
      BY <2>5 DEF StartTx
  <2>6. CASE EnableLookup
      BY <2>6 DEF EnableLookup, PortLoop
  <2>7. CASE EnableFlood
      BY <2>7 DEF EnableFlood, SetFlood
  <2>8. CASE ReadPhy
      BY <2>8 DEF ReadPhy, NextPhy
  <2>9. CASE ReadPhyFails
      BY <2>9 DEF ReadPhyFails, NextPhy
  <2>10. CASE Judge
      BY <2>10 DEF Judge
  <2> QED BY <1>3, <2>1, <2>2, <2>3, <2>4, <2>5, <2>6, <2>7, <2>8, <2>9,
             <2>10 DEF Ready
<1>4. CASE HandOff \/ Over \/ UNCHANGED vars
    BY <1>4 DEF HandOff, Over, vars
<1>5. CASE \E p \in Phys : LinkChange(p)
    BY <1>5 DEF LinkChange
<1> QED BY <1>1, <1>2, <1>3, <1>4, <1>5 DEF Next, Driver

\* After a step: the port tables are as far as the label says.
LEMMA NextSwitchInHand == LifeInv /\ [Next]_vars => SwitchInHand'
<1> SUFFICES ASSUME LifeInv, [Next]_vars PROVE SwitchInHand'
    OBVIOUS
<1> USE PortAssumption
<1> /\ sw \in SwType
    /\ i \in Ports /\ isolated \in BOOLEAN
    BY ShapeIsTypeOK DEF LifeInv, Shape
<1> DeviceOnce /\ SwitchInHand
    BY DEF LifeInv
<1> dev \in DevType
    BY ShapeIsTypeOK DEF LifeInv, Shape
<1>a. pc \in {"switch", "txq"} => i = 0
    BY DEF LifeInv, LoopIndex
<1> USE <1>a DEF DeviceOnce
<1> USE DEF SwType, DevType, Added, Goto, World, SwitchInHand, FromAdd,
            FromDisable, FromStop, FromFlood, FromMac, FromSwitch, FromMdio,
            FromAres, FromRelease, FromAssert, FromClock, FromPinmux, Starting
<1>1. CASE Poller
    BY <1>1
       DEF Poller, PollerIdle, PollerGiveUp, PollerAttempt, MayTry
<1>2. CASE EthInit
  <2>1. CASE PinmuxInit
      BY <2>1 DEF PinmuxInit
  <2>2. CASE EnableClock
      BY <2>2 DEF EnableClock
  <2>3. CASE AssertReset
      BY <2>3 DEF AssertReset
  <2>4. CASE ReleaseReset
      BY <2>4 DEF ReleaseReset
  <2>5. CASE ClearPortResets
      BY <2>5 DEF ClearPortResets
  <2>6. CASE MdioInit
      BY <2>6 DEF MdioInit
  <2>7. CASE SwitchBegin
      BY <2>7 DEF SwitchBegin, Ports
  <2>8. CASE ClearMembers
    <3>1. \A p \in Ports : p < i \/ p = i => sw'.members[p] = {}
        BY <2>8 DEF ClearMembers, PortLoop, FromRelease
    <3>2. CASE i = WAN
      <4>1. \A p \in Ports : p < i \/ p = i
          BY <3>2 DEF Ports
      <4> QED BY <2>8, <3>1, <3>2, <4>1 DEF ClearMembers, PortLoop
    <3>3. CASE i # WAN
      <4>1. \A p \in Ports : p < i + 1 => p < i \/ p = i
          BY DEF Ports
      <4> QED BY <2>8, <3>1, <3>3, <4>1 DEF ClearMembers, PortLoop
    <3> QED BY <3>2, <3>3
  <2>9. CASE EnableCpuMac
      BY <2>9 DEF EnableCpuMac
  <2>10. CASE SwitchEnd
      BY <2>10 DEF SwitchEnd, SetFlood
  <2>11. CASE AllocRings
      BY <2>11 DEF AllocRings
  <2>12. CASE AllocFails
      BY <2>12 DEF AllocFails
  <2>13. CASE StopRxTx
      BY <2>13 DEF StopRxTx
  <2>14. CASE InitDesc
      BY <2>14 DEF InitDesc
  <2>15. CASE DisableLookup
      BY <2>15 DEF DisableLookup, PortLoop, Ports
  <2>16. CASE DisableFlood
      BY <2>16 DEF DisableFlood, SetFlood
  <2>17. CASE WriteHwaddr
      BY <2>17 DEF WriteHwaddr
  <2>18. CASE AddDevice
      BY <2>18 DEF AddDevice
  <2> QED BY <1>2, <2>1, <2>2, <2>3, <2>4, <2>5, <2>6, <2>7, <2>8, <2>9,
             <2>10, <2>11, <2>12, <2>13, <2>14, <2>15, <2>16, <2>17, <2>18
         DEF EthInit
<1>3. CASE Ready
  <2>1. CASE NoDevice
      BY <2>1 DEF NoDevice
  <2>2. CASE CallReady
      BY <2>2 DEF CallReady
  <2>3. CASE InitRfdRing
      BY <2>3 DEF InitRfdRing
  <2>4. CASE StartRx
      BY <2>4 DEF StartRx
  <2>5. CASE StartTx
      BY <2>5 DEF StartTx, Ports
  <2>6. CASE EnableLookup
      BY <2>6 DEF EnableLookup, PortLoop, Ports
  <2>7. CASE EnableFlood
      BY <2>7 DEF EnableFlood, SetFlood
  <2>8. CASE ReadPhy
      BY <2>8 DEF ReadPhy, NextPhy
  <2>9. CASE ReadPhyFails
      BY <2>9 DEF ReadPhyFails, NextPhy
  <2>10. CASE Judge
      BY <2>10 DEF Judge
  <2> QED BY <1>3, <2>1, <2>2, <2>3, <2>4, <2>5, <2>6, <2>7, <2>8, <2>9,
             <2>10 DEF Ready
<1>4. CASE HandOff \/ Over \/ UNCHANGED vars
    BY <1>4 DEF HandOff, Over, vars
<1>5. CASE \E p \in Phys : LinkChange(p)
    BY <1>5 DEF LinkChange
<1> QED BY <1>1, <1>2, <1>3, <1>4, <1>5 DEF Next, Driver

\* After a step: v[] holds what was read.
LEMMA NextOnlyWhatWasRead == LifeInv /\ [Next]_vars => OnlyWhatWasRead'
<1> SUFFICES ASSUME LifeInv, [Next]_vars PROVE OnlyWhatWasRead'
    OBVIOUS
<1> OnlyWhatWasRead /\ v \in [Phys -> BOOLEAN] /\ link \in [Phys -> BOOLEAN]
    BY ShapeIsTypeOK DEF LifeInv, Shape
<1> USE DEF Goto, World, OnlyWhatWasRead, NoLinks
<1>1. CASE Poller
    BY <1>1
       DEF Poller, PollerIdle, PollerGiveUp, PollerAttempt, MayTry
<1>2. CASE EthInit
    BY <1>2
       DEF EthInit, PinmuxInit, EnableClock, AssertReset, ReleaseReset,
           ClearPortResets, MdioInit, SwitchBegin, ClearMembers,
           EnableCpuMac, SwitchEnd, AllocRings, AllocFails, StopRxTx,
           InitDesc, DisableLookup, DisableFlood, WriteHwaddr, AddDevice,
           PortLoop, SetFlood
<1>3. CASE Ready
    BY <1>3
       DEF Ready, NoDevice, CallReady, InitRfdRing, StartRx, StartTx,
           EnableLookup, EnableFlood, ReadPhy, ReadPhyFails, Judge, NextPhy,
           PortLoop, SetFlood
<1>4. CASE HandOff \/ Over \/ UNCHANGED vars
    BY <1>4 DEF HandOff, Over, vars
<1>5. CASE \E p \in Phys : LinkChange(p)
    BY <1>5 DEF LinkChange
<1> QED BY <1>1, <1>2, <1>3, <1>4, <1>5 DEF Next, Driver

\* A write to the clock controller keeps its shape.
LEMMA GccWrites ==
    ASSUME gcc \in GccType
    PROVE  /\ [gcc EXCEPT !.pins = TRUE] \in GccType
           /\ [gcc EXCEPT !.clk = TRUE] \in GccType
           /\ [gcc EXCEPT !.reset = TRUE, !.toggled = TRUE, !.mdio = FALSE]
                  \in GccType
           /\ [gcc EXCEPT !.reset = FALSE] \in GccType
           /\ [gcc EXCEPT !.ares = FALSE] \in GccType
           /\ [gcc EXCEPT !.mdio = TRUE] \in GccType
BY DEF GccType

\* The same for the engine.
LEMMA EdmaWrites ==
    ASSUME edma \in EdmaType
    PROVE  /\ ResetEdma \in EdmaType
           /\ [edma EXCEPT !.rx_on = FALSE, !.tx_on = FALSE] \in EdmaType
           /\ [edma EXCEPT !.base = "ours"] \in EdmaType
           /\ [edma EXCEPT !.hwaddr = TRUE] \in EdmaType
           /\ [edma EXCEPT !.rfds = TRUE] \in EdmaType
           /\ [edma EXCEPT !.rx_on = TRUE] \in EdmaType
           /\ [edma EXCEPT !.tx_on = TRUE] \in EdmaType
BY DEF EdmaType, ResetEdma

\* The same for the switch: masks of ports for a port, of ports for flooding.
LEMMA SwitchWrites ==
    ASSUME sw \in SwType
    PROVE  /\ ResetSwitch \in SwType
           /\ [sw EXCEPT !.flood = FloodNoCpu, !.mac = FALSE] \in SwType
           /\ [sw EXCEPT !.mac = TRUE] \in SwType
           /\ [sw EXCEPT !.flood = FloodAll] \in SwType
           /\ [sw EXCEPT !.flood = FloodNoCpu] \in SwType
           /\ [sw EXCEPT !.flood = FloodPorts] \in SwType
           /\ \A p \in Ports :
                 /\ [sw EXCEPT !.members[p] = {}] \in SwType
                 /\ [sw EXCEPT !.members[p] = DisabledMembers(p)] \in SwType
                 /\ [sw EXCEPT !.members[p] = EnabledMembers(p)] \in SwType
<1> USE PortAssumption
<1>1. /\ FloodNoCpu \in SUBSET (0 .. WAN + 1)
      /\ FloodAll \in SUBSET (0 .. WAN + 1)
      /\ FloodPorts \in SUBSET (0 .. WAN + 1)
    BY DEF FloodNoCpu, FloodAll, FloodPorts
<1>2. ASSUME NEW p \in Ports
      PROVE  /\ DisabledMembers(p) \in SUBSET Ports
             /\ EnabledMembers(p) \in SUBSET Ports
             /\ Ports \ {p} \in SUBSET Ports
    BY DEF DisabledMembers, EnabledMembers, Ports, LAN, CPU
<1>3. ResetSwitch \in SwType
    BY <1>1, <1>2 DEF ResetSwitch, SwType
<1>4. ASSUME NEW p \in Ports, NEW m \in SUBSET Ports
      PROVE  [sw EXCEPT !.members[p] = m] \in SwType
    BY DEF SwType
<1>5. ASSUME NEW f \in SUBSET (0 .. WAN + 1)
      PROVE  /\ [sw EXCEPT !.flood = f] \in SwType
             /\ [sw EXCEPT !.flood = f, !.mac = FALSE] \in SwType
    BY DEF SwType
<1>6. [sw EXCEPT !.mac = TRUE] \in SwType
    BY DEF SwType
<1> QED BY <1>1, <1>2, <1>3, <1>4, <1>5, <1>6

\* The same for the poller's statics and the device.
LEMMA StaticsWrites ==
    ASSUME poller \in PollerType, dev \in DevType, DeviceOnce
    PROVE  /\ [poller EXCEPT !.gave_up = TRUE] \in PollerType
           /\ MayTry => [poller EXCEPT !.retry_count = @ + 1] \in PollerType
           /\ [poller EXCEPT !.initted = TRUE] \in PollerType
           /\ [dev EXCEPT !.rings = TRUE] \in DevType
           /\ [dev EXCEPT !.started = TRUE] \in DevType
           /\ pc = "add" => [dev EXCEPT !.added = @ + 1] \in DevType
<1> USE BoundAssumption
<1>1. pc = "add" => dev.added = 0 /\ MaxRetries > 0
    BY DEF DeviceOnce, Added, PollerType, FromAdd, FromDisable, FromStop,
           FromFlood, FromMac, FromSwitch, FromMdio, FromAres, FromRelease,
           FromAssert, FromClock, FromPinmux
<1>2. pc = "add" => [dev EXCEPT !.added = @ + 1] \in DevType
    BY <1>1 DEF DevType
<1>3. /\ [dev EXCEPT !.rings = TRUE] \in DevType
      /\ [dev EXCEPT !.started = TRUE] \in DevType
    BY DEF DevType
<1>4. /\ [poller EXCEPT !.gave_up = TRUE] \in PollerType
      /\ [poller EXCEPT !.initted = TRUE] \in PollerType
    BY DEF PollerType
<1>5. MayTry => [poller EXCEPT !.retry_count = @ + 1] \in PollerType
    BY DEF PollerType, MayTry
<1> QED BY <1>2, <1>3, <1>4, <1>5

\* After a step: every part keeps its shape.
LEMMA NextShape == LifeInv /\ [Next]_vars => Shape'
<1> SUFFICES ASSUME LifeInv, [Next]_vars PROVE Shape'
    OBVIOUS
<1> Shape
    BY ShapeIsTypeOK DEF LifeInv
<1> DeviceOnce
    BY DEF LifeInv
<1>a. /\ i \in Ports /\ i # WAN => i + 1 \in Ports
      /\ pc = "phys" => i \in Phys /\ (i # WAN - 1 => i + 1 \in Ports)
      /\ 0 \in Ports
    BY PortAssumption DEF LifeInv, LoopIndex, Ports, Phys
<1> USE <1>a, GccWrites, EdmaWrites, SwitchWrites, StaticsWrites,
        BoundAssumption
<1> USE DEF Goto, World, Shape, Labels
<1>1. CASE Poller
  <2>1. CASE PollerIdle
      BY <2>1 DEF PollerIdle
  <2>2. CASE PollerGiveUp
      BY <2>2 DEF PollerGiveUp, MayTry
  <2>3. CASE PollerAttempt
      BY <2>3 DEF PollerAttempt, MayTry
  <2> QED BY <1>1, <2>1, <2>2, <2>3 DEF Poller
<1>2. CASE EthInit
  <2>1. CASE PinmuxInit
      BY <2>1 DEF PinmuxInit
  <2>2. CASE EnableClock
      BY <2>2 DEF EnableClock
  <2>3. CASE AssertReset
      BY <2>3 DEF AssertReset
  <2>4. CASE ReleaseReset
      BY <2>4 DEF ReleaseReset
  <2>5. CASE ClearPortResets
      BY <2>5 DEF ClearPortResets
  <2>6. CASE MdioInit
      BY <2>6 DEF MdioInit
  <2>7. CASE SwitchBegin
      BY <2>7 DEF SwitchBegin
  <2>8. CASE ClearMembers
      BY <2>8 DEF ClearMembers, PortLoop
  <2>9. CASE EnableCpuMac
      BY <2>9 DEF EnableCpuMac
  <2>10. CASE SwitchEnd
      BY <2>10 DEF SwitchEnd, SetFlood
  <2>11. CASE AllocRings
      BY <2>11 DEF AllocRings
  <2>12. CASE AllocFails
      BY <2>12 DEF AllocFails
  <2>13. CASE StopRxTx
      BY <2>13 DEF StopRxTx
  <2>14. CASE InitDesc
      BY <2>14 DEF InitDesc
  <2>15. CASE DisableLookup
      BY <2>15 DEF DisableLookup, PortLoop
  <2>16. CASE DisableFlood
      BY <2>16 DEF DisableFlood, SetFlood
  <2>17. CASE WriteHwaddr
      BY <2>17 DEF WriteHwaddr
  <2>18. CASE AddDevice
      BY <2>18 DEF AddDevice
  <2> QED BY <1>2, <2>1, <2>2, <2>3, <2>4, <2>5, <2>6, <2>7, <2>8, <2>9,
             <2>10, <2>11, <2>12, <2>13, <2>14, <2>15, <2>16, <2>17, <2>18
         DEF EthInit
<1>3. CASE Ready
  <2>1. CASE NoDevice
      BY <2>1 DEF NoDevice
  <2>2. CASE CallReady
      BY <2>2 DEF CallReady, NoLinks
  <2>3. CASE InitRfdRing
      BY <2>3 DEF InitRfdRing
  <2>4. CASE StartRx
      BY <2>4 DEF StartRx
  <2>5. CASE StartTx
      BY <2>5 DEF StartTx
  <2>6. CASE EnableLookup
      BY <2>6 DEF EnableLookup, PortLoop
  <2>7. CASE EnableFlood
      BY <2>7 DEF EnableFlood, SetFlood
  <2>8. CASE ReadPhy
      BY <2>8 DEF ReadPhy, NextPhy
  <2>9. CASE ReadPhyFails
      BY <2>9 DEF ReadPhyFails, NextPhy
  <2>10. CASE Judge
      BY <2>10 DEF Judge
  <2> QED BY <1>3, <2>1, <2>2, <2>3, <2>4, <2>5, <2>6, <2>7, <2>8, <2>9,
             <2>10 DEF Ready
<1>4. CASE HandOff \/ Over \/ UNCHANGED vars
    BY <1>4 DEF HandOff, Over, vars
<1>5. CASE \E p \in Phys : LinkChange(p)
    BY <1>5 DEF LinkChange
<1> QED BY <1>1, <1>2, <1>3, <1>4, <1>5 DEF Next, Driver

-----------------------------------------------------------------------------
(* What follows                                                            *)

\* Every step of driver and cables keeps the invariant.
LEMMA NextLifeInv == LifeInv /\ [Next]_vars => LifeInv'
<1> SUFFICES ASSUME LifeInv, [Next]_vars PROVE LifeInv'
    OBVIOUS
<1>1. TypeOK'
    BY NextShape DEF Shape, TypeOK, PollerType, DevType, GccType, SwType,
                     EdmaType
<1> QED BY <1>1, NextLoopIndex, NextDeviceOnce, NextClocksUp,
           NextEngineInHand, NextSwitchInHand, NextCpu, NextOnlyWhatWasRead
        DEF LifeInv

\* The invariant holds in every state.
LEMMA Life == Spec => []LifeInv
BY InitLifeInv, NextLifeInv, PTL DEF Spec

\* In every state each part of the driver, the switch and the engine has the
\* shape it should have, with never more devices than attempts allowed.
THEOREM LifeTypeCorrect == Spec => []TypeOK
<1>1. LifeInv => TypeOK
    BY DEF LifeInv
<1> QED BY <1>1, Life, PTL

\* For any number of ports: from the clearing of the port table on, no port
\* may send to the CPU port while the engine does not receive, half-way
\* through any of the three port loops included.
THEOREM CpuPortGuarded == Spec => []CpuReachedOnlyWhenReceiving
<1>1. LifeInv => CpuReachedOnlyWhenReceiving
    BY DEF LifeInv
<1> QED BY <1>1, Life, PTL

\* For any number of LAN ports: the switch never forwards between the WAN port
\* and a LAN port once its port table has been cleared.
THEOREM WanStaysApart == Spec => []WanApartFromLan
<1>1. LifeInv => WanApartFromLan
  <2> SUFFICES ASSUME LifeInv, isolated PROVE WanApartFromLan
      BY DEF WanApartFromLan
  <2> USE PortAssumption DEF Ports, LAN, CPU
  <2>1. \A p \in Ports :
           sw.members[p] \in {{}, DisabledMembers(p), EnabledMembers(p)}
      BY DEF LifeInv, SwitchInHand
  <2>2. \A p \in LAN : WAN \notin sw.members[p]
      BY <2>1 DEF DisabledMembers, EnabledMembers
  <2>3. sw.members[WAN] \cap LAN = {}
      BY <2>1 DEF DisabledMembers, EnabledMembers
  <2> QED BY <2>2, <2>3 DEF WanApartFromLan
<1> QED BY <1>1, Life, PTL

\* From the block reset on, whatever the stage before has left running and
\* whichever attempts have failed, the engine receives only into the rings of
\* this driver with free descriptors loaded.
THEOREM DmaStaysInRings == Spec => []DmaOnlyIntoRings
<1>1. LifeInv => DmaOnlyIntoRings
    BY DEF LifeInv, EngineInHand, DmaOnlyIntoRings
<1> QED BY <1>1, Life, PTL

\* The network is used only with pins, clock, resets, MDIO, switch, queues and
\* station address in place.
THEOREM NetworkStands == Spec => []NetworkStandsOnAll
<1>1. LifeInv => NetworkStandsOnAll
  <2> SUFFICES ASSUME LifeInv, pc = "net" PROVE NetworkStandsOnAll
      BY DEF NetworkStandsOnAll
  <2>1. Added /\ dev.started
      BY DEF LifeInv, DeviceOnce
  <2>2. gcc.pins /\ gcc.clk /\ gcc.mdio /\ ~gcc.reset /\ ~gcc.ares
      BY <2>1 DEF LifeInv, ClocksUp
  <2>3. edma.rx_on /\ edma.tx_on /\ edma.hwaddr
      BY <2>1 DEF LifeInv, EngineInHand
  <2>4. sw.mac /\ sw.members = [p \in Ports |-> EnabledMembers(p)]
      BY <2>1 DEF LifeInv, SwitchInHand, TypeOK
  <2> QED BY <2>2, <2>3, <2>4 DEF NetworkStandsOnAll
<1> QED BY <1>1, Life, PTL

\* A driver with a device is never brought up again and never added twice, so
\* that no block reset runs under live rings.
THEOREM NeverBroughtUpTwice == Spec => BroughtUpOnce
<1> DEFINE Kept == dev.added > 0 =>
                     /\ dev'.added = dev.added
                     /\ edma.rx_on => edma'.rx_on
                     /\ poller' = poller
                     /\ ~gcc'.reset
<1>1. LifeInv /\ [Next]_vars => [Kept]_vars
  <2> SUFFICES ASSUME LifeInv, [Next]_vars, dev.added > 0,
                      ~UNCHANGED vars
               PROVE  Kept
      OBVIOUS
  <2>1. Added /\ poller.initted /\ ~gcc.reset /\ pc \notin FromPinmux
      BY DEF LifeInv, DeviceOnce, ClocksUp, Added
  <2>2. edma \in EdmaType /\ dev \in DevType
      BY ShapeIsTypeOK DEF LifeInv, Shape
  <2> USE <2>1, <2>2 DEF Goto, World
  <2>3. CASE Poller
      BY <2>3 DEF Poller, PollerIdle, PollerGiveUp, PollerAttempt
  <2>4. CASE EthInit
      BY <2>4 DEF EthInit, PinmuxInit, EnableClock, AssertReset,
           ReleaseReset, ClearPortResets, MdioInit, SwitchBegin, ClearMembers,
           EnableCpuMac, SwitchEnd, AllocRings, AllocFails, StopRxTx,
           InitDesc, DisableLookup, DisableFlood, WriteHwaddr, AddDevice,
           PortLoop, FromPinmux, FromClock, FromAssert, FromRelease, FromAres,
           FromMdio, FromSwitch, FromMac, FromFlood, FromStop, FromDisable,
           FromAdd
  <2>5. CASE Ready
      BY <2>5 DEF Ready, NoDevice, CallReady, InitRfdRing, StartRx, StartTx,
           EnableLookup, EnableFlood, ReadPhy, ReadPhyFails, Judge, EdmaType,
           DevType
  <2>6. CASE HandOff \/ Over
      BY <2>6 DEF HandOff, Over, vars
  <2>7. CASE \E p \in Phys : LinkChange(p)
      BY <2>7 DEF LinkChange
  <2> QED BY <2>3, <2>4, <2>5, <2>6, <2>7 DEF Next, Driver
<1>2. Spec => [][Kept]_vars
    BY <1>1, Life, PTL DEF Spec
<1> QED BY <1>2 DEF BroughtUpOnce

\* The wait for the link ends only on a link bit that was up as it was read in
\* that call of ready(), whatever reads time out and cables move.
THEOREM LinkWasSeen == Spec => ReadyWasSeen
<1> DEFINE Seen == pc' = "net" /\ pc # "net" => seen # {}
<1>1. LifeInv /\ [Next]_vars => [Seen]_vars
  <2> SUFFICES ASSUME LifeInv, [Next]_vars, pc' = "net", pc # "net"
               PROVE  seen # {}
      OBVIOUS
  <2>1. Judge
      BY DEF Next, Driver, Poller, PollerIdle, PollerGiveUp, PollerAttempt,
           EthInit, PinmuxInit, EnableClock, AssertReset, ReleaseReset,
           ClearPortResets, MdioInit, SwitchBegin, ClearMembers, EnableCpuMac,
           SwitchEnd, AllocRings, AllocFails, StopRxTx, InitDesc,
           DisableLookup, DisableFlood, WriteHwaddr, AddDevice, PortLoop,
           Ready, NoDevice, CallReady, InitRfdRing, StartRx, StartTx,
           EnableLookup, EnableFlood, ReadPhy, ReadPhyFails, NextPhy,
           HandOff, Over, LinkChange, Goto, vars
  <2>2. \E p \in Phys : v[p]
      BY <2>1 DEF Judge, AnyLink
  <2> QED BY <2>2 DEF LifeInv, OnlyWhatWasRead
<1>2. Spec => [][Seen]_vars
    BY <1>1, Life, PTL DEF Spec
<1> QED BY <1>2 DEF ReadyWasSeen
=============================================================================
