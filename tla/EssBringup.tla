----------------------------- MODULE EssBringup -----------------------------
(***************************************************************************)
(* The life of the driver from the first poll to the hand-off to the       *)
(* kernel (src/drivers/net/ipq4019.c): the bounded-retry poller,           *)
(* ipq4019_eth_init() register by register, ipq4019_phy_check_link() with  *)
(* the ipq4019_eth_start() inside it, and, external, the loops of          *)
(* depthcharge that call them: net_wait_for_link() and, after the          *)
(* download, boot().  The switch forwards between any two register writes, *)
(* so each loop over the ports is a step per port.                         *)
(*                                                                         *)
(* Port 0 is the CPU port, port WAN the last one, the LAN ports lie        *)
(* between.  PHY p is behind port p + 1.                                   *)
(***************************************************************************)
EXTENDS Naturals, FiniteSets

CONSTANTS WAN,          \* ESS_PORTS_NUM - 1
          MaxRetries,   \* IPQ4019_ETH_INIT_MAX_RETRIES
          Starts,       \* what the previous stage may leave: "cold", "warm"
          MaxMdioFails  \* bound: MDIO reads that time out

ASSUME PortAssumption == WAN \in Nat /\ WAN >= 2
ASSUME BoundAssumption == MaxRetries \in Nat /\ MaxMdioFails \in Nat
ASSUME StartsAssumption == Starts \subseteq {"cold", "warm"}

CPU   == 0
Ports == 0 .. WAN
LAN   == 1 .. WAN - 1
Phys  == 0 .. WAN - 1

VARIABLES
    pc, i,      \* driver: where it is, and the loop index there
    poller,     \* driver: statics of ipq4019_net_poller()
    dev,        \* driver: the device (rings allocated, added, started)
    v,          \* driver: link bits read in this call of ready()
    gcc,        \* clock, block reset, port resets; and the MDIO pins
    sw,         \* switch: VID members per port, flood mask, CPU port MAC
    edma,       \* engine: queues on, ring base, descriptors, station address
    link,       \* the cables
    fails,      \* history: MDIO reads that timed out
    isolated,   \* history: members cleared since the last reset
    seen        \* history: PHYs whose link bit was up when ready() read it

vars == <<pc, i, poller, dev, v, gcc, sw, edma, link, fails, isolated, seen>>

-----------------------------------------------------------------------------
(* The masks of the port loops                                             *)

\* Mutant of DisabledMembers: the masks of ess_switch_enable_lookup() for LAN.
DisabledLanToCpu(p) == IF p \in {CPU, WAN} THEN {} ELSE ({CPU} \cup LAN) \ {p}

\* ess_switch_disable_lookup(): LAN -> other LAN, the CPU and WAN -> nothing.
DisabledMembers(p) == IF p \in {CPU, WAN} THEN {} ELSE LAN \ {p}

\* Mutant of EnabledMembers: 0x3f for 0x1f on the LAN ports.
EnabledLanToWan(p) == CASE p = WAN -> {CPU}
                        [] OTHER   -> Ports \ {p}

\* ess_switch_enable_lookup(): CPU -> all others, WAN -> CPU, LAN -> CPU and
\* other LAN.
EnabledMembers(p) == CASE p = CPU -> Ports \ {CPU}
                       [] p = WAN -> {CPU}
                       [] OTHER   -> ({CPU} \cup LAN) \ {p}

\* ESS_GLOBAL_FW_CTRL1: 0x3e3e3e, 0x7f7f7f and 0x3f3f3f.
FloodNoCpu == 1 .. WAN
FloodAll   == 0 .. WAN + 1
FloodPorts == 0 .. WAN

\* The block reset takes the switch and the engine with it (the comment in
\* ipq4019_eth_init()); the switch comes up forwarding between all ports.
ResetSwitch == [members |-> [p \in Ports |-> Ports \ {p}],
                flood   |-> FloodAll,
                mac     |-> FALSE]
ResetEdma == [rx_on |-> FALSE, tx_on |-> FALSE, base |-> "none",
              rfds |-> FALSE, hwaddr |-> FALSE]

\* A stage before this one that used the network and did not stop it.
WarmEdma == [rx_on |-> TRUE, tx_on |-> TRUE, base |-> "foreign",
             rfds |-> TRUE, hwaddr |-> TRUE]

Init ==
    /\ pc = "wait" /\ i = 0
    /\ poller = [initted |-> FALSE, gave_up |-> FALSE, retry_count |-> 0]
    /\ dev = [rings |-> FALSE, added |-> 0, started |-> FALSE]
    /\ v = [p \in Phys |-> FALSE]
    /\ \E ares \in BOOLEAN :
          gcc = [pins |-> FALSE, clk |-> FALSE, reset |-> FALSE,
                 ares |-> ares, toggled |-> FALSE, mdio |-> FALSE]
    /\ sw = ResetSwitch
    /\ \E s \in Starts :
          edma = IF s = "warm" THEN WarmEdma ELSE ResetEdma
    /\ link \in [Phys -> BOOLEAN]
    /\ fails = 0
    /\ isolated = FALSE
    /\ seen = {}

-----------------------------------------------------------------------------
(* Steps of straight-line code                                             *)

\* From label a to label b; the named parts change as the action says.
Goto(a, b) == pc = a /\ pc' = b
World == <<link, fails, seen>>

\* A loop "for (i = 0; i < ESS_PORTS_NUM; i++)" that lets port i reach ports.
PortLoop(a, b, ports) ==
    /\ pc = a
    /\ sw' = [sw EXCEPT !.members[i] = ports]
    /\ IF i = WAN THEN pc' = b /\ i' = 0
                  ELSE pc' = a /\ i' = i + 1

SetFlood(mask) == sw' = [sw EXCEPT !.flood = mask]

-----------------------------------------------------------------------------
(* ipq4019_net_poller(), run by net_wait_for_link() before it asks         *)

PollerIdle ==
    /\ Goto("wait", "ask")
    /\ poller.initted \/ poller.gave_up
    /\ UNCHANGED <<i, poller, dev, v, gcc, sw, edma, isolated, World>>

MayTry == poller.retry_count < MaxRetries

PollerGiveUp ==
    /\ Goto("wait", "ask")
    /\ ~poller.initted /\ ~poller.gave_up
    /\ ~MayTry
    /\ poller' = [poller EXCEPT !.gave_up = TRUE]
    /\ UNCHANGED <<i, dev, v, gcc, sw, edma, isolated, World>>

PollerAttempt ==
    /\ Goto("wait", "pinmux")
    /\ ~poller.initted /\ ~poller.gave_up
    /\ MayTry
    /\ poller' = [poller EXCEPT !.retry_count = @ + 1]
    /\ UNCHANGED <<i, dev, v, gcc, sw, edma, isolated, World>>

Poller == PollerIdle \/ PollerGiveUp \/ PollerAttempt

-----------------------------------------------------------------------------
(* ipq4019_eth_init()                                                      *)

PinmuxInit ==
    /\ Goto("pinmux", "clock")
    /\ gcc' = [gcc EXCEPT !.pins = TRUE]
    /\ UNCHANGED <<i, poller, dev, v, sw, edma, isolated, World>>

EnableClock ==
    /\ Goto("clock", "assert")
    /\ gcc' = [gcc EXCEPT !.clk = TRUE]
    /\ UNCHANGED <<i, poller, dev, v, sw, edma, isolated, World>>

AssertReset ==
    /\ Goto("assert", "release")
    /\ gcc' = [gcc EXCEPT !.reset = TRUE, !.toggled = TRUE, !.mdio = FALSE]
    /\ sw' = ResetSwitch
    /\ edma' = ResetEdma
    /\ isolated' = FALSE
    /\ UNCHANGED <<i, poller, dev, v, World>>

ReleaseReset ==
    /\ Goto("release", "ares")
    /\ gcc' = [gcc EXCEPT !.reset = FALSE]
    /\ UNCHANGED <<i, poller, dev, v, sw, edma, isolated, World>>

\* Mutant of ClearPortResets: they are left as found.
PortResetsKept ==
    /\ Goto("ares", "mdio")
    /\ UNCHANGED <<i, poller, dev, v, gcc, sw, edma, isolated, World>>

\* Port resets found asserted are released.
ClearPortResets ==
    /\ Goto("ares", "mdio")
    /\ gcc' = [gcc EXCEPT !.ares = FALSE]
    /\ UNCHANGED <<i, poller, dev, v, sw, edma, isolated, World>>

MdioInit ==
    /\ Goto("mdio", "switch")
    /\ gcc' = [gcc EXCEPT !.mdio = TRUE]
    /\ UNCHANGED <<i, poller, dev, v, sw, edma, isolated, World>>

\* ess_switch_init(), first part: flood mask, CPU port without its MAC.
SwitchBegin ==
    /\ Goto("switch", "clear")
    /\ sw' = [sw EXCEPT !.flood = FloodNoCpu, !.mac = FALSE]
    /\ UNCHANGED <<i, poller, dev, v, gcc, edma, isolated, World>>

ClearMembers ==
    /\ PortLoop("clear", "mac", {})
    /\ isolated' = (isolated \/ i = WAN)
    /\ UNCHANGED <<poller, dev, v, gcc, edma, World>>

EnableCpuMac ==
    /\ Goto("mac", "flood")
    /\ sw' = [sw EXCEPT !.mac = TRUE]
    /\ UNCHANGED <<i, poller, dev, v, gcc, edma, isolated, World>>

SwitchEnd ==
    /\ Goto("flood", "alloc")
    /\ SetFlood(FloodAll)
    /\ UNCHANGED <<i, poller, dev, v, gcc, edma, isolated, World>>

\* edma_alloc_rings() may fail; eth_init() then fails and may be tried again.
AllocRings ==
    /\ Goto("alloc", "stop")
    /\ dev' = [dev EXCEPT !.rings = TRUE]
    /\ UNCHANGED <<i, poller, v, gcc, sw, edma, isolated, World>>

AllocFails ==
    /\ Goto("alloc", "ask")
    /\ UNCHANGED <<i, poller, dev, v, gcc, sw, edma, isolated, World>>

\* edma_stop_rx_tx(), edma_configure(): both leave both queues off.
StopRxTx ==
    /\ Goto("stop", "desc")
    /\ edma' = [edma EXCEPT !.rx_on = FALSE, !.tx_on = FALSE]
    /\ UNCHANGED <<i, poller, dev, v, gcc, sw, isolated, World>>

\* edma_init_desc(): the engine learns where the rings are.
InitDesc ==
    /\ Goto("desc", "disable")
    /\ edma' = [edma EXCEPT !.base = "ours"]
    /\ UNCHANGED <<i, poller, dev, v, gcc, sw, isolated, World>>

DisableLookup ==
    /\ PortLoop("disable", "lan_only", DisabledMembers(i))
    /\ UNCHANGED <<poller, dev, v, gcc, edma, isolated, World>>

DisableFlood ==
    /\ Goto("lan_only", "hwaddr")
    /\ SetFlood(FloodNoCpu)
    /\ UNCHANGED <<i, poller, dev, v, gcc, edma, isolated, World>>

WriteHwaddr ==
    /\ Goto("hwaddr", "add")
    /\ edma' = [edma EXCEPT !.hwaddr = TRUE]
    /\ UNCHANGED <<i, poller, dev, v, gcc, sw, isolated, World>>

\* Mutant of AddDevice: the poller does not note the success.
AddDeviceNotInitted ==
    /\ Goto("add", "ask")
    /\ dev' = [dev EXCEPT !.added = @ + 1]
    /\ UNCHANGED <<i, poller, v, gcc, sw, edma, isolated, World>>

\* net_add_device() and the successful return to the poller.
AddDevice ==
    /\ Goto("add", "ask")
    /\ dev' = [dev EXCEPT !.added = @ + 1]
    /\ poller' = [poller EXCEPT !.initted = TRUE]
    /\ UNCHANGED <<i, v, gcc, sw, edma, isolated, World>>

EthInit == \/ PinmuxInit \/ EnableClock \/ AssertReset \/ ReleaseReset
           \/ ClearPortResets \/ MdioInit \/ SwitchBegin \/ ClearMembers
           \/ EnableCpuMac \/ SwitchEnd \/ AllocRings \/ AllocFails
           \/ StopRxTx \/ InitDesc \/ DisableLookup \/ DisableFlood
           \/ WriteHwaddr \/ AddDevice

-----------------------------------------------------------------------------
(* ipq4019_phy_check_link(), with ipq4019_eth_start() on its first call    *)

\* net_wait_for_link() without a device to ask goes round again.
NoDevice ==
    /\ Goto("ask", "wait")
    /\ dev.added = 0
    /\ UNCHANGED <<i, poller, dev, v, gcc, sw, edma, isolated, World>>

\* Mutant of NoLinks: v[] without its "= {0}", on a stack full of ones.
StackLinks == [p \in Phys |-> TRUE]
NoLinks == [p \in Phys |-> FALSE]

\* ready() is called: v[] is zero, and a driver not yet started starts.
CallReady ==
    /\ pc = "ask" /\ dev.added > 0
    /\ pc' = IF dev.started THEN "phys" ELSE "ring"
    /\ v' = NoLinks
    /\ seen' = {}
    /\ UNCHANGED <<i, poller, dev, gcc, sw, edma, isolated, link, fails>>

\* Mutant of InitRfdRing: the queue is started on an empty ring.
RfdRingNotInit ==
    /\ Goto("ring", "rxq")
    /\ UNCHANGED <<i, poller, dev, v, gcc, sw, edma, isolated, World>>

InitRfdRing ==
    /\ Goto("ring", "rxq")
    /\ edma' = [edma EXCEPT !.rfds = TRUE]
    /\ UNCHANGED <<i, poller, dev, v, gcc, sw, isolated, World>>

StartRx ==
    /\ Goto("rxq", "txq")
    /\ edma' = [edma EXCEPT !.rx_on = TRUE]
    /\ UNCHANGED <<i, poller, dev, v, gcc, sw, isolated, World>>

StartTx ==
    /\ Goto("txq", "enable")
    /\ edma' = [edma EXCEPT !.tx_on = TRUE]
    /\ UNCHANGED <<i, poller, dev, v, gcc, sw, isolated, World>>

EnableLookup ==
    /\ PortLoop("enable", "all_ports", EnabledMembers(i))
    /\ UNCHANGED <<poller, dev, v, gcc, edma, isolated, World>>

EnableFlood ==
    /\ Goto("all_ports", "phys")
    /\ SetFlood(FloodPorts)
    /\ dev' = [dev EXCEPT !.started = TRUE]
    /\ UNCHANGED <<i, poller, v, gcc, edma, isolated, World>>

NextPhy == IF i = WAN - 1 THEN pc' = "judge" /\ i' = 0
                          ELSE pc' = "phys" /\ i' = i + 1

\* The link bit of PHY i is read; a read that times out leaves v[i] alone.
ReadPhy ==
    /\ pc = "phys"
    /\ v' = [v EXCEPT ![i] = link[i]]
    /\ seen' = IF link[i] THEN seen \cup {i} ELSE seen
    /\ NextPhy
    /\ UNCHANGED <<poller, dev, gcc, sw, edma, link, fails, isolated>>

ReadPhyFails ==
    /\ pc = "phys"
    /\ fails < MaxMdioFails
    /\ fails' = fails + 1
    /\ NextPhy
    /\ UNCHANGED <<poller, dev, v, gcc, sw, edma, link, isolated, seen>>

\* Mutant of AnyLink: only the first PHY counts.
FirstLink == v[0]
AnyLink == \E p \in Phys : v[p]

\* *ready is set by any PHY's link bit; net_wait_for_link() ends with it.
Judge ==
    /\ pc = "judge"
    /\ pc' = IF AnyLink THEN "net" ELSE "wait"
    /\ UNCHANGED <<i, poller, dev, v, gcc, sw, edma, isolated, World>>

Ready == \/ NoDevice \/ CallReady \/ InitRfdRing \/ StartRx \/ StartTx
         \/ EnableLookup \/ EnableFlood \/ ReadPhy \/ ReadPhyFails \/ Judge

-----------------------------------------------------------------------------
\* netboot() has its image and calls boot(): the driver has no say in it.
HandOff ==
    /\ Goto("net", "kernel")
    /\ UNCHANGED <<i, poller, dev, v, gcc, sw, edma, isolated, World>>

\* The kernel runs; this program is over.
Over == pc = "kernel" /\ UNCHANGED vars

\* A cable is plugged or unplugged.
LinkChange(p) ==
    /\ pc # "kernel"
    /\ link' = [link EXCEPT ![p] = ~@]
    /\ UNCHANGED <<pc, i, poller, dev, v, gcc, sw, edma, fails, isolated, seen>>

Driver == Poller \/ EthInit \/ Ready

Next == Driver \/ HandOff \/ Over \/ \E p \in Phys : LinkChange(p)

Spec == Init /\ [][Next]_vars

\* The driver is straight-line code below net_wait_for_link(), which loops.
FairSpec == Spec /\ WF_vars(Driver)

-----------------------------------------------------------------------------
(* Properties                                                              *)

Labels == {"wait", "pinmux", "clock", "assert", "release", "ares", "mdio",
           "switch", "clear", "mac", "flood", "alloc", "stop", "desc",
           "disable", "lan_only", "hwaddr", "add", "ask", "ring", "rxq", "txq",
           "enable", "all_ports", "phys", "judge", "net", "kernel"}

TypeOK ==
    /\ pc \in Labels /\ i \in Ports
    /\ poller \in [initted : BOOLEAN, gave_up : BOOLEAN,
                   retry_count : 0 .. MaxRetries]
    /\ dev \in [rings : BOOLEAN, added : 0 .. MaxRetries, started : BOOLEAN]
    /\ v \in [Phys -> BOOLEAN] /\ link \in [Phys -> BOOLEAN]
    /\ gcc \in [pins : BOOLEAN, clk : BOOLEAN, reset : BOOLEAN,
                ares : BOOLEAN, toggled : BOOLEAN, mdio : BOOLEAN]
    /\ sw \in [members : [Ports -> SUBSET Ports],
               flood : SUBSET (0 .. WAN + 1), mac : BOOLEAN]
    /\ edma \in [rx_on : BOOLEAN, tx_on : BOOLEAN,
                 base : {"none", "foreign", "ours"}, rfds : BOOLEAN,
                 hwaddr : BOOLEAN]
    /\ fails \in 0 .. MaxMdioFails
    /\ isolated \in BOOLEAN
    /\ seen \subseteq Phys

\* From the moment the switch has been cleared, between any two writes of the
\* port loops, no port may send to the CPU port unless the engine is receiving:
\* a frame let through earlier would sit in the switch in front of a dead queue.
CpuReachedOnlyWhenReceiving ==
    isolated => \A p \in Ports : CPU \in sw.members[p] => edma.rx_on

\* From the same moment on no frame crosses between the WAN and a LAN port,
\* in no half-written state of the port loops and not across a retry.
WanApartFromLan ==
    isolated => /\ WAN \notin UNION {sw.members[p] : p \in LAN}
                /\ sw.members[WAN] \cap LAN = {}

\* Once the block reset has been asserted the engine receives only into this
\* driver's rings: never with the ring of an earlier stage, of a failed
\* attempt, or with no free descriptors loaded.
DmaOnlyIntoRings ==
    gcc.toggled /\ edma.rx_on =>
        dev.rings /\ edma.base = "ours" /\ edma.rfds

\* The network is used only with everything under it up: pins, clock and MDIO,
\* no reset asserted, CPU port MAC on, both queues on, station address set and
\* the ports open to the CPU.
NetworkStandsOnAll ==
    pc = "net" =>
        /\ gcc.pins /\ gcc.clk /\ gcc.mdio /\ ~gcc.reset /\ ~gcc.ares
        /\ sw.mac /\ sw.members = [p \in Ports |-> EnabledMembers(p)]
        /\ edma.rx_on /\ edma.tx_on /\ edma.hwaddr

\* A driver that has added its device is never brought up again: the block
\* reset would run under live rings.  At most one device, at most MaxRetries
\* attempts.
BroughtUpOnce ==
    [][dev.added > 0 => /\ dev'.added = dev.added
                        /\ edma.rx_on => edma'.rx_on
                        /\ poller' = poller
                        /\ ~gcc'.reset]_vars

\* net_wait_for_link() ends only when one PHY's link bit was up as it was read
\* in that very call of ready(): neither a bit of an earlier call nor a read
\* that timed out counts.
ReadyWasSeen == [][pc' = "net" /\ pc # "net" => seen # {}]_vars

\* The poller gave up: every attempt it has was made and no device came of them.
AllAttemptsFailed == /\ poller.gave_up /\ poller.retry_count = MaxRetries
                     /\ dev.added = 0

\* A cable that stays in is found, however the others were plugged meanwhile,
\* unless every attempt to bring the driver up has failed: the poller goes
\* silent for nothing less, since net_wait_for_link() never ends after it did.
LinkIsFound ==
    (\E p \in Phys : <>[]link[p]) =>
        <>(pc = "net" \/ pc = "kernel" \/ AllAttemptsFailed)

\* plan/phase-3-full-driver.md: the kernel takes over with "rings stopped,
\* lookup disabled".
StoppedAtHandOff ==
    pc = "kernel" =>
        /\ ~edma.rx_on /\ ~edma.tx_on
        /\ sw.members = [p \in Ports |-> DisabledMembers(p)]
=============================================================================
