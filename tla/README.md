# A verification project for the IPQ4019 Ethernet driver of depthcharge

The repository is a network driver for the Google Wifi ("gale"): a depthcharge
`NetDevice` for the Ethernet block (ESS) of the IPQ4019, and a patch to the
netboot payload that uses it. It runs bare-metal, on one core, without interrupts,
and shares memory with a DMA engine through a write-back cache; most of what can
go wrong in it is the order of two accesses, seen by someone else. This directory
holds TLA+ models of it, the configurations that TLC checks, and proofs for TLAPS.

The repository also carries the drivers this one was made from, and its comments and
plans refer to them throughout: U-Boot's driver of the same block, depthcharge's driver
of the ipq806x GMAC, and two more MDIO drivers. They are modelled too, each for what
it does that the port does differently.

Paths below are relative to the repository root unless they name a module.

## 1. The system

### Components

| Component | Source | State it keeps | Operations | Module |
|---|---|---|---|---|
| Receive ring | `src/drivers/net/ipq4019.c` `edma_init_rfd_ring`, `edma_start_rx_tx`, `ipq4019_eth_recv` | `rfd_head`, `rfd_tail`; shared with the engine: producer and consumer index, buffers with their RRD | start, poll, copy out, recycle | `EdmaRx` |
| Transmit ring | same file, `edma_init_desc`, `ipq4019_eth_send` | `tpd_head`; shared: descriptors, indices, the caller's packet buffer | flush, fill, barrier, flush, doorbell, poll, give up | `EdmaTx` |
| Lifecycle and switch | same file, `ipq4019_net_poller`, `ipq4019_eth_init`, `ess_switch_*`, `ipq4019_phy_check_link`, `ipq4019_eth_start` | `initted`, `retry_count`, `gave_up`, `started`; GCC, switch and EDMA registers | attempts, reset, bring-up, start, link | `EssBringup` |
| MDIO | `src/drivers/net/ipq4019_mdio.c`, `reference/uboot-mdio-ipq4019.c`, `tmp/mdio-ipq4019.c` | none of its own; the controller's BUSY, mode, command and data registers, the PHYs' MMD latches | read, write, MMD read, MMD write, clause-45 read and write, mode at probe | `Mdio` |
| PSGMII calibration and self-test | `src/drivers/net/ipq4019_psgmii.c`, `reference/uboot-essedma.c` `psgmii_*` | analog registers, PSGMII PHY, port PHYs and their counters, switch loopback | calibration pass, serial and parallel traffic test, retry, recovery | `Psgmii`, `SelfTest` |
| U-Boot Ethernet driver | `reference/uboot-essedma.c` | `rfd_head`, `rfd_tail` over several starts; clock, reset, switch, rings | probe, start, stop, recv, free_pkt, remove | `Essedma` |
| GMAC driver | `reference/depthcharge-ipq806x.c` | `next_rx`, `next_tx`; OWN bits of two descriptor chains | start, send, recv | `Gmac` |
| netboot flow | `patches/depthcharge-netboot-cmdline.patched` | `cmd_line[4096]`, `size`, the DHCP lease | link, DHCP, two downloads, release, suffix, boot | `Netboot` |

`PROJECT.json` lists the remaining parts of the repository (build patches, lists,
the dnsmasq wrapper, image tools) and why each is left out: none has a state machine of
this program's own.

### How they interact

* depthcharge's `net_wait_for_link()` runs the pollers and asks the device for
  `ready`; the driver's poller brings the hardware up (at most three attempts) and
  adds the device; the first `ready` starts the queues and opens the switch.
  `ready` then reads one MDIO register of each PHY.
* `netboot()` waits for the link, then runs DHCP and TFTP, which call `send` and
  `recv` from one polling loop. There is one packet buffer for everything.
* Driver and engine share the rings: the driver writes a producer index, the engine
  a consumer index, both in one register. Neither sees the other's stores until they
  have passed the cache (driver side) or reached RAM (engine side).
* Everything under the driver hangs on one block reset (`GCC_ESS_BCR`), which wipes
  switch, engine and PSGMII block at once.
* `boot()` hands over to the kernel. The driver is not told.
* U-Boot's driver serves a stack that starts it before each use of the network and stops
  it after; the ring stays allocated in between, and a received packet stays in its slot
  until the stack has called `free_pkt`. The port replaces both: it starts once, and
  copies.
* The self-tests reach the PHYs through the MDIO helpers and reset the whole ESS block,
  the engine included, between two of their steps.

### What is hard

1. **Ownership of ring slots** while both sides move their index (`EdmaRx`, `EdmaTx`).
2. **Cache and store-buffer order**: stale lines on receive, stores not written back
   on transmit.
3. **Late answers**: a transmit or an MDIO operation that completes after the driver
   has given up on it and gone on.
4. **Half-written switch tables**: the switch forwards between any two writes of a
   port loop.
5. **Reset and retry** with an engine that may be running, from an earlier stage or
   an earlier attempt.
6. **Failures that are ignored**: return codes of MDIO writes, of the TX timeout, of
   the PSGMII waits.
7. **One buffer, several uses** in `netboot()`, and several frames in one in the GMAC
   driver's `recv`.
8. **State that outlives a stop, a pass or a call**: ring indices in U-Boot's driver,
   packet counters in the self-test, the PHYs' address latches and the controller's mode
   in the MDIO drivers.

The list with line numbers is `hazards` in `PROJECT.json`, each with the properties
that would catch it, or with the reason why no property does.

### What makes each component correct

* Receive ring: each frame whose data is in RAM before its index is returned once, in
  order, whole; the engine never has the slot being read; a full ring does not look empty.
* Transmit ring: each frame on the wire consists of one call's bytes, length and
  descriptors; when a send has returned the engine is done with the caller's buffer;
  send returns even if the engine does not.
* Lifecycle: the engine receives only into this driver's rings; no frame reaches the
  CPU port before the queue runs; WAN and LAN are never bridged; bring-up happens
  once; link-up is reported on what was read in the call that reports it.
* MDIO: until an operation times out a call is an atomic access to the register it names;
  after timeouts, a call without one is still exact, and no operation is started nor the
  mode changed over another.
* PSGMII: the ESS is reset only with the far end quiet; the analog calibration stands when
  the ports come back; nothing stays in test mode. A self-test that passes has seen every
  port carry all its packets, alone and with the others, since the last reset.
* U-Boot driver: the engine receives only into allocated rings; ports are closed while the
  queue is off; frames are handed over once, in order, and not written over while held,
  whatever the stack does when `recv` returns 0; a failed probe gives everything back.
* GMAC: frames are delivered once, in order and whole, and fit in the caller's buffer; each
  send puts its frame on the wire once, and none meets a descriptor the DMA owns.
* netboot: the kernel gets one whole command line, no byte outside the buffer is touched,
  and the lease is given back.

## 2. Modules

| Module | What it is |
|---|---|
| `RxFifo` | abstract: bounded FIFO channel, what `recv` promises |
| `EdmaRx` | the receive ring with engine and cache; implements `RxFifo` |
| `EdmaRxProofs` | theorems about `EdmaRx`, its refinement of `RxFifo` among them |
| `TxCall` | abstract: a synchronous call that transmits its frame before it returns |
| `EdmaTx` | the transmit ring with engine, store buffer and cache; implements `TxCall` |
| `EdmaTxProofs` | theorems about `EdmaTx`, its refinement of `TxCall` among them |
| `EssBringup` | poller, `eth_init`, `ready`/`start`, hand-off, with cables and switch |
| `EssBringupProofs` | theorems about `EssBringup` |
| `PhyRegs` | abstract: a register file with atomic access |
| `Mdio` | the three MDIO drivers over a controller with a BUSY bit; implements `PhyRegs` |
| `MdioProofs` | theorems about `Mdio`, its refinement of `PhyRegs` among them |
| `Psgmii` | PHYs, PSGMII block and the calibration steps both self-tests share, with lost MDIO accesses |
| `SelfTest` | extends `Psgmii`: the port's self-test, and U-Boot's with its traffic tests and retries |
| `SelfTestProofs` | theorems about `SelfTest` |
| `Essedma` | U-Boot's Ethernet driver over several probes and sessions |
| `EssedmaProofs` | theorems about `Essedma` |
| `Gmac` | the ipq806x GMAC's two rings with DMA and cache |
| `GmacProofs` | theorems about `Gmac` |
| `Netboot` | the netboot flow and the command-line buffer |
| `NetbootProofs` | theorems about `Netboot` |
| `MC_*` | the instances TLC checks, with the `.cfg` files of the same stem |

In the component modules a definition called `...NotX`, `...Early`, `NeverX` and the
like, with "Mutant of" in its comment, is a plausible mistake in the operator that
follows it. It is not used by the specification. `PROJECT.json` pairs each property
with one that it must catch.

### Correspondence with the code

**`EdmaRx`.** `pc` is the position in `start` or `recv`: `probed` and `ring` are
before and inside `ipq4019_eth_start`; `idle` is between calls; `PollIndex` is the
register read, the comparison and `invalidate_range` (430-437); `CheckRrd` the VALID
test (439-445); `CopyOut` the length cut and `memcpy` (447-458); `Recycle` the
doorbell with the old head and the two increments (461-467); `Return` the
software-consumer register and the return (468-469). `prod`, `cons` are the halves of
`EDMA_REG_RFD_IDX_Q`. A buffer of 2048 bytes is many cache lines; the model has two of
them: the first, with the RRD (VALID, length) and the first bytes, and one that stands for
the rest of the frame. `ram` is what memory holds of each and `cache` the CPU's view: a
line is absent (`NotCached`) or holds the value it was loaded with. `Fill` loads and
`Evict` drops any line at any time, each on its own, so that two lines of one buffer can
differ in age; `invalidate_range` drops both (`Invalidated`), once, before the VALID test.
The bytes are a frame number, so `uip` has the frame that the head came from, the one that
the body came from, and the length. The engine (`EngineTake`, `EngineWrite`,
`EnginePublish`) writes the two lines and the index one after the other, the lines in any
order; the index last or, for the frames in `MayBeEarly`, at any point, whatever the VALID
bit in memory. `early` records the frames that were shown before they were all there.
`rx_count`, `rx_invalid` and `rx_too_big` count for messages only and are left out.

**`EdmaTx`.** The descriptor fields that matter are which fragment they point to, the
length (as the number of the call it belongs to) and EOP. `stores` is the CPU's store
buffer, `tpd_cpu` the cache, `tpd_ram` what the engine reads; `DrainStore`, `EvictLine`
and `EvictPacket` move data outwards at any time, `Dsb`, `FlushTpds` and `FlushPacket`
force it. `SendShort` is the early return for a frame under `EDMA_MIN_PKT_SIZE`.
`PollTimeout` is the loop running out: the code prints and continues. U-Boot's send is
the same line for line.

**`EssBringup`.** `pc` names the next register write. The three port loops are one
step per port, because the switch forwards in between. `gcc` has the clock, block
reset and port resets, `sw` the member mask of each port, the flood mask and the CPU
port's MAC, `edma` the queue enables, whose ring base is programmed, whether free
descriptors are loaded and whether the station address is set. `AllocFails` is
`edma_alloc_rings` failing. `ReadPhyFails` is an MDIO read that timed out. Registers
that only tune (queue weights, thresholds, RSS, pads) are part of the step that writes
them and have no state of their own. `isolated` says that the member masks have been
cleared since the last reset.

**`Mdio`.** `driver` says which of the three files runs. `todo` is the list of MDIO
operations of a call: one for the plain helpers; four for the port's MMD helpers, which
tunnel through registers 0x0d and 0x0e (`MmdPrefix`, `TunnelOf`); two for Linux's
clause-45 functions (`C45ReadOf`, `C45WriteOf`). `WaitIdle`, `Issue`, `Finish` are the
three parts of each (39-40, 42-44, 46-50 of the port); Linux's driver waits once before
the first operation and then only after each, so that a call goes from `Finish` to
`Issue`. `GiveUp` is `mdio_wait_busy` returning -1, before or after the start: the port's
MMD helpers ignore it and go on, Linux's functions return. `Probe` sets or leaves the mode
bit as each file's probe does; `ModeFor` is Linux's write of it before every operation.
`Complete`, the controller's own step, may come at any later time.

**`Psgmii`, `SelfTest`.** Labels follow the functions line by line. `Psgmii` has the
hardware and the steps that both files contain in the same form: the analog writes, the
preparation of the PHYs, the reset dance (`qca8075_ess_reset`, with its two bounded polls
counted in `i`) and the recovery. `SelfTest` puts them in the order of
`ipq4019_psgmii_self_test`, or of `psgmii_self_test` of U-Boot with the serial test
(`s_...`), the parallel one (`p_...`) and the retry loop (`Judge`). Every MDIO access
either arrives or is `lost`; no caller looks at a return code. A lost MMD access may leave
the MMD registers at anything; a lost read of register 0x10 in
`psgmii_st_phy_prepare` writes back what the variable held before (the content of register
0x1f). `Traffic` counts packets in three classes, none, some and all, which is what the
comparison with `PSGMII_ST_PKT_COUNT` tells apart. At this commit `ipq4019_eth_init` skips
the calibration (lines 689-693), and nothing calls the port's copies of the traffic
tests: the module is about code that is compiled and documented, and in U-Boot runs.

**`Essedma`.** `pc` is a label of probe (`off` to `close`, `err`), start (`queues`,
`open`), the time between (`up`, `held` while the stack has a packet), stop (`shut`,
`shut2`) and remove. The port loops are one step per port. `StartRing` writes head and
producer index and leaves tail and consumer index alone, as the code does. `Receive` is a
frame in one step or, for the frames in `MayBeEarly`, the index first and the data later
(`LateData`). `Recv` is the VALID test: with the bit the slot goes to the stack (`held`),
without it `recv` returns 0 (`zero`, lines 820-822), and the stack, which is not in the
repository, frees the slot (`FreePkt`) or takes the ring for empty and comes again
(`IgnoreZero`), by choice each time. `got` has the frame handed over for each slot freed,
0 for one freed unseen.

**`Gmac`.** `Recv` is the one invalidation of all descriptors before the loop; `RecvReturn`
the loop's condition and its break; `TakeFrame`, `CopyFrame`, `RecycleRx` a turn of it.
`GiveTx`, `CleanPacket`, `PollDemand`, `SendDone` or `SendLate`, `ResetTx` are `send`, with
the packet cleaned after its descriptor has been handed over, as the code does. A
descriptor is a cache line of its own. `TxFetch` and `TxClose` are the DMA with
"operate on second frame" set: it looks at the next descriptor before it closes one.

**`Netboot`.** `cmd_line` is the C array. Characters fall into the classes the code
tells apart: printable, space, control, NUL. The strip loop is a step per turn, so its
index arithmetic is checked, not assumed. `tftp_read` stores block by block straight
into the array and may fail between blocks. `args` is `cmd_line` itself, as
`netboot_entry` passes it. Each place that reads or writes cells of the buffer reports the
first and the last it touches (`Touches`), and `outside` collects the places that left the
buffer. Over an empty file the strip loop looks in front of it: what is there ends the loop
or makes `size` wrap, after which the model knows nothing (`undefined`).

**External parts** (`external` in the map): DMA engines, caches, switch and engine after
reset, MDIO controller, PHYs, the stack above, libc and the TFTP client. They are modelled
from how the code uses them, and as freely as its comments allow.

## 3. Runs

Each run below passes unless it says *violation*. The properties are commented in the
modules.

| Run | Module / cfg | Question | Bounds, and why they are enough |
|---|---|---|---|
| `rx_laps` | `EdmaRx_laps` | FIFO, ownership, index arithmetic, delivery, with a buffer's lines loaded and dropped apart and some indices visible before the data | ring of 4 (the smallest with distinct head, tail, doorbell and a free slot is 3), 7 frames: the second lap reaches three slots, both indices wrap; frame 2 may be early over a buffer never used, frame 6 over that of frame 2, with VALID set; two cached lines at a time, enough for one stale buffer or for a stale line in each of two; frames shorter and longer than the caller's buffer; buffers with either VALID bit at first |
| `tx_send` | `EdmaTx_send` | frames whole, buffer free on return, `TxCall`, and what is left of them after a timeout | the real ring of 8 with 4 descriptors per packet, started at either half, 3 sends: one and a half laps; each may time out |
| `tx_retry` | `EdmaTx_retry` | *violation*: a send after a timed-out one | the real ring of 8 with 4 descriptors per packet; 2 sends, 1 timeout |
| `life` | `EssBringup_life` | order of bring-up, isolation, DMA, retry, link | the real 6 ports and 5 PHYs, 3 attempts, warm and cold start, every cable pattern, 2 failed MDIO reads |
| `handoff` | `EssBringup_handoff` | *violation*: engine stopped at hand-off | 3 ports |
| `mdio_calls` | `Mdio_calls` | atomic registers; late completion | three drivers, 1 PHY with 2 MMD devices, any pair of calls, any initial latches and mode: a second call is enough to see what the first left behind; 8 timeouts, so every wait of a tunnelled call may give up |
| `selftest` | `SelfTest_passes` | calibration and traffic tests with losses | 2 port PHYs (one under test, one other), 1 lost access anywhere, polls of 2 tries instead of 100, 2 passes instead of 20, so that a failed pass is repeated and the last one reached |
| `uboot_sessions` | `Essedma_sessions` | what start, stop, failure and remove leave behind | ring of 4, 4 ports, 2 probes, 3 starts, 7 frames: more than a lap, so that a session can begin at each slot; frames 2 and 6 may be early, over a clear and over a set VALID bit |
| `gmac_rings` | `Gmac_rings` | delivery and transmission over OWN bits | 2 receive and 2 transmit descriptors, 4 frames: two laps of either; frames of no length, of half the buffer, so that `recv` takes several and fills up, and longer than all of it; any send may give up |
| `netboot_line` | `Netboot_line` | command line, bounds, lease | buffer of 6, suffix of 2, every file of none to 6 characters over three classes in blocks of 2, every user line that fits, failure before or after a block |
| `netboot_empty` | `Netboot_empty` | *violation*: the strip loop looks at the file | buffer of 8, files of none to 3 characters, no failures |
| `netboot_fallback` | `Netboot_fallback` | *violation*: user line as fallback | buffer of 8, failure after one block |

Named bounds in the modules (`MaxFrames`, `MaxRefused`, `MaxCached`, `MaxSends`, `MaxTimeouts`,
`MaxRetries` (the code's own), `MaxMdioFails`, `MaxCalls`, `Tries`, `NumRetries`,
`MaxLost`, `MaxProbes`, `MaxStarts`, `MaxDhcp`) limit what the environment does, not what
the driver does; `Tries` and `NumRetries` stand for larger constants of the code. Three
ports or two losses in `selftest` take TLC longer than a run may.

Three refinements are checked, and proved (section 5). `EdmaRx` implements `RxFifo` (queue: the published slots
from the tail on, and the frame `recv` is about to return; the engine accepts at the
moment it publishes). `EdmaTx` implements `TxCall`, and `Mdio` `PhyRegs`, each up to the
first timeout: the abstract specifications have a variable `late` and promise nothing of
a step after it is set. What holds after it is stated separately (`FramesWellFormed`,
`SendReturns`; `ReadIsCurrent`, `WriteIsDone`, `NeverIssuedWhileBusy`).

### Fairness

The driver is sequential and is called from loops of depthcharge that do not end
(`net_poll`, `net_wait_for_link`), so its next step is weakly fair (`Recv`,
`SendSteps`, `Driver`, `Helper`, `PortSelfTest`, `UbootSelfTest`, and in `Gmac` `Start`,
`Recv`, `RecvSteps`, `SendSteps`). A receive engine finishes a write, an index update or a
descriptor it began (`EngineGoesOn`, `RxClose`); it is under no obligation
to receive. `tx_send` uses `DriverFairSpec`, in which the transmit engine owes nothing, and
so shows that `SendReturns` rests on the timeout alone; `tx_retry` lets it drain an enabled
queue, so that the engine of its counterexample is not a dead one. In `Mdio` the controller owes
nothing, in `SelfTest` no PLL owes a lock and no packet a return, and the GMAC's transmit
side owes nothing. New sends, cables, losses and failures are never forced. `Essedma` and
`Netboot` have safety properties only.

## 4. Disagreements found

1. **A full transmit ring looks empty** (`tx_retry`, `ipq4019.c:345`). The ring has 8
   descriptors (`ipq4019.h:100`) and a packet takes 4. A send that times out returns 0 with
   its 4 still the engine's; the next send's 4 bring the producer index round to the
   consumer index, which both sides read as "nothing to do": the send breaks from its poll
   at once, as if complete, and neither frame is on the wire. In TLC's trace the engine
   takes no step at all. `plan/phase-3-full-driver.md:65-71` has the driver "return cleanly
   so uIP retries" and expects every scenario to recover; the retry is the send that is
   lost. (U-Boot's ring has the same size. In the model a ring of 12 needs
   two timeouts for the same.) That the stack rewrites the one packet buffer under an
   engine that comes back late is also in the model; it is what limits
   `EngineDoneWhenReturned` and `ImplementsTxCall` to the time before the first timeout.
2. **No stop at hand-off** (`handoff`). `plan/phase-3-full-driver.md:48-50` has the driver
   stop rings and lookup before `boot()`, and `README.md` calls all
   phases complete; the driver has no such operation and received frames go on being written into boot-loader memory.
3. **Fallback is overwritten** (`netboot_fallback`, netboot patch line 154). A download
   of the command-line file that fails after its first block leaves that block in the
   buffer that holds the fallback line; the message says "predefined by user".
4. **An empty command-line file** (`netboot_empty`, netboot patch line 156). The loop
   that is to strip blanks from the end of the file looks at `cmd_line[size - 1]` before it
   tests `size`: with size 0 it reads the byte in front of the buffer, and if that is a
   blank it goes on from there with a `size` that has wrapped. `NeverOutOfBounds` shows that
   `netboot()` leaves the buffer from no other place and for no other file.

Met while modelling and too plain to need a run: `ipq4019_psgmii_self_test` returns 0
even if its ready bits never came (`result = 1`, line 296), where `ipq4019.h:192-193`
documents -1; `start` runs on the first `ready` call (`ipq4019.c:488`), where
`docs/hardware.md:74` has it on link-up, though `docs/design.md:56` has it as coded; in the
GMAC driver's `recv` the branch for a frame that is too long, with the message of line 462,
stands behind a `break` with the same condition (446) and cannot be reached, so that a
frame longer than the whole buffer stays at the head of the ring with all that follow it
(the exception in `ReceivedIsDelivered`; the port cuts such a frame instead).

What the U-Boot driver does is stated as it is, since no text says otherwise: a session
that begins with the consumer index at one of the last two slots of the ring receives
nothing (`DeafOnlyFromLastSlots`), because `start` writes the last slot as producer index
without reading where the engine stands; and one that begins with frames left over from
the session before hands their slots to the engine (the exception in `HandedInOrder`).
The port starts once after a reset and meets neither.

## 5. Proofs

Every safety property, action property and refinement of the passing runs is a theorem:
it holds for every value of the constants that satisfies the assumptions, where the run
shows it for one. Each component's theorems rest on one or two inductive invariants,
each of which TLC checked on the instance of a run before it was proved. What is left to
TLC is at the end of this section.

`EdmaRxProofs` proves, for every ring size `N >= 3`, every set of frame lengths and any
number of frames:

| Theorem | Statement |
|---|---|
| `TypeCorrect` | `Spec => []TypeOK` |
| `RingCorrect` | `Spec => []RingInv` |
| `IndicesAlwaysCountFrames` | `Spec => []IndicesCountFrames` |
| `EngineAlwaysKeepsOff` | `Spec => []EngineKeepsOff` |
| `FramesDeliveredInOrder` | `Spec => []DeliveredInOrder` |
| `RxImplementsFifo` | `Spec => ImplementsFifo` |

*Assumptions*: those of `EdmaRx` (ring of at least three slots, lengths are numbers,
`NotCached` is no buffer content, `Garbled` no frame). Nothing is assumed of the order of
index and data: which frames may be early is the constant `MayBeEarly`, any set. What is
proved of an early frame is its place and no more.

*Argument.* `IndicesCountFrames` is not inductive: whether a step of the engine keeps
it depends on where the doorbell is. `RingInv` adds three facts: before `StartRx` the
indices stand still and the queue is off (`BeforeStart`); once set up the head is one
slot behind the tail and the doorbell at the head or one slot further behind
(`DoorbellBehindTail`); walking from the tail the consumer index is met no later than
the doorbell (`ConsumerBetween`). All are stated with `Dist`, the number of slots from
one index to another around the ring, and the arithmetic of the wrap is confined to
the lemmas `Dist...`, `BumpInRing` and `SameWrap` at the head of the module. So the
engine can never pass the doorbell, the doorbell never reaches the tail, and the
distance from tail to consumer is never ambiguous. For the order of frames `FrameInv` adds
that the frame in hand is the last one accepted and its written lines are in RAM
(`FrameInHand`); that data still to come behind an index belongs to the slot published last,
of an early frame (`LateData`); that both lines of every published slot hold consecutively
numbered frames, but for the early ones (`PublishedSlots`); and that from the invalidation
on each cached line of the slot being read is the one in memory, unless its frame is early
(`CacheFresh`). So head, body and length that `recv` loads are those of the frame whose turn
it is; of an early frame only the count of slots is kept, which is what keeps the next ones
in place. `EngineKeepsOff` and `DeliveredInOrder` follow. For the refinement `FifoInv`
adds what the channel's frames are made of: that `recv` holds the frame of the slot at the
tail before it recycles it, and where the doorbell is when
`recv` returns (`CopyIsFrame`). The channel shows an early frame as `Garbled`, of which
`RxFifo` promises nothing but its place. `QueueIs` describes the refinement
mapping's queue element by element; each step is then compared with the channel's: one
that advances the consumer index appends a frame, the last step of `recv` takes the first, a
frame turned away is one the channel may refuse, and all others leave the queue the same
sequence (`SameQueue`), `Recycle` among them, which moves a frame from the ring into
`recv`'s hands. `RingInv`, `FrameInv` and `FifoInv` were checked with TLC on the instance
of `rx_laps`.

`EdmaTxProofs` proves, for every ring of whole packets (more than one), any number of
descriptors per packet, any number of sends and of timeouts:

| Theorem | Statement |
|---|---|
| `TxTypeCorrect` | `Spec => []TypeOK` |
| `TxFramesWellFormed` | `Spec => []FramesWellFormed` |
| `TxEngineDone` | `Spec => []EngineDoneWhenReturned` |
| `TxImplementsTxCall` | `Spec => ImplementsTxCall` |

*Assumptions*: those of `EdmaTx` (ring a multiple of the packet, consumer index found at
the start of a line, `NoStore` no descriptor). *Argument.* Three layers. `ShapeInv` holds
however late the engine is: head, doorbell and `first` move by packets (`Indices`); every
copy of a descriptor, in store buffer, cache or RAM, is empty or as the loop of `send`
writes it for that place in the line (`Copies`), the packet's are filled as far as the
label says (`Filled`), all that lie between the engine's index and the doorbell's are
filled in RAM (`Pending`), and the engine has gathered as many fragments as it is into a
packet (`Gathered`). `CaughtUpInv` adds, until the first timeout, that the two indices
part only between the doorbell and the end of the poll, and within the packet. `OnTimeInv`
adds the contents: buffer, descriptors and fragments are those of the call under way
(`Packets`, `DescriptorsOfCall`, `GatheredOfCall`), and the wire holds whole frames of
earlier calls, and of this one once emitted (`WireOfCalls`). From it each step before the
first timeout is one of `TxCall` or changes nothing `TxCall` sees (`NextRefines`). The
division into lines is confined to the lemmas at the head of the module. All three were
checked with TLC on the instances of `tx_send` and `tx_retry` first.

`EssBringupProofs` proves, for every number of ports from three, every number of
attempts and of failing MDIO reads, and for a cold or a warm start:

| Theorem | Statement |
|---|---|
| `LifeTypeCorrect` | `Spec => []TypeOK` |
| `CpuPortGuarded` | `Spec => []CpuReachedOnlyWhenReceiving` |
| `WanStaysApart` | `Spec => []WanApartFromLan` |
| `DmaStaysInRings` | `Spec => []DmaOnlyIntoRings` |
| `NetworkStands` | `Spec => []NetworkStandsOnAll` |
| `NeverBroughtUpTwice` | `Spec => BroughtUpOnce` |
| `LinkWasSeen` | `Spec => ReadyWasSeen` |

*Assumptions*: those of `EssBringup` on its constants. *Argument.* Each of the seven
speaks of a few labels or of one part of the state, and depends on what every earlier
label of `eth_init()` and `start()` has done. `LifeInv` says that for each label:
`FromClock`, `FromAssert`, ... are the labels of `eth_init()` from one on, and
`ClocksUp`, `EngineInHand` and `SwitchInHand` list what is set up from there on and
stays once the device is added (`Added`). `DeviceOnce` ties the poller's statics to the
label, which is why a failed attempt may go round again and a successful one may not.
`LoopIndex` and the clauses of `SwitchInHand` about ports below the index carry the
three port loops. There is a lemma per part (`Next...`), with a case per action or
group of actions. `LifeInv` was checked with TLC on the instance of `life` first.

`EssedmaProofs` proves, for every ring size, every number of ports and any number of
probes, failures, sessions and frames of U-Boot's driver:

| Theorem | Statement |
|---|---|
| `SessionDmaIntoRings` | `Spec => []DmaOnlyIntoRings` |
| `SessionClosedWhenDeaf` | `Spec => []ClosedWhenDeaf` |
| `SessionFailedProbe` | `Spec => FailedProbeLeavesNothing` |
| `SessionHandedInOrder` | `Spec => []HandedInOrder` |
| `SessionDeafOnlyFromLastSlots` | `Spec => []DeafOnlyFromLastSlots` |

*Assumptions*: those of `Essedma` on its constants. *Argument.* `LifeInv` says for each
label of probe, start, stop and remove whether the queue is on (`QueueByLabel`), which
rings are allocated and whether the engine points into them (`RingsByLabel`), and, in the
port loops, that the ports below the index have been closed (`ClosedSoFar`). `RingInv` is
about the ring: around it lie, from the tail on, the frames not taken yet with their
consecutive numbers, then the slots the engine may fill, then at most what it was not told
of, together less than the ring (`Laid`); and the distance from tail to head has not
changed since the start of the session, where it was that from the consumer index to the
last slot (`Behind`). A frame not taken yet is in its slot, VALID, unless it is an early
one (`Holds`), and late data belongs to an early frame (`LateIsEarly`); so what `recv`'s 0
makes the stack do to a slot concerns that slot's frame alone. The distance of `Behind` is 0 or 1
exactly if the consumer index was at one of the last two slots. Both were checked with TLC on the instance of `uboot_sessions` first.

`SelfTestProofs` proves, for any number of port PHYs, of polls, of passes and of lost MDIO
accesses, and for both self-tests:

| Theorem | Statement |
|---|---|
| `SelfTestQuiet` | `Spec => []QuietWhileReset` |
| `SelfTestCalibrated` | `Spec => []CalibrationSurvivesReset` |
| `SelfTestNothingLeft` | `Spec => []NothingLeftInTest` |
| `SelfTestIsolated` | `Spec => []TrafficIsolated` |
| `SelfTestPassIsReal` | `Spec => []PassIsReal` |

*Assumptions*: those of `Psgmii` and `SelfTest` on the numbers of ports, tries and passes.
*Argument.* `IInv` says for each label, and in the port loops for the ports below and above
the index, what has arrived or was lost: which PHYs are powered down (`PoweredDown`), the
CDR and the 20-bit fix (`SerDes`), calibration and loopback (`Calibrated`), the recovery
(`BroughtBack`). For the verdict it follows a port's count through the traffic tests
(`SerialCount`, `ParallelCount`): after the reset of a port its count is zero and its
generator still (`Silent`), so a full count, and a port no longer waited for, has sent its
packets since. A lost reset or start is the exception everywhere, because `lost` only
grows. The lemmas `...Writes` say once what each access changes; each part of the
invariant then has a lemma with a case per group of actions. `IInv` was checked with TLC
on the instance of `selftest` first.

`MdioProofs` proves, for all three drivers and any sets of PHYs, devices, registers and
words, any number of calls and of timeouts:

| Theorem | Statement |
|---|---|
| `MdioNeverIssuedWhileBusy` | `Spec => NeverIssuedWhileBusy` |
| `MdioReadIsCurrent` | `Spec => ReadIsCurrent` |
| `MdioWriteIsDone` | `Spec => WriteIsDone` |
| `MdioImplementsPhyRegs` | `Spec => ImplementsPhyRegs` |

*Assumptions*: those of `Mdio`; the two MMD registers are none of the plain ones
(`RegsAssumption`), `NoCall` is no call (`NoCallAssumption`). *Argument.* `MdioInv` has four
parts. Nothing is busy when an operation is about to be issued, and the mode is that of
the operation under way (`Exclusive`). The operations to do are the rest of the call's,
counted by `Passed` (`UnderWay`). In a call none of whose operations gave up, the PHY has
come as far as the operations that are over, and the one the controller may have
completed, take it: device selected, address latched, access done (`InTurn`, `Reached`).
This is what makes a call exact after others that timed out: each wait before an issue
also waits for what was left over. Until the first timeout nothing is left over at all
(`NoneLate`), so the access of a call happens in one step between its start and its return,
and every other operation of a tunnelled access is hidden from `PhyRegs`. `MdioInv` was
checked with TLC on the instance of `mdio_calls` first.

`GmacProofs` proves, for any two ring lengths, any lengths of frames and any number of
frames, sends and timeouts:

| Theorem | Statement |
|---|---|
| `GmacSentWholeOnce` | `Spec => []SentWholeOnce` |
| `GmacNeverPastBuffer` | `Spec => []NeverPastBuffer` |
| `GmacDeliveredInOrder` | `Spec => []DeliveredInOrder` |

`GmacSentWholeOnce` has two halves: that frames go out whole, once and in order is proved up
to the first send that gives up; that no send meets a descriptor still owned, always.

*Assumptions*: those of `Gmac`, among them that the transmit ring is no longer than the
receive ring (`RingAssumption`, see section 6) and that `NotCached` is the content of no
cache line (`CacheAssumption`). *Argument.* The two directions share only `pc` and are two
invariants. `TxInv`: no descriptor but that of the send under way is the DMA's, however many
sends gave up (`OneOwned`), which is why a send never meets one that is; and until one
gives up, the DMA stands at the driver's descriptor and runs only after the poll demand,
when the packet is in RAM (`InStep`). `RxInv`: a cached image that says "not owned" is the
one in RAM, because a descriptor's line is written back and dropped before the DMA gets it
(`CacheSound`); and from the driver's descriptor on lie the frames handed over and not yet
given back, the rest of the ring is the DMA's, and what was copied is the frames before,
without those of no length (`RxFlow`). Both were checked with TLC on the instance of
`gmac_rings` first, the number of frames given back in `RxFlow` taken from a finite range.

`NetbootProofs` proves, for every size of the buffer and the suffix, every user line that
fits, every command-line file, block size and way for a transfer to break off:

| Theorem | Statement |
|---|---|
| `NetbootLineIsWhole` | `Spec => []BootedLineIsWhole` |
| `NetbootLeaseGivenBack` | `Spec => []LeaseGivenBack` |
| `NetbootNeverOutOfBounds` | `Spec => []NeverOutOfBounds` |

*Assumptions*: those of `Netboot`; files and user lines are sequences of characters, a user
line fits and has no NUL (`LinesAssumption`). `BootedLineIsWhole` speaks of a file that was
read whole, and of the user's line when no byte of a file arrived; a download that breaks
off later boots neither, which is `netboot_fallback`. `NeverOutOfBounds` is about every
access to the buffer and holds for every file; its exception names the one place, the strip
loop, that leaves the buffer for the one file, the empty one, of `netboot_empty`.

*Argument.* `LineInv` says that the last byte of the buffer is always NUL, so that `strlen` ends inside
(`LastIsNul`); that the buffer holds the user's line as long as no byte arrived
(`UserKept`); that the blocks received stand at its head (`FileRead`); that nothing behind
`size` is printable in the strip loop and that the loop ends on something that is
(`Stripped`); and that the result is the file, cleaned (`FileCleaned`). The lemmas at the
head of the module give `strlen` its meaning: there is a first NUL (`LeastNatural`, from the
well-foundedness of the naturals), and it is at the length of the string the array holds
(`StrLenEnds`). For the bounds `ByteLeft` adds that the strip loop over a file that is not
empty never comes to size 0. `LineInv` was checked with TLC on the instance of `netboot_line` first.

The `TypeOK`s are proved and not checked in a run of their own; each is a conjunct of the
inductive invariant.

*Only model-checked*: the liveness properties `AcceptedIsDelivered`, `SendReturns` (of both
drivers), `LinkIsFound`, `CallReturns`, `SelfTestReturns` and `ReceivedIsDelivered`, since
liveness under fairness, and `ENABLED` with it, is outside the prover's reach; and the four
disagreements of section 4, which are counterexamples and need no proof.

## 6. Assumptions and limits

* **Index after data.** The driver never clears the VALID bit of a buffer it hands back,
  and invalidates the buffer once, before it looks at the bit. A frame whose index can be
  read before all its data is in RAM may therefore come out as the frame of the lap before,
  or with a new head and old lines behind it: both happen in `EdmaRx`, to the frames of
  `MayBeEarly`. The properties of `rx_laps` promise contents for every other frame, and for
  these that they cost no other frame its place. Nothing in the repository says which order
  the hardware has; `plan/phase-2-tftp-netboot.md:67-68` puts stale data down to a missing
  VALID test or invalidation. `Essedma` has the same, where an early frame may also be lost.
* **Stores to RX buffers.** Nothing above `recv` writes them, so no cached line is dirty.
* **Consumer index 0 at start.** `edma_init_rfd_ring` assumes it; the transmit side
  reads the index instead. The block reset is taken to clear both; `StartIdx` allows
  the transmit index any line boundary.
* **Aligned transmit head.** The descriptors of a packet share a cache line and do not
  wrap only if the head is a multiple of four (`StartAssumption`).
* **Behind the strip loop's wrap** over an empty file the model says nothing (the label
  `undefined`): what the loop reads and writes there is not `netboot()`'s memory.
* **After the last attempt** the poller stays silent by intent (comment at lines 717-720) and
  `net_wait_for_link()` polls for ever. `LinkIsFound` excepts this and nothing less:
  `AllAttemptsFailed` asks that every attempt was made.
* **Losses excuse for good** in the properties of `SelfTest`: an access that was lost in one
  pass is still in `lost` in the next, where the code may have repeated it.
* **Time** is abstract: a bounded loop with a delay either sees its condition or runs out.
* **Lost MDIO accesses in `Psgmii` and `SelfTest`** are lost for good; one that completes late does so
  before the next access (shown in `Mdio`), which makes no difference to the properties.
* **The GMAC's DMA** reads the descriptor after the one it sends, stops at one that is not
  its own until the poll demand, and closes in order: what `DmaTxSecondFrame` and the
  driver's use of it say. The OWN bit of a descriptor and its length change together.
* **The two ring sizes of the GMAC driver** come from a header outside the repository.
  Line 407 compares a transmit index with the receive ring's; `RingAssumption` asks for a
  transmit ring no longer than the receive ring, which is what the code needs.
* **U-Boot's stack** calls `free_pkt` for a packet before it asks for the next or stops. What
  it does when `recv` returns 0 is left open between freeing and asking again.
* Not modelled: contents of frames, MAC address selection, console, memory leaked by a
  bring-up that fails in `edma_alloc_rings` (at most three attempts), the GMAC driver's
  bring-up (clocks, pins and registers of another chip), device-tree parsing of the
  U-Boot and Linux drivers beyond that it may fail, the clock divider of the MDIO drivers,
  and the network stack above `send`/`recv` beyond its single buffer.

## 7. Plan

Done: 1. `EdmaRx` with `RxFifo` and its proofs; 2. `EdmaTx` with `TxCall` and its proofs;
3. `EssBringup` and its proofs; 4. `Mdio` with `PhyRegs`, for the three drivers, and its
proofs; 5. `Netboot` and its proofs; 6. `Psgmii` and `SelfTest` with the traffic tests, and
the proofs; 7. `Essedma` and its proofs; 8. `Gmac` and its proofs.

Next, in this order:

1. Proofs: what is still true of transmission after a timeout, beyond `FramesWellFormed`
   and `SentWholeOnce`'s second half: for `EdmaTx`, that every frame on the wire has the
   descriptors of one call; for `Mdio`, that a call that gave up has at most the effects of
   its own operations.
2. Compose: `EssBringup` with the two rings, so that the reset and `start` act on ring
   state; `net_poll` with `send` and `recv` sharing one buffer, and a DHCP/TFTP
   exchange above it with lost and repeated packets.
3. `SelfTest` above `Mdio`: late MDIO completions instead of lost ones.
