------------------------------- MODULE Psgmii -------------------------------
(***************************************************************************)
(* The steps of the PSGMII calibration that src/drivers/net/               *)
(* ipq4019_psgmii.c and the U-Boot driver it was ported from share: analog *)
(* calibration of the SoC side, preparation of the port PHYs, the reset    *)
(* dance of the PSGMII PHY around a reset of the whole ESS block, recovery *)
(* of the port PHYs.  SelfTest puts them in the order of either driver.    *)
(*                                                                         *)
(* No return code of the MDIO helpers is looked at: an access that times   *)
(* out is lost, and the code goes on.  `lost' records which ones were.     *)
(***************************************************************************)
EXTENDS Naturals, FiniteSets

CONSTANTS NumPorts, \* IPQ4019_NUM_PORT_PHY
          Tries,    \* polls of a ready bit (100)
          MaxLost   \* bound: MDIO accesses that time out

ASSUME PortAssumption == NumPorts \in Nat \ {0}
ASSUME BoundAssumption == Tries \in Nat /\ MaxLost \in Nat

PortPhys == 0 .. NumPorts - 1

VARIABLES
    pc, i,    \* driver: where it is, and the loop index there
    bcr,      \* GCC_ESS_BCR: the ESS block is held in reset
    analog,   \* SoC: PLL and VCO control registers of the PSGMII block
    soc_ready,\* SoC: VCO calibration done, bit 0 of 0xa0
    loop,     \* switch: some port of 1.. is looped back
    phy5,     \* the PSGMII PHY: mode (BMCR), cdr (0x1a), ready (MMD 0x28)
    port,     \* the port PHYs, registers by meaning
    lost      \* history: accesses that timed out, <<pc, phy, register>>

psgmiiVars == <<pc, i, bcr, analog, soc_ready, loop, phy5, port, lost>>

-----------------------------------------------------------------------------
(* bmcr: 0x9040 is "auto", 0x4140 "loop"; fctl: 0x10, "other" if it holds   *)
(* what was not read from it; count: MMD 0x8021 and 0x8062; gen: MMD 0x8020 *)
(* and 0x8029.                                                             *)
PortState == [bmcr  : {"boot", "down", "auto", "loop"},
              fctl  : {"boot", "mdi", "other", "normal"},
              count : {"none", "test", "other"},
              gen   : BOOLEAN]
AnalogReset == [pll |-> FALSE, vco |-> "reset"]
AnalogDone  == [pll |-> TRUE, vco |-> "released"]

\* Whatever ran before, an earlier calibration included.
PsgmiiInit ==
    /\ pc = "analog" /\ i = 0
    /\ bcr = FALSE
    /\ analog \in {AnalogReset, AnalogDone}
    /\ soc_ready \in BOOLEAN
    /\ loop \in BOOLEAN
    /\ phy5 = [mode |-> "boot", cdr |-> "running", ready |-> FALSE]
    /\ \E left \in PortState : port = [p \in PortPhys |-> left]
    /\ lost = {}

-----------------------------------------------------------------------------
Goto(a, b) == pc = a /\ pc' = b

\* One turn of "for (i = 0; i < IPQ4019_NUM_PORT_PHY; i++)".
Turn(a, b) == /\ pc = a
              /\ IF i = NumPorts - 1 THEN pc' = b /\ i' = 0
                                     ELSE pc' = a /\ i' = i + 1

\* The accesses to these registers of phy that this step makes are lost.
Lose(phy, regs) ==
    /\ lost' = lost \cup {<<pc, phy, r>> : r \in regs}
    /\ Cardinality(lost') <= MaxLost

Soc == <<bcr, analog, soc_ready, loop>>

-----------------------------------------------------------------------------
(* psgmii_analog_cal(), called before and after the reset                  *)

AnalogStart(a, b) ==
    /\ Goto(a, b)
    /\ analog' = [pll |-> TRUE, vco |-> "started"]
    /\ UNCHANGED <<i, bcr, soc_ready, loop, phy5, port, lost>>

AnalogRelease(a, b) ==
    /\ Goto(a, b)
    /\ analog' = [analog EXCEPT !.vco = "released"]
    /\ UNCHANGED <<i, bcr, soc_ready, loop, phy5, port, lost>>

\* Mutant of SecondAnalogCal: the calibration is not repeated.
NoSecondAnalogCal == /\ Goto("analog2", "recover")
                     /\ UNCHANGED <<i, Soc, phy5, port, lost>>

FirstAnalogCal  == \/ AnalogStart("analog", "vco")
                   \/ AnalogRelease("vco", "prepare")
SecondAnalogCal == \/ AnalogStart("analog2", "vco2")
                   \/ AnalogRelease("vco2", "recover")

-----------------------------------------------------------------------------
(* psgmii_st_phy_prepare()                                                 *)

\* Port i is powered down and its traffic counters armed.  When the read of
\* register 0x10 is lost, what is written back to it is what the variable held:
\* register 0x1f in the port, an error code in U-Boot.  (The copper page chosen
\* in 0x1f itself stays, and nothing here depends on it.)  A lost MMD access may
\* leave the MMD registers at anything.
PreparePort(regs) ==
    /\ Turn("prepare", "fix20")
    /\ Lose(i, regs)
    /\ \E c \in IF "count" \in regs THEN {"none", "test", "other"} ELSE {"test"},
          f \in IF "fctl" \in regs THEN {port[i].fctl, "other"} ELSE {"mdi"} :
          port' = [port EXCEPT
                     ![i].bmcr  = IF "bmcr" \in regs THEN @ ELSE "down",
                     ![i].fctl  = f,
                     ![i].count = c]
    /\ UNCHANGED <<Soc, phy5>>

Prepare == \E regs \in SUBSET {"bmcr", "count", "fctl"} : PreparePort(regs)

-----------------------------------------------------------------------------
(* qca8075_ess_reset()                                                     *)

\* A write to the PSGMII PHY that arrives, or is lost.
Write5(a, b, reg, new) ==
    /\ Goto(a, b)
    /\ \/ phy5' = new /\ UNCHANGED lost
       \/ Lose(5, {reg}) /\ UNCHANGED phy5
    /\ UNCHANGED <<i, Soc, port>>

FixRx20   == Write5("fix20", "reset5", "mode", [phy5 EXCEPT !.mode = "rx20"])
ResetPhy5 == Write5("reset5", "release5", "mode",
                    [phy5 EXCEPT !.mode = "reset", !.ready = FALSE])
ReleasePhy5 == Write5("release5", "phy_wait", "mode",
                      [phy5 EXCEPT !.mode = "rx20"])

\* Mutant of FreezeCdr: the CDR is left running.
CdrLeftRunning == /\ Goto("freeze", "assert")
                  /\ UNCHANGED <<i, Soc, phy5, port, lost>>
FreezeCdr == Write5("freeze", "assert", "cdr", [phy5 EXCEPT !.cdr = "frozen"])

\* Mutant of ThawCdr: 0x2230 for 0x3230.
CdrLeftFrozen == Write5("thaw", "free20", "cdr",
                        [phy5 EXCEPT !.cdr = "frozen"])
ThawCdr == Write5("thaw", "free20", "cdr", [phy5 EXCEPT !.cdr = "running"])
FreeRx20(b) == Write5("free20", b, "mode", [phy5 EXCEPT !.mode = "free"])

\* Mutant of Poll: the poll never ends without its bit.
PollForever(a, b, readyNow) ==
    /\ pc = a
    /\ IF readyNow THEN pc' = b /\ i' = 0 ELSE UNCHANGED <<pc, i>>

\* "for (i = 0; i < 100; i++)" over a ready bit; without it a message, and on.
Poll(a, b, readyNow) ==
    /\ pc = a
    /\ IF i = Tries THEN pc' = b /\ i' = 0
       ELSE IF readyNow THEN pc' = b /\ i' = 0
       ELSE i' = i + 1 /\ UNCHANGED <<pc>>

\* With one of its accesses lost the MMD read may return anything.
WaitPhy5 ==
    /\ \/ Poll("phy_wait", "freeze", phy5.ready) /\ UNCHANGED lost
       \/ /\ i < Tries
          /\ \E bit \in BOOLEAN : Poll("phy_wait", "freeze", bit)
          /\ Lose(5, {"ready"})
    /\ UNCHANGED <<Soc, phy5, port>>

WaitSoc ==
    /\ Poll("soc_wait", "thaw", soc_ready)
    /\ UNCHANGED <<Soc, phy5, port, lost>>

\* ess_reset(): the reset takes the PSGMII block's analog state with it.
AssertEss ==
    /\ Goto("assert", "deassert")
    /\ bcr' = TRUE
    /\ analog' = AnalogReset
    /\ soc_ready' = FALSE
    /\ loop' = FALSE
    /\ UNCHANGED <<i, phy5, port, lost>>

DeassertEss ==
    /\ Goto("deassert", "soc_wait")
    /\ bcr' = FALSE
    /\ UNCHANGED <<i, analog, soc_ready, loop, phy5, port, lost>>

EssReset(b) == \/ FixRx20 \/ ResetPhy5 \/ ReleasePhy5 \/ WaitPhy5 \/ FreezeCdr
               \/ AssertEss \/ DeassertEss \/ WaitSoc \/ ThawCdr \/ FreeRx20(b)

-----------------------------------------------------------------------------
(* psgmii_st_phy_recover(), the two writes after it, and the loopback off  *)

Recovered == [bmcr |-> "auto", fctl |-> "normal", count |-> "none",
              gen |-> FALSE]

RecoverPort(regs) ==
    /\ Turn("recover", "loopback")
    /\ Lose(i, regs)
    /\ \E c \in IF "count" \in regs THEN {"none", "test", "other"}
                                    ELSE {Recovered.count},
          g \in IF "gen" \in regs THEN BOOLEAN ELSE {Recovered.gen} :
          port' = [port EXCEPT
                     ![i].bmcr  = IF "bmcr" \in regs THEN @ ELSE Recovered.bmcr,
                     ![i].fctl  = IF "fctl" \in regs THEN @ ELSE Recovered.fctl,
                     ![i].count = c,
                     ![i].gen   = g]
    /\ UNCHANGED <<Soc, phy5>>

Recover == \E regs \in SUBSET {"bmcr", "fctl", "count", "gen"} :
              RecoverPort(regs)

\* esw_port_loopback_set_all(0)
LoopbackOff ==
    /\ Goto("loopback", "returned")
    /\ loop' = FALSE
    /\ UNCHANGED <<i, bcr, analog, soc_ready, phy5, port, lost>>

-----------------------------------------------------------------------------
(* The hardware (external)                                                 *)

\* The PLL of the PSGMII PHY locks some time after its reset; or never.
Phy5Locks ==
    /\ phy5.mode # "reset" /\ ~phy5.ready
    /\ phy5' = [phy5 EXCEPT !.ready = TRUE]
    /\ UNCHANGED <<pc, i, Soc, port, lost>>

\* So does the VCO of the SoC.
SocLocks ==
    /\ ~bcr /\ ~soc_ready
    /\ soc_ready' = TRUE
    /\ UNCHANGED <<pc, i, bcr, analog, loop, phy5, port, lost>>
=============================================================================
