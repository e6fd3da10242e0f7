--------------------------- MODULE SelfTestProofs ---------------------------
(* Proofs about SelfTest, for every number of port PHYs, of polls, of      *)
(* passes and of MDIO accesses that are lost, and for both self-tests.     *)
EXTENDS SelfTest, TLAPS

-----------------------------------------------------------------------------
(* Where the self-test is                                                  *)

Serial   == {"s_reset", "s_link", "s_start", "s_wait", "s_down"}
Parallel == {"p_reset", "p_link", "p_start", "p_wait", "p_down"}
Polling  == {"phy_wait", "soc_wait"}
OverPorts == {"prepare", "recover", "p_reset", "p_start", "p_down"} \cup Serial
Ending   == {"recover", "loopback", "returned"}
OnlyPort  == {"analog2", "vco2"}
OnlyUboot == {"loop_on", "judge"} \cup Serial \cup Parallel
Labels == {"analog", "vco", "fix20", "reset5", "release5", "freeze", "assert",
           "deassert", "thaw", "free20"}
          \cup Polling \cup OverPorts \cup Ending \cup OnlyPort \cup OnlyUboot

-----------------------------------------------------------------------------
(* The inductive invariant                                                 *)

AnalogState == [pll : BOOLEAN, vco : {"reset", "started", "released"}]
Phy5State == [mode : {"boot", "rx20", "reset", "free"},
              cdr : {"running", "frozen"}, ready : BOOLEAN]

Typed == /\ pc \in Labels /\ i \in Nat
         /\ bcr \in BOOLEAN /\ soc_ready \in BOOLEAN /\ loop \in BOOLEAN
         /\ analog \in AnalogState
         /\ phy5 \in Phy5State
         /\ port \in [PortPhys -> PortState]
         /\ who \in {"port", "uboot"}
         /\ attempt \in Nat /\ turn \in Nat
         /\ mask \subseteq PortPhys
         /\ result \in BOOLEAN
         /\ egress \in [PortPhys -> {"zero", "some", "full"}]

\* The loop index is a port in the loops over ports and 0 outside all loops;
\* either self-test stays in its own part of the code; the block is in reset
\* between the two writes of ess_reset() only.
Placed == /\ pc \in OverPorts => i \in PortPhys
          /\ pc \notin OverPorts \cup Polling => i = 0
          /\ pc \in OnlyPort => who = "port"
          /\ pc \in OnlyUboot => who = "uboot"
          /\ bcr <=> pc = "deassert"

\* The code has not powered PHY p down where it is, or has powered it up since.
MayBeUp(p) == \/ pc \in {"prepare", "p_down"} /\ p >= i
              \/ pc \in Serial \ {"s_reset"} /\ p = i
              \/ pc \in {"analog", "vco", "p_reset", "p_link", "p_start",
                         "p_wait"} \cup Ending

Down(p) == port[p].bmcr = "down" \/ LostOf(p, {"bmcr"})

PoweredDown == \A p \in PortPhys : MayBeUp(p) \/ Down(p)

\* What holds of the PSGMII PHY: its CDR is frozen over the reset, and from
\* "thaw" and "free20" on it is as it was found.
Thawed == {"free20", "loop_on", "judge"}
          \cup OnlyPort \cup Serial \cup Parallel \cup Ending

SerDes == /\ pc \in {"assert", "deassert"} =>
                phy5.cdr = "frozen" \/ <<"freeze", 5, "cdr">> \in lost
          /\ pc \in Thawed =>
                phy5.cdr = "running" \/ <<"thaw", 5, "cdr">> \in lost
          /\ pc \in Thawed \ {"free20"} =>
                phy5.mode = "free" \/ <<"free20", 5, "mode">> \in lost

\* The second calibration of the port, the loopback of U-Boot.
Calibrated ==
    /\ pc = "vco2" => analog = [pll |-> TRUE, vco |-> "started"]
    /\ who = "port" /\ pc \in Ending => analog = AnalogDone
    /\ pc \in Serial \cup Parallel => loop
    /\ pc = "returned" => ~loop

\* psgmii_st_phy_recover() is done with port p.
Back(p) == (pc = "recover" /\ p < i) \/ pc \in {"loopback", "returned"}

IsBack(p) == \A r \in DOMAIN Recovered :
                port[p][r] = Recovered[r] \/ <<"recover", p, r>> \in lost

BroughtBack == \A p \in PortPhys : Back(p) => IsBack(p)

-----------------------------------------------------------------------------
(* The traffic tests: what a count can be taken for                        *)

\* p has been reset and its generator has not been started since.
Silent(p) == \/ egress[p] = "zero" /\ ~port[p].gen
             \/ LostOf(p, {"reset", "egress"})

SeenAlone(p)  == <<"s_wait", p>> \in ran \/ LostOf(p, {"reset", "egress"})
SeenTogether(p) == \/ <<"p_start", p>> \in ran \/ <<"p_wait", p>> \in ran
                   \/ LostOf(p, {"reset", "egress"})

\* What the serial test knows of port p: it has passed its part, or is in it.
SerialCount(p) ==
    /\ (pc \in Serial /\ p < i) \/ pc \in Parallel => SeenAlone(p)
    /\ pc \in {"s_link", "s_start"} /\ p = i => Silent(p)
    /\ pc = "s_wait" /\ p = i /\ (egress[p] = "full" \/ p \notin mask) =>
          SeenAlone(p)
    /\ pc = "s_down" /\ p = i /\ result => SeenAlone(p)

SerialCounts == \A p \in PortPhys : SerialCount(p)

\* What the parallel test knows of port p: it is reset and not yet started; it
\* is started; it is no longer waited for.
ParallelCount(p) ==
    /\ \/ pc = "p_reset" /\ p < i
       \/ pc = "p_link"
       \/ pc = "p_start" /\ p >= i
       => Silent(p)
    /\ \/ pc = "p_start" /\ p < i
       \/ pc = "p_wait"
       => (egress[p] = "full" => SeenTogether(p))
    /\ pc = "p_wait" /\ p \notin mask => SeenTogether(p)
    /\ pc = "p_down" /\ result => SeenTogether(p)

ParallelCounts == \A p \in PortPhys : ParallelCount(p)

Verdict(p) == who = "uboot" /\ result /\ pc \in {"judge"} \cup Ending =>
                 SeenAlone(p) /\ SeenTogether(p)

Judged == \A p \in PortPhys : Verdict(p)

IInv == /\ Typed /\ Placed
        /\ PoweredDown /\ SerDes /\ Calibrated /\ BroughtBack
        /\ SerialCounts /\ ParallelCounts /\ Judged

-----------------------------------------------------------------------------
(* The steps, and what a lost access leaves behind                         *)

\* Every step is one of these, and the parts of the code that only one of the
\* self-tests has are taken by it alone.
LEMMA StepsOfNext ==
    ASSUME [Next]_vars
    PROVE  \/ Shared(FirstAnalogCal) \/ Shared(Prepare)
           \/ \E b \in {"analog2", "loop_on"} :
                 /\ b = "analog2" <=> who = "port"
                 /\ Shared(EssReset(b))
           \/ who = "port" /\ Shared(SecondAnalogCal)
           \/ Shared(Recover) \/ Shared(LoopbackOff)
           \/ LoopbackOn \/ SerialTest \/ ParallelTest \/ Judge
           \/ Hardware \/ UNCHANGED vars
BY DEF Next, PortSelfTest, UbootSelfTest, UbootAnalogCal, UbootPrepare,
       UbootEssReset, UbootRecover, UbootLoopbackOff, Shared, Returned

\* A lost access stays in the history and is one of the registers it names.
LEMMA LoseGrows ==
    ASSUME NEW p, NEW regs, Lose(p, regs)
    PROVE  /\ lost \subseteq lost'
           /\ \A r \in regs : <<pc, p, r>> \in lost'
           /\ \A R : regs \cap R # {} => LostOf(p, R)'
<1>1. /\ lost \subseteq lost'
      /\ \A r \in regs : <<pc, p, r>> \in lost'
  BY DEF Lose
<1>2. ASSUME NEW R, NEW r \in regs, r \in R  PROVE LostOf(p, R)'
  <2>1. /\ <<pc, p, r>>[2] = p
        /\ <<pc, p, r>>[3] = r
    OBVIOUS
  <2> QED  BY <1>1, <1>2, <2>1 DEF LostOf
<1> QED  BY <1>1, <1>2

\* An access once lost stays lost.
LEMMA LostOfStays ==
    ASSUME lost \subseteq lost', NEW p, NEW R, LostOf(p, R)
    PROVE  LostOf(p, R)'
BY DEF LostOf

-----------------------------------------------------------------------------
(* Types and places                                                        *)

\* The loops over the ports start at 0 and end after NumPorts - 1.
LEMMA PortRange ==
    /\ 0 \in PortPhys
    /\ \A p \in PortPhys : /\ p \in Nat /\ p < NumPorts
                           /\ p # NumPorts - 1 => p + 1 \in PortPhys
                           /\ p < NumPorts - 1 <=> p # NumPorts - 1
                           /\ \A q \in PortPhys : q < p + 1 <=> q < p \/ q = p
                           /\ p = NumPorts - 1 =>
                                 \A q \in PortPhys : q < p \/ q = p
BY PortAssumption DEF PortPhys

-----------------------------------------------------------------------------
(* What the accesses to one port PHY do: only that PHY changes, and what    *)
(* does not arrive is lost                                                 *)

OnlyPortOf(p) == /\ port' \in [PortPhys -> PortState]
                 /\ \A q \in PortPhys \ {p} : port'[q] = port[q]
                 /\ lost \subseteq lost'
                 /\ UNCHANGED <<bcr, analog, soc_ready, loop, phy5>>

\* What holds of a port PHY that no step of another one can undo.
LEMMA OtherPortKept ==
    ASSUME NEW p, port'[p] = port[p], lost \subseteq lost'
    PROVE  /\ Down(p) => Down(p)'
           /\ IsBack(p) => IsBack(p)'
<1>1. Down(p) => Down(p)'
  BY LostOfStays DEF Down
<1>2. IsBack(p) => IsBack(p)'
  BY DEF IsBack
<1> QED  BY <1>1, <1>2

\* psgmii_st_phy_prepare(): port p is powered down, or the write was lost.
LEMMA PrepareWrites ==
    ASSUME Typed, NEW p \in PortPhys, p = i, Prepare
    PROVE  OnlyPortOf(p) /\ Down(p)'
<1>1. PICK regs \in SUBSET {"bmcr", "count", "fctl"} : PreparePort(regs)
  BY DEF Prepare
<1> DEFINE m == IF "bmcr" \in regs THEN port[p].bmcr ELSE "down"
<1>2. PICK c \in IF "count" \in regs THEN {"none", "test", "other"}
                                     ELSE {"test"},
           f \in IF "fctl" \in regs THEN {port[i].fctl, "other"} ELSE {"mdi"} :
         port' = [port EXCEPT ![p].bmcr = m, ![p].fctl = f, ![p].count = c]
  BY <1>1 DEF PreparePort
<1>3. /\ Lose(p, regs) /\ UNCHANGED <<Soc, phy5>>
      /\ lost \subseteq lost'
      /\ "bmcr" \in regs => LostOf(p, {"bmcr"})'
  BY <1>1, LoseGrows DEF PreparePort
<1>4. /\ m \in {"boot", "down", "auto", "loop"}
      /\ f \in {"boot", "mdi", "other", "normal"}
      /\ c \in {"none", "test", "other"}
      /\ "bmcr" \notin regs => m = "down"
  BY <1>2 DEF Typed, PortState
<1> HIDE DEF m
<1>5. port' \in [PortPhys -> PortState]
  <2>0. port' = [port EXCEPT ![p].bmcr = m, ![p].fctl = f, ![p].count = c]
    BY <1>2
  <2>1. port \in [PortPhys -> PortState] /\ port[p] \in PortState
    BY DEF Typed
  <2>2. [bmcr |-> m, fctl |-> f, count |-> c, gen |-> port[p].gen] \in PortState
    BY <1>4, <2>1 DEF PortState
  <2> QED  BY <1>4, <2>0, <2>1, <2>2 DEF PortState
<1>6. port'[p].bmcr = m /\ \A q \in PortPhys \ {p} : port'[q] = port[q]
  BY <1>2 DEF Typed, PortState
<1> QED
  BY <1>3, <1>4, <1>5, <1>6 DEF OnlyPortOf, Soc, Down

\* psgmii_st_phy_recover(): port p is as before the test, or a write was lost.
LEMMA RecoverWrites ==
    ASSUME Typed, NEW p \in PortPhys, p = i, pc = "recover", Recover
    PROVE  OnlyPortOf(p) /\ IsBack(p)'
<1>1. PICK regs \in SUBSET {"bmcr", "fctl", "count", "gen"} : RecoverPort(regs)
  BY DEF Recover
<1> DEFINE m == IF "bmcr" \in regs THEN port[p].bmcr ELSE Recovered.bmcr
           f == IF "fctl" \in regs THEN port[p].fctl ELSE Recovered.fctl
<1>2. PICK c \in IF "count" \in regs THEN {"none", "test", "other"}
                                     ELSE {Recovered.count},
           g \in IF "gen" \in regs THEN BOOLEAN ELSE {Recovered.gen} :
         port' = [port EXCEPT ![p].bmcr = m, ![p].fctl = f, ![p].count = c,
                              ![p].gen = g]
  BY <1>1 DEF RecoverPort
<1>3. /\ UNCHANGED <<Soc, phy5>>
      /\ lost \subseteq lost'
      /\ \A r \in regs : <<"recover", p, r>> \in lost'
  BY <1>1, LoseGrows DEF RecoverPort
<1>4. /\ m \in {"boot", "down", "auto", "loop"}
      /\ f \in {"boot", "mdi", "other", "normal"}
      /\ c \in {"none", "test", "other"} /\ g \in BOOLEAN
      /\ "bmcr" \notin regs => m = Recovered.bmcr
      /\ "fctl" \notin regs => f = Recovered.fctl
      /\ "count" \notin regs => c = Recovered.count
      /\ "gen" \notin regs => g = Recovered.gen
  BY <1>2 DEF Typed, PortState, Recovered
<1> HIDE DEF m, f
<1>5. port' \in [PortPhys -> PortState]
  <2>1. port \in [PortPhys -> PortState] /\ port[p] \in PortState
    BY DEF Typed
  <2>2. [bmcr |-> m, fctl |-> f, count |-> c, gen |-> g] \in PortState
    BY <1>4 DEF PortState
  <2> QED  BY <1>2, <2>1, <2>2 DEF PortState
<1>6. /\ port'[p].bmcr = m /\ port'[p].fctl = f
      /\ port'[p].count = c /\ port'[p].gen = g
      /\ \A q \in PortPhys \ {p} : port'[q] = port[q]
  BY <1>2 DEF Typed, PortState
<1>7. DOMAIN Recovered = {"bmcr", "fctl", "count", "gen"}
  BY DEF Recovered
<1>8. /\ port'[p]["bmcr"] = Recovered["bmcr"] \/ <<"recover", p, "bmcr">> \in lost'
      /\ port'[p]["fctl"] = Recovered["fctl"] \/ <<"recover", p, "fctl">> \in lost'
      /\ port'[p]["count"] = Recovered["count"]
         \/ <<"recover", p, "count">> \in lost'
      /\ port'[p]["gen"] = Recovered["gen"] \/ <<"recover", p, "gen">> \in lost'
  BY <1>3, <1>4, <1>6
<1>9. \A r \in DOMAIN Recovered :
         port'[p][r] = Recovered[r] \/ <<"recover", p, r>> \in lost'
  BY <1>7, <1>8
<1>10. IsBack(p)'
  BY <1>9 DEF IsBack, Recovered
<1> QED
  BY <1>3, <1>5, <1>6, <1>10 DEF OnlyPortOf, Soc

\* The reset of a traffic test leaves port p without packets and not sending.
LEMMA ResetWrites ==
    ASSUME Typed, NEW p \in PortPhys, NEW regs, ResetLoopback(p, regs)
    PROVE  /\ OnlyPortOf(p) /\ Silent(p)'
           /\ egress' \in [PortPhys -> {"zero", "some", "full"}]
           /\ \A q \in PortPhys \ {p} : egress'[q] = egress[q]
<1> DEFINE m == IF "loop" \notin regs THEN "loop"
                ELSE IF "reset" \notin regs THEN "auto" ELSE port[p].bmcr
           g == "reset" \in regs /\ port[p].gen
<1>1. port \in [PortPhys -> PortState] /\ port[p] \in PortState
  BY DEF Typed
<1>2. port' = [port EXCEPT ![p].bmcr = m, ![p].gen = g]
  BY DEF ResetLoopback
<1>3. /\ UNCHANGED <<Soc, phy5>>
      /\ lost \subseteq lost'
      /\ "reset" \in regs => LostOf(p, {"reset", "egress"})'
  BY LoseGrows DEF ResetLoopback
<1>4. /\ m \in {"boot", "down", "auto", "loop"} /\ g \in BOOLEAN
      /\ "reset" \notin regs => ~g
  BY <1>1 DEF PortState
<1> HIDE DEF m, g
<1>5. [bmcr |-> m, fctl |-> port[p].fctl, count |-> port[p].count, gen |-> g]
         \in PortState
  BY <1>1, <1>4 DEF PortState
<1>6. port' \in [PortPhys -> PortState]
  BY <1>1, <1>2, <1>4, <1>5 DEF PortState
<1>7. port'[p].gen = g /\ \A q \in PortPhys \ {p} : port'[q] = port[q]
  BY <1>1, <1>2 DEF PortState
<1>8. /\ egress' \in [PortPhys -> {"zero", "some", "full"}]
      /\ "reset" \notin regs => egress'[p] = "zero"
      /\ \A q \in PortPhys \ {p} : egress'[q] = egress[q]
  BY DEF ResetLoopback, Typed
<1> QED
  BY <1>3, <1>4, <1>6, <1>7, <1>8 DEF OnlyPortOf, Soc, Silent

\* Starting the generator of port p changes p alone.
LEMMA StartWrites ==
    ASSUME Typed, NEW p \in PortPhys, NEW regs, StartTraffic(p, regs)
    PROVE  OnlyPortOf(p)
<1>1. port \in [PortPhys -> PortState] /\ port[p] \in PortState
  BY DEF Typed
<1>2. PICK g \in BOOLEAN : port' = [port EXCEPT ![p].gen = g]
  BY DEF StartTraffic
<1>3. [bmcr |-> port[p].bmcr, fctl |-> port[p].fctl, count |-> port[p].count,
       gen |-> g] \in PortState
  BY <1>1 DEF PortState
<1>4. port' \in [PortPhys -> PortState]
  BY <1>1, <1>2, <1>3 DEF PortState
<1>5. \A q \in PortPhys \ {p} : port'[q] = port[q]
  BY <1>1, <1>2
<1>6. UNCHANGED <<Soc, phy5>> /\ lost \subseteq lost'
  BY LoseGrows DEF StartTraffic
<1> QED  BY <1>4, <1>5, <1>6 DEF OnlyPortOf, Soc

\* The end of a traffic test powers port p down, or the write was lost.
LEMMA DownWrites ==
    ASSUME Typed, NEW p \in PortPhys, NEW regs, PowerDown(p, regs)
    PROVE  OnlyPortOf(p) /\ Down(p)'
<1> DEFINE m == IF "bmcr" \in regs THEN port[p].bmcr ELSE "down"
<1>1. port \in [PortPhys -> PortState] /\ port[p] \in PortState
  BY DEF Typed
<1>2. port' = [port EXCEPT ![p].bmcr = m]
  BY DEF PowerDown
<1>3. /\ UNCHANGED <<Soc, phy5>>
      /\ lost \subseteq lost'
      /\ "bmcr" \in regs => LostOf(p, {"bmcr"})'
  BY LoseGrows DEF PowerDown
<1>4. /\ m \in {"boot", "down", "auto", "loop"}
      /\ "bmcr" \notin regs => m = "down"
  BY <1>1 DEF PortState
<1> HIDE DEF m
<1>5. [bmcr |-> m, fctl |-> port[p].fctl, count |-> port[p].count,
       gen |-> port[p].gen] \in PortState
  BY <1>1, <1>4 DEF PortState
<1>6. port' \in [PortPhys -> PortState]
  BY <1>1, <1>2, <1>4, <1>5 DEF PortState
<1>7. port'[p].bmcr = m /\ \A q \in PortPhys \ {p} : port'[q] = port[q]
  BY <1>1, <1>2 DEF PortState
<1> QED
  BY <1>3, <1>4, <1>6, <1>7 DEF OnlyPortOf, Soc, Down

\* A PHY is no longer waited for when all its packets were counted, or when its
\* count was not read.
LEMMA WaitReads ==
    ASSUME Typed, NEW a, NEW b, WaitTx(a, b)
    PROVE  /\ mask' \subseteq mask
           /\ \A q \in mask \ mask' :
                 egress[q] = "full" \/ LostOf(q, {"reset", "egress"})'
           /\ turn' \in Nat /\ result' \in BOOLEAN
           /\ \/ pc' = a /\ result' = result
              \/ pc' = b /\ (result' => mask' = {})
           /\ lost \subseteq lost'
           /\ pc = a
           /\ UNCHANGED <<i, bcr, analog, soc_ready, loop, phy5, port, who,
                          attempt, egress, ran>>
<1>1. /\ mask' \subseteq mask /\ lost \subseteq lost'
      /\ \A q \in mask \ mask' :
            egress[q] = "full" \/ LostOf(q, {"reset", "egress"})'
  <2>1. CASE mask' = {q \in mask : egress[q] # "full"} /\ UNCHANGED lost
    BY <2>1
  <2>2. ASSUME NEW p \in mask, Lose(p, {"egress"}),
               mask' \in {{q \in mask : egress[q] # "full"} \cup {p},
                          {q \in mask : egress[q] # "full"} \ {p}}
        PROVE  /\ mask' \subseteq mask /\ lost \subseteq lost'
               /\ \A q \in mask \ mask' :
                     egress[q] = "full" \/ LostOf(q, {"reset", "egress"})'
    <3>1. lost \subseteq lost' /\ LostOf(p, {"reset", "egress"})'
      BY <2>2, LoseGrows
    <3> QED  BY <2>2, <3>1
  <2> QED  BY <2>1, <2>2 DEF WaitTx
<1>2. /\ turn' \in Nat /\ result' \in BOOLEAN
      /\ \/ pc' = a /\ result' = result
         \/ pc' = b /\ (result' => mask' = {})
  <2>1. CASE mask' = {} \/ turn + 1 = Tries
    <3>1. pc' = b /\ turn' = 0 /\ result' = (mask' = {})
      BY <2>1, Zenon DEF WaitTx
    <3>2. result' \in BOOLEAN /\ (result' => mask' = {})
      BY <3>1, Zenon
    <3> QED  BY <3>1, <3>2
  <2>2. CASE ~(mask' = {} \/ turn + 1 = Tries)
    BY <2>2 DEF WaitTx, Typed
  <2> QED  BY <2>1, <2>2
<1> QED  BY <1>1, <1>2 DEF WaitTx, Soc

\* psgmii_analog_cal() touches the SoC side alone.
LEMMA AnalogWrites ==
    ASSUME Shared(FirstAnalogCal) \/ (who = "port" /\ Shared(SecondAnalogCal))
    PROVE  /\ \/ pc = "analog" /\ pc' = "vco"
              \/ pc = "vco" /\ pc' = "prepare"
              \/ /\ pc = "analog2" /\ pc' = "vco2" /\ who = "port"
                 /\ analog' = [pll |-> TRUE, vco |-> "started"]
              \/ /\ pc = "vco2" /\ pc' = "recover" /\ who = "port"
                 /\ analog' = [analog EXCEPT !.vco = "released"]
           /\ lost \subseteq lost' /\ ran' = ran
           /\ UNCHANGED <<i, bcr, soc_ready, loop, phy5, port, who, attempt,
                          mask, turn, result, egress>>
<1>1. CASE Shared(FirstAnalogCal)
  BY <1>1 DEF Shared, FirstAnalogCal, AnalogStart, AnalogRelease, Goto
<1>2. CASE who = "port" /\ Shared(SecondAnalogCal)
  BY <1>2 DEF Shared, SecondAnalogCal, AnalogStart, AnalogRelease, Goto
<1> QED  BY <1>1, <1>2

\* The writes to the PSGMII PHY arrive or are lost.
LEMMA Phy5Writes ==
    ASSUME Typed, NEW b,
           FixRx20 \/ ResetPhy5 \/ ReleasePhy5 \/ FreezeCdr \/ ThawCdr
           \/ FreeRx20(b)
    PROVE  /\ \/ pc = "fix20" /\ pc' = "reset5"
              \/ pc = "reset5" /\ pc' = "release5"
              \/ pc = "release5" /\ pc' = "phy_wait"
              \/ /\ pc = "freeze" /\ pc' = "assert"
                 /\ phy5'.cdr = "frozen" \/ <<"freeze", 5, "cdr">> \in lost'
              \/ /\ pc = "thaw" /\ pc' = "free20"
                 /\ phy5'.cdr = "running" \/ <<"thaw", 5, "cdr">> \in lost'
              \/ /\ pc = "free20" /\ pc' = b /\ phy5'.cdr = phy5.cdr
                 /\ phy5'.mode = "free" \/ <<"free20", 5, "mode">> \in lost'
           /\ lost \subseteq lost'
           /\ UNCHANGED <<i, bcr, analog, soc_ready, loop, port>>
<1> USE DEF Write5, Goto, Soc, Typed, Phy5State
<1>1. CASE FixRx20 \/ ResetPhy5 \/ ReleasePhy5
  BY <1>1, LoseGrows DEF FixRx20, ResetPhy5, ReleasePhy5
<1>2. CASE FreezeCdr
  BY <1>2, LoseGrows DEF FreezeCdr
<1>3. CASE ThawCdr
  BY <1>3, LoseGrows DEF ThawCdr
<1>4. CASE FreeRx20(b)
  BY <1>4, LoseGrows DEF FreeRx20
<1> QED  BY <1>1, <1>2, <1>3, <1>4

-----------------------------------------------------------------------------
(* Types and places                                                        *)

LEMMA TypedNext ==
    ASSUME Typed, Placed, [Next]_vars
    PROVE  Typed'
<1> USE DEF Typed, Labels, OverPorts, Polling, Ending, OnlyPort, OnlyUboot,
            Serial, Parallel
<1>1. CASE Shared(FirstAnalogCal) \/ (who = "port" /\ Shared(SecondAnalogCal))
  <2> USE DEF Shared, FirstAnalogCal, SecondAnalogCal, Goto
  <2>1. ASSUME NEW a, NEW b \in Labels, AnalogStart(a, b)
        PROVE  analog' \in AnalogState /\ UNCHANGED <<i, bcr, soc_ready, loop,
                                                     phy5, port>> /\ pc' = b
    BY <2>1 DEF AnalogStart, AnalogState
  <2>2. ASSUME NEW a, NEW b \in Labels, AnalogRelease(a, b)
        PROVE  analog' \in AnalogState /\ UNCHANGED <<i, bcr, soc_ready, loop,
                                                     phy5, port>> /\ pc' = b
    BY <2>2 DEF AnalogRelease, AnalogState
  <2> QED  BY <1>1, <2>1, <2>2
<1>2. CASE Shared(Prepare)
  <2>1. i \in PortPhys /\ pc = "prepare"
    BY <1>2 DEF Shared, Prepare, PreparePort, Turn, Placed
  <2>2. OnlyPortOf(i)
    BY <1>2, <2>1, PrepareWrites DEF Shared, OnlyPortOf
  <2> QED
    BY <1>2, <2>1, <2>2, PortRange
    DEF Shared, Prepare, PreparePort, Turn, OnlyPortOf
<1>3. ASSUME NEW b \in {"analog2", "loop_on"}, Shared(EssReset(b))
      PROVE  Typed'
  <2> USE DEF Shared, EssReset, Soc, Phy5State
  <2>1. CASE FixRx20 \/ ResetPhy5 \/ ReleasePhy5 \/ FreezeCdr
    BY <1>3, <2>1 DEF FixRx20, ResetPhy5, ReleasePhy5, FreezeCdr, Write5, Goto
  <2>2. CASE ThawCdr \/ FreeRx20(b)
    BY <1>3, <2>2 DEF ThawCdr, FreeRx20, Write5, Goto
  <2>3. CASE WaitPhy5 \/ WaitSoc
    BY <1>3, <2>3, BoundAssumption DEF WaitPhy5, WaitSoc, Poll
  <2>4. CASE AssertEss \/ DeassertEss
    <3>1. AnalogReset \in AnalogState
      BY DEF AnalogReset, AnalogState
    <3> QED  BY <1>3, <2>4, <3>1 DEF AssertEss, DeassertEss, Goto
  <2> QED  BY <1>3, <2>1, <2>2, <2>3, <2>4
<1>4. CASE Shared(Recover)
  <2>1. i \in PortPhys /\ pc = "recover"
    BY <1>4 DEF Shared, Recover, RecoverPort, Turn, Placed
  <2>2. OnlyPortOf(i)
    BY <1>4, <2>1, RecoverWrites DEF Shared, OnlyPortOf
  <2> QED
    BY <1>4, <2>1, <2>2, PortRange
    DEF Shared, Recover, RecoverPort, Turn, OnlyPortOf
<1>5. CASE Shared(LoopbackOff) \/ LoopbackOn
  BY <1>5 DEF Shared, LoopbackOff, LoopbackOn, Goto, testVars
<1>6. CASE SerialTest
  <2>0. i \in PortPhys
    BY <1>6 DEF SerialTest, SerialReset, SerialStart, SerialDown, WaitTx,
                WaitLink, Goto, Placed
  <2>1. ASSUME NEW regs, SerialReset(regs)  PROVE Typed'
    BY <2>0, <2>1, ResetWrites DEF SerialReset, Goto, OnlyPortOf
  <2>2. ASSUME NEW regs, SerialStart(regs)  PROVE Typed'
    BY <2>0, <2>2, StartWrites DEF SerialStart, Goto, OnlyPortOf
  <2>3. ASSUME NEW regs, SerialDown(regs)  PROVE Typed'
    BY <2>0, <2>3, DownWrites DEF SerialDown, OnlyPortOf, testVars
  <2>4. CASE WaitTx("s_wait", "s_down")
    BY <2>4, WaitReads
  <2>5. CASE WaitLink("s_link", "s_start")
    BY <2>5 DEF WaitLink, Goto, Soc, testVars
  <2> QED  BY <1>6, <2>1, <2>2, <2>3, <2>4, <2>5 DEF SerialTest
<1>7. CASE ParallelTest
  <2>1. ASSUME NEW regs, ParallelReset(regs)  PROVE Typed'
    BY <2>1, ResetWrites DEF ParallelReset, Turn, OnlyPortOf, Placed
  <2>2. ASSUME NEW regs, ParallelStart(regs)  PROVE Typed'
    BY <2>2, StartWrites DEF ParallelStart, Turn, OnlyPortOf, Placed
  <2>3. ASSUME NEW regs, ParallelDown(regs)  PROVE Typed'
    BY <2>3, DownWrites DEF ParallelDown, Turn, OnlyPortOf, Placed, testVars
  <2>4. CASE WaitTx("p_wait", "p_down")
    BY <2>4, WaitReads
  <2>5. CASE WaitLink("p_link", "p_start")
    BY <2>5 DEF WaitLink, Goto, Soc, testVars
  <2> QED  BY <1>7, <2>1, <2>2, <2>3, <2>4, <2>5 DEF ParallelTest
<1>8. CASE Judge
  BY <1>8 DEF Judge, Soc
<1>9. CASE Hardware
  <2>1. ASSUME NEW p \in PortPhys, Traffic(p)  PROVE Typed'
    BY <2>1 DEF Traffic, psgmiiVars
  <2>2. CASE Shared(Phy5Locks)
    <3>1. phy5' \in Phy5State
      BY <2>2 DEF Shared, Phy5Locks, Phy5State
    <3> QED  BY <2>2, <3>1 DEF Shared, Phy5Locks, Soc
  <2>3. CASE Shared(SocLocks)
    BY <2>3 DEF Shared, SocLocks
  <2> QED  BY <1>9, <2>1, <2>2, <2>3 DEF Hardware
<1>10. CASE UNCHANGED vars
  BY <1>10 DEF vars, psgmiiVars, testVars
<1> QED
  BY StepsOfNext, <1>1, <1>2, <1>3, <1>4, <1>5, <1>6, <1>7, <1>8, <1>9, <1>10

\* Each step leads to the label that follows in its own self-test.
LEMMA PlacedNext ==
    ASSUME Typed, Placed, [Next]_vars
    PROVE  Placed'
<1> USE DEF Placed, OverPorts, Polling, Ending,
            OnlyPort, OnlyUboot, Serial, Parallel
<1>1. CASE Shared(FirstAnalogCal) \/ (who = "port" /\ Shared(SecondAnalogCal))
  <2>1. i = 0
    BY <1>1, AnalogWrites DEF Placed, OverPorts, Polling, Serial
  <2> QED  BY <1>1, <2>1, AnalogWrites, PortRange
<1>2. CASE Shared(Prepare)
  <2>1. i \in PortPhys /\ pc = "prepare"
    BY <1>2 DEF Shared, Prepare, PreparePort, Turn, Placed, OverPorts
  <2>2. OnlyPortOf(i) /\ \A q \in PortPhys : q = i => Down(q)'
    BY <1>2, <2>1, PrepareWrites DEF Shared, OnlyPortOf
  <2> QED
    BY <1>2, <2>1, <2>2, PortRange
    DEF Shared, Prepare, PreparePort, Turn, OnlyPortOf
<1>3. ASSUME NEW b \in {"analog2", "loop_on"},
             b = "analog2" <=> who = "port", Shared(EssReset(b))
      PROVE  Placed'
  <2> USE DEF Shared, EssReset, Soc, Goto
  <2>1. CASE FixRx20 \/ ResetPhy5 \/ ReleasePhy5 \/ FreezeCdr \/ ThawCdr
                \/ FreeRx20(b)
    BY <1>3, <2>1, Phy5Writes DEF Typed
  <2>3. CASE WaitPhy5 \/ WaitSoc
    BY <1>3, <2>3, LoseGrows DEF WaitPhy5, WaitSoc, Poll
  <2>4. CASE AssertEss \/ DeassertEss
    BY <1>3, <2>4 DEF AssertEss, DeassertEss
  <2> QED  BY <1>3, <2>1, <2>3, <2>4
<1>4. CASE Shared(Recover)
  <2>1. i \in PortPhys /\ pc = "recover"
    BY <1>4 DEF Shared, Recover, RecoverPort, Turn, Placed, OverPorts
  <2>2. OnlyPortOf(i) /\ \A q \in PortPhys : q = i => IsBack(q)'
    BY <1>4, <2>1, RecoverWrites DEF Shared, OnlyPortOf
  <2> QED
    BY <1>4, <2>1, <2>2, PortRange
    DEF Shared, Recover, RecoverPort, Turn, OnlyPortOf
<1>5. CASE Shared(LoopbackOff) \/ LoopbackOn
  BY <1>5, PortRange DEF Shared, LoopbackOff, LoopbackOn, Goto, testVars
<1>6. CASE SerialTest
  <2>0. i \in PortPhys
    BY <1>6 DEF SerialTest, SerialReset, SerialStart, SerialDown, WaitTx,
                WaitLink, Goto, Placed, OverPorts, Serial
  <2>1. ASSUME NEW regs, SerialReset(regs)  PROVE Placed'
    BY <2>0, <2>1, ResetWrites DEF SerialReset, Goto, OnlyPortOf
  <2>2. ASSUME NEW regs, SerialStart(regs)  PROVE Placed'
    BY <2>0, <2>2, StartWrites DEF SerialStart, Goto, OnlyPortOf
  <2>3. ASSUME NEW regs, SerialDown(regs)  PROVE Placed'
    BY <2>0, <2>3, DownWrites, PortRange DEF SerialDown, OnlyPortOf, testVars
  <2>4. CASE WaitTx("s_wait", "s_down")
    BY <2>0, <2>4, WaitReads
  <2>5. CASE WaitLink("s_link", "s_start")
    BY <2>0, <2>5 DEF WaitLink, Goto, Soc, testVars
  <2> QED  BY <1>6, <2>1, <2>2, <2>3, <2>4, <2>5 DEF SerialTest
<1>7. CASE ParallelTest
  <2>0. /\ pc \in {"p_reset", "p_start", "p_down"} => i \in PortPhys
        /\ pc \in {"p_link", "p_wait"} => i = 0
    BY DEF Placed, OverPorts, Serial, Polling
  <2>1. ASSUME NEW regs, ParallelReset(regs)  PROVE Placed'
    BY <2>0, <2>1, ResetWrites, PortRange
    DEF ParallelReset, Turn, OnlyPortOf
  <2>2. ASSUME NEW regs, ParallelStart(regs)  PROVE Placed'
    BY <2>0, <2>2, StartWrites, PortRange
    DEF ParallelStart, Turn, OnlyPortOf
  <2>3. ASSUME NEW regs, ParallelDown(regs)  PROVE Placed'
    <3>1. pc = "p_down" /\ i \in PortPhys /\ OnlyPortOf(i)
      BY <2>0, <2>3, DownWrites DEF ParallelDown, Turn
    <3>2. \A q \in PortPhys : q = i => Down(q)'
      BY <2>3, DownWrites DEF ParallelDown
    <3>3. \/ i = NumPorts - 1 /\ pc' = "judge" /\ i' = 0
          \/ i # NumPorts - 1 /\ pc' = "p_down" /\ i' = i + 1
      BY <2>3 DEF ParallelDown, Turn
    <3>4. UNCHANGED <<who, testVars>>
      BY <2>3 DEF ParallelDown
    <3> QED
      BY <3>1, <3>2, <3>3, <3>4, PortRange DEF OnlyPortOf, testVars
  <2>4. CASE WaitTx("p_wait", "p_down")
    BY <2>0, <2>4, WaitReads, PortRange
  <2>5. CASE WaitLink("p_link", "p_start")
    BY <2>0, <2>5, PortRange DEF WaitLink, Goto, Soc, testVars
  <2> QED  BY <1>7, <2>1, <2>2, <2>3, <2>4, <2>5 DEF ParallelTest
<1>8. CASE Judge
  <2>1. i = 0 /\ who = "uboot"
    BY <1>8 DEF Judge, Placed, OverPorts, Polling, OnlyUboot, Serial
  <2> QED  BY <1>8, <2>1, PortRange DEF Judge, Soc
<1>9. CASE Hardware
  <2>1. ASSUME NEW q \in PortPhys, Traffic(q)  PROVE Placed'
    BY <2>1 DEF Traffic, psgmiiVars
  <2>2. CASE Shared(Phy5Locks)
    BY <2>2 DEF Shared, Phy5Locks, Soc
  <2>3. CASE Shared(SocLocks)
    BY <2>3 DEF Shared, SocLocks
  <2> QED  BY <1>9, <2>1, <2>2, <2>3 DEF Hardware
<1>10. CASE UNCHANGED vars
  BY <1>10 DEF vars, psgmiiVars, testVars
<1> QED
  BY StepsOfNext, <1>1, <1>2, <1>3, <1>4, <1>5, <1>6, <1>7, <1>8, <1>9, <1>10

\* A port PHY is up only where the code has it so, or by a lost write.
LEMMA PoweredDownNext ==
    ASSUME Typed, Placed, PoweredDown, [Next]_vars
    PROVE  PoweredDown'
<1> SUFFICES ASSUME NEW p \in PortPhys  PROVE (MayBeUp(p) \/ Down(p))'
  BY DEF PoweredDown
<1>0. /\ (MayBeUp(p) \/ Down(p))
      /\ 0 <= p /\ ~(p < 0)
  BY DEF PoweredDown, PortPhys
<1> USE <1>0, OtherPortKept DEF MayBeUp, Ending, Serial
<1>1. CASE Shared(FirstAnalogCal) \/ (who = "port" /\ Shared(SecondAnalogCal))
  <2>1. i = 0
    BY <1>1, AnalogWrites DEF Placed, OverPorts, Polling, Serial
  <2> QED  BY <1>1, <2>1, AnalogWrites
<1>2. CASE Shared(Prepare)
  <2>1. i \in PortPhys /\ pc = "prepare"
    BY <1>2 DEF Shared, Prepare, PreparePort, Turn, Placed, OverPorts
  <2>2. OnlyPortOf(i) /\ \A q \in PortPhys : q = i => Down(q)'
    BY <1>2, <2>1, PrepareWrites DEF Shared, OnlyPortOf
  <2> QED
    BY <1>2, <2>1, <2>2, PortRange
    DEF Shared, Prepare, PreparePort, Turn, OnlyPortOf
<1>3. ASSUME NEW b \in {"analog2", "loop_on"},
             b = "analog2" <=> who = "port", Shared(EssReset(b))
      PROVE  (MayBeUp(p) \/ Down(p))'
  <2> USE DEF Shared, EssReset, Soc, Goto
  <2>1. CASE FixRx20 \/ ResetPhy5 \/ ReleasePhy5 \/ FreezeCdr \/ ThawCdr
                \/ FreeRx20(b)
    BY <1>3, <2>1, Phy5Writes
  <2>3. CASE WaitPhy5 \/ WaitSoc
    BY <1>3, <2>3, LoseGrows DEF WaitPhy5, WaitSoc, Poll
  <2>4. CASE AssertEss \/ DeassertEss
    BY <1>3, <2>4 DEF AssertEss, DeassertEss
  <2> QED  BY <1>3, <2>1, <2>3, <2>4
<1>4. CASE Shared(Recover)
  <2>1. i \in PortPhys /\ pc = "recover"
    BY <1>4 DEF Shared, Recover, RecoverPort, Turn, Placed, OverPorts
  <2>2. OnlyPortOf(i) /\ \A q \in PortPhys : q = i => IsBack(q)'
    BY <1>4, <2>1, RecoverWrites DEF Shared, OnlyPortOf
  <2> QED
    BY <1>4, <2>1, <2>2, PortRange
    DEF Shared, Recover, RecoverPort, Turn, OnlyPortOf
<1>5. CASE Shared(LoopbackOff) \/ LoopbackOn
  BY <1>5 DEF Shared, LoopbackOff, LoopbackOn, Goto, testVars
<1>6. CASE SerialTest
  <2>0. i \in PortPhys
    BY <1>6 DEF SerialTest, SerialReset, SerialStart, SerialDown, WaitTx,
                WaitLink, Goto, Placed, OverPorts, Serial
  <2>1. ASSUME NEW regs, SerialReset(regs)  PROVE (MayBeUp(p) \/ Down(p))'
    BY <2>0, <2>1, ResetWrites DEF SerialReset, Goto, OnlyPortOf
  <2>2. ASSUME NEW regs, SerialStart(regs)  PROVE (MayBeUp(p) \/ Down(p))'
    BY <2>0, <2>2, StartWrites DEF SerialStart, Goto, OnlyPortOf
  <2>3. ASSUME NEW regs, SerialDown(regs)  PROVE (MayBeUp(p) \/ Down(p))'
    BY <2>0, <2>3, DownWrites, PortRange DEF SerialDown, OnlyPortOf, testVars
  <2>4. CASE WaitTx("s_wait", "s_down")
    BY <2>0, <2>4, WaitReads
  <2>5. CASE WaitLink("s_link", "s_start")
    BY <2>0, <2>5 DEF WaitLink, Goto, Soc, testVars
  <2> QED  BY <1>6, <2>1, <2>2, <2>3, <2>4, <2>5 DEF SerialTest
<1>7. CASE ParallelTest
  <2>0. /\ pc \in {"p_reset", "p_start", "p_down"} => i \in PortPhys
        /\ pc \in {"p_link", "p_wait"} => i = 0
    BY DEF Placed, OverPorts, Serial, Polling
  <2>1. ASSUME NEW regs, ParallelReset(regs)  PROVE (MayBeUp(p) \/ Down(p))'
    BY <2>0, <2>1, ResetWrites, PortRange
    DEF ParallelReset, Turn, OnlyPortOf
  <2>2. ASSUME NEW regs, ParallelStart(regs)  PROVE (MayBeUp(p) \/ Down(p))'
    BY <2>0, <2>2, StartWrites, PortRange
    DEF ParallelStart, Turn, OnlyPortOf
  <2>3. ASSUME NEW regs, ParallelDown(regs)  PROVE (MayBeUp(p) \/ Down(p))'
    <3>1. pc = "p_down" /\ i \in PortPhys /\ OnlyPortOf(i)
      BY <2>0, <2>3, DownWrites DEF ParallelDown, Turn
    <3>2. \A q \in PortPhys : q = i => Down(q)'
      BY <2>3, DownWrites DEF ParallelDown
    <3>3. \/ i = NumPorts - 1 /\ pc' = "judge" /\ i' = 0
          \/ i # NumPorts - 1 /\ pc' = "p_down" /\ i' = i + 1
      BY <2>3 DEF ParallelDown, Turn
    <3>4. p # i /\ Down(p) => Down(p)'
      BY <3>1 DEF OnlyPortOf
    <3>5. /\ p >= i => p >= i + 1 \/ p = i
          /\ i = NumPorts - 1 /\ p >= i => p = i
      BY <3>1, PortAssumption DEF PortPhys
    <3> QED  BY <3>1, <3>2, <3>3, <3>4, <3>5
  <2>4. CASE WaitTx("p_wait", "p_down")
    BY <2>0, <2>4, WaitReads, PortRange
  <2>5. CASE WaitLink("p_link", "p_start")
    BY <2>0, <2>5, PortRange DEF WaitLink, Goto, Soc, testVars
  <2> QED  BY <1>7, <2>1, <2>2, <2>3, <2>4, <2>5 DEF ParallelTest
<1>8. CASE Judge
  <2>1. i = 0 /\ who = "uboot"
    BY <1>8 DEF Judge, Placed, OverPorts, Polling, OnlyUboot, Serial
  <2> QED  BY <1>8, <2>1 DEF Judge, Soc
<1>9. CASE Hardware
  <2>1. ASSUME NEW q \in PortPhys, Traffic(q)  PROVE (MayBeUp(p) \/ Down(p))'
    BY <2>1 DEF Traffic, psgmiiVars
  <2>2. CASE Shared(Phy5Locks)
    BY <2>2 DEF Shared, Phy5Locks, Soc
  <2>3. CASE Shared(SocLocks)
    BY <2>3 DEF Shared, SocLocks
  <2> QED  BY <1>9, <2>1, <2>2, <2>3 DEF Hardware
<1>10. CASE UNCHANGED vars
  BY <1>10 DEF vars, psgmiiVars, testVars
<1> QED
  BY StepsOfNext, <1>1, <1>2, <1>3, <1>4, <1>5, <1>6, <1>7, <1>8, <1>9, <1>10

\* The CDR is frozen before the reset and thawed after it.
LEMMA SerDesNext ==
    ASSUME Typed, Placed, SerDes, [Next]_vars
    PROVE  SerDes'
<1> USE DEF SerDes, Thawed, Phy5State, OverPorts, Polling, Ending,
            OnlyPort, OnlyUboot, Serial, Parallel
<1>1. CASE Shared(FirstAnalogCal) \/ (who = "port" /\ Shared(SecondAnalogCal))
  <2>1. i = 0
    BY <1>1, AnalogWrites DEF Placed, OverPorts, Polling, Serial
  <2> QED  BY <1>1, <2>1, AnalogWrites, PortRange
<1>2. CASE Shared(Prepare)
  <2>1. i \in PortPhys /\ pc = "prepare"
    BY <1>2 DEF Shared, Prepare, PreparePort, Turn, Placed, OverPorts
  <2>2. OnlyPortOf(i) /\ \A q \in PortPhys : q = i => Down(q)'
    BY <1>2, <2>1, PrepareWrites DEF Shared, OnlyPortOf
  <2> QED
    BY <1>2, <2>1, <2>2, PortRange
    DEF Shared, Prepare, PreparePort, Turn, OnlyPortOf
<1>3. ASSUME NEW b \in {"analog2", "loop_on"},
             b = "analog2" <=> who = "port", Shared(EssReset(b))
      PROVE  SerDes'
  <2> USE DEF Shared, EssReset, Soc, Goto
  <2>1. CASE FixRx20 \/ ResetPhy5 \/ ReleasePhy5 \/ FreezeCdr \/ ThawCdr
                \/ FreeRx20(b)
    BY <1>3, <2>1, Phy5Writes
  <2>3. CASE WaitPhy5 \/ WaitSoc
    BY <1>3, <2>3, LoseGrows DEF WaitPhy5, WaitSoc, Poll
  <2>4. CASE AssertEss \/ DeassertEss
    BY <1>3, <2>4 DEF AssertEss, DeassertEss
  <2> QED  BY <1>3, <2>1, <2>3, <2>4
<1>4. CASE Shared(Recover)
  <2>1. i \in PortPhys /\ pc = "recover"
    BY <1>4 DEF Shared, Recover, RecoverPort, Turn, Placed, OverPorts
  <2>2. OnlyPortOf(i) /\ \A q \in PortPhys : q = i => IsBack(q)'
    BY <1>4, <2>1, RecoverWrites DEF Shared, OnlyPortOf
  <2> QED
    BY <1>4, <2>1, <2>2, PortRange
    DEF Shared, Recover, RecoverPort, Turn, OnlyPortOf
<1>5. CASE Shared(LoopbackOff) \/ LoopbackOn
  BY <1>5, PortRange DEF Shared, LoopbackOff, LoopbackOn, Goto, testVars
<1>6. CASE SerialTest
  <2>0. i \in PortPhys
    BY <1>6 DEF SerialTest, SerialReset, SerialStart, SerialDown, WaitTx,
                WaitLink, Goto, Placed, OverPorts, Serial
  <2>1. ASSUME NEW regs, SerialReset(regs)  PROVE SerDes'
    BY <2>0, <2>1, ResetWrites DEF SerialReset, Goto, OnlyPortOf
  <2>2. ASSUME NEW regs, SerialStart(regs)  PROVE SerDes'
    BY <2>0, <2>2, StartWrites DEF SerialStart, Goto, OnlyPortOf
  <2>3. ASSUME NEW regs, SerialDown(regs)  PROVE SerDes'
    BY <2>0, <2>3, DownWrites, PortRange DEF SerialDown, OnlyPortOf, testVars
  <2>4. CASE WaitTx("s_wait", "s_down")
    BY <2>0, <2>4, WaitReads
  <2>5. CASE WaitLink("s_link", "s_start")
    BY <2>0, <2>5 DEF WaitLink, Goto, Soc, testVars
  <2> QED  BY <1>6, <2>1, <2>2, <2>3, <2>4, <2>5 DEF SerialTest
<1>7. CASE ParallelTest
  <2>0. /\ pc \in {"p_reset", "p_start", "p_down"} => i \in PortPhys
        /\ pc \in {"p_link", "p_wait"} => i = 0
    BY DEF Placed, OverPorts, Serial, Polling
  <2>1. ASSUME NEW regs, ParallelReset(regs)  PROVE SerDes'
    BY <2>0, <2>1, ResetWrites, PortRange
    DEF ParallelReset, Turn, OnlyPortOf
  <2>2. ASSUME NEW regs, ParallelStart(regs)  PROVE SerDes'
    BY <2>0, <2>2, StartWrites, PortRange
    DEF ParallelStart, Turn, OnlyPortOf
  <2>3. ASSUME NEW regs, ParallelDown(regs)  PROVE SerDes'
    <3>1. pc = "p_down" /\ i \in PortPhys /\ OnlyPortOf(i)
      BY <2>0, <2>3, DownWrites DEF ParallelDown, Turn
    <3>2. \A q \in PortPhys : q = i => Down(q)'
      BY <2>3, DownWrites DEF ParallelDown
    <3>3. \/ i = NumPorts - 1 /\ pc' = "judge" /\ i' = 0
          \/ i # NumPorts - 1 /\ pc' = "p_down" /\ i' = i + 1
      BY <2>3 DEF ParallelDown, Turn
    <3>4. UNCHANGED <<who, testVars>>
      BY <2>3 DEF ParallelDown
    <3> QED
      BY <3>1, <3>2, <3>3, <3>4, PortRange DEF OnlyPortOf, testVars
  <2>4. CASE WaitTx("p_wait", "p_down")
    BY <2>0, <2>4, WaitReads, PortRange
  <2>5. CASE WaitLink("p_link", "p_start")
    BY <2>0, <2>5, PortRange DEF WaitLink, Goto, Soc, testVars
  <2> QED  BY <1>7, <2>1, <2>2, <2>3, <2>4, <2>5 DEF ParallelTest
<1>8. CASE Judge
  <2>1. i = 0 /\ who = "uboot"
    BY <1>8 DEF Judge, Placed, OverPorts, Polling, OnlyUboot, Serial
  <2> QED  BY <1>8, <2>1, PortRange DEF Judge, Soc
<1>9. CASE Hardware
  <2>1. ASSUME NEW q \in PortPhys, Traffic(q)  PROVE SerDes'
    BY <2>1 DEF Traffic, psgmiiVars
  <2>2. CASE Shared(Phy5Locks)
    BY <2>2 DEF Shared, Phy5Locks, Soc
  <2>3. CASE Shared(SocLocks)
    BY <2>3 DEF Shared, SocLocks
  <2> QED  BY <1>9, <2>1, <2>2, <2>3 DEF Hardware
<1>10. CASE UNCHANGED vars
  BY <1>10 DEF vars, psgmiiVars, testVars
<1> QED
  BY StepsOfNext, <1>1, <1>2, <1>3, <1>4, <1>5, <1>6, <1>7, <1>8, <1>9, <1>10

\* The port calibrates again after the reset; U-Boot's loopback is on in its tests.
LEMMA CalibratedNext ==
    ASSUME Typed, Placed, Calibrated, [Next]_vars
    PROVE  Calibrated'
<1> USE DEF Calibrated, AnalogDone, AnalogState, OverPorts, Polling, Ending,
            OnlyPort, OnlyUboot, Serial, Parallel
<1>1. CASE Shared(FirstAnalogCal) \/ (who = "port" /\ Shared(SecondAnalogCal))
  <2>1. i = 0
    BY <1>1, AnalogWrites DEF Placed, OverPorts, Polling, Serial
  <2> QED  BY <1>1, <2>1, AnalogWrites, PortRange
<1>2. CASE Shared(Prepare)
  <2>1. i \in PortPhys /\ pc = "prepare"
    BY <1>2 DEF Shared, Prepare, PreparePort, Turn, Placed, OverPorts
  <2>2. OnlyPortOf(i) /\ \A q \in PortPhys : q = i => Down(q)'
    BY <1>2, <2>1, PrepareWrites DEF Shared, OnlyPortOf
  <2> QED
    BY <1>2, <2>1, <2>2, PortRange
    DEF Shared, Prepare, PreparePort, Turn, OnlyPortOf
<1>3. ASSUME NEW b \in {"analog2", "loop_on"},
             b = "analog2" <=> who = "port", Shared(EssReset(b))
      PROVE  Calibrated'
  <2> USE DEF Shared, EssReset, Soc, Goto
  <2>1. CASE FixRx20 \/ ResetPhy5 \/ ReleasePhy5 \/ FreezeCdr \/ ThawCdr
                \/ FreeRx20(b)
    BY <1>3, <2>1, Phy5Writes
  <2>3. CASE WaitPhy5 \/ WaitSoc
    BY <1>3, <2>3, LoseGrows DEF WaitPhy5, WaitSoc, Poll
  <2>4. CASE AssertEss \/ DeassertEss
    BY <1>3, <2>4 DEF AssertEss, DeassertEss
  <2> QED  BY <1>3, <2>1, <2>3, <2>4
<1>4. CASE Shared(Recover)
  <2>1. i \in PortPhys /\ pc = "recover"
    BY <1>4 DEF Shared, Recover, RecoverPort, Turn, Placed, OverPorts
  <2>2. OnlyPortOf(i) /\ \A q \in PortPhys : q = i => IsBack(q)'
    BY <1>4, <2>1, RecoverWrites DEF Shared, OnlyPortOf
  <2> QED
    BY <1>4, <2>1, <2>2, PortRange
    DEF Shared, Recover, RecoverPort, Turn, OnlyPortOf
<1>5. CASE Shared(LoopbackOff) \/ LoopbackOn
  BY <1>5, PortRange DEF Shared, LoopbackOff, LoopbackOn, Goto, testVars
<1>6. CASE SerialTest
  <2>0. i \in PortPhys
    BY <1>6 DEF SerialTest, SerialReset, SerialStart, SerialDown, WaitTx,
                WaitLink, Goto, Placed, OverPorts, Serial
  <2>1. ASSUME NEW regs, SerialReset(regs)  PROVE Calibrated'
    BY <2>0, <2>1, ResetWrites DEF SerialReset, Goto, OnlyPortOf
  <2>2. ASSUME NEW regs, SerialStart(regs)  PROVE Calibrated'
    BY <2>0, <2>2, StartWrites DEF SerialStart, Goto, OnlyPortOf
  <2>3. ASSUME NEW regs, SerialDown(regs)  PROVE Calibrated'
    BY <2>0, <2>3, DownWrites, PortRange DEF SerialDown, OnlyPortOf, testVars
  <2>4. CASE WaitTx("s_wait", "s_down")
    BY <2>0, <2>4, WaitReads
  <2>5. CASE WaitLink("s_link", "s_start")
    BY <2>0, <2>5 DEF WaitLink, Goto, Soc, testVars
  <2> QED  BY <1>6, <2>1, <2>2, <2>3, <2>4, <2>5 DEF SerialTest
<1>7. CASE ParallelTest
  <2>0. /\ pc \in {"p_reset", "p_start", "p_down"} => i \in PortPhys
        /\ pc \in {"p_link", "p_wait"} => i = 0
    BY DEF Placed, OverPorts, Serial, Polling
  <2>1. ASSUME NEW regs, ParallelReset(regs)  PROVE Calibrated'
    BY <2>0, <2>1, ResetWrites, PortRange
    DEF ParallelReset, Turn, OnlyPortOf
  <2>2. ASSUME NEW regs, ParallelStart(regs)  PROVE Calibrated'
    BY <2>0, <2>2, StartWrites, PortRange
    DEF ParallelStart, Turn, OnlyPortOf
  <2>3. ASSUME NEW regs, ParallelDown(regs)  PROVE Calibrated'
    <3>1. pc = "p_down" /\ i \in PortPhys /\ OnlyPortOf(i)
      BY <2>0, <2>3, DownWrites DEF ParallelDown, Turn
    <3>2. \A q \in PortPhys : q = i => Down(q)'
      BY <2>3, DownWrites DEF ParallelDown
    <3>3. \/ i = NumPorts - 1 /\ pc' = "judge" /\ i' = 0
          \/ i # NumPorts - 1 /\ pc' = "p_down" /\ i' = i + 1
      BY <2>3 DEF ParallelDown, Turn
    <3>4. UNCHANGED <<who, testVars>>
      BY <2>3 DEF ParallelDown
    <3> QED
      BY <3>1, <3>2, <3>3, <3>4, PortRange DEF OnlyPortOf, testVars
  <2>4. CASE WaitTx("p_wait", "p_down")
    BY <2>0, <2>4, WaitReads, PortRange
  <2>5. CASE WaitLink("p_link", "p_start")
    BY <2>0, <2>5, PortRange DEF WaitLink, Goto, Soc, testVars
  <2> QED  BY <1>7, <2>1, <2>2, <2>3, <2>4, <2>5 DEF ParallelTest
<1>8. CASE Judge
  <2>1. i = 0 /\ who = "uboot"
    BY <1>8 DEF Judge, Placed, OverPorts, Polling, OnlyUboot, Serial
  <2> QED  BY <1>8, <2>1, PortRange DEF Judge, Soc
<1>9. CASE Hardware
  <2>1. ASSUME NEW q \in PortPhys, Traffic(q)  PROVE Calibrated'
    BY <2>1 DEF Traffic, psgmiiVars
  <2>2. CASE Shared(Phy5Locks)
    BY <2>2 DEF Shared, Phy5Locks, Soc
  <2>3. CASE Shared(SocLocks)
    BY <2>3 DEF Shared, SocLocks
  <2> QED  BY <1>9, <2>1, <2>2, <2>3 DEF Hardware
<1>10. CASE UNCHANGED vars
  BY <1>10 DEF vars, psgmiiVars, testVars
<1> QED
  BY StepsOfNext, <1>1, <1>2, <1>3, <1>4, <1>5, <1>6, <1>7, <1>8, <1>9, <1>10

\* The recovery is done with the ports below the index.
LEMMA BroughtBackNext ==
    ASSUME Typed, Placed, BroughtBack, [Next]_vars
    PROVE  BroughtBack'
<1> SUFFICES ASSUME NEW p \in PortPhys  PROVE (Back(p) => IsBack(p))'
  BY DEF BroughtBack
<1>0. /\ (Back(p) => IsBack(p))
      /\ 0 <= p /\ ~(p < 0)
  BY DEF BroughtBack, PortPhys
<1> USE <1>0, OtherPortKept DEF Back
<1>1. CASE Shared(FirstAnalogCal) \/ (who = "port" /\ Shared(SecondAnalogCal))
  <2>1. i = 0
    BY <1>1, AnalogWrites DEF Placed, OverPorts, Polling, Serial
  <2> QED  BY <1>1, <2>1, AnalogWrites
<1>2. CASE Shared(Prepare)
  <2>1. i \in PortPhys /\ pc = "prepare"
    BY <1>2 DEF Shared, Prepare, PreparePort, Turn, Placed, OverPorts
  <2>2. OnlyPortOf(i) /\ \A q \in PortPhys : q = i => Down(q)'
    BY <1>2, <2>1, PrepareWrites DEF Shared, OnlyPortOf
  <2> QED
    BY <1>2, <2>1, <2>2, PortRange
    DEF Shared, Prepare, PreparePort, Turn, OnlyPortOf
<1>3. ASSUME NEW b \in {"analog2", "loop_on"},
             b = "analog2" <=> who = "port", Shared(EssReset(b))
      PROVE  (Back(p) => IsBack(p))'
  <2> USE DEF Shared, EssReset, Soc, Goto
  <2>1. CASE FixRx20 \/ ResetPhy5 \/ ReleasePhy5 \/ FreezeCdr \/ ThawCdr
                \/ FreeRx20(b)
    BY <1>3, <2>1, Phy5Writes
  <2>3. CASE WaitPhy5 \/ WaitSoc
    BY <1>3, <2>3, LoseGrows DEF WaitPhy5, WaitSoc, Poll
  <2>4. CASE AssertEss \/ DeassertEss
    BY <1>3, <2>4 DEF AssertEss, DeassertEss
  <2> QED  BY <1>3, <2>1, <2>3, <2>4
<1>4. CASE Shared(Recover)
  <2>1. i \in PortPhys /\ pc = "recover"
    BY <1>4 DEF Shared, Recover, RecoverPort, Turn, Placed, OverPorts
  <2>2. OnlyPortOf(i) /\ \A q \in PortPhys : q = i => IsBack(q)'
    BY <1>4, <2>1, RecoverWrites DEF Shared, OnlyPortOf
  <2> QED
    BY <1>4, <2>1, <2>2, PortRange
    DEF Shared, Recover, RecoverPort, Turn, OnlyPortOf
<1>5. CASE Shared(LoopbackOff) \/ LoopbackOn
  BY <1>5 DEF Shared, LoopbackOff, LoopbackOn, Goto, testVars
<1>6. CASE SerialTest
  <2>0. i \in PortPhys
    BY <1>6 DEF SerialTest, SerialReset, SerialStart, SerialDown, WaitTx,
                WaitLink, Goto, Placed, OverPorts, Serial
  <2>1. ASSUME NEW regs, SerialReset(regs)  PROVE (Back(p) => IsBack(p))'
    BY <2>0, <2>1, ResetWrites DEF SerialReset, Goto, OnlyPortOf
  <2>2. ASSUME NEW regs, SerialStart(regs)  PROVE (Back(p) => IsBack(p))'
    BY <2>0, <2>2, StartWrites DEF SerialStart, Goto, OnlyPortOf
  <2>3. ASSUME NEW regs, SerialDown(regs)  PROVE (Back(p) => IsBack(p))'
    BY <2>0, <2>3, DownWrites, PortRange DEF SerialDown, OnlyPortOf, testVars
  <2>4. CASE WaitTx("s_wait", "s_down")
    BY <2>0, <2>4, WaitReads
  <2>5. CASE WaitLink("s_link", "s_start")
    BY <2>0, <2>5 DEF WaitLink, Goto, Soc, testVars
  <2> QED  BY <1>6, <2>1, <2>2, <2>3, <2>4, <2>5 DEF SerialTest
<1>7. CASE ParallelTest
  <2>0. /\ pc \in {"p_reset", "p_start", "p_down"} => i \in PortPhys
        /\ pc \in {"p_link", "p_wait"} => i = 0
    BY DEF Placed, OverPorts, Serial, Polling
  <2>1. ASSUME NEW regs, ParallelReset(regs)  PROVE (Back(p) => IsBack(p))'
    BY <2>0, <2>1, ResetWrites, PortRange
    DEF ParallelReset, Turn, OnlyPortOf
  <2>2. ASSUME NEW regs, ParallelStart(regs)  PROVE (Back(p) => IsBack(p))'
    BY <2>0, <2>2, StartWrites, PortRange
    DEF ParallelStart, Turn, OnlyPortOf
  <2>3. ASSUME NEW regs, ParallelDown(regs)  PROVE (Back(p) => IsBack(p))'
    <3>1. pc = "p_down" /\ i \in PortPhys /\ OnlyPortOf(i)
      BY <2>0, <2>3, DownWrites DEF ParallelDown, Turn
    <3>2. \A q \in PortPhys : q = i => Down(q)'
      BY <2>3, DownWrites DEF ParallelDown
    <3>3. \/ i = NumPorts - 1 /\ pc' = "judge" /\ i' = 0
          \/ i # NumPorts - 1 /\ pc' = "p_down" /\ i' = i + 1
      BY <2>3 DEF ParallelDown, Turn
    <3>4. UNCHANGED <<who, testVars>>
      BY <2>3 DEF ParallelDown
    <3> QED
      BY <3>1, <3>2, <3>3, <3>4, PortRange DEF OnlyPortOf, testVars
  <2>4. CASE WaitTx("p_wait", "p_down")
    BY <2>0, <2>4, WaitReads, PortRange
  <2>5. CASE WaitLink("p_link", "p_start")
    BY <2>0, <2>5, PortRange DEF WaitLink, Goto, Soc, testVars
  <2> QED  BY <1>7, <2>1, <2>2, <2>3, <2>4, <2>5 DEF ParallelTest
<1>8. CASE Judge
  <2>1. i = 0 /\ who = "uboot"
    BY <1>8 DEF Judge, Placed, OverPorts, Polling, OnlyUboot, Serial
  <2> QED  BY <1>8, <2>1 DEF Judge, Soc
<1>9. CASE Hardware
  <2>1. ASSUME NEW q \in PortPhys, Traffic(q)  PROVE (Back(p) => IsBack(p))'
    BY <2>1 DEF Traffic, psgmiiVars
  <2>2. CASE Shared(Phy5Locks)
    BY <2>2 DEF Shared, Phy5Locks, Soc
  <2>3. CASE Shared(SocLocks)
    BY <2>3 DEF Shared, SocLocks
  <2> QED  BY <1>9, <2>1, <2>2, <2>3 DEF Hardware
<1>10. CASE UNCHANGED vars
  BY <1>10 DEF vars, psgmiiVars, testVars
<1> QED
  BY StepsOfNext, <1>1, <1>2, <1>3, <1>4, <1>5, <1>6, <1>7, <1>8, <1>9, <1>10

-----------------------------------------------------------------------------
(* The counts                                                              *)

\* What was seen of a port stays so until the next reset of the ESS block, and
\* one that is silent stays so until the code touches it.
LEMMA CountKept ==
    ASSUME NEW p, lost \subseteq lost'
    PROVE  /\ ran \subseteq ran' => /\ SeenAlone(p) => SeenAlone(p)'
                                    /\ SeenTogether(p) => SeenTogether(p)'
           /\ port'[p] = port[p] /\ egress'[p] = egress[p] =>
                 (Silent(p) => Silent(p)')
           /\ LostOf(p, {"reset", "egress"})' =>
                 SeenAlone(p)' /\ SeenTogether(p)'
           /\ Silent(p) => egress[p] = "zero" \/ LostOf(p, {"reset", "egress"})'
BY LostOfStays DEF SeenAlone, SeenTogether, Silent

\* A port's count is full only by a packet of its own; a silent port has none.
LEMMA TrafficCounts ==
    ASSUME NEW q \in PortPhys, Traffic(q),
           egress \in [PortPhys -> {"zero", "some", "full"}]
    PROVE  /\ lost' = lost /\ ran \subseteq ran'
           /\ \A p \in PortPhys :
                 /\ Silent(p) => Silent(p)'
                 /\ \/ egress'[p] = egress[p]
                    \/ egress'[p] = "some"
                    \/ <<pc, p>> \in ran'
           /\ UNCHANGED <<pc, i, port, who, mask, result>>
<1>1. /\ lost' = lost /\ ran \subseteq ran'
      /\ UNCHANGED <<pc, i, port, who, mask, result>>
  BY DEF Traffic, psgmiiVars
<1>2. ASSUME NEW p \in PortPhys
      PROVE  \/ egress'[p] = egress[p]
             \/ egress'[p] = "some"
             \/ <<pc, p>> \in ran'
  BY DEF Traffic
<1>3. ASSUME NEW p \in PortPhys, Silent(p)
      PROVE  Silent(p)'
  <2>1. port[p].gen => LostOf(p, {"reset", "egress"})'
    BY <1>1, <1>3, LostOfStays DEF Silent
  <2>2. p = q => port[p].gen
    BY DEF Traffic, Sending
  <2>3. p # q => egress'[p] = egress[p]
    BY DEF Traffic
  <2> QED  BY <1>1, <1>3, <2>1, <2>2, <2>3, LostOfStays DEF Silent
<1> QED  BY <1>1, <1>2, <1>3

\* The serial test goes on only past a port that has carried its packets.
LEMMA SerialNext ==
    ASSUME Typed, Placed, SerialCounts, [Next]_vars
    PROVE  SerialCounts'
<1> SUFFICES ASSUME NEW p \in PortPhys  PROVE SerialCount(p)'
  BY DEF SerialCounts
<1>0. /\ SerialCount(p)
      /\ 0 <= p /\ ~(p < 0)
  BY DEF SerialCounts, PortPhys
<1> USE <1>0, CountKept DEF SerialCount, Serial, Parallel
<1>1. CASE Shared(FirstAnalogCal) \/ (who = "port" /\ Shared(SecondAnalogCal))
  <2>1. i = 0
    BY <1>1, AnalogWrites DEF Placed, OverPorts, Polling, Serial
  <2> QED  BY <1>1, <2>1, AnalogWrites
<1>2. CASE Shared(Prepare)
  <2>1. i \in PortPhys /\ pc = "prepare"
    BY <1>2 DEF Shared, Prepare, PreparePort, Turn, Placed, OverPorts
  <2>2. OnlyPortOf(i) /\ \A q \in PortPhys : q = i => Down(q)'
    BY <1>2, <2>1, PrepareWrites DEF Shared, OnlyPortOf
  <2> QED
    BY <1>2, <2>1, <2>2, PortRange
    DEF Shared, Prepare, PreparePort, Turn, OnlyPortOf
<1>3. ASSUME NEW b \in {"analog2", "loop_on"},
             b = "analog2" <=> who = "port", Shared(EssReset(b))
      PROVE  SerialCount(p)'
  <2> USE DEF Shared, EssReset, Soc, Goto
  <2>1. CASE FixRx20 \/ ResetPhy5 \/ ReleasePhy5 \/ FreezeCdr \/ ThawCdr
                \/ FreeRx20(b)
    BY <1>3, <2>1, Phy5Writes
  <2>3. CASE WaitPhy5 \/ WaitSoc
    BY <1>3, <2>3, LoseGrows DEF WaitPhy5, WaitSoc, Poll
  <2>4. CASE AssertEss \/ DeassertEss
    BY <1>3, <2>4 DEF AssertEss, DeassertEss
  <2> QED  BY <1>3, <2>1, <2>3, <2>4
<1>4. CASE Shared(Recover)
  <2>1. i \in PortPhys /\ pc = "recover"
    BY <1>4 DEF Shared, Recover, RecoverPort, Turn, Placed, OverPorts
  <2>2. OnlyPortOf(i) /\ \A q \in PortPhys : q = i => IsBack(q)'
    BY <1>4, <2>1, RecoverWrites DEF Shared, OnlyPortOf
  <2> QED
    BY <1>4, <2>1, <2>2, PortRange
    DEF Shared, Recover, RecoverPort, Turn, OnlyPortOf
<1>5. CASE Shared(LoopbackOff) \/ LoopbackOn
  <2>1. i = 0
    BY <1>5 DEF Placed, OverPorts, Polling, Shared, LoopbackOff, LoopbackOn,
                Goto
  <2> QED
    BY <1>5, <2>1
    DEF Shared, LoopbackOff, LoopbackOn, Goto, testVars
<1>6. CASE SerialTest
  <2>0. i \in PortPhys
    BY <1>6 DEF SerialTest, SerialReset, SerialStart, SerialDown, WaitTx,
                WaitLink, Goto, Placed, OverPorts, Serial
  <2>1. ASSUME NEW regs, SerialReset(regs)  PROVE SerialCount(p)'
    BY <2>0, <2>1, ResetWrites DEF SerialReset, Goto, OnlyPortOf
  <2>2. ASSUME NEW regs, SerialStart(regs)  PROVE SerialCount(p)'
    <3>1. /\ pc = "s_start" /\ pc' = "s_wait" /\ mask' = {i} /\ i' = i
          /\ egress' = egress /\ ran' = ran /\ lost \subseteq lost'
      BY <2>0, <2>2, StartWrites DEF SerialStart, Goto, OnlyPortOf
    <3> QED  BY <2>0, <3>1
  <2>3. ASSUME NEW regs, SerialDown(regs)  PROVE SerialCount(p)'
    BY <2>0, <2>3, DownWrites, PortRange DEF SerialDown, OnlyPortOf, testVars
  <2>4. CASE WaitTx("s_wait", "s_down")
    BY <2>0, <2>4, WaitReads
  <2>5. CASE WaitLink("s_link", "s_start")
    BY <2>0, <2>5 DEF WaitLink, Goto, Soc, testVars
  <2> QED  BY <1>6, <2>1, <2>2, <2>3, <2>4, <2>5 DEF SerialTest
<1>7. CASE ParallelTest
  <2>0. /\ pc \in {"p_reset", "p_start", "p_down"} => i \in PortPhys
        /\ pc \in {"p_link", "p_wait"} => i = 0
    BY DEF Placed, OverPorts, Serial, Polling
  <2>1. ASSUME NEW regs, ParallelReset(regs)  PROVE SerialCount(p)'
    BY <2>0, <2>1, ResetWrites, PortRange
    DEF ParallelReset, Turn, OnlyPortOf
  <2>2. ASSUME NEW regs, ParallelStart(regs)  PROVE SerialCount(p)'
    BY <2>0, <2>2, StartWrites, PortRange
    DEF ParallelStart, Turn, OnlyPortOf
  <2>3. ASSUME NEW regs, ParallelDown(regs)  PROVE SerialCount(p)'
    <3>1. pc = "p_down" /\ i \in PortPhys /\ OnlyPortOf(i)
      BY <2>0, <2>3, DownWrites DEF ParallelDown, Turn
    <3>2. \A q \in PortPhys : q = i => Down(q)'
      BY <2>3, DownWrites DEF ParallelDown
    <3>3. \/ i = NumPorts - 1 /\ pc' = "judge" /\ i' = 0
          \/ i # NumPorts - 1 /\ pc' = "p_down" /\ i' = i + 1
      BY <2>3 DEF ParallelDown, Turn
    <3>4. UNCHANGED <<who, testVars>>
      BY <2>3 DEF ParallelDown
    <3> QED
      BY <3>1, <3>2, <3>3, <3>4, PortRange DEF OnlyPortOf, testVars
  <2>4. CASE WaitTx("p_wait", "p_down")
    BY <2>0, <2>4, WaitReads, PortRange
  <2>5. CASE WaitLink("p_link", "p_start")
    BY <2>0, <2>5, PortRange DEF WaitLink, Goto, Soc, testVars
  <2> QED  BY <1>7, <2>1, <2>2, <2>3, <2>4, <2>5 DEF ParallelTest
<1>8. CASE Judge
  <2>1. i = 0 /\ who = "uboot"
    BY <1>8 DEF Judge, Placed, OverPorts, Polling, OnlyUboot, Serial
  <2> QED  BY <1>8, <2>1 DEF Judge, Soc
<1>9. CASE Hardware
  <2>1. ASSUME NEW q \in PortPhys, Traffic(q)  PROVE SerialCount(p)'
    <3>1. <<pc, p>> \in ran' /\ pc = "s_wait" => SeenAlone(p)'
      BY DEF SeenAlone
    <3> QED  BY <2>1, <3>1, TrafficCounts DEF Typed
  <2>2. CASE Shared(Phy5Locks)
    BY <2>2 DEF Shared, Phy5Locks, Soc
  <2>3. CASE Shared(SocLocks)
    BY <2>3 DEF Shared, SocLocks
  <2> QED  BY <1>9, <2>1, <2>2, <2>3 DEF Hardware
<1>10. CASE UNCHANGED vars
  BY <1>10 DEF vars, psgmiiVars, testVars
<1> QED
  BY StepsOfNext, <1>1, <1>2, <1>3, <1>4, <1>5, <1>6, <1>7, <1>8, <1>9, <1>10

\* The parallel test passes only if every port has carried its packets.
LEMMA ParallelNext ==
    ASSUME Typed, Placed, ParallelCounts, [Next]_vars
    PROVE  ParallelCounts'
<1> SUFFICES ASSUME NEW p \in PortPhys  PROVE ParallelCount(p)'
  BY DEF ParallelCounts
<1>0. /\ ParallelCount(p)
      /\ 0 <= p /\ ~(p < 0)
  BY DEF ParallelCounts, PortPhys
<1> USE <1>0, CountKept DEF ParallelCount
<1>1. CASE Shared(FirstAnalogCal) \/ (who = "port" /\ Shared(SecondAnalogCal))
  <2>1. i = 0
    BY <1>1, AnalogWrites DEF Placed, OverPorts, Polling, Serial
  <2> QED  BY <1>1, <2>1, AnalogWrites
<1>2. CASE Shared(Prepare)
  <2>1. i \in PortPhys /\ pc = "prepare"
    BY <1>2 DEF Shared, Prepare, PreparePort, Turn, Placed, OverPorts
  <2>2. OnlyPortOf(i) /\ \A q \in PortPhys : q = i => Down(q)'
    BY <1>2, <2>1, PrepareWrites DEF Shared, OnlyPortOf
  <2> QED
    BY <1>2, <2>1, <2>2, PortRange
    DEF Shared, Prepare, PreparePort, Turn, OnlyPortOf
<1>3. ASSUME NEW b \in {"analog2", "loop_on"},
             b = "analog2" <=> who = "port", Shared(EssReset(b))
      PROVE  ParallelCount(p)'
  <2> USE DEF Shared, EssReset, Soc, Goto
  <2>1. CASE FixRx20 \/ ResetPhy5 \/ ReleasePhy5 \/ FreezeCdr \/ ThawCdr
                \/ FreeRx20(b)
    BY <1>3, <2>1, Phy5Writes
  <2>3. CASE WaitPhy5 \/ WaitSoc
    BY <1>3, <2>3, LoseGrows DEF WaitPhy5, WaitSoc, Poll
  <2>4. CASE AssertEss \/ DeassertEss
    BY <1>3, <2>4 DEF AssertEss, DeassertEss
  <2> QED  BY <1>3, <2>1, <2>3, <2>4
<1>4. CASE Shared(Recover)
  <2>1. i \in PortPhys /\ pc = "recover"
    BY <1>4 DEF Shared, Recover, RecoverPort, Turn, Placed, OverPorts
  <2>2. OnlyPortOf(i) /\ \A q \in PortPhys : q = i => IsBack(q)'
    BY <1>4, <2>1, RecoverWrites DEF Shared, OnlyPortOf
  <2> QED
    BY <1>4, <2>1, <2>2, PortRange
    DEF Shared, Recover, RecoverPort, Turn, OnlyPortOf
<1>5. CASE Shared(LoopbackOff) \/ LoopbackOn
  BY <1>5 DEF Shared, LoopbackOff, LoopbackOn, Goto, testVars
<1>6. CASE SerialTest
  <2>0. i \in PortPhys
    BY <1>6 DEF SerialTest, SerialReset, SerialStart, SerialDown, WaitTx,
                WaitLink, Goto, Placed, OverPorts, Serial
  <2>1. ASSUME NEW regs, SerialReset(regs)  PROVE ParallelCount(p)'
    BY <2>0, <2>1, ResetWrites DEF SerialReset, Goto, OnlyPortOf
  <2>2. ASSUME NEW regs, SerialStart(regs)  PROVE ParallelCount(p)'
    BY <2>0, <2>2, StartWrites DEF SerialStart, Goto, OnlyPortOf
  <2>3. ASSUME NEW regs, SerialDown(regs)  PROVE ParallelCount(p)'
    BY <2>0, <2>3, DownWrites, PortRange DEF SerialDown, OnlyPortOf, testVars
  <2>4. CASE WaitTx("s_wait", "s_down")
    BY <2>0, <2>4, WaitReads
  <2>5. CASE WaitLink("s_link", "s_start")
    BY <2>0, <2>5 DEF WaitLink, Goto, Soc, testVars
  <2> QED  BY <1>6, <2>1, <2>2, <2>3, <2>4, <2>5 DEF SerialTest
<1>7. CASE ParallelTest
  <2>0. /\ pc \in {"p_reset", "p_start", "p_down"} => i \in PortPhys
        /\ pc \in {"p_link", "p_wait"} => i = 0
    BY DEF Placed, OverPorts, Serial, Polling
  <2>1. ASSUME NEW regs, ParallelReset(regs)  PROVE ParallelCount(p)'
    BY <2>0, <2>1, ResetWrites, PortRange
    DEF ParallelReset, Turn, OnlyPortOf
  <2>2. ASSUME NEW regs, ParallelStart(regs)  PROVE ParallelCount(p)'
    <3>1. /\ pc = "p_start" /\ mask' = PortPhys
          /\ egress' = egress /\ ran' = ran
          /\ i \in PortPhys /\ OnlyPortOf(i)
      BY <2>0, <2>2, StartWrites DEF ParallelStart, Turn
    <3>2. \/ i = NumPorts - 1 /\ pc' = "p_wait" /\ i' = 0
          \/ i # NumPorts - 1 /\ pc' = "p_start" /\ i' = i + 1
      BY <2>2 DEF ParallelStart, Turn
    <3>3. p < i => (egress[p] = "full" => SeenTogether(p))
      BY <3>1
    <3>4. p >= i => (egress[p] = "full" => SeenTogether(p)')
      BY <3>1 DEF OnlyPortOf
    <3>5. egress'[p] = "full" /\ p < i + 1 => SeenTogether(p)'
      BY <3>1, <3>3, <3>4, PortRange DEF OnlyPortOf
    <3>6. p >= i + 1 => Silent(p)'
      <4>1. p >= i + 1 => p >= i /\ p # i
        BY <3>1 DEF PortPhys
      <4>2. p >= i => Silent(p)
        BY <3>1
      <4>3. p # i => port'[p] = port[p] /\ egress'[p] = egress[p]
        BY <3>1 DEF OnlyPortOf
      <4> QED  BY <3>1, <4>1, <4>2, <4>3 DEF OnlyPortOf
    <3> QED  BY <3>1, <3>2, <3>5, <3>6, PortRange
  <2>3. ASSUME NEW regs, ParallelDown(regs)  PROVE ParallelCount(p)'
    <3>1. pc = "p_down" /\ i \in PortPhys /\ OnlyPortOf(i)
      BY <2>0, <2>3, DownWrites DEF ParallelDown, Turn
    <3>2. \A q \in PortPhys : q = i => Down(q)'
      BY <2>3, DownWrites DEF ParallelDown
    <3>3. \/ i = NumPorts - 1 /\ pc' = "judge" /\ i' = 0
          \/ i # NumPorts - 1 /\ pc' = "p_down" /\ i' = i + 1
      BY <2>3 DEF ParallelDown, Turn
    <3>4. UNCHANGED <<who, testVars>>
      BY <2>3 DEF ParallelDown
    <3> QED
      BY <3>1, <3>2, <3>3, <3>4, PortRange DEF OnlyPortOf, testVars
  <2>4. CASE WaitTx("p_wait", "p_down")
    BY <2>0, <2>4, WaitReads, PortRange
  <2>5. CASE WaitLink("p_link", "p_start")
    <3>1. /\ pc = "p_link" /\ pc' = "p_start" /\ i' = 0 /\ Silent(p)
          /\ UNCHANGED <<lost, port, egress>>
      BY <2>0, <2>5 DEF WaitLink, Goto, testVars
    <3> QED  BY <3>1, PortRange
  <2> QED  BY <1>7, <2>1, <2>2, <2>3, <2>4, <2>5 DEF ParallelTest
<1>8. CASE Judge
  <2>1. i = 0 /\ who = "uboot"
    BY <1>8 DEF Judge, Placed, OverPorts, Polling, OnlyUboot, Serial
  <2> QED  BY <1>8, <2>1 DEF Judge, Soc
<1>9. CASE Hardware
  <2>1. ASSUME NEW q \in PortPhys, Traffic(q)  PROVE ParallelCount(p)'
    <3>1. pc \in {"p_start", "p_wait"} /\ <<pc, p>> \in ran' =>
              SeenTogether(p)'
      BY DEF SeenTogether
    <3> QED  BY <2>1, <3>1, TrafficCounts DEF Typed
  <2>2. CASE Shared(Phy5Locks)
    BY <2>2 DEF Shared, Phy5Locks, Soc
  <2>3. CASE Shared(SocLocks)
    BY <2>3 DEF Shared, SocLocks
  <2> QED  BY <1>9, <2>1, <2>2, <2>3 DEF Hardware
<1>10. CASE UNCHANGED vars
  BY <1>10 DEF vars, psgmiiVars, testVars
<1> QED
  BY StepsOfNext, <1>1, <1>2, <1>3, <1>4, <1>5, <1>6, <1>7, <1>8, <1>9, <1>10

\* A verdict of success is carried from the tests to the return.
LEMMA JudgedNext ==
    ASSUME Typed, Placed, SerialCounts, ParallelCounts, Judged, [Next]_vars
    PROVE  Judged'
<1> SUFFICES ASSUME NEW p \in PortPhys  PROVE Verdict(p)'
  BY DEF Judged
<1>0. /\ Verdict(p)
      /\ 0 <= p /\ ~(p < 0)
  BY DEF Judged, PortPhys
<1> USE <1>0, CountKept DEF Verdict, Ending
<1>1. CASE Shared(FirstAnalogCal) \/ (who = "port" /\ Shared(SecondAnalogCal))
  <2>1. i = 0
    BY <1>1, AnalogWrites DEF Placed, OverPorts, Polling, Serial
  <2> QED  BY <1>1, <2>1, AnalogWrites
<1>2. CASE Shared(Prepare)
  <2>1. i \in PortPhys /\ pc = "prepare"
    BY <1>2 DEF Shared, Prepare, PreparePort, Turn, Placed, OverPorts
  <2>2. OnlyPortOf(i) /\ \A q \in PortPhys : q = i => Down(q)'
    BY <1>2, <2>1, PrepareWrites DEF Shared, OnlyPortOf
  <2> QED
    BY <1>2, <2>1, <2>2, PortRange
    DEF Shared, Prepare, PreparePort, Turn, OnlyPortOf
<1>3. ASSUME NEW b \in {"analog2", "loop_on"},
             b = "analog2" <=> who = "port", Shared(EssReset(b))
      PROVE  Verdict(p)'
  <2> USE DEF Shared, EssReset, Soc, Goto
  <2>1. CASE FixRx20 \/ ResetPhy5 \/ ReleasePhy5 \/ FreezeCdr \/ ThawCdr
                \/ FreeRx20(b)
    BY <1>3, <2>1, Phy5Writes
  <2>3. CASE WaitPhy5 \/ WaitSoc
    BY <1>3, <2>3, LoseGrows DEF WaitPhy5, WaitSoc, Poll
  <2>4. CASE AssertEss \/ DeassertEss
    BY <1>3, <2>4 DEF AssertEss, DeassertEss
  <2> QED  BY <1>3, <2>1, <2>3, <2>4
<1>4. CASE Shared(Recover)
  <2>1. i \in PortPhys /\ pc = "recover"
    BY <1>4 DEF Shared, Recover, RecoverPort, Turn, Placed, OverPorts
  <2>2. OnlyPortOf(i) /\ \A q \in PortPhys : q = i => IsBack(q)'
    BY <1>4, <2>1, RecoverWrites DEF Shared, OnlyPortOf
  <2> QED
    BY <1>4, <2>1, <2>2, PortRange
    DEF Shared, Recover, RecoverPort, Turn, OnlyPortOf
<1>5. CASE Shared(LoopbackOff) \/ LoopbackOn
  BY <1>5 DEF Shared, LoopbackOff, LoopbackOn, Goto, testVars
<1>6. CASE SerialTest
  <2>0. i \in PortPhys
    BY <1>6 DEF SerialTest, SerialReset, SerialStart, SerialDown, WaitTx,
                WaitLink, Goto, Placed, OverPorts, Serial
  <2>1. ASSUME NEW regs, SerialReset(regs)  PROVE Verdict(p)'
    BY <2>0, <2>1, ResetWrites DEF SerialReset, Goto, OnlyPortOf
  <2>2. ASSUME NEW regs, SerialStart(regs)  PROVE Verdict(p)'
    BY <2>0, <2>2, StartWrites DEF SerialStart, Goto, OnlyPortOf
  <2>3. ASSUME NEW regs, SerialDown(regs)  PROVE Verdict(p)'
    BY <2>0, <2>3, DownWrites, PortRange DEF SerialDown, OnlyPortOf, testVars
  <2>4. CASE WaitTx("s_wait", "s_down")
    <3>1. pc' \in {"s_wait", "s_down"}
      BY <2>4, WaitReads
    <3> QED  BY <3>1
  <2>5. CASE WaitLink("s_link", "s_start")
    BY <2>0, <2>5 DEF WaitLink, Goto, Soc, testVars
  <2> QED  BY <1>6, <2>1, <2>2, <2>3, <2>4, <2>5 DEF SerialTest
<1>7. CASE ParallelTest
  <2>0. /\ pc \in {"p_reset", "p_start", "p_down"} => i \in PortPhys
        /\ pc \in {"p_link", "p_wait"} => i = 0
    BY DEF Placed, OverPorts, Serial, Polling
  <2>1. ASSUME NEW regs, ParallelReset(regs)  PROVE Verdict(p)'
    BY <2>0, <2>1, ResetWrites, PortRange
    DEF ParallelReset, Turn, OnlyPortOf
  <2>2. ASSUME NEW regs, ParallelStart(regs)  PROVE Verdict(p)'
    BY <2>0, <2>2, StartWrites, PortRange
    DEF ParallelStart, Turn, OnlyPortOf
  <2>3. ASSUME NEW regs, ParallelDown(regs)  PROVE Verdict(p)'
    <3>1. pc = "p_down" /\ i \in PortPhys /\ OnlyPortOf(i)
      BY <2>0, <2>3, DownWrites DEF ParallelDown, Turn
    <3>2. \/ i = NumPorts - 1 /\ pc' = "judge" /\ i' = 0
          \/ i # NumPorts - 1 /\ pc' = "p_down" /\ i' = i + 1
      BY <2>3 DEF ParallelDown, Turn
    <3>3. UNCHANGED <<who, testVars>>
      BY <2>3 DEF ParallelDown
    <3>4. result => SeenAlone(p) /\ SeenTogether(p)
      BY <3>1 DEF SerialCounts, SerialCount, ParallelCounts, ParallelCount,
                  Parallel
    <3> QED
      BY <3>1, <3>2, <3>3, <3>4 DEF OnlyPortOf, testVars
  <2>4. CASE WaitTx("p_wait", "p_down")
    BY <2>0, <2>4, WaitReads, PortRange
  <2>5. CASE WaitLink("p_link", "p_start")
    BY <2>0, <2>5, PortRange DEF WaitLink, Goto, Soc, testVars
  <2> QED  BY <1>7, <2>1, <2>2, <2>3, <2>4, <2>5 DEF ParallelTest
<1>8. CASE Judge
  <2>1. i = 0 /\ who = "uboot"
    BY <1>8 DEF Judge, Placed, OverPorts, Polling, OnlyUboot, Serial
  <2> QED  BY <1>8, <2>1 DEF Judge, Soc
<1>9. CASE Hardware
  <2>1. ASSUME NEW q \in PortPhys, Traffic(q)  PROVE Verdict(p)'
    BY <2>1 DEF Traffic, psgmiiVars
  <2>2. CASE Shared(Phy5Locks)
    BY <2>2 DEF Shared, Phy5Locks, Soc
  <2>3. CASE Shared(SocLocks)
    BY <2>3 DEF Shared, SocLocks
  <2> QED  BY <1>9, <2>1, <2>2, <2>3 DEF Hardware
<1>10. CASE UNCHANGED vars
  BY <1>10 DEF vars, psgmiiVars, testVars
<1> QED
  BY StepsOfNext, <1>1, <1>2, <1>3, <1>4, <1>5, <1>6, <1>7, <1>8, <1>9, <1>10

-----------------------------------------------------------------------------
(* The invariant                                                           *)

LEMMA IInvInit == Init => IInv
<1> SUFFICES ASSUME Init  PROVE IInv
  OBVIOUS
<1> USE DEF Init, PsgmiiInit
<1>1. port \in [PortPhys -> PortState]
  OBVIOUS
<1>2. analog \in AnalogState /\ phy5 \in Phy5State
  <2>1. AnalogReset \in AnalogState /\ AnalogDone \in AnalogState
    BY DEF AnalogReset, AnalogDone, AnalogState
  <2> QED  BY <2>1 DEF Phy5State
<1>3. Typed
  BY <1>1, <1>2 DEF Typed, Labels
<1>4. Placed /\ PoweredDown /\ SerDes /\ Calibrated /\ BroughtBack
  BY DEF Placed, PoweredDown, MayBeUp, SerDes, Thawed, Calibrated, BroughtBack,
         Back, OverPorts, Polling, Ending, OnlyPort, OnlyUboot, Serial, Parallel
<1>5. SerialCounts /\ ParallelCounts /\ Judged
  BY DEF SerialCounts, SerialCount, ParallelCounts, ParallelCount, Judged,
         Verdict, Ending, Serial, Parallel
<1> QED  BY <1>3, <1>4, <1>5 DEF IInv

\* Every step keeps the invariant.
LEMMA IInvNext == IInv /\ [Next]_vars => IInv'
BY TypedNext, PlacedNext, PoweredDownNext, SerDesNext, CalibratedNext,
   BroughtBackNext, SerialNext, ParallelNext, JudgedNext DEF IInv

\* So it holds always.
LEMMA IInvAlways == Spec => []IInv
BY IInvInit, IInvNext, PTL DEF Spec

-----------------------------------------------------------------------------
(* The properties                                                          *)

\* The ESS block is reset only while the CDR is frozen and every port PHY is
\* powered down, in every pass, but for the writes that were lost.
THEOREM SelfTestQuiet == Spec => []QuietWhileReset
<1>1. IInv => QuietWhileReset
  BY DEF IInv, QuietWhileReset, Placed, PoweredDown, MayBeUp, SerDes, Ending,
         Serial, Down
<1> QED  BY <1>1, IInvAlways, PTL

\* When the ports are brought back the block is out of reset, the port has done
\* the analog calibration again, and at the end no port is looped back.
THEOREM SelfTestCalibrated == Spec => []CalibrationSurvivesReset
<1>1. IInv => CalibrationSurvivesReset
  BY DEF IInv, CalibrationSurvivesReset, Placed, Calibrated, Ending
<1> QED  BY <1>1, IInvAlways, PTL

\* When the self-test returns the CDR runs, the 20-bit fix is off and every port
\* PHY is as psgmii_st_phy_recover() means it to be, but for lost writes.
THEOREM SelfTestNothingLeft == Spec => []NothingLeftInTest
<1>1. IInv => NothingLeftInTest
  <2>1. ASSUME IInv, pc = "returned", NEW p \in PortPhys,
               NEW r \in DOMAIN Recovered
        PROVE  \/ port[p][r] = [bmcr |-> "auto", fctl |-> "normal",
                                count |-> "none", gen |-> FALSE][r]
               \/ <<"recover", p, r>> \in lost
    <3>1. IsBack(p)
      BY <2>1 DEF IInv, BroughtBack, Back
    <3> QED  BY <2>1, <3>1 DEF IsBack, Recovered
  <2>2. IInv /\ pc = "returned" =>
           /\ phy5.cdr = "running" \/ <<"thaw", 5, "cdr">> \in lost
           /\ phy5.mode = "free" \/ <<"free20", 5, "mode">> \in lost
    BY DEF IInv, SerDes, Thawed, Ending
  <2> QED  BY <2>1, <2>2 DEF NothingLeftInTest
<1> QED  BY <1>1, IInvAlways, PTL

\* While packets are counted the switch loops them back, and in the serial test
\* no other port is powered up, whichever pass failed where before.
THEOREM SelfTestIsolated == Spec => []TrafficIsolated
<1>1. IInv => TrafficIsolated
  BY DEF IInv, TrafficIsolated, Placed, Calibrated, PoweredDown, MayBeUp, Down,
         Ending, Serial, Parallel
<1> QED  BY <1>1, IInvAlways, PTL

\* A U-Boot self-test that passed saw every port send all its packets alone and
\* with the others since the last reset of the ESS block.
THEOREM SelfTestPassIsReal == Spec => []PassIsReal
<1>1. IInv => PassIsReal
  BY DEF IInv, PassIsReal, Judged, Verdict, SeenAlone, SeenTogether, Ending
<1> QED  BY <1>1, IInvAlways, PTL
=============================================================================
