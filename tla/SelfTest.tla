------------------------------ MODULE SelfTest ------------------------------
(***************************************************************************)
(* The PSGMII self-test.  "port": ipq4019_psgmii_self_test() of            *)
(* src/drivers/net/ipq4019_psgmii.c, one calibration pass and no traffic.  *)
(* "uboot": psgmii_self_test() of reference/uboot-essedma.c, which after   *)
(* every pass sends packets through each port PHY alone and then through   *)
(* all at once, both ends looped back, and repeats the pass until they all *)
(* arrive.  (The port carries copies of these traffic functions and calls  *)
(* none.)  Neither looks at a return code of an MDIO access.               *)
(***************************************************************************)
EXTENDS Psgmii

CONSTANT NumRetries \* PSGMII_ST_NUM_RETRIES

ASSUME RetryAssumption == NumRetries \in Nat \ {0} /\ Tries > 0

VARIABLES
    who,     \* which of the two it is
    attempt, \* driver: passes that failed
    mask,    \* driver: PHYs still waited for
    turn,    \* driver: turns of psgmii_st_phy_wait()
    result,  \* driver: the last test succeeded
    egress,  \* port PHYs: packets counted of PSGMII_ST_PKT_COUNT
    ran      \* history: <<test, phy>>, packets all sent since the ESS reset

testVars == <<attempt, mask, turn, result, egress, ran>>
vars == <<psgmiiVars, who, testVars>>

Init ==
    /\ PsgmiiInit
    /\ who \in {"port", "uboot"}
    /\ attempt = 0 /\ mask = {} /\ turn = 0 /\ result = FALSE
    /\ egress = [p \in PortPhys |-> "zero"]
    /\ ran = {}

-----------------------------------------------------------------------------
(* Both drivers: what Psgmii describes                                     *)

\* The ESS reset begins the history of a pass anew.
Shared(Step) == /\ Step
                /\ ran' = IF pc = "assert" THEN {} ELSE ran
                /\ UNCHANGED <<who, attempt, mask, turn, result, egress>>

\* ipq4019_psgmii_self_test(), which returns 0, whatever happened.
PortSelfTest ==
    /\ who = "port"
    /\ Shared(\/ FirstAnalogCal \/ Prepare \/ EssReset("analog2")
              \/ SecondAnalogCal \/ Recover \/ LoopbackOff)

\* essedma_probe(), before the self-test.
UbootAnalogCal == who = "uboot" /\ Shared(FirstAnalogCal)

UbootPrepare  == who = "uboot" /\ Shared(Prepare)
UbootEssReset == who = "uboot" /\ Shared(EssReset("loop_on"))
UbootRecover  == who = "uboot" /\ Shared(Recover)
UbootLoopbackOff == who = "uboot" /\ Shared(LoopbackOff)

-----------------------------------------------------------------------------
(* The traffic tests of U-Boot                                             *)

\* Mutant of LoopbackOn: only before the first pass.
LoopbackOnOnce ==
    /\ Goto("loop_on", "s_reset")
    /\ loop' = (loop \/ attempt = 0)
    /\ UNCHANGED <<i, bcr, analog, soc_ready, phy5, port, lost, who, testVars>>

\* esw_port_loopback_set_all(esw, true), after every reset of the switch.
LoopbackOn ==
    /\ Goto("loop_on", "s_reset")
    /\ loop' = TRUE
    /\ UNCHANGED <<i, bcr, analog, soc_ready, phy5, port, lost, who, testVars>>

\* Mutant of ResetLoopback: the PHY is not reset first.
LoopbackNoReset(p, regs) ==
    /\ Lose(p, regs)
    /\ port' = [port EXCEPT ![p].bmcr = IF "loop" \notin regs THEN "loop" ELSE @]
    /\ UNCHANGED <<egress, Soc, phy5>>

\* psgmii_st_phy_reset_loopback(): the reset powers the PHY up, stops its
\* generator and clears its counters; then loopback.
ResetLoopback(p, regs) ==
    /\ Lose(p, regs)
    /\ port' = [port EXCEPT
                  ![p].bmcr = IF "loop" \notin regs THEN "loop"
                              ELSE IF "reset" \notin regs THEN "auto" ELSE @,
                  ![p].gen = "reset" \in regs /\ @]
    /\ egress' = [egress EXCEPT ![p] = IF "reset" \in regs THEN @ ELSE "zero"]
    /\ UNCHANGED <<Soc, phy5>>

\* psgmii_st_phy_start_traffic()
StartTraffic(p, regs) ==
    /\ Lose(p, regs)
    /\ \E g \in IF "gen" \in regs THEN BOOLEAN ELSE {TRUE} :
          port' = [port EXCEPT ![p].gen = g]
    /\ UNCHANGED <<Soc, phy5>>

\* psgmii_st_phy_power_down()
PowerDown(p, regs) ==
    /\ Lose(p, regs)
    /\ port' = [port EXCEPT ![p].bmcr = IF "bmcr" \in regs THEN @ ELSE "down"]
    /\ UNCHANGED <<Soc, phy5>>

\* psgmii_st_phy_wait_tx_complete(): a turn checks every PHY still waited for;
\* a counter read that is lost may return anything.  b: after the last turn.
WaitTx(a, b) ==
    /\ pc = a
    /\ LET left == {q \in mask : egress[q] # "full"}
       IN  \/ mask' = left /\ UNCHANGED lost
           \/ \E p \in mask : /\ Lose(p, {"egress"})
                              /\ mask' \in {left \cup {p}, left \ {p}}
    /\ IF mask' = {} \/ turn + 1 = Tries
       THEN pc' = b /\ turn' = 0 /\ result' = (mask' = {})
       ELSE turn' = turn + 1 /\ UNCHANGED <<pc, result>>
    /\ UNCHANGED <<i, Soc, phy5, port, who, attempt, egress, ran>>

\* psgmii_st_phy_wait_link(): bounded, and nobody uses what it found.
WaitLink(a, b) ==
    /\ Goto(a, b)
    /\ UNCHANGED <<i, Soc, phy5, port, lost, who, testVars>>

\* psgmii_st_run_test_serial(): one port after the other, to the first failure.
SerialReset(regs) ==
    /\ Goto("s_reset", "s_link") /\ ResetLoopback(i, regs)
    /\ UNCHANGED <<i, who, attempt, mask, turn, result, ran>>

SerialStart(regs) ==
    /\ Goto("s_start", "s_wait") /\ StartTraffic(i, regs)
    /\ mask' = {i}
    /\ UNCHANGED <<i, who, attempt, turn, result, egress, ran>>

SerialDown(regs) ==
    /\ pc = "s_down" /\ PowerDown(i, regs)
    /\ IF result /\ i < NumPorts - 1 THEN pc' = "s_reset" /\ i' = i + 1
       ELSE pc' = (IF result THEN "p_reset" ELSE "judge") /\ i' = 0
    /\ UNCHANGED <<who, testVars>>

SerialTest ==
    \/ \E regs \in SUBSET {"reset", "loop"} : SerialReset(regs)
    \/ WaitLink("s_link", "s_start")
    \/ \E regs \in SUBSET {"gen"} : SerialStart(regs)
    \/ WaitTx("s_wait", "s_down")
    \/ \E regs \in SUBSET {"bmcr"} : SerialDown(regs)

\* psgmii_st_run_test_parallel(): every step for all ports before the next.
ParallelReset(regs) ==
    /\ Turn("p_reset", "p_link") /\ ResetLoopback(i, regs)
    /\ UNCHANGED <<who, attempt, mask, turn, result, ran>>

ParallelStart(regs) ==
    /\ Turn("p_start", "p_wait") /\ StartTraffic(i, regs)
    /\ mask' = PortPhys
    /\ UNCHANGED <<who, attempt, turn, result, egress, ran>>

ParallelDown(regs) ==
    /\ Turn("p_down", "judge") /\ PowerDown(i, regs)
    /\ UNCHANGED <<who, testVars>>

ParallelTest ==
    \/ \E regs \in SUBSET {"reset", "loop"} : ParallelReset(regs)
    \/ WaitLink("p_link", "p_start")
    \/ \E regs \in SUBSET {"gen"} : ParallelStart(regs)
    \/ WaitTx("p_wait", "p_down")
    \/ \E regs \in SUBSET {"bmcr"} : ParallelDown(regs)

\* The end of a pass of the retry loop (psgmii_self_test_repeat is never set).
Judge ==
    /\ pc = "judge"
    /\ attempt' = IF result THEN attempt ELSE attempt + 1
    /\ pc' = IF result \/ attempt' = NumRetries THEN "recover" ELSE "fix20"
    /\ UNCHANGED <<i, Soc, phy5, port, lost, who, mask, turn, result, egress,
                   ran>>

UbootSelfTest == \/ UbootAnalogCal \/ UbootPrepare \/ UbootEssReset
                 \/ LoopbackOn \/ SerialTest \/ ParallelTest \/ Judge
                 \/ UbootRecover \/ UbootLoopbackOff

-----------------------------------------------------------------------------
(* The hardware (external)                                                 *)

Sending == {p \in PortPhys : port[p].gen /\ port[p].bmcr = "loop"}

\* Packets of a generating PHY come back, looped at both ends; or they do not.
\* The generator stops at PSGMII_ST_PKT_COUNT of them.
Traffic(p) ==
    /\ p \in Sending /\ loop /\ ~bcr /\ egress[p] # "full"
    /\ egress' = [egress EXCEPT ![p] = IF @ = "zero" THEN "some" ELSE "full"]
    /\ ran' = IF egress[p] = "some" THEN ran \cup {<<pc, p>>} ELSE ran
    /\ UNCHANGED <<psgmiiVars, who, attempt, mask, turn, result>>

Hardware == \/ Shared(Phy5Locks) \/ Shared(SocLocks)
            \/ \E p \in PortPhys : Traffic(p)

Returned == pc = "returned" /\ UNCHANGED vars

Next == PortSelfTest \/ UbootSelfTest \/ Hardware \/ Returned

Spec == Init /\ [][Next]_vars

\* Straight-line code: it runs on.  Nothing obliges a PLL to lock or a packet
\* to come back.
FairSpec == Spec /\ WF_vars(PortSelfTest \/ UbootSelfTest)

-----------------------------------------------------------------------------
(* Properties                                                              *)

\* Some access of port PHY p to one of these registers timed out.
LostOf(p, regs) == \E a \in lost : a[2] = p /\ a[3] \in regs

\* The ESS block is reset only while nothing on the other end of the SerDes
\* can answer, in every pass: the CDR of the PSGMII PHY frozen and every port
\* PHY powered down, but for the writes that were lost.
QuietWhileReset ==
    bcr => /\ phy5.cdr = "frozen" \/ <<"freeze", 5, "cdr">> \in lost
           /\ \A p \in PortPhys : port[p].bmcr = "down" \/ LostOf(p, {"bmcr"})

\* When the ports are brought back the block is out of reset, and on return no
\* port is looped back.  In the port ("any iteration that calls
\* qca8075_ess_reset() must re-do these writes") the analog calibration that the
\* reset wiped has been done again by then; U-Boot's self-test does not redo it,
\* and the property asks it of the port alone.
CalibrationSurvivesReset ==
    /\ pc \in {"recover", "loopback", "returned"} =>
          ~bcr /\ (who = "port" => analog = AnalogDone)
    /\ pc = "returned" => ~loop

\* When the self-test returns nothing is left as the test needed it, but for
\* registers whose last write was lost: the CDR runs, the 20-bit fix is off,
\* every port PHY is powered and neither counts nor generates test traffic.
NothingLeftInTest ==
    pc = "returned" =>
        /\ phy5.cdr = "running" \/ <<"thaw", 5, "cdr">> \in lost
        /\ phy5.mode = "free" \/ <<"free20", 5, "mode">> \in lost
        /\ \A p \in PortPhys, r \in DOMAIN Recovered :
              \/ port[p][r] = [bmcr |-> "auto", fctl |-> "normal",
                               count |-> "none", gen |-> FALSE][r]
              \/ <<"recover", p, r>> \in lost

\* While packets are counted the test bed is the one the test is about: the
\* switch loops them back although the pass before reset it, and in the serial
\* test every other port is powered down, whatever pass failed where before.
TrafficIsolated ==
    /\ pc \in {"s_wait", "p_wait"} => loop /\ ~bcr
    /\ pc = "s_wait" => \A p \in PortPhys \ {i} :
                           port[p].bmcr = "down" \/ LostOf(p, {"bmcr"})

\* A self-test that passed saw every port send all its packets twice since the
\* last reset, alone and then with the others: a count left from the serial
\* test, or from the pass before the reset, is never taken for a new one.
PassIsReal ==
    who = "uboot" /\ result /\ pc \in {"recover", "loopback", "returned"} =>
        \A p \in PortPhys :
           \/ /\ <<"s_wait", p>> \in ran
              /\ <<"p_start", p>> \in ran \/ <<"p_wait", p>> \in ran
           \/ LostOf(p, {"reset", "egress"})

\* Ready bits and packets that never come hold the self-test up for its bounded
\* polls and passes only.
SelfTestReturns == <>(pc = "returned")
=============================================================================
