-------------------------------- MODULE Mdio --------------------------------
(***************************************************************************)
(* The MDIO controller and the three drivers of it in the repository:      *)
(* "port", src/drivers/net/ipq4019_mdio.c, whose MMD accesses tunnel       *)
(* through four clause-22 operations; "uboot", the driver it was ported    *)
(* from; "linux", tmp/mdio-ipq4019.c, which switches the controller to     *)
(* clause 45 for them and gives up a call at its first timeout.            *)
(*                                                                         *)
(* The controller works on its own time behind a BUSY bit.  A wait for     *)
(* BUSY ends after a timeout; the operation it waited for goes on.         *)
(* Controller and PHYs are external.                                       *)
(***************************************************************************)
EXTENDS Naturals, Sequences

CONSTANTS Drivers,    \* a subset of {"port", "uboot", "linux"}
          PhyAddrs,   \* MDIO addresses
          PlainRegs,  \* clause-22 registers other than the two MMD registers
          Devs,       \* MMD devices
          Words,      \* 16-bit words: values, and registers of an MMD device
          Zero,       \* the word 0
          Ops,        \* the helpers called, of "read", "write", ...
          MaxCalls,   \* bound: calls of a helper
          MaxTimeouts,\* bound: waits that give up
          NoCall

ASSUME WordAssumption == Zero \in Words
ASSUME BoundAssumption == MaxCalls \in Nat /\ MaxTimeouts \in Nat
ASSUME OpsAssumption == Ops \subseteq {"read", "write", "read_mmd", "write_mmd"}
\* The MMD registers, 0x0d and 0x0e, are "ctrl" and "data" here.
ASSUME RegsAssumption == "ctrl" \notin PlainRegs /\ "data" \notin PlainRegs

Calls == [op : Ops, phy : PhyAddrs, dev : Devs,
          reg : PlainRegs \cup Words, val : Words]
ASSUME NoCallAssumption == NoCall \notin Calls

\* A call names a register of its own kind; a read carries no value.
Sensible(c) == /\ c.op \in {"read", "write"} => c.reg \in PlainRegs
               /\ c.op \in {"read_mmd", "write_mmd"} => c.reg \in Words
               /\ c.op \in {"read", "read_mmd"} => c.val = Zero

VARIABLES
    driver,     \* the driver there is
    call,       \* driver: the call under way
    todo,       \* driver: its MDIO operations still to do, the current first
    pc,         \* driver: before, at or after the START of the current one
    val,        \* driver: the caller's *val
    code,       \* driver: 1 when an operation of the call gave up; the
                \* helper's return code, which the tunnelled MMD accesses drop
    busy, cmd,  \* controller: BUSY, and the operation it was started with
    c45,        \* controller: MDIO_MODE_C45
    rdata,      \* controller: MDIO_DATA_READ_REG
    plain, mmd, \* PHYs: registers
    ctrl, addr, \* PHYs: MMD function and device (reg 0x0d), MMD addresses
    calls,      \* history: calls so far
    timeouts    \* history: waits given up so far

driverVars == <<driver, call, todo, pc, val, code, calls, timeouts>>
phyVars == <<plain, mmd, ctrl, addr>>
vars == <<driverVars, busy, cmd, c45, rdata, phyVars>>

-----------------------------------------------------------------------------
(* The MDIO operations of a call                                           *)

\* The codes of MDIO_CMD_REG; the mode tells what a code means.
READ == 0
WRITE == 1
C45_ADDR == 0
C45_WRITE == 1
C45_READ == 2

Rd(p, r)    == [c45 |-> FALSE, code |-> READ, phy |-> p, reg |-> r]
Wr(p, r, x) == [c45 |-> FALSE, code |-> WRITE, phy |-> p, reg |-> r,
                data |-> x]
C45(c, p, d, x) == [c45 |-> TRUE, code |-> c, phy |-> p, reg |-> d, data |-> x]

\* Mutant of MmdPrefix: the function is not switched from address to data.
MmdPrefixShort(p, d, r) == << Wr(p, "ctrl", [fn |-> "addr", dev |-> d]),
                              Wr(p, "data", r) >>

\* ipq4019_phy_read_mmd(), ipq4019_phy_write_mmd(): address function and
\* device, register, data function and device, then the access itself.
MmdPrefix(p, d, r) == << Wr(p, "ctrl", [fn |-> "addr", dev |-> d]),
                         Wr(p, "data", r),
                         Wr(p, "ctrl", [fn |-> "data", dev |-> d]) >>

TunnelOf(c) == Append(MmdPrefix(c.phy, c.dev, c.reg),
                      IF c.op = "read_mmd" THEN Rd(c.phy, "data")
                                           ELSE Wr(c.phy, "data", c.val))

\* ipq4019_mdio_read_c45(): device and register, then the read.
C45ReadOf(c) == << C45(C45_ADDR, c.phy, c.dev, c.reg),
                   C45(C45_READ, c.phy, c.dev, Zero) >>

\* ipq4019_mdio_write_c45()
C45WriteOf(c) == << C45(C45_ADDR, c.phy, c.dev, c.reg),
                    C45(C45_WRITE, c.phy, c.dev, c.val) >>

OpsOf(c) ==
    CASE c.op = "read"  -> << Rd(c.phy, c.reg) >>
      [] c.op = "write" -> << Wr(c.phy, c.reg, c.val) >>
      [] c.op = "read_mmd"  -> IF driver = "linux" THEN C45ReadOf(c)
                                                   ELSE TunnelOf(c)
      [] c.op = "write_mmd" -> IF driver = "linux" THEN C45WriteOf(c)
                                                   ELSE TunnelOf(c)

Init ==
    /\ driver \in Drivers
    /\ call = NoCall /\ todo = << >> /\ pc = "off"
    /\ val = Zero /\ code = 0
    /\ busy = FALSE /\ cmd = << >>
    /\ c45 \in BOOLEAN
    /\ rdata \in Words
    /\ plain = [p \in PhyAddrs |-> [r \in PlainRegs |-> Zero]]
    /\ mmd = [p \in PhyAddrs |-> [d \in Devs |-> [r \in Words |-> Zero]]]
    /\ ctrl \in [PhyAddrs -> [fn : {"addr", "data"}, dev : Devs]]
    /\ addr \in [PhyAddrs -> [Devs -> Words]]
    /\ calls = 0 /\ timeouts = 0

-----------------------------------------------------------------------------
(* The helpers                                                             *)

\* ipq4019_mdio_init() and U-Boot's probe leave clause 45; Linux's only sets
\* the clock.
Probe ==
    /\ pc = "off"
    /\ c45' = (driver = "linux" /\ c45)
    /\ pc' = "idle"
    /\ UNCHANGED <<driver, call, todo, val, code, calls, timeouts, busy, cmd,
                   rdata, phyVars>>

\* A helper is called; the callers and the MMD read start from a zero value.
\* U-Boot's driver has no MMD access of its own.
Call(c) ==
    /\ pc = "idle" /\ calls < MaxCalls
    /\ Sensible(c) /\ (driver = "uboot" => c.op \in {"read", "write"})
    /\ call' = c /\ todo' = OpsOf(c)
    /\ pc' = "wait"
    /\ val' = Zero /\ code' = 0
    /\ calls' = calls + 1
    /\ UNCHANGED <<driver, timeouts, busy, cmd, c45, rdata, phyVars>>

\* The current operation is over with return code rc.  Linux's driver returns
\* at an error; the others go on whatever the code was.
CallOver(rc) == Len(todo) = 1 \/ (driver = "linux" /\ rc = 1)

\* The next operation waits first, but in a call of Linux's driver.
OpOver(rc) ==
    /\ code' = IF rc = 1 THEN 1 ELSE code
    /\ todo' = IF CallOver(rc) THEN << >> ELSE Tail(todo)
    /\ call' = IF CallOver(rc) THEN NoCall ELSE call
    /\ pc' = IF CallOver(rc) THEN "idle"
             ELSE IF driver = "linux" THEN "issue" ELSE "wait"

\* Mutant of WaitIdle: no wait before the operation.
WaitSkipped ==
    /\ pc = "wait"
    /\ pc' = "issue"
    /\ UNCHANGED <<driver, call, todo, val, code, calls, timeouts, busy, cmd,
                   c45, rdata, phyVars>>

\* mdio_wait_busy() before the operation, and its timeout: nothing is issued.
WaitIdle ==
    /\ pc = "wait" /\ ~busy
    /\ pc' = "issue"
    /\ UNCHANGED <<driver, call, todo, val, code, calls, timeouts, busy, cmd,
                   c45, rdata, phyVars>>

\* Mutant of GiveUp: a wait without end.
NeverGiveUp == FALSE

GiveUp ==
    /\ busy /\ timeouts < MaxTimeouts
    /\ timeouts' = timeouts + 1
    /\ OpOver(1)
    /\ UNCHANGED <<driver, val, calls, busy, cmd, c45, rdata, phyVars>>

WaitTimeout == pc = "wait" /\ GiveUp

\* Mutant of ModeFor: Linux's clause-22 accesses do not clear the mode bit.
ModeKept(op) == c45 \/ (driver = "linux" /\ op.c45)

\* Linux's driver sets the mode before every call, the others never again.
ModeFor(op) == IF driver = "linux" THEN op.c45 ELSE c45

\* Mode, address, data and command registers are written.
Issue ==
    /\ pc = "issue"
    /\ c45' = ModeFor(Head(todo))
    /\ cmd' = Head(todo)
    /\ busy' = TRUE
    /\ pc' = "finish"
    /\ UNCHANGED <<driver, call, todo, val, code, calls, timeouts, rdata,
                   phyVars>>

Reads(op) == op.code = (IF op.c45 THEN C45_READ ELSE READ)

\* Mutant of Finish: no wait after the operation was started.
FinishAtOnce ==
    /\ pc = "finish"
    /\ val' = IF Reads(Head(todo)) THEN rdata ELSE val
    /\ OpOver(0)
    /\ UNCHANGED <<driver, calls, timeouts, busy, cmd, c45, rdata, phyVars>>

\* mdio_wait_busy() after it; a read then takes the data register.
Finish ==
    /\ pc = "finish" /\ ~busy
    /\ val' = IF Reads(Head(todo)) THEN rdata ELSE val
    /\ OpOver(0)
    /\ UNCHANGED <<driver, calls, timeouts, busy, cmd, c45, rdata, phyVars>>

FinishTimeout == pc = "finish" /\ GiveUp

Helper == Probe \/ WaitIdle \/ WaitTimeout \/ Issue \/ Finish \/ FinishTimeout

-----------------------------------------------------------------------------
(* The controller and the PHY it addresses (external)                      *)

ReadPlain(p, r) == /\ rdata' = plain[p][r]
                   /\ UNCHANGED phyVars

ReadData(p) == /\ rdata' = IF ctrl[p].fn = "data"
                           THEN mmd[p][ctrl[p].dev][addr[p][ctrl[p].dev]]
                           ELSE addr[p][ctrl[p].dev]
               /\ UNCHANGED phyVars

WritePlain(p, r, x) == /\ plain' = [plain EXCEPT ![p][r] = x]
                       /\ UNCHANGED <<rdata, mmd, ctrl, addr>>

WriteCtrl(p, x) == /\ ctrl' = [ctrl EXCEPT ![p] = x]
                   /\ UNCHANGED <<rdata, plain, mmd, addr>>

WriteData(p, x) ==
    LET d == ctrl[p].dev
    IN  /\ IF ctrl[p].fn = "addr"
           THEN addr' = [addr EXCEPT ![p][d] = x] /\ UNCHANGED mmd
           ELSE mmd' = [mmd EXCEPT ![p][d][addr[p][d]] = x] /\ UNCHANGED addr
        /\ UNCHANGED <<rdata, plain, ctrl>>

Clause22 ==
    LET p == cmd.phy  r == cmd.reg  IN
    \/ cmd.code = READ  /\ r = "data" /\ ReadData(p)
    \/ cmd.code = READ  /\ r \notin {"ctrl", "data"} /\ ReadPlain(p, r)
    \/ cmd.code = WRITE /\ r = "ctrl" /\ WriteCtrl(p, cmd.data)
    \/ cmd.code = WRITE /\ r = "data" /\ WriteData(p, cmd.data)
    \/ /\ cmd.code = WRITE /\ r \notin {"ctrl", "data"}
       /\ WritePlain(p, r, cmd.data)

Clause45 ==
    LET p == cmd.phy  d == cmd.reg  IN
    \/ /\ cmd.code = C45_ADDR
       /\ addr' = [addr EXCEPT ![p][d] = cmd.data]
       /\ UNCHANGED <<rdata, plain, mmd, ctrl>>
    \/ /\ cmd.code = C45_READ
       /\ rdata' = mmd[p][d][addr[p][d]]
       /\ UNCHANGED phyVars
    \/ /\ cmd.code = C45_WRITE
       /\ mmd' = [mmd EXCEPT ![p][d][addr[p][d]] = cmd.data]
       /\ UNCHANGED <<rdata, plain, ctrl, addr>>

\* A clause-45 frame to no device of the PHY goes unanswered.
Complete ==
    /\ busy
    /\ busy' = FALSE
    /\ IF ~c45 THEN Clause22
       ELSE IF cmd.c45 THEN Clause45
       ELSE UNCHANGED <<rdata, phyVars>>
    /\ UNCHANGED <<driverVars, cmd, c45>>

-----------------------------------------------------------------------------
\* The caller has no more to ask, within the bound.
Rest == pc = "idle" /\ calls = MaxCalls /\ UNCHANGED vars

Next == (\E c \in Calls : Call(c)) \/ Helper \/ Complete \/ Rest

Spec == Init /\ [][Next]_vars

\* The waits are loops with an end; the controller may hang.
FairSpec == Spec /\ WF_vars(Helper)

-----------------------------------------------------------------------------
(* Properties                                                              *)

\* The controller's registers, its mode among them, are never rewritten under
\* an operation in progress, also not under one whose wait had given up.
NeverIssuedWhileBusy == [][<<cmd, c45>>' # <<cmd, c45>> => ~busy]_vars

Returns == pc = "finish" /\ pc' = "idle" /\ code' = 0

\* A read none of whose operations gave up hands out the register as it is, not
\* what an operation before it left in the data register; one that had timed
\* out in an earlier call and took effect late is seen by it, and does not send
\* a tunnelled access to another device or register.
ReadIsCurrent ==
    [][Returns => /\ call.op = "read" => val' = plain[call.phy][call.reg]
                  /\ call.op = "read_mmd" =>
                         val' = mmd[call.phy][call.dev][call.reg]]_vars

\* A write none of whose operations gave up has reached its register.
WriteIsDone ==
    [][Returns => /\ call.op = "write" => plain[call.phy][call.reg] = call.val
                  /\ call.op = "write_mmd" =>
                         mmd[call.phy][call.dev][call.reg] = call.val]_vars

\* A call always returns, through its timeouts when the controller hangs.
CallReturns == pc = "wait" ~> pc = "idle"

\* The call has taken effect: its last operation is over in the controller.
CallDone == pc = "finish" /\ Len(todo) = 1 /\ ~busy

Regs == INSTANCE PhyRegs WITH Calls  <- {c \in Calls : Sensible(c)},
                              done   <- CallDone,
                              answer <- val,
                              late   <- timeouts > 0

\* Until the first timeout each driver's calls are atomic accesses to the
\* registers they name, several operations, a mode and a shared address
\* register notwithstanding: PhyRegs.
ImplementsPhyRegs == Regs!RegSpec
=============================================================================
