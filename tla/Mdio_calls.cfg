\* The three drivers; any wait may give up, the controller may hang, the PHYs
\* and the controller's mode are in any state.
SPECIFICATION FairSpec
CONSTANTS
    Drivers = {"port", "uboot", "linux"}
    PhyAddrs = {p0}
    PlainRegs = {bmcr}
    Devs = {d1, d7}
    Words = {w0, w1}
    Zero = w0
    Ops = {"read", "write", "read_mmd", "write_mmd"}
    MaxCalls = 2
    MaxTimeouts = 8
    NoCall = NoCall
PROPERTIES NeverIssuedWhileBusy ReadIsCurrent WriteIsDone CallReturns ImplementsPhyRegs
