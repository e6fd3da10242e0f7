----------------------------- MODULE MdioProofs -----------------------------
(* Proofs about Mdio, for the three drivers, any number of PHYs, registers  *)
(* and devices, any sequence of calls, and waits that give up at any time.  *)
EXTENDS Mdio, Integers, TLAPS, SequenceTheorems

-----------------------------------------------------------------------------
(* The inductive invariant                                                 *)

\* The MDIO operations there are.
MdioReads == [c45 : {FALSE}, code : {READ}, phy : PhyAddrs,
              reg : PlainRegs \cup {"data"}]
MdioWrites == [c45 : {FALSE}, code : {WRITE}, phy : PhyAddrs,
               reg : PlainRegs \cup {"data"}, data : Words]
CtrlWords == [fn : {"addr", "data"}, dev : Devs]
CtrlWrites == [c45 : {FALSE}, code : {WRITE}, phy : PhyAddrs, reg : {"ctrl"},
               data : CtrlWords]
C45Frames == [c45 : {TRUE}, code : {C45_ADDR, C45_WRITE, C45_READ},
              phy : PhyAddrs, reg : Devs, data : Words]
Operations == MdioReads \cup MdioWrites \cup CtrlWrites \cup C45Frames

Calling == {"wait", "issue", "finish"}

PhysOK == /\ plain \in [PhyAddrs -> [PlainRegs -> Words]]
          /\ mmd \in [PhyAddrs -> [Devs -> [Words -> Words]]]
          /\ ctrl \in [PhyAddrs -> CtrlWords]
          /\ addr \in [PhyAddrs -> [Devs -> Words]]

MdioTypeOK == /\ pc \in {"off", "idle"} \cup Calling
              /\ busy \in BOOLEAN /\ c45 \in BOOLEAN
              /\ rdata \in Words /\ val \in Words
              /\ code \in {0, 1} /\ timeouts \in Nat /\ calls \in Nat
              /\ PhysOK

\* Nothing is started over an operation in progress, and the controller is in
\* the mode of the operation it works on.
Exclusive == /\ pc \in {"off", "issue"} => ~busy
             /\ busy \/ pc = "finish" => cmd \in Operations /\ c45 = cmd.c45
             /\ driver # "linux" /\ pc # "off" => ~c45

\* Operations of the call that are over.
Passed == Len(OpsOf(call)) - Len(todo)

UnderWay ==
    /\ pc \notin Calling => call = NoCall /\ todo = << >>
    /\ pc \in Calling =>
          /\ call \in Calls /\ Sensible(call)
          /\ Passed \in 0 .. Len(OpsOf(call)) - 1
          /\ todo = SubSeq(OpsOf(call), Passed + 1, Len(OpsOf(call)))
    /\ pc = "finish" => cmd = Head(todo)

\* The read has its value in the data register, the write is in its register.
Answered ==
    LET p == call.phy  r == call.reg  reg == mmd[p][call.dev]
    IN  /\ call.op = "read" => rdata = plain[p][r]
        /\ call.op = "write" => plain[p][r] = call.val
        /\ call.op = "read_mmd" => rdata = reg[r]
        /\ call.op = "write_mmd" => reg[r] = call.val

\* What the PHY has come to after n operations of the call: the device is
\* selected, its address register set, and the access done.
Reached(n) ==
    LET p == call.phy  d == call.dev  IN
    /\ n = Len(OpsOf(call)) => Answered
    /\ call.op \in {"read_mmd", "write_mmd"} =>
          IF driver = "linux"
          THEN n >= 1 => addr[p][d] = call.reg
          ELSE /\ n \in {1, 2} => ctrl[p] = [fn |-> "addr", dev |-> d]
               /\ n >= 2 => addr[p][d] = call.reg
               /\ n >= 3 => ctrl[p] = [fn |-> "data", dev |-> d]

\* In a call none of whose operations gave up each has taken effect in its turn.
InTurn ==
    pc \in Calling /\ code = 0 =>
        IF pc = "finish" THEN Reached(IF busy THEN Passed ELSE Passed + 1)
        ELSE Reached(Passed) /\ (Passed > 0 => ~busy)

\* Until the first timeout no operation is left behind.
NoneLate == timeouts = 0 => code = 0 /\ (busy => pc = "finish")

MdioInv == MdioTypeOK /\ Exclusive /\ UnderWay /\ InTurn /\ NoneLate

-----------------------------------------------------------------------------
(* The operations of a call                                                *)

\* Every operation of a call is one of those there are.
LEMMA OperationsOf ==
    ASSUME NEW c \in Calls, Sensible(c)
    PROVE  /\ c.op = "read" => Rd(c.phy, c.reg) \in Operations
           /\ c.op = "write" => Wr(c.phy, c.reg, c.val) \in Operations
           /\ c.op \in {"read_mmd", "write_mmd"} =>
                 /\ \A fn \in {"addr", "data"} :
                       Wr(c.phy, "ctrl", [fn |-> fn, dev |-> c.dev])
                           \in Operations
                 /\ Wr(c.phy, "data", c.reg) \in Operations
                 /\ Wr(c.phy, "data", c.val) \in Operations
                 /\ Rd(c.phy, "data") \in Operations
                 /\ \A k \in {C45_ADDR, C45_WRITE, C45_READ},
                       x \in {c.reg, c.val, Zero} :
                       C45(k, c.phy, c.dev, x) \in Operations
<1>1. c.phy \in PhyAddrs /\ c.dev \in Devs /\ c.val \in Words
    BY DEF Calls
<1>2. /\ c.op \in {"read", "write"} => c.reg \in PlainRegs
      /\ c.op \in {"read_mmd", "write_mmd"} => c.reg \in Words
    BY DEF Sensible
<1>3. /\ c.op = "read" => Rd(c.phy, c.reg) \in MdioReads
      /\ c.op = "write" => Wr(c.phy, c.reg, c.val) \in MdioWrites
    BY <1>1, <1>2 DEF Rd, Wr, MdioReads, MdioWrites
<1>4. \A fn \in {"addr", "data"} :
          Wr(c.phy, "ctrl", [fn |-> fn, dev |-> c.dev]) \in CtrlWrites
    BY <1>1 DEF Wr, CtrlWrites, CtrlWords
<1>5. c.op \in {"read_mmd", "write_mmd"} =>
          /\ Wr(c.phy, "data", c.reg) \in MdioWrites
          /\ Wr(c.phy, "data", c.val) \in MdioWrites
          /\ Rd(c.phy, "data") \in MdioReads
    BY <1>1, <1>2 DEF Rd, Wr, MdioReads, MdioWrites
<1>6. c.op \in {"read_mmd", "write_mmd"} =>
          \A k \in {C45_ADDR, C45_WRITE, C45_READ}, x \in {c.reg, c.val, Zero} :
              C45(k, c.phy, c.dev, x) \in C45Frames
    BY <1>1, <1>2, WordAssumption DEF C45, C45Frames
<1> QED BY <1>3, <1>4, <1>5, <1>6 DEF Operations

\* The operations of a clause-22 access.
LEMMA PlainOps ==
    ASSUME NEW c \in Calls, Sensible(c), c.op \in {"read", "write"}
    PROVE  /\ OpsOf(c) \in Seq(Operations) /\ Len(OpsOf(c)) = 1
           /\ OpsOf(c)[1] = IF c.op = "read" THEN Rd(c.phy, c.reg)
                                            ELSE Wr(c.phy, c.reg, c.val)
           /\ OpsOf(c)[1].c45 = FALSE
<1>0. /\ Rd(c.phy, c.reg).c45 = FALSE
      /\ Wr(c.phy, c.reg, c.val).c45 = FALSE
    BY DEF Rd, Wr
<1>1. CASE c.op = "read"
    <2>1. OpsOf(c) = << Rd(c.phy, c.reg) >>
        BY <1>1 DEF OpsOf
    <2>2. Rd(c.phy, c.reg) \in Operations
        BY <1>1, OperationsOf
    <2> QED BY <1>0, <1>1, <2>1, <2>2
<1>2. CASE c.op = "write"
    <2>1. OpsOf(c) = << Wr(c.phy, c.reg, c.val) >>
        BY <1>2 DEF OpsOf
    <2>2. Wr(c.phy, c.reg, c.val) \in Operations
        BY <1>2, OperationsOf
    <2> QED BY <1>0, <1>2, <2>1, <2>2
<1> QED BY <1>1, <1>2

\* The operations of a tunnelled MMD access.
LEMMA TunnelOps ==
    ASSUME NEW c \in Calls, Sensible(c), c.op \in {"read_mmd", "write_mmd"},
           driver # "linux"
    PROVE  /\ OpsOf(c) \in Seq(Operations) /\ Len(OpsOf(c)) = 4
           /\ OpsOf(c)[1] = Wr(c.phy, "ctrl", [fn |-> "addr", dev |-> c.dev])
           /\ OpsOf(c)[2] = Wr(c.phy, "data", c.reg)
           /\ OpsOf(c)[3] = Wr(c.phy, "ctrl", [fn |-> "data", dev |-> c.dev])
           /\ OpsOf(c)[4] = IF c.op = "read_mmd" THEN Rd(c.phy, "data")
                                                ELSE Wr(c.phy, "data", c.val)
           /\ \A k \in 1 .. 4 : OpsOf(c)[k].c45 = FALSE
<1> DEFINE a == Wr(c.phy, "ctrl", [fn |-> "addr", dev |-> c.dev])
           b == Wr(c.phy, "data", c.reg)
           d == Wr(c.phy, "ctrl", [fn |-> "data", dev |-> c.dev])
           e == IF c.op = "read_mmd" THEN Rd(c.phy, "data")
                                     ELSE Wr(c.phy, "data", c.val)
<1>1. OpsOf(c) = Append(<< a, b, d >>, e)
    <2>1. OpsOf(c) = TunnelOf(c)
        BY DEF OpsOf
    <2> QED BY <2>1 DEF TunnelOf, MmdPrefix
<1>2. a \in Operations /\ b \in Operations /\ d \in Operations /\ e \in Operations
    BY OperationsOf
<1>5. a.c45 = FALSE /\ b.c45 = FALSE /\ d.c45 = FALSE /\ e.c45 = FALSE
    BY DEF Rd, Wr
<1> HIDE DEF a, b, d, e
<1>3. << a, b, d >> \in Seq(Operations)
    BY <1>2
<1>4. /\ OpsOf(c) \in Seq(Operations) /\ Len(OpsOf(c)) = 4
      /\ OpsOf(c)[1] = a /\ OpsOf(c)[2] = b /\ OpsOf(c)[3] = d
      /\ OpsOf(c)[4] = e
    BY <1>1, <1>2, <1>3, AppendProperties
<1>6. \A k \in 1 .. 4 : OpsOf(c)[k].c45 = FALSE
    <2>1. \A k \in 1 .. 4 : k = 1 \/ k = 2 \/ k = 3 \/ k = 4
        OBVIOUS
    <2> QED BY <1>4, <1>5, <2>1
<1> QED BY <1>4, <1>6 DEF a, b, d, e

\* The operations of a clause-45 access.
LEMMA C45Ops ==
    ASSUME NEW c \in Calls, Sensible(c), c.op \in {"read_mmd", "write_mmd"},
           driver = "linux"
    PROVE  /\ OpsOf(c) \in Seq(Operations) /\ Len(OpsOf(c)) = 2
           /\ OpsOf(c)[1] = C45(C45_ADDR, c.phy, c.dev, c.reg)
           /\ OpsOf(c)[2] = IF c.op = "read_mmd"
                            THEN C45(C45_READ, c.phy, c.dev, Zero)
                            ELSE C45(C45_WRITE, c.phy, c.dev, c.val)
<1> DEFINE a == C45(C45_ADDR, c.phy, c.dev, c.reg)
           b == IF c.op = "read_mmd" THEN C45(C45_READ, c.phy, c.dev, Zero)
                                     ELSE C45(C45_WRITE, c.phy, c.dev, c.val)
<1>1. OpsOf(c) = << a, b >>
    BY DEF OpsOf, C45ReadOf, C45WriteOf
<1>2. a \in Operations /\ b \in Operations
    BY OperationsOf
<1> HIDE DEF a, b
<1>3. /\ OpsOf(c) \in Seq(Operations) /\ Len(OpsOf(c)) = 2
      /\ OpsOf(c)[1] = a /\ OpsOf(c)[2] = b
    BY <1>1, <1>2
<1> QED BY <1>3 DEF a, b

\* Of any call: some operations, and clause 45 in Linux's driver only.
LEMMA AnyOps ==
    ASSUME NEW c \in Calls, Sensible(c)
    PROVE  /\ OpsOf(c) \in Seq(Operations) /\ Len(OpsOf(c)) \in Nat \ {0}
           /\ driver # "linux" =>
                 \A k \in 1 .. Len(OpsOf(c)) : OpsOf(c)[k].c45 = FALSE
<1>1. c.op \in {"read", "write", "read_mmd", "write_mmd"}
    BY OpsAssumption DEF Calls
<1>2. CASE c.op \in {"read", "write"}
    <2>1. /\ OpsOf(c) \in Seq(Operations) /\ Len(OpsOf(c)) = 1
          /\ OpsOf(c)[1].c45 = FALSE
        BY <1>2, PlainOps
    <2>2. \A k \in 1 .. 1 : k = 1
        OBVIOUS
    <2> QED BY <2>1, <2>2
<1>3. CASE c.op \in {"read_mmd", "write_mmd"} /\ driver # "linux"
    <2>1. /\ OpsOf(c) \in Seq(Operations) /\ Len(OpsOf(c)) = 4
          /\ \A k \in 1 .. 4 : OpsOf(c)[k].c45 = FALSE
        BY <1>3, TunnelOps
    <2> QED BY <2>1
<1>4. CASE c.op \in {"read_mmd", "write_mmd"} /\ driver = "linux"
    BY <1>4, C45Ops
<1> QED BY <1>1, <1>2, <1>3, <1>4

\* What is still to do begins with the operation after those passed.
LEMMA TodoIs ==
    ASSUME UnderWay, pc \in Calling
    PROVE  /\ Passed \in Nat /\ Passed < Len(OpsOf(call))
           /\ Len(OpsOf(call)) \in Nat
           /\ Len(todo) = Len(OpsOf(call)) - Passed
           /\ Head(todo) = OpsOf(call)[Passed + 1]
           /\ Head(todo) \in Operations
           /\ Len(todo) # 1 =>
                 /\ Passed + 1 \in 0 .. Len(OpsOf(call)) - 1
                 /\ Tail(todo) = SubSeq(OpsOf(call), Passed + 1 + 1,
                                        Len(OpsOf(call)))
<1> DEFINE ops == OpsOf(call)  n == Passed
<1>1. /\ ops \in Seq(Operations) /\ Len(ops) \in Nat
      /\ n \in 0 .. Len(ops) - 1 /\ todo = SubSeq(ops, n + 1, Len(ops))
    BY AnyOps DEF UnderWay
<1> HIDE DEF ops, n
<1>2. /\ n + 1 \in Int /\ Len(ops) \in Int
      /\ \A k \in n + 1 .. Len(ops) : ops[k] \in Operations
    BY <1>1
<1>3. /\ todo \in Seq(Operations) /\ Len(todo) = Len(ops) - n
      /\ \A k \in 1 .. Len(ops) - n : todo[k] = ops[n + k]
    <2>1. /\ todo \in Seq(Operations)
          /\ Len(todo) = IF n + 1 <= Len(ops) THEN Len(ops) - (n + 1) + 1 ELSE 0
          /\ \A k \in 1 .. Len(ops) - (n + 1) + 1 : todo[k] = ops[n + 1 + k - 1]
        BY <1>1, <1>2, SubSeqProperties
    <2> QED BY <1>1, <2>1
<1>4. todo # << >> /\ Head(todo) = ops[n + 1]
    <2>1. 1 \in 1 .. Len(ops) - n
        BY <1>1
    <2>2. todo[1] = ops[n + 1]
        BY <1>3, <2>1
    <2>3. Len(todo) # 0
        BY <1>3, <2>1
    <2> QED BY <1>3, <2>2, <2>3
<1>5. ASSUME Len(todo) # 1
      PROVE  Tail(todo) = SubSeq(ops, n + 1 + 1, Len(ops))
    <2>1. /\ Tail(todo) \in Seq(Operations) /\ Len(Tail(todo)) = Len(ops) - n - 1
          /\ \A k \in 1 .. Len(ops) - n - 1 : Tail(todo)[k] = ops[n + 1 + k]
        BY <1>1, <1>3, <1>4
    <2>2. \A k \in n + 1 + 1 .. Len(ops) : ops[k] \in Operations
        BY <1>1, <1>2
    <2>3. /\ SubSeq(ops, n + 1 + 1, Len(ops)) \in Seq(Operations)
          /\ Len(SubSeq(ops, n + 1 + 1, Len(ops))) = Len(ops) - n - 1
          /\ \A k \in 1 .. Len(ops) - n - 1 :
                SubSeq(ops, n + 1 + 1, Len(ops))[k] = ops[n + 1 + k]
        <3>1. Len(ops) - n # 1
            BY <1>3, <1>5
        <3>2. n + 1 + 1 \in Int /\ n + 1 + 1 <= Len(ops)
            BY <1>1, <3>1
        <3> QED BY <1>1, <1>2, <2>2, <3>2, SubSeqProperties
    <2> QED BY <2>1, <2>3
<1>6. /\ n \in Nat /\ n < Len(ops)
      /\ Len(todo) # 1 => n + 1 \in 0 .. Len(ops) - 1
    <2>1. n \in Nat /\ n < Len(ops)
        BY <1>1
    <2>2. ASSUME Len(ops) - n # 1 PROVE n + 1 \in 0 .. Len(ops) - 1
        BY <1>1, <2>2
    <2> QED BY <1>3, <2>1, <2>2
<1>7. ops[n + 1] \in Operations
    BY <1>1
<1> QED BY <1>1, <1>3, <1>4, <1>5, <1>6, <1>7 DEF ops, n

-----------------------------------------------------------------------------
(* What the controller and the PHY do                                      *)

\* Of Complete's alternatives the one that the operation chooses; whatever it
\* is, the PHYs stay well-formed.
LEMMA CompleteTyped ==
    ASSUME MdioTypeOK, Exclusive, Complete
    PROVE  PhysOK' /\ rdata' \in Words
<1>1. cmd \in Operations /\ c45 = cmd.c45
    BY DEF Complete, Exclusive
<1>2. rdata \in Words /\ PhysOK
    BY DEF MdioTypeOK
<1>3. ASSUME UNCHANGED <<rdata, phyVars>>
      PROVE  PhysOK' /\ rdata' \in Words
    BY <1>2, <1>3 DEF PhysOK, phyVars
<1>4. CASE cmd \in MdioReads
    <2>1. cmd.c45 = FALSE /\ cmd.code = READ /\ cmd.phy \in PhyAddrs
          /\ cmd.reg \in PlainRegs \cup {"data"}
        BY <1>4 DEF MdioReads
    <2>2. Clause22
        BY <1>1, <2>1 DEF Complete
    <2>3. UNCHANGED phyVars
        BY <2>1, <2>2 DEF Clause22, ReadData, ReadPlain, READ, WRITE
    <2>4. rdata' \in Words
        <3>1. CASE ReadPlain(cmd.phy, cmd.reg) /\ cmd.reg \notin {"ctrl", "data"}
            BY <1>2, <2>1, <3>1 DEF ReadPlain, PhysOK
        <3>2. CASE ReadData(cmd.phy)
            BY <1>2, <2>1, <3>2 DEF ReadData, PhysOK, CtrlWords
        <3> QED BY <2>1, <2>2, <3>1, <3>2 DEF Clause22, READ, WRITE
    <2> QED BY <1>2, <2>3, <2>4 DEF PhysOK, phyVars
<1>5. CASE cmd \in MdioWrites
    <2>1. cmd.c45 = FALSE /\ cmd.code = WRITE /\ cmd.phy \in PhyAddrs
          /\ cmd.reg \in PlainRegs \cup {"data"} /\ cmd.data \in Words
        BY <1>5 DEF MdioWrites
    <2>2. Clause22
        BY <1>1, <2>1 DEF Complete
    <2>3. cmd.reg # "ctrl"
        BY <2>1, RegsAssumption
    <2>4. CASE cmd.reg \in PlainRegs /\ WritePlain(cmd.phy, cmd.reg, cmd.data)
        BY <1>2, <2>1, <2>4 DEF WritePlain, PhysOK
    <2>5. CASE WriteData(cmd.phy, cmd.data)
        <3>1. ctrl[cmd.phy].dev \in Devs
            BY <1>2, <2>1 DEF PhysOK, CtrlWords
        <3>2. UNCHANGED <<rdata, plain, ctrl>>
            BY <2>5 DEF WriteData
        <3> DEFINE p == cmd.phy  d == ctrl[p].dev  x == cmd.data  r == addr[p][d]
        <3>3. \/ addr' = [addr EXCEPT ![p][d] = x] /\ UNCHANGED mmd
              \/ mmd' = [mmd EXCEPT ![p][d][r] = x] /\ UNCHANGED addr
            BY <2>5 DEF WriteData
        <3>4. p \in PhyAddrs /\ d \in Devs /\ x \in Words /\ r \in Words
            BY <1>2, <2>1, <3>1 DEF PhysOK
        <3> HIDE DEF p, d, x, r
        <3>5. CASE addr' = [addr EXCEPT ![p][d] = x] /\ UNCHANGED mmd
            BY <1>2, <3>2, <3>4, <3>5 DEF PhysOK
        <3>6. CASE mmd' = [mmd EXCEPT ![p][d][r] = x] /\ UNCHANGED addr
            <4>1. mmd \in [PhyAddrs -> [Devs -> [Words -> Words]]]
                BY <1>2 DEF PhysOK
            <4>2. mmd' \in [PhyAddrs -> [Devs -> [Words -> Words]]]
                BY <3>4, <3>6, <4>1
            <4> QED BY <1>2, <3>2, <3>6, <4>2 DEF PhysOK
        <3> QED BY <1>2, <3>2, <3>3, <3>5, <3>6
    <2> QED BY <2>1, <2>2, <2>3, <2>4, <2>5 DEF Clause22, READ, WRITE
<1>6. CASE cmd \in CtrlWrites
    <2>1. cmd.c45 = FALSE /\ cmd.code = WRITE /\ cmd.phy \in PhyAddrs
          /\ cmd.reg = "ctrl" /\ cmd.data \in CtrlWords
        BY <1>6 DEF CtrlWrites
    <2>2. Clause22
        BY <1>1, <2>1 DEF Complete
    <2>3. WriteCtrl(cmd.phy, cmd.data)
        BY <2>1, <2>2 DEF Clause22, READ, WRITE
    <2> QED BY <1>2, <2>1, <2>3 DEF WriteCtrl, PhysOK
<1>7. CASE cmd \in C45Frames
    <2>1. cmd.c45 = TRUE /\ cmd.phy \in PhyAddrs /\ cmd.reg \in Devs
          /\ cmd.data \in Words
        BY <1>7 DEF C45Frames
    <2>2. Clause45
        BY <1>1, <2>1 DEF Complete
    <2> DEFINE p == cmd.phy  d == cmd.reg  x == cmd.data  r == addr[p][d]
    <2>3. p \in PhyAddrs /\ d \in Devs /\ x \in Words /\ r \in Words
        BY <1>2, <2>1 DEF PhysOK
    <2>4. \/ /\ addr' = [addr EXCEPT ![p][d] = x]
             /\ UNCHANGED <<rdata, plain, mmd, ctrl>>
          \/ rdata' = mmd[p][d][r] /\ UNCHANGED phyVars
          \/ /\ mmd' = [mmd EXCEPT ![p][d][r] = x]
             /\ UNCHANGED <<rdata, plain, ctrl, addr>>
        BY <2>2 DEF Clause45
    <2> HIDE DEF p, d, x, r
    <2>5. CASE /\ addr' = [addr EXCEPT ![p][d] = x]
               /\ UNCHANGED <<rdata, plain, mmd, ctrl>>
        BY <1>2, <2>3, <2>5 DEF PhysOK
    <2>6. CASE rdata' = mmd[p][d][r] /\ UNCHANGED phyVars
        BY <1>2, <2>3, <2>6 DEF PhysOK, phyVars
    <2>7. CASE /\ mmd' = [mmd EXCEPT ![p][d][r] = x]
               /\ UNCHANGED <<rdata, plain, ctrl, addr>>
        <3>1. mmd \in [PhyAddrs -> [Devs -> [Words -> Words]]]
            BY <1>2 DEF PhysOK
        <3>2. mmd' \in [PhyAddrs -> [Devs -> [Words -> Words]]]
            BY <2>3, <2>7, <3>1
        <3> QED BY <1>2, <2>7, <3>2 DEF PhysOK
    <2> QED BY <2>4, <2>5, <2>6, <2>7
<1> QED BY <1>1, <1>4, <1>5, <1>6, <1>7 DEF Operations

\* A clause-22 read, and a write, of a register of the PHY.
LEMMA PlainReadDone ==
    ASSUME PhysOK, Complete, c45 = FALSE, NEW p \in PhyAddrs,
           NEW r \in PlainRegs, cmd = Rd(p, r)
    PROVE  rdata' = plain[p][r] /\ UNCHANGED <<plain, mmd, ctrl, addr>>
<1>1. Clause22 /\ r # "ctrl" /\ r # "data"
    BY RegsAssumption DEF Complete
<1> QED BY <1>1 DEF Clause22, ReadPlain, Rd, READ, WRITE, phyVars

\* A clause-22 write, once complete, has changed that register and no other.
LEMMA PlainWriteDone ==
    ASSUME PhysOK, Complete, c45 = FALSE, NEW p \in PhyAddrs,
           NEW r \in PlainRegs, NEW x, cmd = Wr(p, r, x)
    PROVE  /\ plain' = [plain EXCEPT ![p][r] = x] /\ plain'[p][r] = x
           /\ mmd' = mmd
<1>1. Clause22 /\ r # "ctrl" /\ r # "data"
    BY RegsAssumption DEF Complete
<1>2. WritePlain(p, r, x)
    BY <1>1 DEF Clause22, Wr, READ, WRITE
<1> QED BY <1>2 DEF WritePlain, PhysOK

\* A write of the MMD control register; of the MMD data register when it is
\* the address, and when it is the data; and a read of the data.
LEMMA SelectDone ==
    ASSUME PhysOK, Complete, c45 = FALSE, NEW p \in PhyAddrs, NEW x,
           cmd = Wr(p, "ctrl", x)
    PROVE  ctrl'[p] = x /\ plain' = plain /\ mmd' = mmd /\ addr' = addr
<1>1. Clause22
    BY DEF Complete
<1>2. WriteCtrl(p, x)
    BY <1>1 DEF Clause22, Wr, READ, WRITE
<1> QED BY <1>2 DEF WriteCtrl, PhysOK

\* A write of the data register with the address function selected.
LEMMA AddressDone ==
    ASSUME PhysOK, Complete, c45 = FALSE, NEW p \in PhyAddrs, NEW x,
           cmd = Wr(p, "data", x), NEW d \in Devs, ctrl[p].dev = d,
           ctrl[p].fn = "addr"
    PROVE  addr'[p][d] = x /\ plain' = plain /\ mmd' = mmd /\ ctrl' = ctrl
<1>1. Clause22
    BY DEF Complete
<1>2. WriteData(p, x)
    BY <1>1 DEF Clause22, Wr, READ, WRITE
<1> QED BY <1>2 DEF WriteData, PhysOK

\* The same with the data function: the MMD register at the latched address.
LEMMA TunnelWriteDone ==
    ASSUME PhysOK, Complete, c45 = FALSE, NEW p \in PhyAddrs, NEW x,
           cmd = Wr(p, "data", x), NEW d \in Devs, ctrl[p].dev = d,
           ctrl[p].fn = "data"
    PROVE  /\ mmd' = [mmd EXCEPT ![p][d][addr[p][d]] = x]
           /\ plain' = plain /\ ctrl' = ctrl /\ addr' = addr
<1>1. Clause22
    BY DEF Complete
<1>2. WriteData(p, x)
    BY <1>1 DEF Clause22, Wr, READ, WRITE
<1> QED BY <1>2 DEF WriteData

\* A read of the data register with the data function selected.
LEMMA TunnelReadDone ==
    ASSUME PhysOK, Complete, c45 = FALSE, NEW p \in PhyAddrs,
           cmd = Rd(p, "data"), NEW d \in Devs, ctrl[p].dev = d,
           ctrl[p].fn = "data"
    PROVE  /\ rdata' = mmd[p][d][addr[p][d]]
           /\ plain' = plain /\ mmd' = mmd /\ ctrl' = ctrl /\ addr' = addr
<1>1. Clause22
    BY DEF Complete
<1>2. ReadData(p)
    BY <1>1 DEF Clause22, Rd, READ, WRITE
<1> QED BY <1>2 DEF ReadData, phyVars

\* A clause-45 frame.
LEMMA FrameEffect ==
    ASSUME PhysOK, Complete, c45 = TRUE, NEW p \in PhyAddrs, NEW x,
           NEW d \in Devs
    PROVE  /\ cmd = C45(C45_ADDR, p, d, x) =>
                 addr'[p][d] = x /\ UNCHANGED <<plain, mmd, ctrl>>
           /\ cmd = C45(C45_WRITE, p, d, x) =>
                 /\ mmd' = [mmd EXCEPT ![p][d][addr[p][d]] = x]
                 /\ UNCHANGED <<plain, ctrl, addr>>
           /\ cmd = C45(C45_READ, p, d, x) =>
                 rdata' = mmd[p][d][addr[p][d]] /\ UNCHANGED phyVars
<1>1. cmd.c45 = TRUE => Clause45
    BY DEF Complete
<1>2. ASSUME cmd = C45(C45_ADDR, p, d, x)
      PROVE  addr'[p][d] = x /\ UNCHANGED <<plain, mmd, ctrl>>
    BY <1>1, <1>2 DEF Clause45, C45, C45_ADDR, C45_READ, C45_WRITE, PhysOK
<1>3. ASSUME cmd = C45(C45_WRITE, p, d, x)
      PROVE  /\ mmd' = [mmd EXCEPT ![p][d][addr[p][d]] = x]
             /\ UNCHANGED <<plain, ctrl, addr>>
    BY <1>1, <1>3 DEF Clause45, C45, C45_ADDR, C45_READ, C45_WRITE
<1>4. ASSUME cmd = C45(C45_READ, p, d, x)
      PROVE  rdata' = mmd[p][d][addr[p][d]] /\ UNCHANGED phyVars
    BY <1>1, <1>4 DEF Clause45, C45, C45_ADDR, C45_READ, C45_WRITE
<1> QED BY <1>2, <1>3, <1>4

\* The effect of a whole call on the registers it may name.
CallEffect ==
    \/ /\ call.op = "write"
       /\ plain' = [plain EXCEPT ![call.phy][call.reg] = call.val]
       /\ UNCHANGED mmd
    \/ /\ call.op = "write_mmd"
       /\ mmd' = [mmd EXCEPT ![call.phy][call.dev][call.reg] = call.val]
       /\ UNCHANGED plain
    \/ /\ call.op \in {"read", "read_mmd"}
       /\ UNCHANGED <<plain, mmd>>

\* The operation that the controller does is the call's next one.
LEMMA InHand ==
    ASSUME MdioTypeOK, Exclusive, UnderWay, pc = "finish", Complete
    PROVE  /\ call \in Calls /\ Sensible(call)
           /\ call.phy \in PhyAddrs /\ call.dev \in Devs /\ call.val \in Words
           /\ call.op \in {"read", "write"} => call.reg \in PlainRegs
           /\ call.op \in {"read_mmd", "write_mmd"} => call.reg \in Words
           /\ call.op \in {"read", "write", "read_mmd", "write_mmd"}
           /\ PhysOK /\ cmd = OpsOf(call)[Passed + 1] /\ c45 = cmd.c45
           /\ Passed \in Nat /\ Passed < Len(OpsOf(call))
           /\ Len(todo) = Len(OpsOf(call)) - Passed
           /\ OpsOf(call)' = OpsOf(call) /\ UNCHANGED <<driver, call, todo>>
<1>1. pc \in Calling
    BY DEF Calling
<1>2. call \in Calls /\ Sensible(call) /\ cmd = Head(todo)
    BY <1>1 DEF UnderWay
<1>3. /\ Passed \in Nat /\ Passed < Len(OpsOf(call))
      /\ Len(todo) = Len(OpsOf(call)) - Passed
      /\ Head(todo) = OpsOf(call)[Passed + 1]
    BY <1>1, TodoIs
<1>4. /\ call.phy \in PhyAddrs /\ call.dev \in Devs /\ call.val \in Words
      /\ call.op \in {"read", "write", "read_mmd", "write_mmd"}
    BY <1>2, OpsAssumption DEF Calls
<1>5. /\ call.op \in {"read", "write"} => call.reg \in PlainRegs
      /\ call.op \in {"read_mmd", "write_mmd"} => call.reg \in Words
    BY <1>2 DEF Sensible
<1>6. PhysOK /\ c45 = cmd.c45
    BY DEF MdioTypeOK, Exclusive
<1>7. UNCHANGED <<driver, call, todo>>
    BY DEF Complete, driverVars
<1>8. OpsOf(call)' = OpsOf(call)
    BY <1>7 DEF OpsOf
<1> QED BY <1>2, <1>3, <1>4, <1>5, <1>6, <1>7, <1>8

\* A clause-22 access takes effect in its one operation.
LEMMA PlainCompletes ==
    ASSUME MdioTypeOK, Exclusive, UnderWay, pc = "finish", Complete,
           call.op \in {"read", "write"}
    PROVE  Reached(Passed + 1)' /\ Len(todo) = 1 /\ CallEffect
<1> DEFINE p == call.phy  r == call.reg  x == call.val
<1>1. /\ Len(OpsOf(call)) = 1 /\ Passed = 0 /\ Len(todo) = 1
      /\ cmd = (IF call.op = "read" THEN Rd(p, r) ELSE Wr(p, r, x))
      /\ c45 = FALSE
    <2>1. /\ Len(OpsOf(call)) = 1 /\ OpsOf(call)[1].c45 = FALSE
          /\ OpsOf(call)[1] = IF call.op = "read" THEN Rd(p, r) ELSE Wr(p, r, x)
        BY InHand, PlainOps
    <2>2. Passed = 0
        BY <2>1, InHand
    <2> QED BY <2>1, <2>2, InHand
<1>2. CASE call.op = "read"
    <2>0. cmd = Rd(p, r) /\ p \in PhyAddrs /\ r \in PlainRegs /\ PhysOK
        BY <1>1, <1>2, InHand
    <2>1. rdata' = plain[p][r] /\ UNCHANGED <<plain, mmd, ctrl, addr>>
        BY <1>1, <2>0, PlainReadDone
    <2>2. Answered'
        BY <1>2, <2>1, InHand DEF Answered
    <2>3. CallEffect
        BY <1>2, <2>1 DEF CallEffect
    <2>4. Reached(Passed + 1)'
        BY <1>2, <2>2, InHand DEF Reached
    <2> QED BY <1>1, <2>3, <2>4
<1>3. CASE call.op = "write"
    <2>0. cmd = Wr(p, r, x) /\ p \in PhyAddrs /\ r \in PlainRegs /\ PhysOK
        BY <1>1, <1>3, InHand
    <2>1. /\ plain' = [plain EXCEPT ![p][r] = x] /\ plain'[p][r] = x
          /\ UNCHANGED mmd
        BY <1>1, <2>0, PlainWriteDone
    <2>2. Answered'
        BY <1>3, <2>1, InHand DEF Answered
    <2>3. CallEffect
        BY <1>3, <2>1 DEF CallEffect
    <2>4. Reached(Passed + 1)'
        BY <1>3, <2>2, InHand DEF Reached
    <2> QED BY <1>1, <2>3, <2>4
<1> QED BY <1>2, <1>3

\* A clause-45 access: the address, then the access at it.
LEMMA C45Completes ==
    ASSUME MdioTypeOK, Exclusive, UnderWay, pc = "finish", Complete,
           call.op \in {"read_mmd", "write_mmd"}, driver = "linux",
           Reached(Passed)
    PROVE  /\ Reached(Passed + 1)'
           /\ IF Len(todo) = 1 THEN CallEffect ELSE UNCHANGED <<plain, mmd>>
<1> DEFINE p == call.phy  d == call.dev  r == call.reg  x == call.val
<1>1. /\ Len(OpsOf(call)) = 2
      /\ OpsOf(call)[1] = C45(C45_ADDR, p, d, r)
      /\ OpsOf(call)[2] = IF call.op = "read_mmd" THEN C45(C45_READ, p, d, Zero)
                                                  ELSE C45(C45_WRITE, p, d, x)
    BY InHand, C45Ops
<1>2. OpsOf(call)[1].c45 = TRUE /\ OpsOf(call)[2].c45 = TRUE
    BY <1>1 DEF C45
<1>3. Passed = 0 \/ Passed = 1
    BY <1>1, InHand
<1>4. c45 = TRUE
    BY <1>2, <1>3, InHand
<1>5. CASE Passed = 0
    <2>1. addr'[p][d] = r /\ UNCHANGED <<plain, mmd>>
        BY <1>1, <1>4, <1>5, InHand, FrameEffect
    <2>2. Reached(Passed + 1)' /\ Len(todo) = 2
        <3>1. Passed' = 0 /\ Len(OpsOf(call))' = 2 /\ Len(todo) = 2
            <4>1. Len(todo) = 2 /\ todo' = todo /\ OpsOf(call)' = OpsOf(call)
                BY <1>1, <1>5, InHand
            <4> QED BY <1>1, <1>5, <4>1 DEF Passed
        <3> QED BY <2>1, <3>1, InHand DEF Reached
    <2> QED BY <2>1, <2>2
<1>6. CASE Passed = 1
    <2>1. addr[p][d] = r /\ Len(todo) = 1
        BY <1>1, <1>6, InHand DEF Reached
    <2>2. addr' = addr /\ Answered' /\ CallEffect
        <3>1. CASE call.op = "read_mmd"
            <4>1. rdata' = mmd[p][d][r] /\ UNCHANGED phyVars
                <5>1. cmd = C45(C45_READ, p, d, Zero)
                    BY <1>1, <1>6, <3>1, InHand
                <5>2. /\ rdata' = mmd[p][d][addr[p][d]]
                      /\ UNCHANGED phyVars
                    BY <1>4, <5>1, InHand, FrameEffect
                <5> QED BY <2>1, <5>2
            <4> QED BY <3>1, <4>1, InHand DEF Answered, CallEffect, phyVars
        <3>2. CASE call.op = "write_mmd"
            <4>1. /\ mmd' = [mmd EXCEPT ![p][d][addr[p][d]] = x]
                  /\ UNCHANGED <<plain, ctrl, addr>>
                <5>1. cmd = C45(C45_WRITE, p, d, x)
                    BY <1>1, <1>6, <3>2, InHand
                <5> QED BY <1>4, <5>1, InHand, FrameEffect
            <4>2. mmd' = [mmd EXCEPT ![p][d][r] = x]
                BY <2>1, <4>1
            <4>3. mmd'[p][d][r] = x
                BY <3>2, <4>2, InHand DEF PhysOK
            <4>4. CallEffect
                BY <3>2, <4>1, <4>2 DEF CallEffect
            <4> QED BY <3>2, <4>1, <4>3, <4>4, InHand DEF Answered
        <3> QED BY <3>1, <3>2
    <2>3. Reached(Passed + 1)'
        BY <2>1, <2>2, InHand DEF Reached
    <2> QED BY <2>1, <2>2, <2>3
<1> QED BY <1>3, <1>5, <1>6

\* A tunnelled access: device, register, switch to data, then the access.
LEMMA TunnelCompletes ==
    ASSUME MdioTypeOK, Exclusive, UnderWay, pc = "finish", Complete,
           call.op \in {"read_mmd", "write_mmd"}, driver # "linux",
           Reached(Passed)
    PROVE  /\ Reached(Passed + 1)'
           /\ IF Len(todo) = 1 THEN CallEffect ELSE UNCHANGED <<plain, mmd>>
<1> DEFINE p == call.phy  d == call.dev  r == call.reg  x == call.val
           sel(fn) == [fn |-> fn, dev |-> d]
<1>1. /\ Len(OpsOf(call)) = 4
      /\ OpsOf(call)[1] = Wr(p, "ctrl", sel("addr"))
      /\ OpsOf(call)[2] = Wr(p, "data", r)
      /\ OpsOf(call)[3] = Wr(p, "ctrl", sel("data"))
      /\ OpsOf(call)[4] = IF call.op = "read_mmd" THEN Rd(p, "data")
                                                  ELSE Wr(p, "data", x)
      /\ \A k \in 1 .. 4 : OpsOf(call)[k].c45 = FALSE
    BY InHand, TunnelOps
<1>2. Passed = 0 \/ Passed = 1 \/ Passed = 2 \/ Passed = 3
    BY <1>1, InHand
<1>3. c45 = FALSE
    <2>1. Passed + 1 \in 1 .. 4
        BY <1>2
    <2> QED BY <1>1, <2>1, InHand
<1>4. /\ \A fn : sel(fn).dev = d /\ sel(fn).fn = fn
      /\ Passed \in {1, 2} => ctrl[p] = sel("addr")
      /\ Passed >= 2 => addr[p][d] = r
      /\ Passed >= 3 => ctrl[p] = sel("data")
    BY DEF Reached
<1>5. Passed' = Passed /\ Len(OpsOf(call))' = 4 /\ Len(todo) = 4 - Passed
    BY <1>1, InHand DEF Passed
<1>6. ctrl[p].dev \in Devs /\ p \in PhyAddrs /\ PhysOK
    BY InHand DEF PhysOK, CtrlWords
<1> HIDE DEF sel
<1>7. CASE Passed = 0
    <2>1. ctrl'[p] = sel("addr") /\ UNCHANGED <<plain, mmd>>
        <3>1. cmd = Wr(p, "ctrl", sel("addr"))
            BY <1>1, <1>7, InHand
        <3> QED BY <1>3, <1>6, <3>1, SelectDone
    <2>2. Reached(Passed + 1)'
        BY <1>5, <1>7, <2>1, InHand DEF Reached, sel
    <2> QED BY <1>5, <1>7, <2>1, <2>2
<1>8. CASE Passed = 1
    <2>1. addr'[p][d] = r /\ UNCHANGED <<plain, mmd, ctrl>>
        <3>1. /\ cmd = Wr(p, "data", r) /\ d \in Devs
              /\ ctrl[p].dev = d /\ ctrl[p].fn = "addr"
            BY <1>1, <1>4, <1>8, InHand
        <3> QED BY <1>3, <1>6, <3>1, AddressDone
    <2>2. Reached(Passed + 1)'
        BY <1>4, <1>5, <1>8, <2>1, InHand DEF Reached, sel
    <2> QED BY <1>5, <1>8, <2>1, <2>2
<1>9. CASE Passed = 2
    <2>1. ctrl'[p] = sel("data") /\ UNCHANGED <<plain, mmd, addr>>
        <3>1. cmd = Wr(p, "ctrl", sel("data"))
            BY <1>1, <1>9, InHand
        <3> QED BY <1>3, <1>6, <3>1, SelectDone
    <2>2. Reached(Passed + 1)'
        BY <1>4, <1>5, <1>9, <2>1, InHand DEF Reached, sel
    <2> QED BY <1>5, <1>9, <2>1, <2>2
<1>10. CASE Passed = 3
    <2>1. addr[p][d] = r /\ ctrl[p].dev = d /\ ctrl[p].fn = "data"
          /\ ctrl[p] = sel("data") /\ Len(todo) = 1
        BY <1>4, <1>5, <1>10
    <2>2. UNCHANGED <<ctrl, addr>> /\ Answered' /\ CallEffect
        <3>1. CASE call.op = "read_mmd"
            <4>1. rdata' = mmd[p][d][r] /\ UNCHANGED phyVars
                <5>1. cmd = Rd(p, "data") /\ d \in Devs
                    BY <1>1, <1>10, <3>1, InHand
                <5>2. /\ rdata' = mmd[p][d][addr[p][d]]
                      /\ UNCHANGED <<plain, mmd, ctrl, addr>>
                    BY <1>3, <1>6, <2>1, <5>1, TunnelReadDone
                <5> QED BY <2>1, <5>2 DEF phyVars
            <4> QED BY <3>1, <4>1, InHand DEF Answered, CallEffect, phyVars
        <3>2. CASE call.op = "write_mmd"
            <4>1. /\ mmd' = [mmd EXCEPT ![p][d][addr[p][d]] = x]
                  /\ UNCHANGED <<plain, ctrl, addr>>
                <5>1. cmd = Wr(p, "data", x) /\ d \in Devs
                    BY <1>1, <1>10, <3>2, InHand
                <5> QED BY <1>3, <1>6, <2>1, <5>1, TunnelWriteDone
            <4>2. mmd' = [mmd EXCEPT ![p][d][r] = x]
                BY <2>1, <4>1
            <4>3. mmd'[p][d][r] = x
                BY <3>2, <4>2, InHand DEF PhysOK
            <4>4. CallEffect
                BY <3>2, <4>1, <4>2 DEF CallEffect
            <4> QED BY <3>2, <4>1, <4>3, <4>4, InHand DEF Answered
        <3> QED BY <3>1, <3>2
    <2>3. Reached(Passed + 1)'
        BY <1>5, <1>10, <2>1, <2>2, InHand DEF Reached, sel
    <2> QED BY <2>1, <2>2, <2>3
<1> QED BY <1>2, <1>7, <1>8, <1>9, <1>10

-----------------------------------------------------------------------------
(* Every step keeps the invariant                                          *)

LEMMA MdioInit == Init => MdioInv
<1> SUFFICES ASSUME Init PROVE MdioInv
    OBVIOUS
<1>1. PhysOK
    BY WordAssumption DEF Init, PhysOK, CtrlWords
<1>2. MdioTypeOK
    BY <1>1, WordAssumption DEF Init, MdioTypeOK, Calling
<1> QED BY <1>2 DEF Init, MdioInv, Exclusive, UnderWay, InTurn, NoneLate, Calling

\* Probe sets the mode before any operation has been issued.
LEMMA ProbeStep == MdioInv /\ Probe => MdioInv'
<1> SUFFICES ASSUME MdioInv, Probe PROVE MdioInv'
    OBVIOUS
<1> USE DEF MdioInv
<1>1. MdioTypeOK'
    BY DEF MdioTypeOK, Probe, PhysOK, phyVars, Calling
<1>2. Exclusive'
    BY DEF Exclusive, Probe
<1>3. UnderWay' /\ InTurn' /\ NoneLate'
    BY DEF UnderWay, InTurn, NoneLate, Probe, Calling
<1> QED BY <1>1, <1>2, <1>3

\* A call starts with all of its operations to do.
LEMMA CallStep ==
    ASSUME MdioInv, NEW c \in Calls, Call(c) PROVE MdioInv'
<1> USE DEF MdioInv
<1>1. MdioTypeOK'
    BY WordAssumption DEF MdioTypeOK, Call, PhysOK, phyVars, Calling
<1>2. Exclusive'
    BY DEF Exclusive, Call
<1>3. /\ call' = c /\ todo' = OpsOf(c) /\ pc' = "wait" /\ Sensible(c)
      /\ OpsOf(call)' = OpsOf(c)
    BY DEF Call, OpsOf
<1>4. OpsOf(c) \in Seq(Operations) /\ Len(OpsOf(c)) \in Nat \ {0}
    BY <1>3, AnyOps
<1>5. Passed' = 0
    BY <1>3, <1>4 DEF Passed
<1>6. UnderWay'
    <2>1. OpsOf(c) = SubSeq(OpsOf(c), 1, Len(OpsOf(c)))
        <3> DEFINE ops == OpsOf(c)
        <3> HIDE DEF ops
        <3>1. ops \in Seq(Operations) /\ Len(ops) \in Nat
            BY <1>4 DEF ops
        <3>2. SubSeq(ops, 1, Len(ops)) = ops
            BY <3>1
        <3> QED BY <3>2 DEF ops
    <2> QED BY <1>3, <1>4, <1>5, <2>1 DEF UnderWay, Calling, Sensible
<1>7. InTurn'
    BY <1>3, <1>4, <1>5 DEF InTurn, Reached, Calling
<1>8. NoneLate'
    BY DEF NoneLate, Call
<1> QED BY <1>1, <1>2, <1>6, <1>7, <1>8

\* After the wait for BUSY to clear nothing is under way.
LEMMA WaitStep == MdioInv /\ WaitIdle => MdioInv'
<1> SUFFICES ASSUME MdioInv, WaitIdle PROVE MdioInv'
    OBVIOUS
<1> USE DEF MdioInv
<1>1. MdioTypeOK'
    BY DEF MdioTypeOK, WaitIdle, PhysOK, phyVars, Calling
<1>2. Exclusive' /\ NoneLate'
    BY DEF Exclusive, NoneLate, WaitIdle
<1>3. OpsOf(call)' = OpsOf(call) /\ Passed' = Passed
    BY DEF OpsOf, Passed, WaitIdle
<1>4. UnderWay'
    BY <1>3 DEF UnderWay, Calling, Sensible, WaitIdle
<1>5. InTurn'
    BY <1>3 DEF InTurn, Reached, Answered, Calling, WaitIdle, phyVars
<1> QED BY <1>1, <1>2, <1>4, <1>5

\* The mode that is set is that of the operation issued.
LEMMA IssueStep == MdioInv /\ Issue => MdioInv'
<1> SUFFICES ASSUME MdioInv, Issue PROVE MdioInv'
    OBVIOUS
<1> USE DEF MdioInv
<1>1. pc \in Calling /\ pc = "issue" /\ pc' = "finish" /\ busy = FALSE /\ busy' = TRUE
    BY DEF Issue, Calling, Exclusive, MdioTypeOK
<1>2. /\ Passed \in Nat /\ Passed < Len(OpsOf(call)) /\ Len(OpsOf(call)) \in Nat
      /\ Head(todo) = OpsOf(call)[Passed + 1] /\ Head(todo) \in Operations
    BY <1>1, TodoIs
<1>3. Head(todo).c45 \in BOOLEAN
    BY <1>2 DEF Operations, MdioReads, MdioWrites, CtrlWrites, C45Frames
<1>4. c45' = Head(todo).c45 /\ (driver # "linux" => c45' = FALSE)
    <2>1. CASE driver = "linux"
        BY <2>1 DEF Issue, ModeFor
    <2>2. CASE driver # "linux"
        <3>1. c45' = FALSE
            BY <1>1, <2>2 DEF Issue, ModeFor, Exclusive, MdioTypeOK
        <3>2. Passed + 1 \in 1 .. Len(OpsOf(call)) /\ call \in Calls /\ Sensible(call)
            BY <1>1, <1>2 DEF UnderWay
        <3>3. Head(todo).c45 = FALSE
            BY <1>2, <2>2, <3>2, AnyOps
        <3> QED BY <3>1, <3>3
    <2> QED BY <2>1, <2>2
<1>5. MdioTypeOK'
    <2>1. c45' \in BOOLEAN
        BY <1>3, <1>4
    <2> QED BY <1>1, <2>1 DEF MdioTypeOK, Issue, PhysOK, phyVars, Calling
<1>6. Exclusive'
    <2>1. cmd' = Head(todo) /\ driver' = driver
        BY DEF Issue
    <2> QED BY <1>1, <1>2, <1>4, <2>1 DEF Exclusive
<1>7. /\ OpsOf(call)' = OpsOf(call) /\ Passed' = Passed
      /\ UNCHANGED <<call, todo, driver>>
    BY DEF OpsOf, Passed, Issue
<1>8. UnderWay'
    BY <1>1, <1>7 DEF UnderWay, Calling, Sensible, Issue
<1>9. InTurn'
    BY <1>1, <1>7 DEF InTurn, Reached, Answered, Calling, Issue, phyVars
<1>10. NoneLate'
    BY <1>1 DEF NoneLate, Issue
<1> QED BY <1>5, <1>6, <1>8, <1>9, <1>10

\* An operation is over: the call is, or its next operation is the first to do.
LEMMA OverStep ==
    ASSUME MdioInv, pc \in Calling, NEW rc \in {0, 1}, OpOver(rc),
           UNCHANGED driver
    PROVE  /\ pc' \in {"idle", "wait", "issue"} /\ code' \in {0, 1}
           /\ (code' = 0) = (code = 0 /\ rc = 0)
           /\ pc' = "issue" => rc = 0
           /\ UnderWay'
           /\ pc' # "idle" => /\ Passed' = Passed + 1 /\ call' = call
                              /\ OpsOf(call)' = OpsOf(call)
<1> USE DEF MdioInv
<1>1. /\ Passed \in Nat /\ Passed < Len(OpsOf(call)) /\ Len(OpsOf(call)) \in Nat
      /\ Len(todo) = Len(OpsOf(call)) - Passed
      /\ Len(todo) # 1 =>
            /\ Passed + 1 \in 0 .. Len(OpsOf(call)) - 1
            /\ Tail(todo) = SubSeq(OpsOf(call), Passed + 1 + 1, Len(OpsOf(call)))
    BY TodoIs
<1>2. code' \in {0, 1} /\ (code' = 0) = (code = 0 /\ rc = 0)
    BY DEF OpOver, MdioTypeOK
<1>3. CASE CallOver(rc)
    <2>1. pc' = "idle" /\ call' = NoCall /\ todo' = << >>
        BY <1>3 DEF OpOver
    <2>2. UnderWay'
        BY <2>1 DEF UnderWay, Calling
    <2> QED BY <1>2, <2>1, <2>2
<1>4. CASE ~CallOver(rc)
    <2>1. /\ call' = call /\ todo' = Tail(todo) /\ Len(todo) # 1
          /\ pc' = (IF driver = "linux" THEN "issue" ELSE "wait")
          /\ driver = "linux" => rc = 0
        BY <1>4 DEF OpOver, CallOver
    <2>2. OpsOf(call)' = OpsOf(call)
        BY <2>1 DEF OpsOf
    <2>3. Passed' = Passed + 1
        <3> DEFINE ops == OpsOf(call)  n == Passed
        <3>1. /\ ops \in Seq(Operations) /\ n \in Nat /\ Len(ops) \in Nat
              /\ n + 1 < Len(ops)
              /\ todo' = SubSeq(ops, n + 1 + 1, Len(ops))
            <4>1. ops \in Seq(Operations)
                BY AnyOps DEF UnderWay
            <4>2. Passed + 1 < Len(OpsOf(call))
                BY <1>1, <2>1
            <4> QED BY <1>1, <2>1, <4>1, <4>2
        <3> HIDE DEF ops, n
        <3>2. Len(todo') = Len(ops) - n - 1
            <4>1. /\ n + 1 + 1 \in Int /\ Len(ops) \in Int
                  /\ n + 1 + 1 <= Len(ops)
                  /\ \A k \in n + 1 + 1 .. Len(ops) : ops[k] \in Operations
                BY <3>1
            <4>2. Len(SubSeq(ops, n + 1 + 1, Len(ops))) = Len(ops) - (n + 1 + 1) + 1
                BY <4>1, SubSeqProperties
            <4> QED BY <3>1, <4>2
        <3>3. Len(ops) - Len(todo') = n + 1
            <4>1. n \in Int /\ Len(ops) \in Int
                BY <3>1
            <4> QED BY <3>2, <4>1
        <3>4. Passed' = Len(OpsOf(call)') - Len(todo')
            BY DEF Passed
        <3>5. OpsOf(call)' = ops
            BY <2>2 DEF ops
        <3> QED BY <3>3, <3>4, <3>5 DEF n
    <2>4. UnderWay'
        BY <1>1, <2>1, <2>2, <2>3 DEF UnderWay, Calling, Sensible
    <2> QED BY <1>2, <2>1, <2>2, <2>3, <2>4
<1> QED BY <1>3, <1>4

\* After a timeout the call is no longer one in which each operation took effect.
LEMMA GiveUpStep ==
    ASSUME MdioInv, pc \in Calling, GiveUp PROVE MdioInv'
<1> USE DEF MdioInv
<1>1. OpOver(1) /\ UNCHANGED driver
    BY DEF GiveUp
<1>2. /\ pc' \in {"idle", "wait", "issue"} /\ code' \in {0, 1}
      /\ (code' = 0) = (code = 0 /\ 1 = 0)
      /\ pc' = "issue" => 1 = 0
      /\ UnderWay'
    BY <1>1, OverStep
<1>3. pc' \in {"idle", "wait"} /\ code' = 1
    BY <1>2
<1>4. timeouts \in Nat /\ timeouts' = timeouts + 1
    BY DEF GiveUp, MdioTypeOK
<1>5. MdioTypeOK'
    BY <1>3, <1>4 DEF MdioTypeOK, GiveUp, PhysOK, phyVars, Calling
<1>6. Exclusive'
    <2>1. UNCHANGED <<busy, cmd, c45, driver>>
        BY DEF GiveUp
    <2>2. pc # "off"
        BY DEF Calling
    <2> QED BY <1>3, <2>1, <2>2 DEF Exclusive
<1>7. InTurn' /\ NoneLate'
    BY <1>3, <1>4 DEF InTurn, NoneLate
<1> QED BY <1>2, <1>5, <1>6, <1>7

\* The operation waited for has taken effect.
LEMMA FinishStep == MdioInv /\ Finish => MdioInv'
<1> SUFFICES ASSUME MdioInv, Finish PROVE MdioInv'
    OBVIOUS
<1> USE DEF MdioInv
<1>1. OpOver(0) /\ UNCHANGED driver /\ pc = "finish" /\ pc \in Calling
    BY DEF Finish, Calling
<1>2. /\ pc' \in {"idle", "wait", "issue"} /\ code' \in {0, 1}
      /\ (code' = 0) = (code = 0 /\ 0 = 0)
      /\ UnderWay'
      /\ pc' # "idle" => /\ Passed' = Passed + 1 /\ call' = call
                         /\ OpsOf(call)' = OpsOf(call)
    BY <1>1, OverStep
<1>3. val' \in Words
    BY DEF Finish, MdioTypeOK
<1>4. MdioTypeOK'
    BY <1>2, <1>3 DEF MdioTypeOK, Finish, PhysOK, phyVars, Calling
<1>5. ~busy /\ UNCHANGED <<busy, cmd, c45, rdata, plain, mmd, ctrl, addr, driver,
                           timeouts>>
    BY DEF Finish, phyVars
<1>6. Exclusive'
    BY <1>1, <1>2, <1>5 DEF Exclusive
<1>7. InTurn'
    <2>1. SUFFICES ASSUME pc' \in Calling, code' = 0
                   PROVE  Reached(Passed)' /\ ~busy' /\ pc' # "finish"
        BY DEF InTurn
    <2>2. Reached(Passed + 1)
        BY <1>1, <1>2, <1>5, <2>1 DEF InTurn
    <2>3. /\ Passed' = Passed + 1 /\ call' = call /\ OpsOf(call)' = OpsOf(call)
        BY <1>2, <2>1 DEF Calling
    <2>4. Reached(Passed)'
        BY <1>5, <2>2, <2>3 DEF Reached, Answered
    <2> QED BY <1>2, <1>5, <2>4
<1>8. NoneLate'
    BY <1>2, <1>5 DEF NoneLate
<1> QED BY <1>2, <1>4, <1>6, <1>7, <1>8

\* The controller is through with the operation of the call under way ...
LEMMA TurnTaken ==
    ASSUME MdioInv, Complete, pc = "finish", code = 0
    PROVE  /\ Reached(Passed + 1)'
           /\ IF Len(todo) = 1 THEN CallEffect ELSE UNCHANGED <<plain, mmd>>
<1> USE DEF MdioInv
<1>1. Reached(Passed)
    BY DEF InTurn, Complete, Calling
<1>2. CASE call.op \in {"read", "write"}
    BY <1>2, PlainCompletes
<1>3. CASE call.op \in {"read_mmd", "write_mmd"} /\ driver = "linux"
    BY <1>1, <1>3, C45Completes
<1>4. CASE call.op \in {"read_mmd", "write_mmd"} /\ driver # "linux"
    BY <1>1, <1>4, TunnelCompletes
<1> QED BY <1>2, <1>3, <1>4, InHand

\* ... or with one that was left behind.
LEMMA CompleteStep == MdioInv /\ Complete => MdioInv'
<1> SUFFICES ASSUME MdioInv, Complete PROVE MdioInv'
    OBVIOUS
<1> USE DEF MdioInv
<1>1. PhysOK' /\ rdata' \in Words
    BY CompleteTyped
<1>2. /\ busy /\ busy' = FALSE
      /\ UNCHANGED <<driver, call, todo, pc, val, code, calls, timeouts, cmd, c45>>
    BY DEF Complete, driverVars
<1>3. MdioTypeOK'
    BY <1>1, <1>2 DEF MdioTypeOK, Calling
<1>4. Exclusive' /\ NoneLate'
    BY <1>2 DEF Exclusive, NoneLate
<1>5. OpsOf(call)' = OpsOf(call)
    BY <1>2 DEF OpsOf
<1>6. Passed' = Passed
    BY <1>2, <1>5 DEF Passed
<1>7. UnderWay'
    BY <1>2, <1>5, <1>6 DEF UnderWay, Sensible, Calling
<1>8. InTurn'
    <2>1. CASE pc \in Calling /\ code = 0 /\ pc = "finish"
        <3>1. Reached(Passed + 1)'
            BY <2>1, TurnTaken
        <3>2. pc' = "finish" /\ ~busy'
            BY <1>2, <2>1
        <3> QED BY <3>1, <3>2 DEF InTurn
    <2>2. CASE pc \in Calling /\ code = 0 /\ pc # "finish"
        <3>1. Passed = 0 /\ pc # "finish"
            <4>1. Passed \in Nat /\ ~(Passed > 0)
                BY <1>2, <2>2, TodoIs DEF InTurn
            <4> QED BY <2>2, <4>1
        <3>2. Passed < Len(OpsOf(call))
            BY <2>2, TodoIs
        <3>3. Reached(Passed)'
            BY <1>2, <1>5, <1>6, <3>1, <3>2 DEF Reached
        <3> QED BY <1>2, <1>6, <3>1, <3>3 DEF InTurn
    <2>3. CASE ~(pc \in Calling /\ code = 0)
        BY <1>2, <2>3 DEF InTurn
    <2> QED BY <2>1, <2>2, <2>3
<1> QED BY <1>3, <1>4, <1>7, <1>8

\* Every step keeps the invariant.
LEMMA MdioNext == MdioInv /\ [Next]_vars => MdioInv'
<1> SUFFICES ASSUME MdioInv, [Next]_vars PROVE MdioInv'
    OBVIOUS
<1>1. ASSUME NEW c \in Calls, Call(c) PROVE MdioInv'
    BY <1>1, CallStep
<1>2. CASE Probe
    BY <1>2, ProbeStep
<1>3. CASE WaitIdle
    BY <1>3, WaitStep
<1>4. CASE WaitTimeout \/ FinishTimeout
    BY <1>4, GiveUpStep DEF WaitTimeout, FinishTimeout, Calling
<1>5. CASE Issue
    BY <1>5, IssueStep
<1>6. CASE Finish
    BY <1>6, FinishStep
<1>7. CASE Complete
    BY <1>7, CompleteStep
<1>8. CASE UNCHANGED vars
    <2>1. /\ UNCHANGED <<driver, call, todo, pc, val, code, calls, timeouts>>
          /\ UNCHANGED <<busy, cmd, c45, rdata, plain, mmd, ctrl, addr>>
        BY <1>8 DEF vars, driverVars, phyVars
    <2>2. OpsOf(call)' = OpsOf(call) /\ Passed' = Passed
        BY <2>1 DEF OpsOf, Passed
    <2>3. MdioTypeOK' /\ Exclusive' /\ NoneLate'
        BY <2>1 DEF MdioInv, MdioTypeOK, PhysOK, Exclusive, NoneLate
    <2>4. UnderWay'
        BY <2>1, <2>2 DEF MdioInv, UnderWay, Sensible
    <2>5. InTurn'
        BY <2>1, <2>2 DEF MdioInv, InTurn, Reached, Answered
    <2> QED BY <2>3, <2>4, <2>5 DEF MdioInv
<1> QED BY <1>1, <1>2, <1>3, <1>4, <1>5, <1>6, <1>7, <1>8 DEF Next, Helper, Rest

\* So it holds always.
LEMMA MdioAlways == Spec => []MdioInv
<1> QED BY MdioInit, MdioNext, PTL DEF Spec

-----------------------------------------------------------------------------
(* What the calls come to                                                  *)

\* Of a read the last operation is the one that reads; a write has none.
LEMMA ReadsLast ==
    ASSUME MdioInv, pc = "finish"
    PROVE  Reads(Head(todo)) <=> Len(todo) = 1 /\ call.op \in {"read", "read_mmd"}
<1>1. /\ \A p, r : Reads(Rd(p, r)) = TRUE
      /\ \A p, r, x : Reads(Wr(p, r, x)) = FALSE
      /\ \A p, d, x : /\ Reads(C45(C45_READ, p, d, x)) = TRUE
                      /\ Reads(C45(C45_ADDR, p, d, x)) = FALSE
                      /\ Reads(C45(C45_WRITE, p, d, x)) = FALSE
    BY DEF Reads, Rd, Wr, C45, READ, WRITE, C45_READ, C45_ADDR, C45_WRITE
<1>2. /\ call \in Calls /\ Sensible(call) /\ UnderWay /\ pc \in Calling
      /\ call.op \in {"read", "write", "read_mmd", "write_mmd"}
    BY OpsAssumption DEF MdioInv, UnderWay, Calling, Calls
<1>3. /\ Passed \in Nat /\ Passed < Len(OpsOf(call))
      /\ Len(todo) = Len(OpsOf(call)) - Passed
      /\ Head(todo) = OpsOf(call)[Passed + 1]
    BY <1>2, TodoIs
<1>4. CASE call.op \in {"read", "write"}
    <2>1. /\ Len(OpsOf(call)) = 1
          /\ OpsOf(call)[1] = IF call.op = "read" THEN Rd(call.phy, call.reg)
                              ELSE Wr(call.phy, call.reg, call.val)
        BY <1>2, <1>4, PlainOps
    <2>2. Passed = 0 /\ Len(todo) = 1 /\ Head(todo) = OpsOf(call)[1]
        BY <1>3, <2>1
    <2>3. CASE call.op = "read"
        BY <1>1, <2>1, <2>2, <2>3
    <2>4. CASE call.op = "write"
        BY <1>1, <2>1, <2>2, <2>4
    <2> QED BY <1>4, <2>3, <2>4
<1>5. CASE call.op \in {"read_mmd", "write_mmd"} /\ driver = "linux"
    <2>1. /\ Len(OpsOf(call)) = 2
          /\ OpsOf(call)[1] = C45(C45_ADDR, call.phy, call.dev, call.reg)
          /\ OpsOf(call)[2] = IF call.op = "read_mmd"
                              THEN C45(C45_READ, call.phy, call.dev, Zero)
                              ELSE C45(C45_WRITE, call.phy, call.dev, call.val)
        BY <1>2, <1>5, C45Ops
    <2>2. \/ Passed = 0 /\ Len(todo) = 2 /\ Head(todo) = OpsOf(call)[1]
          \/ Passed = 1 /\ Len(todo) = 1 /\ Head(todo) = OpsOf(call)[2]
        BY <1>3, <2>1
    <2>3. CASE call.op = "read_mmd"
        BY <1>1, <2>1, <2>2, <2>3
    <2>4. CASE call.op = "write_mmd"
        BY <1>1, <2>1, <2>2, <2>4
    <2> QED BY <1>5, <2>3, <2>4
<1>6. CASE call.op \in {"read_mmd", "write_mmd"} /\ driver # "linux"
    <2> DEFINE c == call
    <2>1. /\ Len(OpsOf(c)) = 4
          /\ OpsOf(c)[1] = Wr(c.phy, "ctrl", [fn |-> "addr", dev |-> c.dev])
          /\ OpsOf(c)[2] = Wr(c.phy, "data", c.reg)
          /\ OpsOf(c)[3] = Wr(c.phy, "ctrl", [fn |-> "data", dev |-> c.dev])
          /\ OpsOf(c)[4] = IF c.op = "read_mmd" THEN Rd(c.phy, "data")
                                                ELSE Wr(c.phy, "data", c.val)
        BY <1>2, <1>6, TunnelOps
    <2>2. \/ Passed = 0 /\ Len(todo) = 4 /\ Head(todo) = OpsOf(c)[1]
          \/ Passed = 1 /\ Len(todo) = 3 /\ Head(todo) = OpsOf(c)[2]
          \/ Passed = 2 /\ Len(todo) = 2 /\ Head(todo) = OpsOf(c)[3]
          \/ Passed = 3 /\ Len(todo) = 1 /\ Head(todo) = OpsOf(c)[4]
        BY <1>3, <2>1
    <2>3. CASE c.op = "read_mmd"
        BY <1>1, <2>1, <2>2, <2>3
    <2>4. CASE c.op = "write_mmd"
        BY <1>1, <2>1, <2>2, <2>4
    <2> QED BY <1>6, <2>3, <2>4
<1> QED BY <1>2, <1>4, <1>5, <1>6

\* A call that returns without a timeout has been answered.
LEMMA ReturnAnswered ==
    ASSUME MdioInv, [Next]_vars, Returns
    PROVE  Answered /\ (call.op \in {"read", "read_mmd"} => val' = rdata)
<1>1. Finish
    <2>1. ASSUME GiveUp PROVE FALSE
        BY <2>1 DEF GiveUp, OpOver, Returns
    <2> QED BY <2>1 DEF Next, Helper, Probe, Call, WaitIdle, WaitTimeout, Issue,
                        FinishTimeout, Complete, Rest, Returns, vars, driverVars
<1>2. /\ pc = "finish" /\ ~busy /\ code = 0 /\ Len(todo) = 1
      /\ val' = IF Reads(Head(todo)) THEN rdata ELSE val
    BY <1>1 DEF Finish, OpOver, CallOver, Returns
<1>3. Reached(Passed + 1) /\ Passed + 1 = Len(OpsOf(call))
    <2>1. Reached(Passed + 1)
        BY <1>2 DEF MdioInv, InTurn, Calling
    <2>2. /\ Passed \in Nat /\ Len(OpsOf(call)) \in Nat
          /\ Len(todo) = Len(OpsOf(call)) - Passed
        BY <1>2, TodoIs DEF MdioInv, Calling
    <2>3. Passed + 1 = Len(OpsOf(call))
        <3> DEFINE n == Passed  ops == Len(OpsOf(call))
        <3>1. n \in Nat /\ ops \in Nat /\ 1 = ops - n
            BY <1>2, <2>2
        <3> HIDE DEF n, ops
        <3>2. n + 1 = ops
            BY <3>1
        <3> QED BY <3>2 DEF n, ops
    <2> QED BY <2>1, <2>3
<1> QED BY <1>2, <1>3, ReadsLast DEF Reached

\* The controller's registers are never rewritten under an operation in progress,
\* be it one whose wait was given up (ipq4019_mdio_read() and _write()).
THEOREM MdioNeverIssuedWhileBusy == Spec => NeverIssuedWhileBusy
<1>1. MdioInv /\ [Next]_vars => (<<cmd, c45>>' # <<cmd, c45>> => ~busy)
    BY DEF MdioInv, Exclusive, Next, Helper, Probe, Call, WaitIdle, WaitTimeout,
           Issue, Finish, FinishTimeout, GiveUp, Complete, Rest, vars, driverVars
<1> QED BY <1>1, MdioAlways, PTL DEF Spec, NeverIssuedWhileBusy

\* A read none of whose operations timed out gives the register as it is, in the
\* three drivers, whatever timed out before (ipq4019_phy_read_mmd()).
THEOREM MdioReadIsCurrent == Spec => ReadIsCurrent
<1> DEFINE Current ==
      Returns => /\ call.op = "read" => val' = plain[call.phy][call.reg]
                 /\ call.op = "read_mmd" =>
                        val' = mmd[call.phy][call.dev][call.reg]
<1>1. MdioInv /\ [Next]_vars => Current
    BY ReturnAnswered DEF Answered
<1>2. MdioInv /\ [Next]_vars => [Current]_vars
    BY <1>1
<1> QED BY <1>2, MdioAlways, PTL DEF Spec, ReadIsCurrent

\* A write none of whose operations timed out has reached its register
\* (ipq4019_phy_write_mmd()).
THEOREM MdioWriteIsDone == Spec => WriteIsDone
<1> DEFINE Done ==
      Returns => /\ call.op = "write" => plain[call.phy][call.reg] = call.val
                 /\ call.op = "write_mmd" =>
                        mmd[call.phy][call.dev][call.reg] = call.val
<1>1. MdioInv /\ [Next]_vars => Done
    BY ReturnAnswered DEF Answered
<1>2. MdioInv /\ [Next]_vars => [Done]_vars
    BY <1>1
<1> QED BY <1>2, MdioAlways, PTL DEF Spec, WriteIsDone

-----------------------------------------------------------------------------
(* Until the first timeout the drivers implement PhyRegs                   *)

\* A step that leaves what PhyRegs shows as it is.
Hidden == UNCHANGED <<call, CallDone, plain, mmd, val>>

\* The last operation to finish is the call's return, another one is not seen.
LEMMA FinishRefines ==
    ASSUME MdioInv, Finish, timeouts = 0 PROVE Regs!End \/ Hidden
<1>1. /\ pc = "finish" /\ ~busy /\ code = 0 /\ UNCHANGED <<plain, mmd, driver>>
      /\ val' = IF Reads(Head(todo)) THEN rdata ELSE val
      /\ OpOver(0)
    BY DEF MdioInv, NoneLate, Finish, phyVars
<1>2. CASE Len(todo) = 1
    <2>1. call' = NoCall /\ pc' = "idle" /\ code' = 0
        BY <1>1, <1>2 DEF OpOver, CallOver
    <2>2. CallDone = TRUE /\ CallDone' = FALSE
        BY <1>1, <1>2, <2>1 DEF CallDone
    <2>3. Answered /\ (call.op \in {"read", "read_mmd"} => val' = rdata)
        BY <1>1, <2>1, ReturnAnswered DEF Returns, Next, Helper
    <2>4. call.op \notin {"read", "read_mmd"} => val' = val
        BY <1>1, ReadsLast
    <2>5. call # NoCall
        BY <1>1, NoCallAssumption DEF MdioInv, UnderWay, Calling
    <2>6. val' = CASE call.op = "read"     -> plain[call.phy][call.reg]
                   [] call.op = "read_mmd" -> mmd[call.phy][call.dev][call.reg]
                   [] OTHER -> val
        BY <2>3, <2>4 DEF Answered
    <2> QED BY <1>1, <2>1, <2>2, <2>5, <2>6 DEF Regs!End
<1>3. CASE Len(todo) # 1
    <2>1. call' = call /\ pc' # "finish"
        BY <1>1, <1>3 DEF OpOver, CallOver
    <2>2. CallDone = FALSE /\ CallDone' = FALSE
        BY <1>3, <2>1 DEF CallDone
    <2>3. val' = val
        BY <1>1, <1>3, ReadsLast
    <2> QED BY <1>1, <2>1, <2>2, <2>3 DEF Hidden
<1> QED BY <1>2, <1>3

\* The last operation's completion is the access, another one's is not seen.
LEMMA CompleteRefines ==
    ASSUME MdioInv, Complete, timeouts = 0 PROVE Regs!Effect \/ Hidden
<1>1. /\ busy /\ ~busy' /\ pc = "finish" /\ code = 0
      /\ UNCHANGED <<call, todo, pc, val>>
    BY DEF MdioInv, NoneLate, Complete, driverVars
<1>2. CASE Len(todo) = 1
    <2>1. CallDone = FALSE /\ CallDone' = TRUE
        BY <1>1, <1>2 DEF CallDone
    <2>2. call # NoCall
        BY <1>1, NoCallAssumption DEF MdioInv, UnderWay, Calling
    <2>3. CallEffect
        BY <1>1, <1>2, TurnTaken
    <2> QED BY <1>1, <2>1, <2>2, <2>3 DEF CallEffect, Regs!Effect
<1>3. CASE Len(todo) # 1
    <2>1. CallDone = FALSE /\ CallDone' = FALSE
        BY <1>1, <1>3 DEF CallDone
    <2>2. UNCHANGED <<plain, mmd>>
        BY <1>1, <1>3, TurnTaken
    <2> QED BY <1>1, <2>1, <2>2 DEF Hidden
<1> QED BY <1>2, <1>3

\* Up to the first timeout a step is one of the register file, or hidden from it.
LEMMA StepRefines ==
    ASSUME MdioInv, MdioInv', [Next]_vars, ~(timeouts > 0)'
    PROVE  Regs!RegNext \/ Hidden
<1>1. timeouts = 0 \/ GiveUp
    BY DEF MdioInv, MdioTypeOK, Next, Helper, Probe, Call, WaitIdle, WaitTimeout,
           Issue, Finish, FinishTimeout, Complete, Rest, vars, driverVars
<1>2. ~GiveUp
    <2>1. timeouts \in Nat /\ timeouts' = timeouts + 1 => timeouts' > 0
        OBVIOUS
    <2> QED BY <2>1 DEF GiveUp, MdioInv, MdioTypeOK
<1>3. ASSUME NEW c \in Calls, Call(c) PROVE Regs!RegNext
    <2>1. call = NoCall /\ call' = c /\ val' = Zero /\ UNCHANGED <<plain, mmd>>
        BY <1>3 DEF Call, phyVars, MdioInv, UnderWay, Calling
    <2>2. CallDone = FALSE /\ CallDone' = FALSE
        BY <1>3 DEF Call, CallDone
    <2>3. c \in {x \in Calls : Sensible(x)}
        BY <1>3 DEF Call
    <2> QED BY <2>1, <2>2, <2>3 DEF Regs!RegNext, Regs!Begin
<1>4. CASE Probe \/ WaitIdle \/ Issue
    BY <1>4 DEF Hidden, CallDone, Probe, WaitIdle, Issue, phyVars
<1>5. CASE Finish
    BY <1>1, <1>2, <1>5, FinishRefines DEF Regs!RegNext
<1>6. CASE Complete
    BY <1>1, <1>2, <1>6, CompleteRefines DEF Regs!RegNext
<1>7. CASE UNCHANGED vars
    BY <1>7 DEF Hidden, CallDone, vars, driverVars, phyVars
<1> QED BY <1>2, <1>3, <1>4, <1>5, <1>6, <1>7
        DEF Next, Helper, WaitTimeout, FinishTimeout, Rest

\* Until the first timeout a call is one access to the register it names, several
\* operations, a mode and an address register of the PHY notwithstanding.
THEOREM MdioImplementsPhyRegs == Spec => ImplementsPhyRegs
<1>1. Init => call = NoCall /\ ~CallDone
    BY DEF Init, CallDone
<1>2. MdioInv /\ MdioInv' /\ [Next]_vars
      => [~(timeouts > 0)' => Regs!RegNext]_(Regs!regVars)
    BY StepRefines DEF Hidden, Regs!regVars
<1> QED BY <1>1, <1>2, MdioAlways, PTL DEF Spec, ImplementsPhyRegs, Regs!RegSpec
=============================================================================
