------------------------------ MODULE PhyRegs ------------------------------
(***************************************************************************)
(* What an MDIO driver promises until an operation times out: each PHY is  *)
(* a file of clause-22 registers and of registers behind MMD devices, and  *)
(* a call reads or writes exactly the register it names, in one step       *)
(* between call and return.                                                *)
(***************************************************************************)
CONSTANTS Calls,   \* the calls: [op, phy, dev, reg, val]
          Zero,    \* the word a read starts from
          NoCall   \* no call is under way

VARIABLES call,    \* the call under way
          done,    \* it has taken effect
          plain,   \* clause-22 registers: [phy -> [reg -> value]]
          mmd,     \* MMD registers: [phy -> [dev -> [reg -> value]]]
          answer,  \* value the last read returned
          late     \* an operation has timed out

regVars == <<call, done, plain, mmd, answer>>

Begin(c) == /\ call = NoCall
            /\ call' = c
            /\ answer' = Zero
            /\ UNCHANGED <<done, plain, mmd>>

Effect ==
    /\ call # NoCall /\ ~done
    /\ done' = TRUE
    /\ \/ /\ call.op = "write"
          /\ plain' = [plain EXCEPT ![call.phy][call.reg] = call.val]
          /\ UNCHANGED mmd
       \/ /\ call.op = "write_mmd"
          /\ mmd' = [mmd EXCEPT ![call.phy][call.dev][call.reg] = call.val]
          /\ UNCHANGED plain
       \/ /\ call.op \in {"read", "read_mmd"}
          /\ UNCHANGED <<plain, mmd>>
    /\ UNCHANGED <<call, answer>>

End == /\ call # NoCall /\ done
       /\ call' = NoCall
       /\ answer' = CASE call.op = "read"     -> plain[call.phy][call.reg]
                      [] call.op = "read_mmd" ->
                             mmd[call.phy][call.dev][call.reg]
                      [] OTHER -> answer
       /\ done' = FALSE
       /\ UNCHANGED <<plain, mmd>>

RegNext == (\E c \in Calls : Begin(c)) \/ Effect \/ End

\* Any contents to begin with.
RegSpec == call = NoCall /\ ~done /\ [][~late' => RegNext]_regVars
=============================================================================
