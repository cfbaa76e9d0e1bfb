---------------------------- MODULE JzAdc_proofs ----------------------------
(***************************************************************************)
(* Proofs about the SADC driver, for any number of channels and readers:   *)
(* the reference count and the interrupts stay balanced under every        *)
(* interleaving, the converter is off when it is not used, and the ENABLE  *)
(* register serves every enabled channel unless a channel was counted      *)
(* while another one was switching the power.                              *)
(***************************************************************************)
EXTENDS JzAdc, FiniteSetTheorems, TLAPS

(* Where a thread is on its way to enable, or to disable, its channel. *)
Enabling == {"inc", "rd_on", "wr_on", "sleep", "rd_set", "wr_set", "irqon"}
Stopped == {"rd_clr", "wr_clr", "dec", "rd_off", "wr_off", "end"}

(* The interrupt and the counts of one channel, wherever its thread is. *)
ChanInv(c) ==
    /\ pc[c] = "idle" => /\ open_count[c] = 0 => enable_count[c] = 0
                         /\ depth[c] = IF enable_count[c] > 0 THEN 0 ELSE 1
    /\ pc[c] \in Enabling => enable_count[c] = 1 /\ open_count[c] = 1 /\ depth[c] = 1
    /\ pc[c] = "irqoff" => depth[c] = 0
    /\ pc[c] \in Stopped => depth[c] = 1

(* The channels clk_ref stands for. *)
IsCounted(c) ==
    \/ pc[c] \in (Enabling \ {"inc"}) \cup {"irqoff", "rd_clr", "wr_clr", "dec"}
    \/ pc[c] = "idle" /\ enable_count[c] > 0

Counted == {c \in Chan : IsCounted(c)}

IInv ==
    /\ TypeOK
    /\ \A c \in Chan : ChanInv(c)
    /\ clk_ref = Cardinality(Counted)

-------------------------------------------------------------------------------
(* Counted is finite, so that its cardinality behaves. *)
LEMMA CountedFinite == IsFiniteSet(Counted) /\ Cardinality(Counted) \in Nat
  <1>1. IsFiniteSet(Counted)
    BY AdcAssumption, FS_Subset DEF Counted
  <1> QED BY <1>1, FS_CardinalityType

(* A channel that is counted keeps the count above zero. *)
LEMMA CountedPositive == ASSUME NEW c \in Counted PROVE Cardinality(Counted) # 0
  BY CountedFinite, FS_EmptySet

(* What jz_adc_probe and jz_adc_aux_probe leave is balanced. *)
LEMMA InitInv == Init => IInv
  <1> SUFFICES ASSUME Init PROVE IInv
    OBVIOUS
  <1>1. Cardinality(Reader) \in Nat
    BY AdcAssumption, FS_CardinalityType
  <1>2. TypeOK
    <2>1. raced \in BOOLEAN
      BY DEF Init
    <2>2. reg \in Register /\ val \in [Chan -> Register]
      BY DEF Init, Register, NoVal
    <2> QED BY <1>1, <2>1, <2>2, AdcAssumption DEF Init, TypeOK, Label, NoReader, MaxDone
  <1>3. \A c \in Chan : ChanInv(c)
    BY DEF Init, ChanInv, Enabling, Stopped
  <1>4. Counted = {}
    BY DEF Init, Counted, IsCounted, Enabling
  <1> QED BY <1>2, <1>3, <1>4, FS_EmptySet DEF IInv, Init

(* A step of one channel's threads: the others keep their place. *)
LEMMA OthersKeep ==
    ASSUME IInv, NEW c \in Chan,
           /\ \A d \in Chan \ {c} : /\ pc'[d] = pc[d] /\ enable_count'[d] = enable_count[d]
                                    /\ open_count'[d] = open_count[d] /\ depth'[d] = depth[d]
    PROVE  /\ \A d \in Chan \ {c} : ChanInv(d)' /\ (IsCounted(d)' <=> IsCounted(d))
  BY DEF IInv, ChanInv, IsCounted

(* If the channel is counted before and after, or neither, so is the sum. *)
LEMMA SameCount ==
    ASSUME IInv, NEW c \in Chan, clk_ref' = clk_ref, IsCounted(c)' <=> IsCounted(c),
           \A d \in Chan \ {c} : IsCounted(d)' <=> IsCounted(d)
    PROVE  clk_ref' = Cardinality(Counted)'
  <1>1. Counted' = Counted
    BY DEF Counted
  <1> QED BY <1>1 DEF IInv

(* A step of channel c that keeps its own part of the invariant and its    *)
(* share of clk_ref keeps the invariant.                                   *)
LEMMA LocalStep ==
    ASSUME IInv, NEW c \in Chan, TypeOK', ChanInv(c)', clk_ref' = clk_ref,
           IsCounted(c)' <=> IsCounted(c),
           \A d \in Chan \ {c} : /\ pc'[d] = pc[d] /\ enable_count'[d] = enable_count[d]
                                 /\ open_count'[d] = open_count[d] /\ depth'[d] = depth[d]
    PROVE  IInv'
  BY OthersKeep, SameCount DEF IInv

(* The system calls keep the invariant. *)
LEMMA CallStep ==
    ASSUME IInv, NEW c \in Chan,
           \/ Open(c) \/ Release(c) \/ IoctlEnable(c) \/ IoctlDisable(c)
           \/ \E r \in Reader : Read(c, r)
           \/ Interrupt(c)
    PROVE  IInv'
  <1>0. MaxDone \in Nat
    BY AdcAssumption, FS_CardinalityType DEF MaxDone
  <1>1. ASSUME Open(c) PROVE IInv'
    <2>1. TypeOK'
      BY <1>0, <1>1, AdcAssumption DEF Open, At, Goto, IInv, TypeOK, Label, chanVars, coreVars
    <2>2. ChanInv(c)' /\ (IsCounted(c)' <=> IsCounted(c))
      BY <1>1 DEF Open, At, Goto, IInv, TypeOK, ChanInv, IsCounted, Enabling, Stopped, chanVars,
             coreVars
    <2>3. /\ clk_ref' = clk_ref
          /\ \A d \in Chan \ {c} : /\ pc'[d] = pc[d] /\ enable_count'[d] = enable_count[d]
                                   /\ open_count'[d] = open_count[d] /\ depth'[d] = depth[d]
      BY <1>1 DEF Open, Goto, IInv, TypeOK, chanVars, coreVars
    <2> QED BY <2>1, <2>2, <2>3, LocalStep
  <1>2. ASSUME Release(c) PROVE IInv'
    <2>1. TypeOK'
      BY <1>0, <1>2, AdcAssumption DEF Release, At, Goto, IInv, TypeOK, Label, chanVars, coreVars
    <2>2. ChanInv(c)' /\ (IsCounted(c)' <=> IsCounted(c))
      BY <1>2 DEF Release, At, Goto, IInv, TypeOK, ChanInv, IsCounted, Enabling, Stopped,
             chanVars, coreVars
    <2>3. /\ clk_ref' = clk_ref
          /\ \A d \in Chan \ {c} : /\ pc'[d] = pc[d] /\ enable_count'[d] = enable_count[d]
                                   /\ open_count'[d] = open_count[d] /\ depth'[d] = depth[d]
      BY <1>2 DEF Release, Goto, IInv, TypeOK, chanVars, coreVars
    <2> QED BY <2>1, <2>2, <2>3, LocalStep
  <1>3. ASSUME IoctlEnable(c) PROVE IInv'
    <2>1. TypeOK'
      BY <1>0, <1>3, AdcAssumption DEF IoctlEnable, At, Goto, IInv, TypeOK, Label, chanVars,
             coreVars
    <2>2. ChanInv(c)' /\ (IsCounted(c)' <=> IsCounted(c))
      <3>1. /\ enable_count[c] \in Int /\ enable_count'[c] = enable_count[c] + 1
            /\ pc[c] = "idle" /\ pc'[c] = IF enable_count'[c] = 1 THEN "inc" ELSE "idle"
            /\ open_count[c] = 1 /\ open_count'[c] = 1 /\ depth'[c] = depth[c]
        BY <1>3, AdcAssumption DEF IoctlEnable, At, Goto, IInv, TypeOK
      <3>2. depth[c] = IF enable_count[c] > 0 THEN 0 ELSE 1
        BY <3>1 DEF IInv, ChanInv
      <3> QED BY <3>1, <3>2 DEF ChanInv, IsCounted, Enabling, Stopped
    <2>3. /\ clk_ref' = clk_ref
          /\ \A d \in Chan \ {c} : /\ pc'[d] = pc[d] /\ enable_count'[d] = enable_count[d]
                                   /\ open_count'[d] = open_count[d] /\ depth'[d] = depth[d]
      BY <1>3 DEF IoctlEnable, Goto, IInv, TypeOK, chanVars, coreVars
    <2> QED BY <2>1, <2>2, <2>3, LocalStep
  <1>4. ASSUME IoctlDisable(c) PROVE IInv'
    <2>1. TypeOK'
      BY <1>0, <1>4, AdcAssumption DEF IoctlDisable, At, Goto, IInv, TypeOK, Label, chanVars,
             coreVars
    <2>2. ChanInv(c)' /\ (IsCounted(c)' <=> IsCounted(c))
      <3>1. /\ enable_count[c] \in Int /\ enable_count'[c] = enable_count[c] - 1
            /\ pc[c] = "idle" /\ pc'[c] = IF enable_count'[c] = 0 THEN "irqoff" ELSE "idle"
            /\ open_count[c] = 1 /\ open_count'[c] = 1 /\ depth'[c] = depth[c]
        BY <1>4, AdcAssumption DEF IoctlDisable, At, Goto, IInv, TypeOK
      <3>2. depth[c] = IF enable_count[c] > 0 THEN 0 ELSE 1
        BY <3>1 DEF IInv, ChanInv
      <3> QED BY <3>1, <3>2 DEF ChanInv, IsCounted, Enabling, Stopped
    <2>3. /\ clk_ref' = clk_ref
          /\ \A d \in Chan \ {c} : /\ pc'[d] = pc[d] /\ enable_count'[d] = enable_count[d]
                                   /\ open_count'[d] = open_count[d] /\ depth'[d] = depth[d]
      BY <1>4 DEF IoctlDisable, Goto, IInv, TypeOK, chanVars, coreVars
    <2> QED BY <2>1, <2>2, <2>3, LocalStep
  <1>5. ASSUME NEW r \in Reader, Read(c, r) PROVE IInv'
    <2>1. TypeOK'
      <3>1. /\ done[c] \in 0 .. MaxDone /\ waiting[c] \in [Reader -> {"out", "waits", "sampled"}]
            /\ UNCHANGED <<open_count, enable_count, pc, val, reg, clk_ref, raced, depth>>
        BY <1>5 DEF Read, ReadBegin, ReadSample, ReadFails, IInv, TypeOK, chanVars, coreVars
      <3>2. done' \in [Chan -> 0 .. MaxDone]
        <4>1. CASE done' = [done EXCEPT ![c] = 0]
          BY <1>0, <4>1 DEF IInv, TypeOK
        <4>2. CASE done[c] > 0 /\ done' = [done EXCEPT ![c] = @ - 1]
          <5>1. done[c] - 1 \in 0 .. MaxDone
            BY <1>0, <3>1, <4>2
          <5> QED BY <4>2, <5>1 DEF IInv, TypeOK
        <4>3. CASE done' = done
          BY <4>3 DEF IInv, TypeOK
        <4> QED BY <1>5, <4>1, <4>2, <4>3 DEF Read, ReadBegin, ReadSample, ReadFails
      <3>3. PICK w \in {"out", "waits"} : waiting' = [waiting EXCEPT ![c][r] = w]
        BY <1>5 DEF Read, ReadBegin, ReadSample, ReadFails
      <3>4. waiting' \in [Chan -> [Reader -> {"out", "waits", "sampled"}]]
        BY <3>1, <3>3 DEF IInv, TypeOK
      <3> QED BY <3>1, <3>2, <3>4 DEF IInv, TypeOK
    <2>2. ChanInv(c)' /\ (IsCounted(c)' <=> IsCounted(c))
      BY <1>5 DEF Read, ReadBegin, ReadSample, ReadFails, At, Goto, IInv, TypeOK, ChanInv,
             IsCounted, Enabling, Stopped, chanVars, coreVars
    <2>3. /\ clk_ref' = clk_ref
          /\ \A d \in Chan \ {c} : /\ pc'[d] = pc[d] /\ enable_count'[d] = enable_count[d]
                                   /\ open_count'[d] = open_count[d] /\ depth'[d] = depth[d]
      BY <1>5 DEF Read, ReadBegin, ReadSample, ReadFails, Goto, IInv, TypeOK, chanVars, coreVars
    <2> QED BY <2>1, <2>2, <2>3, LocalStep
  <1>6. ASSUME Interrupt(c) PROVE IInv'
    <2>1. TypeOK'
      BY <1>0, <1>6, AdcAssumption DEF Interrupt, At, Goto, IInv, TypeOK, Label, chanVars, coreVars
    <2>2. ChanInv(c)' /\ (IsCounted(c)' <=> IsCounted(c))
      BY <1>6 DEF Interrupt, At, Goto, IInv, TypeOK, ChanInv, IsCounted, Enabling, Stopped,
             chanVars, coreVars
    <2>3. /\ clk_ref' = clk_ref
          /\ \A d \in Chan \ {c} : /\ pc'[d] = pc[d] /\ enable_count'[d] = enable_count[d]
                                   /\ open_count'[d] = open_count[d] /\ depth'[d] = depth[d]
      BY <1>6 DEF Interrupt, Goto, IInv, TypeOK, chanVars, coreVars
    <2> QED BY <2>1, <2>2, <2>3, LocalStep
  <1> QED BY <1>1, <1>2, <1>3, <1>4, <1>5, <1>6

(* The steps of a thread that holds a channel's mutex keep the invariant. *)
LEMMA ThreadStep == ASSUME IInv, NEW c \in Chan, Thread(c) PROVE IInv'
  <1>1. ASSUME PowerUpRead(c) PROVE IInv'
    <2>1. TypeOK'
      BY <1>1, AdcAssumption DEF PowerUpRead, At, Goto, IInv, TypeOK, ChanInv, Enabling, Label,
             chanVars, coreVars
    <2>2. ChanInv(c)' /\ (IsCounted(c)' <=> IsCounted(c))
      BY <1>1 DEF PowerUpRead, At, Goto, IInv, TypeOK, ChanInv, IsCounted, Enabling, Stopped,
             chanVars, coreVars
    <2>3. /\ clk_ref' = clk_ref
          /\ \A d \in Chan \ {c} : /\ pc'[d] = pc[d] /\ enable_count'[d] = enable_count[d]
                                   /\ open_count'[d] = open_count[d] /\ depth'[d] = depth[d]
      BY <1>1 DEF PowerUpRead, Goto, IInv, TypeOK, chanVars, coreVars
    <2> QED BY <2>1, <2>2, <2>3, LocalStep
  <1>2. ASSUME PowerUpWrite(c) PROVE IInv'
    <2>1. TypeOK'
      BY <1>2, AdcAssumption DEF PowerUpWrite, At, Goto, IInv, TypeOK, ChanInv, Enabling, Label,
             chanVars, coreVars, NoVal, Register
    <2>2. ChanInv(c)' /\ (IsCounted(c)' <=> IsCounted(c))
      BY <1>2 DEF PowerUpWrite, At, Goto, IInv, TypeOK, ChanInv, IsCounted, Enabling, Stopped,
             chanVars, coreVars
    <2>3. /\ clk_ref' = clk_ref
          /\ \A d \in Chan \ {c} : /\ pc'[d] = pc[d] /\ enable_count'[d] = enable_count[d]
                                   /\ open_count'[d] = open_count[d] /\ depth'[d] = depth[d]
      BY <1>2 DEF PowerUpWrite, Goto, IInv, TypeOK, chanVars, coreVars
    <2> QED BY <2>1, <2>2, <2>3, LocalStep
  <1>3. ASSUME Wake(c) PROVE IInv'
    <2>1. TypeOK'
      BY <1>3, AdcAssumption DEF Wake, At, Goto, IInv, TypeOK, ChanInv, Enabling, Label,
             chanVars, coreVars
    <2>2. ChanInv(c)' /\ (IsCounted(c)' <=> IsCounted(c))
      BY <1>3 DEF Wake, At, Goto, IInv, TypeOK, ChanInv, IsCounted, Enabling, Stopped, chanVars,
             coreVars
    <2>3. /\ clk_ref' = clk_ref
          /\ \A d \in Chan \ {c} : /\ pc'[d] = pc[d] /\ enable_count'[d] = enable_count[d]
                                   /\ open_count'[d] = open_count[d] /\ depth'[d] = depth[d]
      BY <1>3 DEF Wake, Goto, IInv, TypeOK, chanVars, coreVars
    <2> QED BY <2>1, <2>2, <2>3, LocalStep
  <1>4. ASSUME SetRead(c) PROVE IInv'
    <2>1. TypeOK'
      BY <1>4, AdcAssumption DEF SetRead, At, Goto, IInv, TypeOK, ChanInv, Enabling, Label,
             chanVars, coreVars
    <2>2. ChanInv(c)' /\ (IsCounted(c)' <=> IsCounted(c))
      BY <1>4 DEF SetRead, At, Goto, IInv, TypeOK, ChanInv, IsCounted, Enabling, Stopped,
             chanVars, coreVars
    <2>3. /\ clk_ref' = clk_ref
          /\ \A d \in Chan \ {c} : /\ pc'[d] = pc[d] /\ enable_count'[d] = enable_count[d]
                                   /\ open_count'[d] = open_count[d] /\ depth'[d] = depth[d]
      BY <1>4 DEF SetRead, Goto, IInv, TypeOK, chanVars, coreVars
    <2> QED BY <2>1, <2>2, <2>3, LocalStep
  <1>5. ASSUME SetWrite(c) PROVE IInv'
    <2>1. TypeOK'
      BY <1>5, AdcAssumption DEF SetWrite, At, Goto, IInv, TypeOK, ChanInv, Enabling, Label,
             chanVars, coreVars, NoVal, Register
    <2>2. ChanInv(c)' /\ (IsCounted(c)' <=> IsCounted(c))
      BY <1>5 DEF SetWrite, At, Goto, IInv, TypeOK, ChanInv, IsCounted, Enabling, Stopped,
             chanVars, coreVars
    <2>3. /\ clk_ref' = clk_ref
          /\ \A d \in Chan \ {c} : /\ pc'[d] = pc[d] /\ enable_count'[d] = enable_count[d]
                                   /\ open_count'[d] = open_count[d] /\ depth'[d] = depth[d]
      BY <1>5 DEF SetWrite, Goto, IInv, TypeOK, chanVars, coreVars
    <2> QED BY <2>1, <2>2, <2>3, LocalStep
  <1>6. ASSUME EnableIrq(c) PROVE IInv'
    <2>1. TypeOK'
      BY <1>6, AdcAssumption DEF EnableIrq, At, Goto, IInv, TypeOK, ChanInv, Enabling, Label,
             chanVars, coreVars
    <2>2. ChanInv(c)' /\ (IsCounted(c)' <=> IsCounted(c))
      BY <1>6 DEF EnableIrq, At, Goto, IInv, TypeOK, ChanInv, IsCounted, Enabling, Stopped,
             chanVars, coreVars
    <2>3. /\ clk_ref' = clk_ref
          /\ \A d \in Chan \ {c} : /\ pc'[d] = pc[d] /\ enable_count'[d] = enable_count[d]
                                   /\ open_count'[d] = open_count[d] /\ depth'[d] = depth[d]
      BY <1>6 DEF EnableIrq, Goto, IInv, TypeOK, chanVars, coreVars
    <2> QED BY <2>1, <2>2, <2>3, LocalStep
  <1>7. ASSUME DisableIrq(c) PROVE IInv'
    <2>1. TypeOK'
      BY <1>7, AdcAssumption DEF DisableIrq, At, Goto, IInv, TypeOK, ChanInv, Enabling, Label,
             chanVars, coreVars
    <2>2. ChanInv(c)' /\ (IsCounted(c)' <=> IsCounted(c))
      BY <1>7 DEF DisableIrq, At, Goto, IInv, TypeOK, ChanInv, IsCounted, Enabling, Stopped,
             chanVars, coreVars
    <2>3. /\ clk_ref' = clk_ref
          /\ \A d \in Chan \ {c} : /\ pc'[d] = pc[d] /\ enable_count'[d] = enable_count[d]
                                   /\ open_count'[d] = open_count[d] /\ depth'[d] = depth[d]
      BY <1>7 DEF DisableIrq, Goto, IInv, TypeOK, chanVars, coreVars
    <2> QED BY <2>1, <2>2, <2>3, LocalStep
  <1>8. ASSUME ClearRead(c) PROVE IInv'
    <2>1. TypeOK'
      BY <1>8, AdcAssumption DEF ClearRead, At, Goto, IInv, TypeOK, ChanInv, Enabling, Label,
             chanVars, coreVars
    <2>2. ChanInv(c)' /\ (IsCounted(c)' <=> IsCounted(c))
      BY <1>8 DEF ClearRead, At, Goto, IInv, TypeOK, ChanInv, IsCounted, Enabling, Stopped,
             chanVars, coreVars
    <2>3. /\ clk_ref' = clk_ref
          /\ \A d \in Chan \ {c} : /\ pc'[d] = pc[d] /\ enable_count'[d] = enable_count[d]
                                   /\ open_count'[d] = open_count[d] /\ depth'[d] = depth[d]
      BY <1>8 DEF ClearRead, Goto, IInv, TypeOK, chanVars, coreVars
    <2> QED BY <2>1, <2>2, <2>3, LocalStep
  <1>9. ASSUME ClearWrite(c) PROVE IInv'
    <2>1. TypeOK'
      BY <1>9, AdcAssumption DEF ClearWrite, At, Goto, IInv, TypeOK, ChanInv, Enabling, Label,
             chanVars, coreVars, NoVal, Register
    <2>2. ChanInv(c)' /\ (IsCounted(c)' <=> IsCounted(c))
      BY <1>9 DEF ClearWrite, At, Goto, IInv, TypeOK, ChanInv, IsCounted, Enabling, Stopped,
             chanVars, coreVars
    <2>3. /\ clk_ref' = clk_ref
          /\ \A d \in Chan \ {c} : /\ pc'[d] = pc[d] /\ enable_count'[d] = enable_count[d]
                                   /\ open_count'[d] = open_count[d] /\ depth'[d] = depth[d]
      BY <1>9 DEF ClearWrite, Goto, IInv, TypeOK, chanVars, coreVars
    <2> QED BY <2>1, <2>2, <2>3, LocalStep
  <1>10. ASSUME PowerDownRead(c) PROVE IInv'
    <2>1. TypeOK'
      BY <1>10, AdcAssumption DEF PowerDownRead, At, Goto, IInv, TypeOK, ChanInv, Enabling,
             Label, chanVars, coreVars
    <2>2. ChanInv(c)' /\ (IsCounted(c)' <=> IsCounted(c))
      BY <1>10 DEF PowerDownRead, At, Goto, IInv, TypeOK, ChanInv, IsCounted, Enabling, Stopped,
             chanVars, coreVars
    <2>3. /\ clk_ref' = clk_ref
          /\ \A d \in Chan \ {c} : /\ pc'[d] = pc[d] /\ enable_count'[d] = enable_count[d]
                                   /\ open_count'[d] = open_count[d] /\ depth'[d] = depth[d]
      BY <1>10 DEF PowerDownRead, Goto, IInv, TypeOK, chanVars, coreVars
    <2> QED BY <2>1, <2>2, <2>3, LocalStep
  <1>11. ASSUME PowerDownWrite(c) PROVE IInv'
    <2>1. TypeOK'
      BY <1>11, AdcAssumption DEF PowerDownWrite, At, Goto, IInv, TypeOK, ChanInv, Enabling,
             Label, chanVars, coreVars, NoVal, Register
    <2>2. ChanInv(c)' /\ (IsCounted(c)' <=> IsCounted(c))
      BY <1>11 DEF PowerDownWrite, At, Goto, IInv, TypeOK, ChanInv, IsCounted, Enabling, Stopped,
             chanVars, coreVars
    <2>3. /\ clk_ref' = clk_ref
          /\ \A d \in Chan \ {c} : /\ pc'[d] = pc[d] /\ enable_count'[d] = enable_count[d]
                                   /\ open_count'[d] = open_count[d] /\ depth'[d] = depth[d]
      BY <1>11 DEF PowerDownWrite, Goto, IInv, TypeOK, chanVars, coreVars
    <2> QED BY <2>1, <2>2, <2>3, LocalStep
  <1>12. ASSUME End(c) PROVE IInv'
    <2>1. TypeOK'
      BY <1>12, AdcAssumption DEF End, At, Goto, IInv, TypeOK, ChanInv, Enabling, Label,
             chanVars, coreVars
    <2>2. ChanInv(c)' /\ (IsCounted(c)' <=> IsCounted(c))
      BY <1>12 DEF End, At, Goto, IInv, TypeOK, ChanInv, IsCounted, Enabling, Stopped, chanVars,
             coreVars
    <2>3. /\ clk_ref' = clk_ref
          /\ \A d \in Chan \ {c} : /\ pc'[d] = pc[d] /\ enable_count'[d] = enable_count[d]
                                   /\ open_count'[d] = open_count[d] /\ depth'[d] = depth[d]
      BY <1>12 DEF End, Goto, IInv, TypeOK, chanVars, coreVars
    <2> QED BY <2>1, <2>2, <2>3, LocalStep
  <1>13. ASSUME CountUp(c) PROVE IInv'
    <2>1. TypeOK'
      BY <1>13 DEF CountUp, At, Goto, IInv, TypeOK, Label, chanVars
    <2>2. ChanInv(c)' /\ IsCounted(c)' /\ ~IsCounted(c)
      BY <1>13 DEF CountUp, At, Goto, IInv, TypeOK, ChanInv, IsCounted, Enabling, Stopped, chanVars
    <2>3. \A d \in Chan \ {c} : ChanInv(d)' /\ (IsCounted(d)' <=> IsCounted(d))
      BY <1>13, OthersKeep DEF CountUp, Goto, IInv, TypeOK, chanVars
    <2>4. Counted' = Counted \cup {c} /\ c \notin Counted
      BY <2>2, <2>3 DEF Counted
    <2>5. clk_ref' = Cardinality(Counted)'
      BY <1>13, <2>4, CountedFinite, FS_AddElement DEF CountUp, IInv
    <2> QED BY <2>1, <2>2, <2>3, <2>5 DEF IInv
  <1>14. ASSUME CountDown(c) PROVE IInv'
    <2>1. IsCounted(c) /\ c \in Counted
      BY <1>14 DEF CountDown, At, IsCounted, Counted
    <2>2. clk_ref - 1 \in Nat
      BY <2>1, CountedPositive, CountedFinite DEF IInv
    <2>3. TypeOK'
      BY <1>14, <2>2 DEF CountDown, At, Goto, IInv, TypeOK, Label, chanVars
    <2>4. ChanInv(c)' /\ ~IsCounted(c)'
      BY <1>14 DEF CountDown, At, Goto, IInv, TypeOK, ChanInv, IsCounted, Enabling, Stopped,
             chanVars
    <2>5. \A d \in Chan \ {c} : ChanInv(d)' /\ (IsCounted(d)' <=> IsCounted(d))
      BY <1>14, OthersKeep DEF CountDown, Goto, IInv, TypeOK, chanVars
    <2>6. Counted' = Counted \ {c}
      BY <2>4, <2>5 DEF Counted
    <2>7. clk_ref' = Cardinality(Counted)'
      BY <1>14, <2>1, <2>6, CountedFinite, FS_RemoveElement DEF CountDown, IInv
    <2> QED BY <2>3, <2>4, <2>5, <2>7 DEF IInv
  <1> QED BY <1>1, <1>2, <1>3, <1>4, <1>5, <1>6, <1>7, <1>8, <1>9, <1>10, <1>11, <1>12, <1>13,
                 <1>14 DEF Thread

(* IInv is an inductive invariant. *)
THEOREM Inductive == Spec => []IInv
  <1>1. IInv /\ [Next]_vars => IInv'
    <2> SUFFICES ASSUME IInv, [Next]_vars PROVE IInv'
      OBVIOUS
    <2>1. CASE Next
      BY <2>1, CallStep, ThreadStep DEF Next
    <2>2. CASE UNCHANGED vars
      BY <2>2 DEF vars, chanVars, coreVars, IInv, TypeOK, ChanInv, Counted, IsCounted
    <2> QED BY <2>1, <2>2
  <1> QED BY <1>1, InitInv, PTL DEF Spec

(* Type correctness; clk_ref and the disable depths never go below zero. *)
THEOREM TypeTheorem == Spec => []TypeOK
  <1>1. IInv => TypeOK
    BY DEF IInv
  <1> QED BY <1>1, Inductive, PTL

(* The interrupts are balanced (IrqBalanced). *)
THEOREM IrqTheorem == Spec => []IrqBalanced
  <1>1. IInv => IrqBalanced
    BY DEF IInv, ChanInv, IrqBalanced
  <1> QED BY <1>1, Inductive, PTL

(* The core counts exactly the enabled channels (RefCountExact). *)
THEOREM RefCountTheorem == Spec => []RefCountExact
  <1>1. IInv => RefCountExact
    <2> SUFFICES ASSUME IInv PROVE RefCountExact
      OBVIOUS
    <2>1. Quiet => Counted = {c \in Chan : enable_count[c] > 0}
      BY DEF Quiet, Counted, IsCounted, Enabling
    <2>2. \A c \in Chan : pc[c] = "idle" /\ open_count[c] = 0 => enable_count[c] = 0
      BY DEF IInv, ChanInv
    <2> QED BY <2>1, <2>2 DEF IInv, RefCountExact
  <1> QED BY <1>1, Inductive, PTL

-------------------------------------------------------------------------------
(* The power. *)

GoingUp == {"rd_on", "wr_on"}
GoingDown == {"rd_off", "wr_off"}
Window == GoingUp \cup GoingDown
Locked == {"wr_set", "wr_clr"}
HasRead == {"wr_on", "wr_set", "wr_clr", "wr_off"}

(* The channels whose engine bit is set. *)
HasEngine(c) ==
    \/ pc[c] \in {"irqon", "irqoff", "rd_clr", "wr_clr"}
    \/ pc[c] = "idle" /\ enable_count[c] > 0

(* With no channel counted the power is off, or a thread is on its way to  *)
(* switch it off: whatever it has read, it writes the bit.                 *)
OffInv == clk_ref = 0 => reg.down \/ \E c \in Chan : pc[c] \in GoingDown

(* The spinlock excludes two threads in jz_adc_set_enabled. *)
LockInv == \A c, d \in Chan : pc[c] \in Locked /\ pc[d] \in Locked => c = d

(* Unless a channel is counted meanwhile, a thread that switches the power *)
(* is the only one to do so and no other channel is counted; ...           *)
AloneInv ==
    \A c, d \in Chan : c # d /\ pc[c] \in Window => pc[d] \notin Window /\ ~IsCounted(d)

(* ... therefore what a thread has read of the register is still there when *)
(* it writes, and the register has power and engines for who needs them.   *)
RegInv(c) ==
    /\ pc[c] \in HasRead => val[c] = reg
    /\ HasEngine(c) => c \in reg.eng
    /\ IsCounted(c) /\ pc[c] \notin GoingUp => ~reg.down

PowerInv == LockInv /\ (~raced => AloneInv /\ \A c \in Chan : RegInv(c))

(* A counted channel keeps the count from being zero. *)
LEMMA CountedClk == IInv => \A d \in Chan : IsCounted(d) => clk_ref # 0
  BY CountedPositive DEF IInv, Counted

(* The same in the next state. *)
LEMMA CountedClkNext == (IInv => \A d \in Chan : IsCounted(d) => clk_ref # 0)'
  BY CountedClk, PTL

(* If the count is not zero some channel is counted. *)
LEMMA SomeCounted == IInv => (clk_ref # 0 => \E c \in Chan : IsCounted(c))
  <1>1. IInv => (Counted = {} => clk_ref = 0)
    BY FS_EmptySet DEF IInv
  <1> QED BY <1>1 DEF Counted

(* A step of channel c changes the place and the counts of no other. *)
LEMMA OthersStay ==
    ASSUME IInv, NEW c \in Chan,
           \/ Open(c) \/ Release(c) \/ IoctlEnable(c) \/ IoctlDisable(c)
           \/ Thread(c)
    PROVE  \A d \in Chan \ {c} : /\ pc'[d] = pc[d] /\ val'[d] = val[d]
                                 /\ enable_count'[d] = enable_count[d]
                                 /\ IsCounted(d)' <=> IsCounted(d)
                                 /\ HasEngine(d)' <=> HasEngine(d)
  <1>1. \A d \in Chan \ {c} : /\ pc'[d] = pc[d] /\ val'[d] = val[d]
                              /\ enable_count'[d] = enable_count[d]
    BY DEF Open, Release, IoctlEnable, IoctlDisable, Thread, CountUp, PowerUpRead, PowerUpWrite,
           Wake, SetRead, SetWrite, EnableIrq, DisableIrq, ClearRead, ClearWrite, CountDown,
           PowerDownRead, PowerDownWrite, End, Goto, IInv, TypeOK, chanVars
  <1> QED BY <1>1 DEF IsCounted, HasEngine

(* A step that moves the thread of channel c on and leaves the register. *)
LEMMA MoveStep ==
    ASSUME PowerInv, NEW c \in Chan,
           \A d \in Chan \ {c} : /\ pc'[d] = pc[d] /\ val'[d] = val[d]
                                 /\ IsCounted(d)' <=> IsCounted(d)
                                 /\ HasEngine(d)' <=> HasEngine(d),
           reg' = reg, raced' = raced,
           IsCounted(c)' => IsCounted(c), HasEngine(c)' => HasEngine(c),
           pc'[c] \in HasRead => val'[c] = reg,
           pc'[c] \in Locked => \A d \in Chan \ {c} : pc[d] \notin Locked,
           pc'[c] \in Window => pc[c] \in Window, pc[c] \in GoingUp => pc'[c] \in GoingUp
    PROVE  PowerInv'
  <1>1. LockInv'
    BY DEF PowerInv, LockInv
  <1>2. ASSUME ~raced PROVE AloneInv'
    BY <1>2 DEF PowerInv, AloneInv
  <1>3. ASSUME ~raced, NEW d \in Chan PROVE RegInv(d)'
    BY <1>3 DEF PowerInv, RegInv
  <1> QED BY <1>1, <1>2, <1>3 DEF PowerInv

(* A thread that is about to write the register writes back what is there, *)
(* and no other is about to write.                                         *)
LEMMA Writer ==
    ASSUME PowerInv, ~raced, NEW c \in Chan, pc[c] \in HasRead
    PROVE  val[c] = reg /\ \A d \in Chan \ {c} : pc[d] \notin HasRead
  <1>1. val[c] = reg
    BY DEF PowerInv, RegInv
  <1>2. ASSUME NEW d \in Chan, d # c, pc[d] \in HasRead PROVE FALSE
    <2>1. CASE pc[c] \in Window
      BY <1>2, <2>1 DEF PowerInv, AloneInv, IsCounted, Enabling, Window, GoingUp, GoingDown, HasRead
    <2>2. CASE pc[d] \in Window
      BY <1>2, <2>2 DEF PowerInv, AloneInv, IsCounted, Enabling, Window, GoingUp, GoingDown, HasRead
    <2>3. CASE pc[c] \in Locked /\ pc[d] \in Locked
      BY <1>2, <2>3 DEF PowerInv, LockInv
    <2> QED BY <1>2, <2>1, <2>2, <2>3 DEF Window, GoingUp, GoingDown, HasRead, Locked
  <1> QED BY <1>1, <1>2

(* A step that writes the register and changes at most the power, while no *)
(* other channel is counted, or the engine bit of channel c.               *)
LEMMA StoreStep ==
    ASSUME PowerInv, NEW c \in Chan, pc[c] \in HasRead, pc'[c] \notin HasRead \cup Window,
           \A d \in Chan \ {c} : /\ pc'[d] = pc[d] /\ val'[d] = val[d]
                                 /\ IsCounted(d)' <=> IsCounted(d)
                                 /\ HasEngine(d)' <=> HasEngine(d),
           raced' = raced, reg'.eng \cup {c} = val[c].eng \cup {c},
           pc[c] \notin Window => reg'.down = val[c].down,
           HasEngine(c)' => c \in reg'.eng,
           IsCounted(c)' => IsCounted(c) /\ (pc[c] \in GoingUp => ~reg'.down)
    PROVE  PowerInv'
  <1>1. LockInv'
    BY DEF PowerInv, LockInv, HasRead, Locked
  <1>2. ASSUME ~raced PROVE AloneInv'
    BY <1>2 DEF PowerInv, AloneInv
  <1>3. ASSUME ~raced PROVE val[c] = reg /\ \A d \in Chan \ {c} : pc[d] \notin HasRead
    BY <1>3, Writer
  <1>4. ASSUME ~raced, NEW d \in Chan \ {c} PROVE RegInv(d)'
    <2>1. pc[d] \notin HasRead /\ RegInv(d) /\ val[c] = reg
      BY <1>3, <1>4 DEF PowerInv
    <2>2. pc[c] \in Window => ~IsCounted(d)
      BY <1>4 DEF PowerInv, AloneInv
    <2> QED BY <2>1, <2>2 DEF RegInv
  <1>5. ASSUME ~raced PROVE RegInv(c)'
    <2>1. RegInv(c) /\ val[c] = reg
      BY <1>3, <1>5 DEF PowerInv
    <2>2. IsCounted(c)' => ~reg'.down
      BY <2>1 DEF RegInv, IsCounted, Window, GoingUp, GoingDown, Enabling
    <2> QED BY <2>1, <2>2 DEF RegInv, HasRead, GoingUp, Window
  <1> QED BY <1>1, <1>2, <1>4, <1>5 DEF PowerInv

(* The system calls and the threads of a channel keep PowerInv. *)
LEMMA PowerStep ==
    ASSUME IInv, PowerInv, NEW c \in Chan,
           \/ Open(c) \/ Release(c) \/ IoctlEnable(c) \/ IoctlDisable(c)
           \/ Thread(c)
    PROVE  PowerInv'
  <1>1. \A d \in Chan \ {c} : /\ pc'[d] = pc[d] /\ val'[d] = val[d]
                              /\ IsCounted(d)' <=> IsCounted(d)
                              /\ HasEngine(d)' <=> HasEngine(d)
    BY OthersStay
  <1>2. ChanInv(c)
    BY DEF IInv
  <1>3. CASE Open(c)
    BY <1>1, <1>2, <1>3, MoveStep
       DEF Open, At, Goto, Locked, HasEngine, IsCounted, Enabling, HasRead,
           Window, GoingUp, GoingDown, ChanInv, IInv, TypeOK, chanVars, coreVars
  <1>4. CASE Release(c)
    BY <1>1, <1>2, <1>4, MoveStep
       DEF Release, At, Goto, Locked, HasEngine, IsCounted, Enabling, HasRead,
           Window, GoingUp, GoingDown, ChanInv, IInv, TypeOK, chanVars, coreVars
  <1>5. CASE PowerUpRead(c)
    BY <1>1, <1>2, <1>5, MoveStep
       DEF PowerUpRead, At, Goto, Locked, HasEngine, IsCounted, Enabling, HasRead,
           Window, GoingUp, GoingDown, ChanInv, IInv, TypeOK, chanVars, coreVars
  <1>6. CASE Wake(c)
    BY <1>1, <1>2, <1>6, MoveStep
       DEF Wake, At, Goto, Locked, HasEngine, IsCounted, Enabling, HasRead,
           Window, GoingUp, GoingDown, ChanInv, IInv, TypeOK, chanVars, coreVars
  <1>7. CASE SetRead(c)
    BY <1>1, <1>2, <1>7, MoveStep
       DEF SetRead, At, Goto, LockFree, Locked, HasEngine, IsCounted, Enabling, HasRead,
           Window, GoingUp, GoingDown, ChanInv, IInv, TypeOK, chanVars, coreVars
  <1>8. CASE EnableIrq(c)
    BY <1>1, <1>2, <1>8, MoveStep
       DEF EnableIrq, At, Goto, Locked, HasEngine, IsCounted, Enabling, HasRead,
           Window, GoingUp, GoingDown, ChanInv, IInv, TypeOK, chanVars, coreVars
  <1>9. CASE DisableIrq(c)
    BY <1>1, <1>2, <1>9, MoveStep
       DEF DisableIrq, At, Goto, Locked, HasEngine, IsCounted, Enabling, HasRead,
           Window, GoingUp, GoingDown, ChanInv, IInv, TypeOK, chanVars, coreVars
  <1>10. CASE ClearRead(c)
    BY <1>1, <1>2, <1>10, MoveStep
       DEF ClearRead, At, Goto, LockFree, Locked, HasEngine, IsCounted, Enabling, HasRead,
           Window, GoingUp, GoingDown, ChanInv, IInv, TypeOK, chanVars, coreVars
  <1>11. CASE PowerDownRead(c)
    BY <1>1, <1>2, <1>11, MoveStep
       DEF PowerDownRead, At, Goto, Locked, HasEngine, IsCounted, Enabling, HasRead,
           Window, GoingUp, GoingDown, ChanInv, IInv, TypeOK, chanVars, coreVars
  <1>12. CASE End(c)
    BY <1>1, <1>2, <1>12, MoveStep
       DEF End, At, Goto, Locked, HasEngine, IsCounted, Enabling, HasRead,
           Window, GoingUp, GoingDown, ChanInv, IInv, TypeOK, chanVars, coreVars
  <1>13. CASE IoctlEnable(c)
    <2>1. /\ enable_count[c] \in Int /\ enable_count'[c] = enable_count[c] + 1
          /\ pc[c] = "idle" /\ pc'[c] = IF enable_count'[c] = 1 THEN "inc" ELSE "idle"
          /\ reg' = reg /\ raced' = raced
      BY <1>13, AdcAssumption DEF IoctlEnable, At, Goto, IInv, TypeOK, coreVars
    <2> QED BY <1>1, <2>1, MoveStep
               DEF HasEngine, IsCounted, Enabling, HasRead, Window, GoingUp, GoingDown, Locked
  <1>14. CASE IoctlDisable(c)
    <2>1. /\ enable_count[c] \in Int /\ enable_count'[c] = enable_count[c] - 1
          /\ pc[c] = "idle" /\ pc'[c] = IF enable_count'[c] = 0 THEN "irqoff" ELSE "idle"
          /\ reg' = reg /\ raced' = raced
      BY <1>14, AdcAssumption DEF IoctlDisable, At, Goto, IInv, TypeOK, coreVars
    <2> QED BY <1>1, <2>1, MoveStep
               DEF HasEngine, IsCounted, Enabling, HasRead, Window, GoingUp, GoingDown, Locked
  <1>15. CASE PowerUpWrite(c)
    <2>1. /\ pc[c] = "wr_on" /\ pc'[c] = "sleep" /\ raced' = raced
          /\ reg'.eng = val[c].eng /\ reg'.down = FALSE
      BY <1>15 DEF PowerUpWrite, At, Goto, IInv, TypeOK, Register
    <2> QED BY <1>1, <2>1, StoreStep
               DEF HasEngine, IsCounted, Enabling, HasRead, Window, GoingUp, GoingDown
  <1>16. CASE SetWrite(c)
    <2>1. /\ pc[c] = "wr_set" /\ pc'[c] = "irqon" /\ raced' = raced
          /\ reg'.eng = val[c].eng \cup {c} /\ reg'.down = val[c].down
      BY <1>16 DEF SetWrite, At, Goto, IInv, TypeOK, Register
    <2> QED BY <1>1, <2>1, StoreStep
               DEF HasEngine, IsCounted, Enabling, HasRead, Window, GoingUp, GoingDown
  <1>17. CASE ClearWrite(c)
    <2>1. /\ pc[c] = "wr_clr" /\ pc'[c] = "dec" /\ raced' = raced
          /\ reg'.eng = val[c].eng \ {c} /\ reg'.down = val[c].down
      BY <1>17 DEF ClearWrite, At, Goto, IInv, TypeOK, Register
    <2> QED BY <1>1, <2>1, StoreStep
               DEF HasEngine, IsCounted, Enabling, HasRead, Window, GoingUp, GoingDown
  <1>18. CASE PowerDownWrite(c)
    <2>1. /\ pc[c] = "wr_off" /\ pc'[c] = "end" /\ raced' = raced
          /\ reg'.eng = val[c].eng /\ reg'.down = TRUE
      BY <1>18 DEF PowerDownWrite, At, Goto, IInv, TypeOK, Register
    <2> QED BY <1>1, <2>1, StoreStep
               DEF HasEngine, IsCounted, Enabling, HasRead, Window, GoingUp, GoingDown
  <1>19. CASE CountDown(c)
    <2>1. /\ pc[c] = "dec" /\ reg' = reg /\ raced' = raced /\ clk_ref' \in Nat
          /\ pc'[c] = IF clk_ref' = 0 THEN "rd_off" ELSE "end"
      <3>1. IInv'
        BY <1>19, ThreadStep DEF Thread
      <3> QED BY <1>19, <3>1 DEF CountDown, At, Goto, IInv, TypeOK
    <2>2. IsCounted(c) /\ ~IsCounted(c)' /\ ~HasEngine(c)' /\ pc'[c] \notin HasRead
      BY <2>1 DEF IsCounted, HasEngine, Enabling, HasRead
    <2>3. LockInv'
      BY <1>1, <2>1 DEF PowerInv, LockInv, Locked
    <2>4. ASSUME ~raced PROVE AloneInv'
      <3>1. \A d \in Chan : pc[d] \in Window => d = c
        BY <2>2, <2>4 DEF PowerInv, AloneInv
      <3>2. \A d \in Chan : pc'[d] \in Window => d = c
        BY <1>1, <3>1
      <3>3. pc'[c] \in Window => \A d \in Chan \ {c} : ~IsCounted(d)'
        <4>1. IInv'
          BY <1>19, ThreadStep DEF Thread
        <4> QED BY <2>1, <4>1, CountedClkNext DEF Window, GoingUp, GoingDown
      <3> QED BY <3>2, <3>3 DEF AloneInv
    <2>5. ASSUME ~raced, NEW d \in Chan PROVE RegInv(d)'
      BY <1>1, <2>1, <2>2, <2>5 DEF PowerInv, RegInv
    <2> QED BY <2>1, <2>3, <2>4, <2>5 DEF PowerInv
  <1>20. CASE CountUp(c)
    <2>1. /\ pc[c] = "inc" /\ reg' = reg /\ clk_ref \in Nat
          /\ pc'[c] = IF clk_ref = 0 THEN "rd_on" ELSE "rd_set"
          /\ ~raced' => ~Switching(c) /\ (raced => clk_ref = 0)
      <3>1. clk_ref \in Nat
        BY DEF IInv, TypeOK
      <3>2. raced' = (Switching(c) \/ (raced /\ clk_ref > 0))
        BY <1>20 DEF CountUp
      <3>3. ~raced' => ~Switching(c) /\ (raced => ~(clk_ref > 0))
        BY <3>2, Zenon
      <3>4. pc[c] = "inc" /\ reg' = reg /\ pc'[c] = IF clk_ref = 0 THEN "rd_on" ELSE "rd_set"
        BY <1>20, <3>1 DEF CountUp, At, Goto, IInv, TypeOK
      <3> QED BY <3>1, <3>3, <3>4
    <2>2. ~IsCounted(c) /\ ~HasEngine(c)' /\ pc'[c] \notin HasRead /\ pc'[c] \notin Locked
      BY <2>1 DEF IsCounted, HasEngine, Enabling, HasRead, Locked
    <2>3. LockInv'
      BY <1>1, <2>2 DEF PowerInv, LockInv
    <2>4. clk_ref = 0 => \A d \in Chan : ~IsCounted(d)
      BY CountedClk
    <2>5. ASSUME ~raced' PROVE \A d \in Chan \ {c} : pc[d] \notin Window
      BY <2>1, <2>5 DEF Switching, Window, GoingUp, GoingDown
    <2>6. ASSUME ~raced' PROVE AloneInv'
      <3>1. \A d \in Chan : pc'[d] \in Window => d = c /\ clk_ref = 0
        BY <1>1, <2>1, <2>5, <2>6 DEF Window, GoingUp, GoingDown
      <3> QED BY <1>1, <2>4, <3>1 DEF AloneInv
    <2>7. ASSUME ~raced', NEW d \in Chan \ {c} PROVE RegInv(d)'
      <3>1. CASE clk_ref = 0
        <4>1. ~IsCounted(d) /\ pc[d] \notin Window
          BY <2>4, <2>5, <2>7, <3>1
        <4>2. pc[d] \notin HasRead /\ ~HasEngine(d)
          BY <4>1 DEF IsCounted, HasEngine, HasRead, Window, GoingUp, GoingDown, Enabling
        <4> QED BY <1>1, <4>1, <4>2 DEF RegInv
      <3>2. CASE clk_ref # 0
        BY <1>1, <2>1, <2>7, <3>2 DEF PowerInv, RegInv
      <3> QED BY <3>1, <3>2
    <2>8. ASSUME ~raced' PROVE RegInv(c)'
      <3>1. CASE clk_ref = 0
        BY <2>1, <2>2, <3>1 DEF RegInv, GoingUp
      <3>2. CASE clk_ref # 0
        <4>1. PICK d \in Chan : IsCounted(d)
          BY <3>2, SomeCounted
        <4>2. d # c /\ pc[d] \notin GoingUp
          BY <2>2, <2>5, <2>8, <4>1 DEF Window
        <4>3. ~reg.down
          BY <2>1, <2>8, <3>2, <4>1, <4>2 DEF PowerInv, RegInv
        <4> QED BY <2>1, <2>2, <4>3 DEF RegInv
      <3> QED BY <3>1, <3>2
    <2> QED BY <2>3, <2>6, <2>7, <2>8 DEF PowerInv
  <1> QED BY <1>3, <1>4, <1>5, <1>6, <1>7, <1>8, <1>9, <1>10, <1>11, <1>12, <1>13, <1>14, <1>15,
             <1>16, <1>17, <1>18, <1>19, <1>20 DEF Thread

(* An enabled channel converts unless a channel was counted while another  *)
(* one was switching the power (Powered).                                  *)
THEOREM PoweredTheorem == Spec => []Powered
  <1>1. Init => PowerInv
    BY DEF Init, PowerInv, LockInv, AloneInv, RegInv, HasRead, Window, GoingUp, GoingDown, Locked,
           HasEngine, IsCounted, Enabling
  <1>2. IInv /\ PowerInv /\ [Next]_vars => PowerInv'
    <2> SUFFICES ASSUME IInv, PowerInv, [Next]_vars PROVE PowerInv'
      OBVIOUS
    <2>1. ASSUME UNCHANGED <<pc, val, reg, raced, enable_count>> PROVE PowerInv'
      BY <2>1 DEF PowerInv, LockInv, AloneInv, RegInv, HasEngine, IsCounted
    <2>2. ASSUME NEW c \in Chan, NEW r \in Reader, Read(c, r) PROVE PowerInv'
      BY <2>1, <2>2 DEF Read, ReadBegin, ReadSample, ReadFails, chanVars, coreVars
    <2>3. ASSUME NEW c \in Chan, Interrupt(c) PROVE PowerInv'
      BY <2>1, <2>3 DEF Interrupt, chanVars, coreVars
    <2>4. CASE UNCHANGED vars
      BY <2>1, <2>4 DEF vars, chanVars, coreVars
    <2> QED BY <2>2, <2>3, <2>4, PowerStep DEF Next
  <1>3. PowerInv => Powered
    BY DEF PowerInv, RegInv, Powered, HasEngine, IsCounted, GoingUp
  <1> QED BY <1>1, <1>2, <1>3, Inductive, PTL DEF Spec

(* Nothing stays on once no channel is enabled (OffWhenUnused). *)
THEOREM OffTheorem == Spec => []OffWhenUnused
  <1>1. Init => OffInv
    BY DEF Init, OffInv
  <1>2. IInv /\ OffInv /\ [Next]_vars /\ IInv' => OffInv'
    <2> SUFFICES ASSUME IInv, OffInv, [Next]_vars, IInv', clk_ref' = 0
                 PROVE  reg'.down \/ \E c \in Chan : pc'[c] \in GoingDown
      BY DEF OffInv
    <2>0. \A c \in Chan : ~IsCounted(c)'
      BY CountedClkNext
    <2>1. ASSUME reg' = reg, clk_ref' = clk_ref,
                 \A c \in Chan : pc[c] \in GoingDown => pc'[c] \in GoingDown
          PROVE  reg'.down \/ \E c \in Chan : pc'[c] \in GoingDown
      BY <2>1 DEF OffInv
    <2>2. ASSUME NEW c \in Chan, Thread(c)
          PROVE  reg'.down \/ \E d \in Chan : pc'[d] \in GoingDown
      <3>1. CASE PowerDownWrite(c)
        BY <3>1 DEF PowerDownWrite, IInv, TypeOK, Register
      <3>2. CASE CountDown(c)
        BY <3>2 DEF CountDown, Goto, IInv, TypeOK, GoingDown
      <3>3. CASE PowerUpWrite(c) \/ SetWrite(c) \/ ClearWrite(c) \/ CountUp(c)
        <4>1. pc'[c] \in {"sleep", "irqon", "dec", "rd_on", "rd_set"}
          BY <3>3 DEF PowerUpWrite, SetWrite, ClearWrite, CountUp, Goto, IInv, TypeOK
        <4> QED BY <2>0, <4>1 DEF IsCounted, Enabling
      <3>4. CASE PowerDownRead(c)
        BY <3>4 DEF PowerDownRead, Goto, IInv, TypeOK, GoingDown
      <3>5. CASE \/ PowerUpRead(c) \/ Wake(c) \/ SetRead(c) \/ EnableIrq(c)
                 \/ DisableIrq(c) \/ ClearRead(c) \/ End(c)
        BY <2>1, <3>5
           DEF PowerUpRead, Wake, SetRead, EnableIrq, DisableIrq, ClearRead, End, At, Goto,
               IInv, TypeOK, coreVars, GoingDown
      <3> QED BY <2>2, <3>1, <3>2, <3>3, <3>4, <3>5 DEF Thread
    <2>3. ASSUME NEW c \in Chan,
                 Open(c) \/ Release(c) \/ IoctlEnable(c) \/ IoctlDisable(c)
          PROVE  reg'.down \/ \E d \in Chan : pc'[d] \in GoingDown
      BY <2>1, <2>3 DEF Open, Release, IoctlEnable, IoctlDisable, At, Goto, IInv, TypeOK,
           coreVars, GoingDown
    <2>4. ASSUME NEW c \in Chan, NEW r \in Reader, Read(c, r)
          PROVE  reg'.down \/ \E d \in Chan : pc'[d] \in GoingDown
      BY <2>1, <2>4 DEF Read, ReadBegin, ReadSample, ReadFails, coreVars
    <2>5. ASSUME NEW c \in Chan, Interrupt(c)
          PROVE  reg'.down \/ \E d \in Chan : pc'[d] \in GoingDown
      BY <2>1, <2>5 DEF Interrupt, coreVars
    <2>6. CASE UNCHANGED vars
      BY <2>1, <2>6 DEF vars, coreVars
    <2> QED BY <2>2, <2>3, <2>4, <2>5, <2>6 DEF Next
  <1>3. IInv /\ OffInv => OffWhenUnused
    <2> SUFFICES ASSUME IInv, OffInv, Quiet, \A c \in Chan : enable_count[c] <= 0 PROVE reg.down
      BY DEF OffWhenUnused
    <2>1. \A c \in Chan : enable_count[c] \in Int /\ ~ (enable_count[c] > 0)
      BY AdcAssumption DEF IInv, TypeOK
    <2>2. \A c \in Chan : ~IsCounted(c)
      BY <2>1 DEF Quiet, IsCounted, Enabling
    <2>3. clk_ref = 0
      BY <2>2, SomeCounted
    <2> QED BY <2>3 DEF OffInv, Quiet, GoingDown
  <1> QED BY <1>1, <1>2, <1>3, Inductive, PTL DEF Spec

-------------------------------------------------------------------------------
(* Samples. *)

(* A completion that is there to take came after every read in progress began. *)
FreshInv == \A c \in Chan, r \in Reader : done[c] > 0 => waiting[c][r] # "waits"

(* A read that succeeds returns a sample from after its start (FreshSample). *)
THEOREM FreshTheorem == Spec => FreshSample
  <1>1. Init => FreshInv
    BY DEF Init, FreshInv
  <1>2. IInv /\ FreshInv /\ [Next]_vars => FreshInv'
    <2> SUFFICES ASSUME IInv, FreshInv, [Next]_vars PROVE FreshInv'
      OBVIOUS
    <2>0. /\ done \in [Chan -> 0 .. MaxDone] /\ MaxDone \in Nat
          /\ waiting \in [Chan -> [Reader -> {"out", "waits", "sampled"}]]
      BY AdcAssumption, FS_CardinalityType DEF IInv, TypeOK, MaxDone
    <2>1. ASSUME UNCHANGED <<done, waiting>> PROVE FreshInv'
      BY <2>1 DEF FreshInv
    <2>2. ASSUME NEW c \in Chan, NEW r \in Reader, Read(c, r) PROVE FreshInv'
      <3>1. CASE ReadBegin(c, r)
        BY <2>0, <3>1 DEF ReadBegin, FreshInv
      <3>2. CASE ReadSample(c, r)
        BY <2>0, <3>2 DEF ReadSample, FreshInv
      <3>3. CASE ReadFails(c, r)
        BY <2>0, <3>3 DEF ReadFails, FreshInv
      <3> QED BY <2>2, <3>1, <3>2, <3>3 DEF Read
    <2>3. ASSUME NEW c \in Chan, Interrupt(c) PROVE FreshInv'
      BY <2>0, <2>3 DEF Interrupt, FreshInv
    <2>4. ASSUME NEW c \in Chan,
                 \/ Open(c) \/ Release(c) \/ IoctlEnable(c) \/ IoctlDisable(c)
                 \/ Thread(c)
          PROVE  FreshInv'
      BY <2>1, <2>4 DEF Open, Release, IoctlEnable, IoctlDisable, Thread, CountUp, PowerUpRead,
           PowerUpWrite, Wake, SetRead, SetWrite, EnableIrq, DisableIrq, ClearRead, ClearWrite,
           CountDown, PowerDownRead, PowerDownWrite, End
    <2>5. CASE UNCHANGED vars
      BY <2>1, <2>5 DEF vars
    <2> QED BY <2>2, <2>3, <2>4, <2>5 DEF Next
  <1>3. IInv /\ FreshInv => \A c \in Chan, r \in Reader :
            waiting[c][r] # "out" /\ done[c] > 0 => waiting[c][r] = "sampled"
    BY DEF IInv, TypeOK, FreshInv
  <1>4. IInv /\ FreshInv =>
            [\A c \in Chan, r \in Reader :
                waiting[c][r] # "out" /\ waiting'[c][r] = "out" /\ done[c] > 0
                    => waiting[c][r] = "sampled"]_vars
    BY <1>3
  <1> QED BY <1>1, <1>2, <1>4, Inductive, PTL DEF Spec, FreshSample
=============================================================================
