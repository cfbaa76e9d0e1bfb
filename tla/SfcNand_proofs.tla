---------------------------- MODULE SfcNand_proofs ----------------------------
(***************************************************************************)
(* What is written to NAND is read back, block checks tell the truth and   *)
(* transfers stay on the device where there is room, for devices and       *)
(* images of any size and any number of marks, decayed pages and errors.   *)
(***************************************************************************)
EXTENDS SfcNand, FiniteSetTheorems, TLAPS

(* The sizes of the device. *)
LEMMA Sizes ==
    /\ PPB \in Nat /\ PPB >= 1 /\ NBlocks \in Nat /\ NBlocks >= 1
    /\ ImageLen \in Nat /\ ImageLen >= 1 /\ Start \in Nat
    /\ Retries \in Nat /\ MaxFaults \in Nat /\ NBlocks * PPB \in Nat
  BY SfcNandAssumption

(* Multiplication is monotonic. *)
LEMMA Times ==
    ASSUME NEW k \in Nat, NEW a \in Nat, NEW b \in Nat
    PROVE  /\ k * a \in Nat /\ k * a = a * k /\ k * (a + 1) = k * a + k
           /\ a <= b => k * a <= k * b
           /\ a + 1 <= b => k * a + k <= k * b
  OBVIOUS

(* Division of page numbers by the size of a block. *)
LEMMA DivFacts ==
    ASSUME NEW p \in Nat
    PROVE  /\ BlockOf(p) \in Nat /\ p % PPB \in 0 .. PPB - 1
           /\ p = PPB * BlockOf(p) + (p % PPB)
  BY SfcNandAssumption DEF BlockOf

(* The k-th page of block b lies in block b. *)
LEMMA DivUnique ==
    ASSUME NEW b \in Nat, NEW k \in 0 .. PPB - 1
    PROVE  BlockOf(PPB * b + k) = b /\ (PPB * b + k) % PPB = k
  BY SfcNandAssumption DEF BlockOf

(* Skipping goes to the same page of the next block. *)
LEMMA NextBlock ==
    ASSUME NEW p \in Nat
    PROVE  BlockOf(p + PPB) = BlockOf(p) + 1 /\ (p + PPB) % PPB = p % PPB
  BY DivFacts, SfcNandAssumption DEF BlockOf

(* The next page is in the same block, or the first one of the next. *)
LEMMA NextPage ==
    ASSUME NEW p \in Nat
    PROVE  \/ BlockOf(p + 1) = BlockOf(p)
           \/ BlockOf(p + 1) = BlockOf(p) + 1 /\ (p + 1) % PPB = 0
  <1> DEFINE b == BlockOf(p)
             k == p % PPB
  <1>1. b \in Nat /\ k \in 0 .. PPB - 1 /\ p = PPB * b + k
    BY DivFacts
  <1> HIDE DEF b, k
  <1>2. CASE k = PPB - 1
    <2>1. p + 1 = PPB * (b + 1) + 0
      BY <1>1, <1>2, Times, Sizes
    <2>0. b + 1 \in Nat /\ 0 \in 0 .. PPB - 1
      BY <1>1, Sizes
    <2>2. BlockOf(PPB * (b + 1) + 0) = b + 1 /\ (PPB * (b + 1) + 0) % PPB = 0
      BY <2>0, DivUnique
    <2> QED BY <2>1, <2>2 DEF b
  <1>3. CASE k # PPB - 1
    <2>1. p + 1 = PPB * b + (k + 1) /\ k + 1 \in 0 .. PPB - 1
      BY <1>1, <1>3, Times, Sizes
    <2>2. BlockOf(PPB * b + (k + 1)) = b
      BY <1>1, <2>1, DivUnique
    <2> QED BY <2>1, <2>2 DEF b
  <1> QED BY <1>2, <1>3

(* Blocks are in the order of their pages. *)
LEMMA BlockOrder ==
    ASSUME NEW p \in Nat, NEW q \in Nat, p <= q
    PROVE  BlockOf(p) <= BlockOf(q)
  <1> DEFINE b == BlockOf(p)
             c == BlockOf(q)
             j == p % PPB
             k == q % PPB
  <1>1. /\ b \in Nat /\ j \in 0 .. PPB - 1 /\ p = PPB * b + j
        /\ c \in Nat /\ k \in 0 .. PPB - 1 /\ q = PPB * c + k
    BY DivFacts
  <1> HIDE DEF b, c, j, k
  <1>2. c + 1 <= b => PPB * c + PPB <= PPB * b
    BY <1>1, Times, Sizes
  <1>3. PPB * c \in Nat /\ PPB * b \in Nat
    BY <1>1, Times, Sizes
  <1>4. b <= c
    BY <1>1, <1>2, <1>3, Sizes
  <1> QED BY <1>4 DEF b, c

(* The first page of a block is in the block. *)
LEMMA FirstPage ==
    ASSUME NEW b \in Nat PROVE b * PPB \in Nat /\ BlockOf(b * PPB) = b
  <1>1. b * PPB = PPB * b + 0 /\ 0 \in 0 .. PPB - 1 /\ b * PPB \in Nat
    BY Times, Sizes
  <1> QED BY <1>1, DivUnique

(* The device ends with its last block. *)
LEMMA InDevice ==
    ASSUME NEW p \in Nat
    PROVE  /\ p \in Page <=> BlockOf(p) < NBlocks
           /\ p \in Page <=> BlockOf(p) \in Block
  <1> DEFINE b == BlockOf(p)
             k == p % PPB
  <1>1. b \in Nat /\ k \in 0 .. PPB - 1 /\ p = PPB * b + k
    BY DivFacts
  <1> HIDE DEF b, k
  <1>2. /\ b + 1 <= NBlocks => PPB * b + PPB <= PPB * NBlocks
        /\ NBlocks <= b => PPB * NBlocks <= PPB * b
        /\ PPB * NBlocks = NBlocks * PPB /\ PPB * b \in Nat /\ PPB * NBlocks \in Nat
    BY <1>1, Times, Sizes
  <1>3. p < NBlocks * PPB <=> b < NBlocks
    BY <1>1, <1>2, Sizes
  <1>4. p \in Page <=> p < NBlocks * PPB
    BY Sizes DEF Page
  <1>5. b \in Block <=> b < NBlocks
    BY <1>1, Sizes DEF Block
  <1> QED BY <1>3, <1>4, <1>5 DEF b

(* The pages the calls start from. *)
LEMMA PageFacts ==
    /\ Page \subseteq Nat /\ Start \in Page /\ Start = PPB * BlockOf(Start)
    /\ \A b \in Block : b \in Nat /\ b * PPB \in Page
    /\ \A p \in Page : BlockOf(p) \in Block /\ BlockOf(p) * PPB \in Page
  <1>1. Page \subseteq Nat /\ Start \in Page
    BY SfcNandAssumption DEF Page
  <1>2. Start = PPB * BlockOf(Start)
    <2>1. Start = PPB * BlockOf(Start) + (Start % PPB) /\ BlockOf(Start) \in Nat
      BY DivFacts, Sizes
    <2>2. Start % PPB = 0 /\ PPB * BlockOf(Start) \in Nat
      BY <2>1, SfcNandAssumption, Times, Sizes
    <2> QED BY <2>1, <2>2
  <1>3. \A b \in Block : b \in Nat /\ b * PPB \in Page
    <2>1. \A b \in Block : b \in Nat
      BY DEF Block
    <2> QED BY <2>1, FirstPage, InDevice
  <1>4. \A p \in Page : BlockOf(p) \in Block
    BY <1>1, InDevice
  <1> QED BY <1>1, <1>2, <1>3, <1>4
-----------------------------------------------------------------------------
(* The inductive invariant. *)

(* The local variables of the call that runs.  A check has read all pages  *)
(* of its block before the one at hand, and found no mark.                 *)
CallInv ==
    /\ pc # "ready" => ret = NoVerdict
    /\ pc = "write" => length = ImageLen /\ buf = <<>> /\ ~stored
    /\ pc = "load" => length <= ImageLen /\ Len(buf) = length - count
    /\ pc \in {"write", "load"} => addr >= Start
    /\ pc \in {"load", "check"} => retry + fails <= Retries
    /\ pc = "check" => retry + fails = Retries

CheckInv ==
    pc = "check" =>
        \E b \in Block : /\ addr = PPB * b + (PPB - count) /\ count <= PPB
                         /\ count < PPB => b \notin bad

(* A transfer enters a marked block at its first page, unless it has       *)
(* gone past an unmarked one before.                                       *)
AlignInv ==
    \/ pc = "write" /\ ~missed
    \/ pc = "load" /\ given = {}
    => (BlockOf(addr) \in bad => addr % PPB = 0)

(* Each block that was skipped accounts for the PPB pages the address is   *)
(* ahead of the pages transferred.                                         *)
Skipped(S) ==
    /\ S \subseteq bad \cup given
    /\ \A b \in S : BlockOf(Start) <= b /\ b < BlockOf(addr)
    /\ addr - Start = (length - count) + PPB * Cardinality(S)

SkipInv ==
    /\ pc \in {"write", "load", "off_end"} => \E S \in SUBSET Block : Skipped(S)
    /\ pc = "off_end" => count > 0 /\ addr \notin Page

(* The usable pages of the partition that are not erased hold 1 .. n in    *)
(* order, and none is left out before another one.                         *)
Usable == {p \in Page : p >= Start /\ BlockOf(p) \notin bad}

Holds(n) ==
    /\ \A p, q \in Usable : p < q /\ flash[p] # Erased /\ flash[q] # Erased =>
            flash[p] < flash[q]
    /\ \A k \in 1 .. n : \E p \in Usable : flash[p] = k

Dense == \A p, q \in Usable : p < q /\ flash[q] # Erased => flash[p] # Erased

Written(n) ==
    /\ Holds(n)
    /\ \A p \in Usable : flash[p] # Erased => p < addr /\ flash[p] <= n
    /\ ~missed => \A p \in Usable : p < addr => flash[p] # Erased

FlashInv ==
    /\ stored => Holds(ImageLen) /\ (~missed => Dense)
    /\ pc = "write" => Written(ImageLen - count)

(* The buffer holds what the usable pages before the address hold. *)
ReadInv ==
    /\ ReadBack /\ ReadInOrder
    /\ pc = "load" /\ stored /\ given = {} =>
        /\ \A p \in Usable : p < addr /\ flash[p] # Erased =>
               \E i \in DOMAIN buf : buf[i] = flash[p]
        /\ \A i \in DOMAIN buf : buf[i] # Erased =>
               \E p \in Usable : p < addr /\ flash[p] = buf[i]

IInv == /\ TypeOK /\ CallInv /\ CheckInv /\ CheckVerdict
        /\ AlignInv /\ SkipInv /\ FlashInv /\ ReadInv

(* What a read says of a page. *)
LEMMA ReadFacts ==
    ASSUME TypeOK, NEW p \in Page, NEW r, spinand_read_page(p, r)
    PROVE  /\ r \in {EccError, Good, MarkedBad} /\ faults' \in 0 .. MaxFaults
           /\ r = MarkedBad => p % PPB = 0 /\ BlockOf(p) \in bad
           /\ r = Good => ~(p % PPB = 0 /\ BlockOf(p) \in bad)
  BY Sizes DEF TypeOK, spinand_read_page, EccError, Good, MarkedBad

(* What the writer does: it programs a page of an unmarked block, or skips *)
(* the block.                                                              *)
LEMMA WriteFacts ==
    ASSUME TypeOK, WriteStep
    PROVE  /\ pc = "write" /\ addr \in Page /\ addr \in Nat /\ count > 0
           /\ UNCHANGED <<length, bad, weak, stored, pc, retry, buf, ret, fails>>
           /\ faults' \in 0 .. MaxFaults /\ given' \subseteq Block /\ missed' \in BOOLEAN
           /\ \/ /\ BlockOf(addr) \notin bad
                 /\ flash' = [flash EXCEPT ![addr] = ImageLen - count + 1]
                 /\ addr' = addr + 1 /\ count' = count - 1 /\ UNCHANGED <<missed, given>>
              \/ /\ addr' = addr + PPB /\ UNCHANGED <<flash, count>>
                 /\ ~missed' => ~missed /\ BlockOf(addr) \in bad
                 /\ BlockOf(addr) \in bad \cup given' /\ given \subseteq given'
  <1>1. /\ pc = "write" /\ addr \in Page /\ addr \in Nat /\ count > 0
        /\ UNCHANGED <<length, bad, weak, stored, pc, retry, buf, ret, fails>>
    BY DEF WriteStep, TypeOK
  <1>2. /\ BlockOf(addr) * PPB \in Page /\ BlockOf(addr) \in Block
        /\ BlockOf(BlockOf(addr) * PPB) = BlockOf(addr) /\ (BlockOf(addr) * PPB) % PPB = 0
    <2>1. BlockOf(addr) \in Block /\ BlockOf(addr) * PPB \in Page /\ BlockOf(addr) \in Nat
      BY <1>1, PageFacts, DivFacts
    <2>2. BlockOf(addr) * PPB = PPB * BlockOf(addr) + 0 /\ 0 \in 0 .. PPB - 1
      BY <2>1, Times, Sizes
    <2> QED BY <2>1, <2>2, DivUnique
  <1>3. PICK r \in {EccError, Good, MarkedBad} :
           /\ spinand_read_page(BlockOf(addr) * PPB, r)
           /\ \/ /\ r = Good
                 /\ flash' = [flash EXCEPT ![addr] = ImageLen - count + 1]
                 /\ addr' = addr + 1 /\ count' = count - 1
                 /\ UNCHANGED <<missed, given>>
              \/ /\ r # Good
                 /\ addr' = addr + PPB
                 /\ missed' = (missed \/ BlockOf(addr) \notin bad)
                 /\ given' = given \cup {b \in {BlockOf(addr)} : r = EccError}
                 /\ UNCHANGED <<flash, count>>
    BY DEF WriteStep
  <1>4. /\ faults' \in 0 .. MaxFaults
        /\ r = MarkedBad => BlockOf(addr) \in bad
        /\ r = Good => BlockOf(addr) \notin bad
    BY <1>2, <1>3, ReadFacts
  <1>5. CASE r = Good
    BY <1>1, <1>3, <1>4, <1>5 DEF TypeOK
  <1>6. CASE r # Good
    <2>1. /\ addr' = addr + PPB /\ UNCHANGED <<flash, count>>
          /\ missed' = (missed \/ BlockOf(addr) \notin bad)
          /\ given' = given \cup {b \in {BlockOf(addr)} : r = EccError}
      BY <1>3, <1>6
    <2>2. missed' \in BOOLEAN /\ (~missed' => ~missed /\ BlockOf(addr) \in bad)
      BY <2>1 DEF TypeOK
    <2>3. given' \subseteq Block /\ given \subseteq given'
      BY <1>2, <2>1 DEF TypeOK
    <2>4. BlockOf(addr) \in bad \cup given'
      <3>1. r = MarkedBad \/ r = EccError
        BY <1>3, <1>6
      <3> QED BY <1>4, <2>1, <3>1
    <2> QED BY <1>1, <1>4, <2>1, <2>2, <2>3, <2>4
  <1> QED BY <1>5, <1>6

(* A new device. *)
LEMMA InitInv == Init => IInv
  <1> SUFFICES ASSUME Init PROVE IInv OBVIOUS
  <1>1. TypeOK
    <2>1. buf \in Seq({Erased} \cup 1 .. ImageLen)
      BY DEF Init
    <2>2. stored \in BOOLEAN /\ missed \in BOOLEAN
      BY DEF Init
    <2> QED BY <2>1, <2>2, Sizes DEF Init, TypeOK, NoVerdict
  <1>2. CallInv /\ CheckInv /\ CheckVerdict /\ AlignInv /\ SkipInv /\ FlashInv
    BY DEF Init, CallInv, CheckInv, CheckVerdict, AlignInv, SkipInv, FlashInv, NoVerdict
  <1>3. ReadInv
    BY DEF Init, ReadInv, ReadBack, ReadInOrder
  <1> QED BY <1>1, <1>2, <1>3 DEF IInv
-----------------------------------------------------------------------------
(* Every step preserves the types. *)
LEMMA TypeStep == ASSUME IInv, Next PROVE TypeOK'
  <1> USE Sizes
  <1>0. TypeOK /\ CallInv
    BY DEF IInv
  <1>1. CASE sfc_nand_load
    <2>1. buf' \in Seq({Erased} \cup 1 .. ImageLen)
      BY <1>1 DEF sfc_nand_load, Call
    <2> QED BY <1>0, <1>1, <2>1 DEF sfc_nand_load, Call, TypeOK, medium
  <1>2. CASE sfc_nand_block_check
    <2>1. buf' \in Seq({Erased} \cup 1 .. ImageLen)
      BY <1>2 DEF sfc_nand_block_check, Call
    <2>2. \A b \in Block : b * PPB \in Nat
      BY PageFacts
    <2> QED BY <1>0, <1>2, <2>1, <2>2 DEF sfc_nand_block_check, Call, TypeOK, medium
  <1>3. CASE sfc_nand_write
    <2>1. buf' \in Seq({Erased} \cup 1 .. ImageLen)
      BY <1>3 DEF sfc_nand_write, Call
    <2>2. stored' \in BOOLEAN /\ missed' \in BOOLEAN
      BY <1>3 DEF sfc_nand_write
    <2> QED BY <1>0, <1>3, <2>1, <2>2 DEF sfc_nand_write, Call, TypeOK
  <1>4. CASE sfc_erase_data
    <2>1. stored' \in BOOLEAN /\ missed' \in BOOLEAN
      BY <1>0, <1>4 DEF sfc_erase_data, TypeOK
    <2>2. flash' \in [Page -> {Erased} \cup 1 .. ImageLen]
      BY <1>0, <1>4 DEF sfc_erase_data, TypeOK
    <2> QED BY <1>0, <1>4, <2>1, <2>2 DEF sfc_erase_data, TypeOK
  <1>5. CASE Decay
    BY <1>0, <1>5 DEF Decay, TypeOK
  <1>6. CASE Reset
    <2>1. buf' \in Seq({Erased} \cup 1 .. ImageLen)
      BY <1>6 DEF Reset
    <2> QED BY <1>0, <1>6, <2>1 DEF Reset, TypeOK, medium
  <1>7. CASE LoadSkip
    BY <1>0, <1>7, ReadFacts DEF LoadSkip, Reading, TypeOK, medium
  <1>8. CASE Retry
    BY <1>0, <1>8, ReadFacts DEF Retry, Reading, TypeOK, CallInv, medium
  <1>9. CASE LoadGiveUp
    BY <1>0, <1>9, ReadFacts, PageFacts DEF LoadGiveUp, Reading, TypeOK, medium
  <1>10. CASE LoadPage
    <2>1. buf' \in Seq({Erased} \cup 1 .. ImageLen)
      BY <1>0, <1>10 DEF LoadPage, Reading, TypeOK
    <2> QED BY <1>0, <1>10, <2>1, ReadFacts DEF LoadPage, Reading, TypeOK, medium
  <1>11. CASE CheckMarked
    BY <1>0, <1>11, ReadFacts DEF CheckMarked, Reading, TypeOK, medium
  <1>12. CASE CheckGiveUp
    BY <1>0, <1>12, ReadFacts DEF CheckGiveUp, Reading, TypeOK, medium, CallInv
  <1>13. CASE CheckPage
    BY <1>0, <1>13, ReadFacts DEF CheckPage, Reading, TypeOK, medium
  <1>14. CASE WriteStep
    <2>1. faults' \in 0 .. MaxFaults /\ given' \subseteq Block /\ missed' \in BOOLEAN
      BY <1>0, <1>14, WriteFacts
    <2>3. flash' \in [Page -> {Erased} \cup 1 .. ImageLen]
      BY <1>0, <1>14 DEF WriteStep, TypeOK, CallInv
    <2>4. addr' \in Nat /\ count' \in 0 .. length
      BY <1>0, <1>14 DEF WriteStep, TypeOK
    <2> QED BY <1>0, <1>14, <2>1, <2>3, <2>4 DEF WriteStep, TypeOK
  <1>15. CASE Return
    <2>1. stored' \in BOOLEAN
      BY <1>0, <1>15 DEF Return, TypeOK
    <2> QED BY <1>0, <1>15, <2>1 DEF Return, TypeOK
  <1>16. CASE OffEnd
    BY <1>0, <1>16 DEF OffEnd, TypeOK, medium
  <1> QED BY <1>1, <1>2, <1>3, <1>4, <1>5, <1>6, <1>7, <1>8, <1>9, <1>10, <1>11,
             <1>12, <1>13, <1>14, <1>15, <1>16 DEF Next, Loop

(* The local variables fit the call that runs. *)
LEMMA CallStep == ASSUME IInv, Next, TypeOK' PROVE CallInv'
  <1> USE Sizes
  <1>0. TypeOK /\ CallInv
    BY DEF IInv
  <1>1. CASE sfc_nand_load \/ sfc_nand_block_check \/ sfc_nand_write
    <2>1. /\ ret' = NoVerdict /\ retry' = Retries /\ fails' = 0 /\ buf' = <<>>
          /\ count' = length' /\ length' \in Nat
      BY <1>1 DEF sfc_nand_load, sfc_nand_block_check, sfc_nand_write, Call
    <2>2. Len(buf') = length' - count'
      <3>1. Len(<<>>) = 0
        OBVIOUS
      <3>2. \A n \in Nat : n - n = 0
        OBVIOUS
      <3> QED BY <2>1, <3>1, <3>2
    <2>3. CASE sfc_nand_load
      BY <2>1, <2>2, <2>3 DEF sfc_nand_load, Call, CallInv
    <2>4. CASE sfc_nand_block_check
      BY <2>1, <2>4 DEF sfc_nand_block_check, Call, CallInv
    <2>5. CASE sfc_nand_write
      BY <2>1, <2>5 DEF sfc_nand_write, Call, CallInv
    <2> QED BY <1>1, <2>3, <2>4, <2>5
  <1>2. CASE sfc_erase_data \/ Decay \/ Reset
    BY <1>0, <1>2 DEF sfc_erase_data, Decay, Reset, CallInv, TypeOK
  <1>3. CASE LoadSkip
    BY <1>0, <1>3 DEF LoadSkip, Reading, CallInv, TypeOK, medium
  <1>4. CASE Retry
    BY <1>0, <1>4 DEF Retry, Reading, CallInv, TypeOK, medium
  <1>5. CASE LoadGiveUp
    BY <1>0, <1>5 DEF LoadGiveUp, Reading, CallInv, TypeOK, medium
  <1>6. CASE LoadPage
    <2>1. Len(buf') = Len(buf) + 1 /\ Len(buf) \in Nat
      BY <1>0, <1>6 DEF LoadPage, Reading, TypeOK
    <2> QED BY <1>0, <1>6, <2>1 DEF LoadPage, Reading, CallInv, TypeOK, medium
  <1>7. CASE CheckMarked \/ CheckGiveUp
    BY <1>0, <1>7 DEF CheckMarked, CheckGiveUp, Reading, CallInv, TypeOK, medium
  <1>10. CASE CheckPage
    BY <1>0, <1>10 DEF CheckPage, Reading, CallInv, TypeOK, medium
  <1>8. CASE WriteStep
    <2>1. addr' >= addr
      BY <1>0, <1>8 DEF WriteStep, TypeOK
    <2>2. pc = "write" /\ UNCHANGED <<length, stored, pc, buf, ret>>
      BY <1>0, <1>8, WriteFacts
    <2> QED BY <1>0, <2>1, <2>2 DEF CallInv, TypeOK
  <1>9. CASE Return \/ OffEnd
    BY <1>0, <1>9 DEF Return, OffEnd, CallInv, TypeOK, medium
  <1> QED BY <1>1, <1>2, <1>3, <1>4, <1>5, <1>6, <1>7, <1>8, <1>9, <1>10
          DEF Next, Loop

(* A block check stays in its block, and its verdicts are true. *)
LEMMA CheckStep == ASSUME IInv, Next, TypeOK' PROVE CheckInv' /\ CheckVerdict'
  <1>0. TypeOK /\ CallInv /\ CheckInv /\ CheckVerdict
    BY DEF IInv
  <1>1. CASE sfc_nand_block_check
    <2>1. PICK b \in Block : Call("check", b * PPB, PPB)
      BY <1>1 DEF sfc_nand_block_check
    <2>2. addr' = PPB * b + (PPB - count') /\ count' = PPB
      BY <2>1, PageFacts, Times, Sizes DEF Call
    <2>3. ~(count' < PPB) /\ count' <= PPB
      BY <2>2, Sizes
    <2>4. CheckInv'
      BY <2>2, <2>3 DEF CheckInv
    <2> QED BY <2>1, <2>4 DEF Call, CheckVerdict, NoVerdict
  <1>2. CASE sfc_nand_load \/ sfc_nand_write
    BY <1>2 DEF sfc_nand_load, sfc_nand_write, Call, CheckInv, CheckVerdict, NoVerdict
  <1>3. CASE sfc_erase_data
    BY <1>3 DEF sfc_erase_data, CheckInv, CheckVerdict, NoVerdict
  <1>4. CASE Decay
    BY <1>0, <1>4 DEF Decay, CheckInv, CheckVerdict
  <1>5. CASE Reset
    BY <1>5 DEF Reset, CheckInv, CheckVerdict, NoVerdict
  <1>6. CASE LoadSkip \/ LoadGiveUp \/ LoadPage
    BY <1>0, <1>6 DEF LoadSkip, LoadGiveUp, LoadPage, Reading, CallInv, CheckInv,
       CheckVerdict, NoVerdict
  <1>7. CASE Retry
    BY <1>0, <1>7 DEF Retry, Reading, CallInv, CheckInv, CheckVerdict, NoVerdict, medium
  <1>8. CASE CheckMarked
    <2>1. addr \in Page /\ spinand_read_page(addr, MarkedBad) /\ BlockOf(addr) \in bad
      BY <1>0, <1>8, ReadFacts DEF CheckMarked, Reading
    <2> QED BY <1>8, <2>1 DEF CheckMarked, CheckInv, CheckVerdict, medium
  <1>9. CASE CheckGiveUp
    BY <1>0, <1>9, Sizes DEF CheckGiveUp, Reading, CallInv, CheckInv, CheckVerdict, TypeOK
  <1>10. CASE CheckPage
    <2>1. PICK b \in Block : /\ addr = PPB * b + (PPB - count) /\ count <= PPB
                             /\ count < PPB => b \notin bad
      BY <1>0, <1>10 DEF CheckPage, Reading, CheckInv
    <2>2. /\ addr \in Page /\ spinand_read_page(addr, Good) /\ count > 0
          /\ addr' = addr + 1 /\ count' = count - 1 /\ pc' = pc
          /\ ret' = ret /\ bad' = bad
      BY <1>10 DEF CheckPage, Reading, medium
    <2>3. b \in Nat /\ PPB * b \in Nat /\ count \in Nat
      BY <1>0, PageFacts, Times, Sizes DEF TypeOK
    <2>4. addr' = PPB * b + (PPB - count') /\ count' <= PPB
      BY <2>1, <2>2, <2>3, Sizes
    <2>5. b \notin bad
      <3>1. CASE count < PPB
        BY <2>1, <3>1
      <3>2. CASE count = PPB
        <4>1. addr = PPB * b + 0 /\ 0 \in 0 .. PPB - 1
          BY <2>1, <2>3, <3>2, Sizes
        <4>2. BlockOf(addr) = b /\ addr % PPB = 0
          BY <2>3, <4>1, DivUnique
        <4> QED BY <1>0, <2>2, <4>2, ReadFacts
      <3> QED BY <2>1, <2>3, <3>1, <3>2, Sizes
    <2>6. CheckInv'
      BY <2>2, <2>4, <2>5 DEF CheckInv
    <2>7. ret' = NoVerdict
      BY <1>0, <1>10, <2>2 DEF CallInv, CheckPage, Reading
    <2> QED BY <2>6, <2>7 DEF CheckVerdict, NoVerdict
  <1>11. CASE WriteStep
    BY <1>0, <1>11 DEF WriteStep, CallInv, CheckInv, CheckVerdict, NoVerdict
  <1>12. CASE Return
    <2>1. CheckInv'
      BY <1>12 DEF Return, CheckInv
    <2>2. CASE pc # "check"
      BY <1>0, <1>12, <2>1, <2>2 DEF Return, CallInv, CheckVerdict, NoVerdict
    <2>3. CASE pc = "check"
      <3>1. PICK b \in Block : addr = PPB * b + (PPB - count) /\ (count < PPB => b \notin bad)
        BY <1>0, <2>3 DEF CheckInv
      <3>2. count = 0 /\ ret' = 0 /\ addr' = addr /\ bad' = bad
        BY <1>12, <2>3 DEF Return
      <3>3. b \in Nat /\ PPB * b \in Nat
        BY PageFacts, Times, Sizes
      <3>4. b \notin bad /\ addr - 1 = PPB * b + (PPB - 1) /\ PPB - 1 \in 0 .. PPB - 1
        BY <3>1, <3>2, <3>3, Sizes
      <3>5. BlockOf(addr - 1) = b
        BY <3>3, <3>4, DivUnique
      <3> QED BY <2>1, <3>2, <3>4, <3>5 DEF CheckVerdict
    <2> QED BY <2>1, <2>2, <2>3
  <1>13. CASE OffEnd
    BY <1>0, <1>13 DEF OffEnd, CallInv, CheckInv, CheckVerdict, NoVerdict
  <1> QED BY <1>1, <1>2, <1>3, <1>4, <1>5, <1>6, <1>7, <1>8, <1>9, <1>10, <1>11,
             <1>12, <1>13 DEF Next, Loop

(* Marked blocks are entered at their first page. *)
LEMMA AlignStep == ASSUME IInv, Next PROVE AlignInv'
  <1>0. TypeOK /\ AlignInv /\ addr \in Nat
    BY DEF IInv, TypeOK
  <1>1. CASE sfc_nand_load \/ sfc_nand_write
    BY <1>1, SfcNandAssumption DEF sfc_nand_load, sfc_nand_write, Call, AlignInv
  <1>2. CASE sfc_nand_block_check \/ sfc_erase_data \/ Decay \/ Reset
    BY <1>2 DEF sfc_nand_block_check, Call, sfc_erase_data, Decay, Reset, AlignInv
  <1>3. CASE LoadSkip
    <2>1. addr % PPB = 0 /\ addr' = addr + PPB
      BY <1>0, <1>3, ReadFacts DEF LoadSkip, Reading
    <2> QED BY <1>0, <2>1, NextBlock DEF AlignInv
  <1>4. CASE Retry
    BY <1>0, <1>4 DEF Retry, AlignInv, medium
  <1>5. CASE LoadGiveUp
    BY <1>5 DEF LoadGiveUp, Reading, AlignInv
  <1>6. CASE LoadPage
    <2>1. /\ addr \in Page /\ ~(addr % PPB = 0 /\ BlockOf(addr) \in bad)
          /\ addr' = addr + 1 /\ bad' = bad /\ given' = given /\ pc = "load" /\ pc' = "load"
      BY <1>0, <1>6, ReadFacts DEF LoadPage, Reading, medium
    <2> QED BY <1>0, <2>1, NextPage DEF AlignInv
  <1>7. CASE CheckMarked \/ CheckGiveUp \/ CheckPage \/ Return \/ OffEnd
    BY <1>7 DEF CheckMarked, CheckGiveUp, CheckPage, Return, OffEnd, Reading, AlignInv
  <1>8. CASE WriteStep
    <2>1. /\ pc = "write" /\ pc' = "write" /\ bad' = bad
          /\ \/ addr' = addr + PPB /\ (~missed' => ~missed /\ BlockOf(addr) \in bad)
             \/ addr' = addr + 1 /\ missed' = missed /\ BlockOf(addr) \notin bad
      BY <1>0, <1>8, WriteFacts
    <2> QED BY <1>0, <2>1, NextPage, NextBlock DEF AlignInv
  <1> QED BY <1>1, <1>2, <1>3, <1>4, <1>5, <1>6, <1>7, <1>8 DEF Next, Loop

(* A skipped block is counted once, as the block before the new address. *)
LEMMA SkipOne ==
    ASSUME TypeOK, pc \in {"write", "load"}, addr \in Page, addr' = addr + PPB,
           BlockOf(addr) \in bad \cup given', bad' = bad, given \subseteq given',
           length' = length, count' = count, addr >= Start,
           NEW S \in SUBSET Block, Skipped(S)
    PROVE  \E T \in SUBSET Block : Skipped(T)'
  <1>a. PICK b : b = BlockOf(addr)
    OBVIOUS
  <1>b. PICK T : T = S \cup {b}
    OBVIOUS
  <1>1. /\ b \in Nat /\ b \in Block /\ BlockOf(addr') = b + 1
        /\ BlockOf(Start) \in Nat /\ BlockOf(Start) <= b
    BY <1>a, PageFacts, DivFacts, NextBlock, BlockOrder, Sizes DEF TypeOK
  <1>2. IsFiniteSet(S) /\ Cardinality(S) \in Nat /\ b \notin S
    <2>1. IsFiniteSet(Block)
      BY FS_Interval, Sizes DEF Block
    <2>2. b \notin S
      BY <1>1, <1>a DEF Skipped
    <2> QED BY <2>1, <2>2, FS_Subset, FS_CardinalityType
  <1>3. Cardinality(T) = Cardinality(S) + 1
    BY <1>2, <1>b, FS_AddElement
  <1>4. addr' - Start = (length' - count') + PPB * Cardinality(T)
    <2>1. PPB * Cardinality(T) = PPB * Cardinality(S) + PPB /\ PPB * Cardinality(S) \in Nat
      BY <1>2, <1>3, Times, Sizes
    <2>2. addr - Start = (length - count) + PPB * Cardinality(S)
      BY DEF Skipped
    <2>3. addr \in Nat /\ length \in Nat /\ count \in Nat
      BY DEF TypeOK
    <2> QED BY <2>1, <2>2, <2>3, Sizes
  <1>5. T \in SUBSET Block /\ T \subseteq bad' \cup given'
    BY <1>1, <1>a, <1>b DEF Skipped
  <1>6. \A x \in T : BlockOf(Start) <= x /\ x < BlockOf(addr')
    BY <1>1, <1>a, <1>b DEF Skipped, Block
  <1>7. Skipped(T)'
    BY <1>4, <1>5, <1>6 DEF Skipped
  <1> QED BY <1>5, <1>7

(* A page that was transferred moves both sides of the account by one. *)
LEMMA SkipNone ==
    ASSUME TypeOK, addr' = addr + 1, count' = count - 1, count > 0,
           bad' = bad, given' = given, length' = length,
           NEW S \in SUBSET Block, Skipped(S)
    PROVE  Skipped(S)'
  <1>1. addr \in Nat /\ length \in Nat /\ count \in Nat /\ BlockOf(addr) <= BlockOf(addr')
    BY BlockOrder DEF TypeOK
  <1>2. PPB * Cardinality(S) \in Nat
    <2>1. IsFiniteSet(Block)
      BY FS_Interval, Sizes DEF Block
    <2>2. Cardinality(S) \in Nat
      BY <2>1, FS_Subset, FS_CardinalityType
    <2> QED BY <2>2, Times, Sizes
  <1>3. addr' - Start = (length' - count') + PPB * Cardinality(S)
    BY <1>1, <1>2, Sizes DEF Skipped
  <1>4. \A b \in S : BlockOf(Start) <= b /\ b < BlockOf(addr')
    BY <1>1, DivFacts, Sizes DEF Skipped, Block
  <1> QED BY <1>3, <1>4 DEF Skipped

(* The account of skipped blocks is kept. *)
LEMMA SkipStep == ASSUME IInv, Next PROVE SkipInv'
  <1>0. TypeOK /\ CallInv /\ SkipInv
    BY DEF IInv
  <1>1. CASE sfc_nand_load \/ sfc_nand_write
    <2>1. addr' = Start /\ length' \in Nat /\ count' = length' /\ pc' # "off_end"
      BY <1>1, Sizes DEF sfc_nand_load, sfc_nand_write, Call
    <2>2. addr' - Start = (length' - count') + PPB * Cardinality({})
      <3>1. Cardinality({}) = 0 /\ PPB * 0 = 0
        BY FS_EmptySet, Sizes
      <3>2. \A n \in Nat : n - n = 0
        OBVIOUS
      <3> QED BY <2>1, <3>1, <3>2, Sizes
    <2>3. Skipped({})'
      BY <2>2 DEF Skipped
    <2> QED BY <2>1, <2>3 DEF SkipInv
  <1>2. CASE sfc_nand_block_check \/ sfc_erase_data \/ Decay \/ Reset
    BY <1>2 DEF sfc_nand_block_check, Call, sfc_erase_data, Decay, Reset, SkipInv
  <1>3. CASE LoadSkip
    <2>1. PICK S \in SUBSET Block : Skipped(S)
      BY <1>0, <1>3 DEF LoadSkip, Reading, SkipInv
    <2>2. /\ pc = "load" /\ pc' = "load" /\ addr \in Page /\ addr' = addr + PPB
          /\ BlockOf(addr) \in bad /\ bad' = bad /\ given' = given
          /\ length' = length /\ count' = count /\ addr >= Start
      BY <1>0, <1>3, ReadFacts DEF LoadSkip, Reading, CallInv, medium
    <2> QED BY <1>0, <2>1, <2>2, SkipOne DEF SkipInv
  <1>4. CASE LoadGiveUp
    <2>1. PICK S \in SUBSET Block : Skipped(S)
      BY <1>0, <1>4 DEF LoadGiveUp, Reading, SkipInv
    <2>2. /\ pc = "load" /\ pc' = "load" /\ addr \in Page /\ addr' = addr + PPB
          /\ bad' = bad /\ given' = given \cup {BlockOf(addr)}
          /\ length' = length /\ count' = count /\ addr >= Start
      BY <1>0, <1>4 DEF LoadGiveUp, Reading, CallInv, medium
    <2> QED BY <1>0, <2>1, <2>2, SkipOne DEF SkipInv
  <1>5. CASE LoadPage
    <2>1. PICK S \in SUBSET Block : Skipped(S)
      BY <1>0, <1>5 DEF LoadPage, Reading, SkipInv
    <2>2. /\ pc' = "load" /\ addr' = addr + 1 /\ count' = count - 1 /\ count > 0
          /\ bad' = bad /\ given' = given /\ length' = length
      BY <1>5 DEF LoadPage, Reading, medium
    <2>3. Skipped(S)'
      BY <1>0, <2>1, <2>2, SkipNone
    <2> QED BY <2>2, <2>3 DEF SkipInv
  <1>6. CASE Retry \/ OffEnd
    <2>1. UNCHANGED <<addr, count, length, bad, given>>
      BY <1>6 DEF Retry, OffEnd, medium
    <2>2. \A S : Skipped(S)' <=> Skipped(S)
      BY <2>1 DEF Skipped
    <2> QED BY <1>0, <1>6, <2>1, <2>2 DEF Retry, OffEnd, Reading, SkipInv
  <1>7. CASE CheckMarked \/ CheckGiveUp \/ CheckPage \/ Return
    BY <1>7 DEF CheckMarked, CheckGiveUp, CheckPage, Return, Reading, SkipInv
  <1>8. CASE WriteStep
    <2>1. PICK S \in SUBSET Block : Skipped(S)
      BY <1>0, <1>8 DEF WriteStep, SkipInv
    <2>2. /\ pc = "write" /\ pc' = "write" /\ addr \in Page /\ count > 0
          /\ bad' = bad /\ length' = length /\ addr >= Start
          /\ \/ addr' = addr + 1 /\ count' = count - 1 /\ given' = given
             \/ /\ addr' = addr + PPB /\ count' = count
                /\ BlockOf(addr) \in bad \cup given' /\ given \subseteq given'
      BY <1>0, <1>8, WriteFacts DEF CallInv
    <2>3. CASE addr' = addr + 1 /\ count' = count - 1 /\ given' = given
      <3>1. Skipped(S)'
        BY <1>0, <2>1, <2>2, <2>3, SkipNone
      <3> QED BY <2>2, <3>1 DEF SkipInv
    <2>4. CASE /\ addr' = addr + PPB /\ count' = count
               /\ BlockOf(addr) \in bad \cup given' /\ given \subseteq given'
      BY <1>0, <2>1, <2>2, <2>4, SkipOne DEF SkipInv
    <2> QED BY <2>2, <2>3, <2>4
  <1> QED BY <1>1, <1>2, <1>3, <1>4, <1>5, <1>6, <1>7, <1>8 DEF Next, Loop
-----------------------------------------------------------------------------
(* No usable page lies between the first page of a marked block and the    *)
(* first page of the next block.                                           *)
LEMMA NoUsable ==
    ASSUME NEW a \in Nat, a % PPB = 0, BlockOf(a) \in bad, NEW p \in Usable
    PROVE  p < a + PPB <=> p < a
  <1>1. p \in Nat /\ BlockOf(p) \notin bad
    BY PageFacts DEF Usable
  <1>2. SUFFICES ASSUME p < a + PPB, a <= p PROVE FALSE
    BY <1>1, Sizes
  <1>3. BlockOf(a) \in Nat /\ a = PPB * BlockOf(a) + (a % PPB) /\ PPB * BlockOf(a) \in Nat
    BY DivFacts, Times, Sizes
  <1>4. a = PPB * BlockOf(a)
    BY <1>3
  <1>5. /\ a + (PPB - 1) = PPB * BlockOf(a) + (PPB - 1) /\ PPB - 1 \in 0 .. PPB - 1
        /\ a + (PPB - 1) \in Nat /\ p <= a + (PPB - 1)
    BY <1>1, <1>2, <1>4, Sizes
  <1>6. BlockOf(a + (PPB - 1)) = BlockOf(a)
    BY <1>3, <1>5, DivUnique
  <1>7. BlockOf(a) <= BlockOf(p) /\ BlockOf(p) <= BlockOf(a)
    BY <1>1, <1>2, <1>5, <1>6, BlockOrder
  <1>8. BlockOf(p) = BlockOf(a)
    BY <1>1, <1>3, <1>7, DivFacts
  <1> QED BY <1>1, <1>8

(* What the pages hold depends on their contents and the marks only. *)
LEMMA SameFlash ==
    ASSUME UNCHANGED <<bad, flash>>
    PROVE  Usable' = Usable /\ (Dense' <=> Dense) /\ \A n : Holds(n)' <=> Holds(n)
  <1>1. Usable' = Usable
    BY DEF Usable
  <1> QED BY <1>1 DEF Holds, Dense

(* Programming the next page appends the next page of the image. *)
LEMMA Programmed ==
    ASSUME TypeOK, NEW n \in 0 .. ImageLen - 1, Written(n), addr \in Usable,
           bad' = bad, flash' = [flash EXCEPT ![addr] = n + 1], addr' = addr + 1,
           missed' = missed
    PROVE  Written(n + 1)'
  <1>1. Usable' = Usable /\ Usable \subseteq Page /\ Usable \subseteq Nat
    BY PageFacts DEF Usable
  <1>2. flash'[addr] = n + 1 /\ \A p \in Page : p # addr => flash'[p] = flash[p]
    BY <1>1 DEF TypeOK
  <1>3. \A p \in Usable : p \in Nat /\ flash[p] \in Nat
    BY <1>1, Sizes DEF TypeOK, Erased
  <1>4. \A p \in Usable : flash[p] # Erased => p < addr /\ flash[p] <= n
    BY DEF Written
  <1>5. ASSUME NEW p \in Usable, flash'[p] # Erased PROVE p < addr' /\ flash'[p] <= n + 1
    <2>1. CASE p = addr
      BY <1>2, <1>3, <2>1, Sizes
    <2>2. CASE p # addr
      BY <1>1, <1>2, <1>3, <1>4, <1>5, <2>2, Sizes
    <2> QED BY <2>1, <2>2
  <1>6. ASSUME ~missed', NEW p \in Usable, p < addr' PROVE flash'[p] # Erased
    <2>1. CASE p = addr
      BY <1>2, <2>1, Sizes DEF Erased
    <2>2. CASE p # addr
      <3>1. p < addr
        BY <1>3, <1>6, <2>2
      <3>2. flash[p] # Erased
        BY <1>6, <3>1 DEF Written
      <3> QED BY <1>1, <1>2, <2>2, <3>2
    <2> QED BY <2>1, <2>2
  <1>7. ASSUME NEW p \in Usable, NEW q \in Usable, p < q,
               flash'[p] # Erased, flash'[q] # Erased
        PROVE  flash'[p] < flash'[q]
    <2>1. p \in Nat /\ q \in Nat /\ addr \in Nat
      BY <1>3
    <2>2. CASE q = addr
      <3>1. flash'[p] = flash[p] /\ flash[p] <= n /\ flash[p] \in Nat
        BY <1>1, <1>2, <1>3, <1>4, <1>7, <2>1, <2>2
      <3> QED BY <1>2, <2>2, <3>1, Sizes
    <2>3. CASE q # addr
      <3>1. flash'[q] = flash[q] /\ q < addr
        BY <1>1, <1>2, <1>4, <1>7, <2>3
      <3>2. flash'[p] = flash[p]
        BY <1>1, <1>2, <1>7, <2>1, <3>1
      <3> QED BY <1>7, <3>1, <3>2 DEF Written, Holds
    <2> QED BY <2>2, <2>3
  <1>8. ASSUME NEW k \in 1 .. n + 1 PROVE \E p \in Usable : flash'[p] = k
    <2>1. CASE k = n + 1
      BY <1>2, <2>1
    <2>2. CASE k # n + 1
      <3>1. k \in 1 .. n /\ k # Erased
        BY <2>2, Sizes DEF Erased
      <3>2. PICK p \in Usable : flash[p] = k
        BY <3>1 DEF Written, Holds
      <3>3. p # addr
        <4>1. p < addr
          BY <1>4, <3>1, <3>2
        <4> QED BY <1>3, <4>1
      <3> QED BY <1>1, <1>2, <3>2, <3>3
    <2> QED BY <2>1, <2>2
  <1>9. Holds(n + 1)'
    BY <1>1, <1>7, <1>8 DEF Holds
  <1> QED BY <1>1, <1>5, <1>6, <1>9 DEF Written

(* A skipped block changes nothing that was written. *)
LEMMA WriterSkips ==
    ASSUME TypeOK, AlignInv, pc = "write", addr \in Nat, NEW n, Written(n),
           UNCHANGED <<bad, flash>>, addr' = addr + PPB,
           ~missed' => ~missed /\ BlockOf(addr) \in bad
    PROVE  Written(n)'
  <1>1. Usable' = Usable /\ Holds(n)' /\ \A p \in Usable : p \in Nat
    BY SameFlash, PageFacts DEF Written, Usable
  <1>2. \A p \in Usable : flash'[p] # Erased => p < addr' /\ flash'[p] <= n
    BY <1>1, Sizes DEF Written
  <1>3. ASSUME ~missed', NEW p \in Usable, p < addr' PROVE flash'[p] # Erased
    <2>1. BlockOf(addr) \in bad /\ addr % PPB = 0 /\ ~missed
      BY <1>3 DEF AlignInv
    <2>2. p < addr
      BY <1>3, <2>1, NoUsable
    <2> QED BY <2>1, <2>2 DEF Written
  <1> QED BY <1>1, <1>2, <1>3 DEF Written

(* The image is complete when the writer returns, and until it is erased. *)
LEMMA FlashStep == ASSUME IInv, Next PROVE FlashInv'
  <1>0. TypeOK /\ CallInv /\ AlignInv /\ FlashInv /\ addr \in Nat
    BY DEF IInv, TypeOK
  <1>1. CASE /\ UNCHANGED <<bad, flash, stored, missed>> /\ pc' # "write"
    BY <1>0, <1>1, SameFlash DEF FlashInv
  <1>2. CASE sfc_nand_write
    <2>1. /\ stored' = FALSE /\ addr' = Start /\ count' = ImageLen /\ flash' = flash
          /\ \A p \in Page : p >= Start => flash[p] = Erased
      BY <1>2 DEF sfc_nand_write, Call
    <2>2. \A p \in Usable' : flash'[p] = Erased /\ ~(p < addr')
      BY <2>1, PageFacts, Sizes DEF Usable
    <2>3. ImageLen - count' = 0
      BY <2>1, Sizes
    <2>4. Holds(0)'
      BY <2>2 DEF Holds
    <2>5. Written(0)'
      BY <2>2, <2>4 DEF Written
    <2> QED BY <2>1, <2>3, <2>5 DEF FlashInv
  <1>3. CASE sfc_erase_data
    BY <1>3 DEF sfc_erase_data, FlashInv
  <1>4. CASE WriteStep
    <2>1. PICK n : n = ImageLen - count
      OBVIOUS
    <2>2. /\ pc = "write" /\ bad' = bad /\ ~stored' /\ addr >= Start /\ addr \in Page
          /\ count \in 1 .. ImageLen /\ n \in 0 .. ImageLen - 1 /\ Written(n)
      BY <1>0, <1>4, <2>1, WriteFacts, Sizes DEF CallInv, TypeOK, FlashInv
    <2>3. CASE /\ BlockOf(addr) \notin bad
               /\ flash' = [flash EXCEPT ![addr] = ImageLen - count + 1]
               /\ addr' = addr + 1 /\ count' = count - 1 /\ UNCHANGED <<missed, given>>
      <3>1. addr \in Usable /\ ImageLen - count' = n + 1
        BY <2>1, <2>2, <2>3, Sizes DEF Usable
      <3>2. Written(n + 1)'
        BY <1>0, <2>1, <2>2, <2>3, <3>1, Programmed
      <3> QED BY <2>2, <3>1, <3>2 DEF FlashInv
    <2>4. CASE /\ addr' = addr + PPB /\ UNCHANGED <<flash, count>>
               /\ ~missed' => ~missed /\ BlockOf(addr) \in bad
      <3>1. Written(n)'
        BY <1>0, <2>2, <2>4, WriterSkips
      <3> QED BY <2>1, <2>2, <2>4, <3>1 DEF FlashInv
    <2> QED BY <1>0, <1>4, <2>3, <2>4, WriteFacts
  <1>5. CASE Return
    <2>1. UNCHANGED <<bad, flash, missed>> /\ pc' = "ready" /\ count = 0
          /\ stored' = (stored \/ pc = "write")
      BY <1>5 DEF Return
    <2>2. CASE pc = "write"
      <3>1. Written(ImageLen)
        <4>1. ImageLen - 0 = ImageLen
          BY Sizes
        <4> QED BY <1>0, <2>1, <2>2, <4>1 DEF FlashInv
      <3>2. ~missed => Dense
        <4>1. \A p \in Usable : p \in Nat
          BY PageFacts DEF Usable
        <4> QED BY <1>0, <3>1, <4>1 DEF Written, Dense
      <3> QED BY <2>1, <3>1, <3>2, SameFlash DEF FlashInv, Written
    <2>3. CASE pc # "write"
      BY <1>0, <2>1, <2>3, SameFlash DEF FlashInv
    <2> QED BY <2>2, <2>3
  <1>6. CASE Next /\ ~(sfc_nand_write \/ sfc_erase_data \/ WriteStep \/ Return)
    <2>1. UNCHANGED <<bad, flash, stored, missed>>
      BY <1>6 DEF Next, Loop, sfc_nand_load, sfc_nand_block_check, Decay, Reset, LoadSkip,
         Retry, LoadGiveUp, LoadPage, CheckMarked, CheckGiveUp, CheckPage, OffEnd, medium
    <2>2. pc' # "write"
      BY <1>6 DEF Next, Loop, sfc_nand_load, sfc_nand_block_check, Call, Decay, Reset,
         LoadSkip, Retry, LoadGiveUp, LoadPage, CheckMarked, CheckGiveUp, CheckPage,
         OffEnd, Reading
    <2> QED BY <1>1, <2>1, <2>2
  <1> QED BY <1>2, <1>3, <1>4, <1>5, <1>6

(* A load that has given nothing up is at a usable page when it reads one  *)
(* without an error.                                                       *)
LEMMA AtUsable ==
    ASSUME TypeOK, CallInv, AlignInv, pc = "load", addr \in Page,
           spinand_read_page(addr, Good), given = {}
    PROVE  addr \in Usable
  BY ReadFacts DEF Usable, AlignInv, CallInv

(* Contents and numbers of usable pages, and the buffer, are numbers. *)
LEMMA Contents ==
    ASSUME TypeOK
    PROVE  /\ \A p \in Usable : p \in Nat /\ flash[p] \in 0 .. ImageLen
           /\ Len(buf) \in Nat /\ DOMAIN buf = 1 .. Len(buf)
           /\ \A i \in DOMAIN buf : buf[i] \in 0 .. ImageLen
  <1>1. \A p \in Usable : p \in Page /\ p \in Nat
    BY PageFacts DEF Usable
  <1>2. \A p \in Page : flash[p] \in 0 .. ImageLen
    BY Sizes DEF TypeOK, Erased
  <1>3. /\ Len(buf) \in Nat /\ DOMAIN buf = 1 .. Len(buf)
        /\ \A i \in DOMAIN buf : buf[i] \in {Erased} \cup 1 .. ImageLen
    BY DEF TypeOK
  <1> QED BY <1>1, <1>2, <1>3, Sizes DEF Erased

(* Where the writer saw no error, the page a load reads next holds the     *)
(* next page of the image.                                                 *)
LEMMA NextContent ==
    ASSUME TypeOK, CallInv, FlashInv, ReadInv, pc = "load", count > 0,
           addr \in Usable, stored, ~missed, given = {}
    PROVE  flash[addr] = Len(buf) + 1
  <1>1. /\ \A p \in Usable : p \in Nat /\ flash[p] \in 0 .. ImageLen
        /\ Len(buf) \in Nat /\ DOMAIN buf = 1 .. Len(buf)
    BY Contents
  <1>2. Len(buf) + 1 \in 1 .. ImageLen
    BY <1>1, Sizes DEF TypeOK, CallInv
  <1>3. PICK p \in Usable : flash[p] = Len(buf) + 1
    BY <1>2 DEF FlashInv, Holds
  <1>4. \A i \in DOMAIN buf : buf[i] = i
    BY DEF ReadInv, ReadBack
  <1>5. /\ \A q \in Usable : q < addr /\ flash[q] # Erased =>
               \E i \in DOMAIN buf : buf[i] = flash[q]
        /\ \A i \in DOMAIN buf : buf[i] # Erased =>
               \E q \in Usable : q < addr /\ flash[q] = buf[i]
    BY DEF ReadInv
  <1>6. ASSUME p < addr PROVE FALSE
    <2>1. PICK i \in DOMAIN buf : buf[i] = Len(buf) + 1
      BY <1>1, <1>3, <1>5, <1>6 DEF Erased
    <2> QED BY <1>1, <1>4, <2>1
  <1>7. ASSUME addr < p PROVE FALSE
    <2>1. flash[addr] # Erased /\ flash[addr] < flash[p]
      BY <1>1, <1>3, <1>7 DEF FlashInv, Holds, Dense, Erased
    <2>2. flash[addr] \in DOMAIN buf
      BY <1>1, <1>3, <2>1 DEF Erased
    <2>3. PICK q \in Usable : q < addr /\ flash[q] = flash[addr]
      BY <1>4, <1>5, <2>1, <2>2
    <2>4. flash[q] < flash[addr]
      BY <2>1, <2>3 DEF FlashInv, Holds
    <2> QED BY <1>1, <2>3, <2>4
  <1> QED BY <1>1, <1>3, <1>6, <1>7

(* A page that is not erased comes after those read so far, and its        *)
(* predecessor is among them.                                              *)
LEMMA NextOrder ==
    ASSUME TypeOK, FlashInv, ReadInv, pc = "load", addr \in Usable, stored,
           given = {}, flash[addr] # Erased
    PROVE  /\ \A k \in DOMAIN buf : buf[k] < flash[addr]
           /\ flash[addr] > 1 => \E k \in DOMAIN buf : buf[k] = flash[addr] - 1
  <1>1. /\ \A p \in Usable : p \in Nat /\ flash[p] \in 0 .. ImageLen
        /\ \A i \in DOMAIN buf : buf[i] \in 0 .. ImageLen
    BY Contents
  <1>2. /\ \A q \in Usable : q < addr /\ flash[q] # Erased =>
               \E i \in DOMAIN buf : buf[i] = flash[q]
        /\ \A i \in DOMAIN buf : buf[i] # Erased =>
               \E q \in Usable : q < addr /\ flash[q] = buf[i]
    BY DEF ReadInv
  <1>3. Holds(ImageLen)
    BY DEF FlashInv
  <1>4. ASSUME NEW k \in DOMAIN buf PROVE buf[k] < flash[addr]
    <2>1. CASE buf[k] = Erased
      BY <1>1, <2>1, Sizes DEF Erased
    <2>2. CASE buf[k] # Erased
      <3>1. PICK q \in Usable : q < addr /\ flash[q] = buf[k]
        BY <1>2, <2>2
      <3>2. flash[q] < flash[addr]
        BY <1>3, <2>2, <3>1 DEF Holds
      <3> QED BY <3>1, <3>2
    <2> QED BY <2>1, <2>2
  <1>5. ASSUME flash[addr] > 1 PROVE \E k \in DOMAIN buf : buf[k] = flash[addr] - 1
    <2>1. flash[addr] - 1 \in 1 .. ImageLen
      BY <1>1, <1>5, Sizes
    <2>2. PICK p \in Usable : flash[p] = flash[addr] - 1
      BY <1>3, <2>1 DEF Holds
    <2>3. ~(addr < p) /\ p # addr /\ flash[p] # Erased
      <3>1. flash[p] # Erased /\ flash[p] < flash[addr] /\ ~(flash[addr] < flash[p])
        BY <1>1, <2>1, <2>2 DEF Erased
      <3> QED BY <1>1, <1>3, <3>1 DEF Holds
    <2>4. p < addr
      BY <1>1, <2>3
    <2> QED BY <1>2, <2>2, <2>3, <2>4
  <1> QED BY <1>4, <1>5

(* A load fills the buffer with the image. *)
LEMMA ReadStep == ASSUME IInv, Next PROVE ReadInv'
  <1>0. TypeOK /\ CallInv /\ AlignInv /\ FlashInv /\ ReadInv /\ addr \in Nat
    BY DEF IInv, TypeOK
  <1>1. CASE sfc_nand_load \/ sfc_nand_block_check \/ sfc_nand_write
    <2>1. buf' = <<>> /\ flash' = flash /\ bad' = bad /\ (pc' = "load" => addr' = Start)
      BY <1>1 DEF sfc_nand_load, sfc_nand_block_check, sfc_nand_write, Call, medium
    <2>2. DOMAIN buf' = {}
      BY <2>1
    <2>3. \A p \in Usable' : ~(p < Start)
      BY PageFacts, Sizes DEF Usable
    <2> QED BY <2>1, <2>2, <2>3 DEF ReadInv, ReadBack, ReadInOrder
  <1>2. CASE sfc_erase_data
    BY <1>2 DEF sfc_erase_data, ReadInv, ReadBack, ReadInOrder
  <1>3. CASE Decay
    BY <1>0, <1>3 DEF Decay, ReadInv, ReadBack, ReadInOrder, Usable
  <1>4. CASE Reset
    BY <1>4 DEF Reset, ReadInv, ReadBack, ReadInOrder
  <1>5. CASE LoadSkip
    <2>1. /\ pc = "load" /\ addr \in Page /\ spinand_read_page(addr, MarkedBad)
          /\ addr' = addr + PPB /\ UNCHANGED <<bad, flash, stored, missed, given, buf, pc>>
      BY <1>5 DEF LoadSkip, Reading, medium
    <2>2. addr % PPB = 0 /\ BlockOf(addr) \in bad
      BY <1>0, <2>1, ReadFacts
    <2>3. \A p \in Usable : p < addr' <=> p < addr
      BY <1>0, <2>1, <2>2, NoUsable
    <2> QED BY <1>0, <2>1, <2>3, SameFlash DEF ReadInv, ReadBack, ReadInOrder
  <1>6. CASE LoadGiveUp
    BY <1>6 DEF LoadGiveUp, ReadInv, ReadBack, ReadInOrder
  <1>7. CASE LoadPage
    <2>1. /\ pc = "load" /\ count > 0 /\ addr \in Page /\ spinand_read_page(addr, Good)
          /\ addr' = addr + 1 /\ UNCHANGED <<bad, flash, stored, missed, given, pc>>
          /\ buf' = Append(buf, flash[addr])
      BY <1>7 DEF LoadPage, Reading, medium
    <2>2. SUFFICES ASSUME stored, given = {} PROVE ReadInv'
      BY <2>1 DEF ReadInv, ReadBack, ReadInOrder
    <2>3. addr \in Usable
      BY <1>0, <2>1, <2>2, AtUsable
    <2>4. /\ Len(buf') = Len(buf) + 1 /\ Len(buf) \in Nat /\ DOMAIN buf' = 1 .. Len(buf) + 1
          /\ DOMAIN buf = 1 .. Len(buf) /\ buf'[Len(buf) + 1] = flash[addr]
          /\ \A i \in DOMAIN buf : buf'[i] = buf[i]
      BY <1>0, <2>1 DEF TypeOK
    <2>5. ReadBack'
      <3>1. SUFFICES ASSUME ~missed PROVE \A i \in DOMAIN buf' : buf'[i] = i
        BY <2>1 DEF ReadBack
      <3>2. \A i \in DOMAIN buf : buf[i] = i
        BY <1>0, <2>2, <3>1 DEF ReadInv, ReadBack
      <3>3. flash[addr] = Len(buf) + 1
        BY <1>0, <2>1, <2>2, <2>3, <3>1, NextContent
      <3> QED BY <2>4, <3>2, <3>3
    <2>6. ReadInOrder'
      <3>1. SUFFICES ASSUME NEW i \in DOMAIN buf', buf'[i] # Erased
                     PROVE  /\ \A k \in 1 .. i - 1 : buf'[k] < buf'[i]
                            /\ buf'[i] > 1 => \E k \in 1 .. i - 1 : buf'[k] = buf'[i] - 1
        BY DEF ReadInOrder
      <3>2. CASE i = Len(buf) + 1
        <4>1. DOMAIN buf = 1 .. i - 1 /\ buf'[i] = flash[addr]
          BY <2>4, <3>2
        <4>2. /\ \A k \in DOMAIN buf : buf[k] < flash[addr]
              /\ flash[addr] > 1 => \E k \in DOMAIN buf : buf[k] = flash[addr] - 1
          BY <1>0, <2>1, <2>2, <2>3, <3>1, <4>1, NextOrder
        <4> QED BY <2>4, <4>1, <4>2
      <3>3. CASE i # Len(buf) + 1
        <4>1. i \in DOMAIN buf /\ 1 .. i - 1 \subseteq DOMAIN buf
          BY <2>4, <3>3
        <4>2. buf'[i] = buf[i] /\ \A k \in 1 .. i - 1 : buf'[k] = buf[k]
          BY <2>4, <4>1
        <4>3. /\ \A k \in 1 .. i - 1 : buf[k] < buf[i]
              /\ buf[i] > 1 => \E k \in 1 .. i - 1 : buf[k] = buf[i] - 1
          BY <1>0, <2>2, <3>1, <4>1, <4>2 DEF ReadInv, ReadInOrder
        <4> QED BY <4>2, <4>3
      <3> QED BY <3>2, <3>3
    <2>7. Usable' = Usable /\ \A p \in Usable : p \in Nat
      BY <1>0, <2>1, SameFlash, Contents
    <2>8. /\ \A q \in Usable : q < addr /\ flash[q] # Erased =>
                 \E i \in DOMAIN buf : buf[i] = flash[q]
          /\ \A i \in DOMAIN buf : buf[i] # Erased =>
                 \E q \in Usable : q < addr /\ flash[q] = buf[i]
      BY <1>0, <2>1, <2>2 DEF ReadInv
    <2>9. ASSUME NEW p \in Usable, p < addr', flash[p] # Erased
          PROVE  \E i \in DOMAIN buf' : buf'[i] = flash[p]
      <3>1. CASE p = addr
        BY <2>4, <3>1
      <3>2. CASE p # addr
        <4>1. p < addr
          BY <1>0, <2>1, <2>7, <2>9, <3>2
        <4>2. PICK i \in DOMAIN buf : buf[i] = flash[p]
          BY <2>8, <2>9, <4>1
        <4> QED BY <2>4, <4>2
      <3> QED BY <3>1, <3>2
    <2>10. ASSUME NEW i \in DOMAIN buf', buf'[i] # Erased
           PROVE  \E p \in Usable : p < addr' /\ flash[p] = buf'[i]
      <3>1. CASE i = Len(buf) + 1
        <4>1. addr < addr' /\ flash[addr] = buf'[i]
          BY <1>0, <2>1, <2>4, <3>1
        <4> QED BY <2>3, <4>1
      <3>2. CASE i # Len(buf) + 1
        <4>1. i \in DOMAIN buf /\ buf'[i] = buf[i]
          BY <2>4, <3>2
        <4>2. PICK p \in Usable : p < addr /\ flash[p] = buf[i]
          BY <2>8, <2>10, <4>1
        <4>3. p < addr'
          BY <1>0, <2>1, <2>7, <4>2
        <4> QED BY <4>1, <4>2, <4>3
      <3> QED BY <3>1, <3>2
    <2> QED BY <2>1, <2>5, <2>6, <2>7, <2>9, <2>10 DEF ReadInv
  <1>8. CASE Retry \/ CheckMarked \/ CheckGiveUp \/ CheckPage \/ OffEnd
    <2>1. /\ UNCHANGED <<bad, flash, stored, missed, given, buf>>
          /\ pc' = "load" => pc = "load" /\ addr' = addr
      BY <1>8 DEF Retry, CheckMarked, CheckGiveUp, CheckPage, OffEnd, Reading, medium
    <2> QED BY <1>0, <2>1, SameFlash DEF ReadInv, ReadBack, ReadInOrder
  <1>9. CASE WriteStep
    BY <1>0, <1>9 DEF WriteStep, CallInv, ReadInv, ReadBack, ReadInOrder
  <1>10. CASE Return
    <2>1. CASE pc = "write"
      BY <1>0, <1>10, <2>1 DEF Return, CallInv, ReadInv, ReadBack, ReadInOrder
    <2>2. CASE pc # "write"
      BY <1>0, <1>10, <2>2 DEF Return, ReadInv, ReadBack, ReadInOrder
    <2> QED BY <2>1, <2>2
  <1> QED BY <1>1, <1>2, <1>3, <1>4, <1>5, <1>6, <1>7, <1>8, <1>9, <1>10 DEF Next, Loop

(* The invariant is inductive. *)
LEMMA NextInv == IInv /\ [Next]_vars => IInv'
  <1>1. ASSUME IInv, Next PROVE IInv'
    <2>1. TypeOK'
      BY <1>1, TypeStep
    <2> QED BY <1>1, <2>1, CallStep, CheckStep, AlignStep, SkipStep, FlashStep, ReadStep DEF IInv
  <1>2. ASSUME IInv, UNCHANGED vars PROVE IInv'
    <2>1. UNCHANGED <<bad, weak, flash, stored, missed, faults, pc, addr, length, count,
                      retry, buf, ret, fails, given>>
      BY <1>2 DEF vars, medium
    <2>2. TypeOK' /\ CallInv' /\ CheckInv' /\ CheckVerdict' /\ AlignInv'
      BY <1>2, <2>1 DEF IInv, TypeOK, CallInv, CheckInv, CheckVerdict, AlignInv
    <2>3. SkipInv'
      BY <1>2, <2>1 DEF IInv, SkipInv, Skipped
    <2>4. FlashInv' /\ ReadInv'
      BY <1>2, <2>1, SameFlash DEF IInv, FlashInv, Written, ReadInv, ReadBack, ReadInOrder
    <2> QED BY <2>2, <2>3, <2>4 DEF IInv
  <1> QED BY <1>1, <1>2

(* IInv is an invariant of the loader. *)
LEMMA SpecInv == Spec => []IInv
  BY InitInv, NextInv, PTL DEF Spec
-----------------------------------------------------------------------------
(* A transfer that has left the device has skipped so many blocks that the *)
(* others could not hold what it was asked for.                            *)
LEMMA ShortDevice == IInv => OffEndOnlyWhenShort
  <1> SUFFICES ASSUME IInv, pc = "off_end"
               PROVE  PPB * Cardinality({b \in BlockOf(Start) .. NBlocks - 1 :
                                           b \notin bad \cup given}) < length
    BY DEF OffEndOnlyWhenShort
  <1> DEFINE s == BlockOf(Start)
             U == s .. NBlocks - 1
             T == {b \in U : b \notin bad \cup given}
  <1>0. TypeOK /\ SkipInv
    BY DEF IInv
  <1>1. PICK S \in SUBSET Block : Skipped(S)
    BY <1>0 DEF SkipInv
  <1>2. addr \in Nat /\ length \in Nat /\ count \in Nat /\ count > 0 /\ count <= length
    BY <1>0 DEF TypeOK, SkipInv
  <1>3. s \in Nat /\ s < NBlocks /\ Start = PPB * s
    BY PageFacts, InDevice, DivFacts, Sizes
  <1>4. addr >= NBlocks * PPB
    BY <1>0, <1>2, Sizes DEF SkipInv, Page
  <1>5. IsFiniteSet(U) /\ Cardinality(U) = NBlocks - s
    <2> HIDE DEF s
    <2>1. s \in Int /\ NBlocks - 1 \in Int /\ ~(s > NBlocks - 1)
      BY <1>3, Sizes
    <2>2. IsFiniteSet(U) /\ Cardinality(U) = (NBlocks - 1) - s + 1
      BY <2>1, FS_Interval
    <2> QED BY <1>3, <2>2, Sizes
  <1>6. S \subseteq U /\ T \subseteq U /\ S \cap T = {}
    <2>1. \A b \in S : s <= b /\ b \in Nat /\ b <= NBlocks - 1
      BY <1>1, Sizes DEF Skipped, Block
    <2> QED BY <1>1, <1>3, <2>1, Sizes DEF Skipped
  <1>7. /\ IsFiniteSet(S) /\ IsFiniteSet(T)
        /\ Cardinality(S) \in Nat /\ Cardinality(T) \in Nat
    <2> HIDE DEF U, T
    <2> QED BY <1>5, <1>6, FS_Subset, FS_CardinalityType
  <1>8. Cardinality(S) + Cardinality(T) <= NBlocks - s
    <2> HIDE DEF s, U, T
    <2>1. Cardinality(S \cup T) <= Cardinality(U)
      BY <1>5, <1>6, FS_Subset
    <2>2. Cardinality(S \cup T) = Cardinality(S) + Cardinality(T) - Cardinality(S \cap T)
      BY <1>7, FS_Union
    <2>3. Cardinality(S \cap T) = 0
      BY <1>6, FS_EmptySet
    <2> QED BY <1>5, <1>7, <2>1, <2>2, <2>3
  <1> DEFINE x == Cardinality(S)
             y == Cardinality(T)
             d == NBlocks - s
  <1>9. addr - Start = (length - count) + PPB * x
    BY <1>1 DEF Skipped
  <1>10. x \in Nat /\ y \in Nat /\ d \in Nat /\ s \in Nat /\ x + y <= d /\ NBlocks = d + s
    BY <1>3, <1>7, <1>8, Sizes
  <1> HIDE DEF x, y, d, s
  <1>11. /\ PPB * (x + y) <= PPB * d
         /\ PPB * x \in Nat /\ PPB * y \in Nat /\ PPB * s \in Nat /\ PPB * d \in Nat
    BY <1>10, Times, Sizes
  <1>12. PPB * (x + y) = PPB * x + PPB * y /\ NBlocks * PPB = PPB * d + PPB * s
    BY <1>10, Sizes
  <1>13. PPB * y < length
    BY <1>2, <1>3, <1>4, <1>9, <1>11, <1>12, Sizes
  <1> QED BY <1>13 DEF y, s

(* The variables keep their types, in particular retry_count never runs    *)
(* below zero between two reads, for every device and image.               *)
THEOREM TypeTheorem == Spec => []TypeOK
  BY SpecInv, PTL DEF IInv

(* What sfc_nand_block_check reports is true, whatever fails. *)
THEOREM CheckTheorem == Spec => []CheckVerdict
  BY SpecInv, PTL DEF IInv

(* A transfer runs off the device only where the blocks it did not skip    *)
(* are too few for what it was asked for.                                  *)
THEOREM OffEndTheorem == Spec => []OffEndOnlyWhenShort
  BY SpecInv, ShortDevice, PTL

(* sfc_nand_load returns what sfc_nand_write wrote, across marked blocks,  *)
(* interrupted calls and failed reads, as long as neither gave up a block  *)
(* for ECC errors.                                                         *)
THEOREM ReadBackTheorem == Spec => []ReadBack
  <1>1. IInv => ReadBack
    BY DEF IInv, ReadInv
  <1> QED BY SpecInv, <1>1, PTL

(* A load that gave up nothing returns the pages of the image in order,    *)
(* none left out before another one, whatever ECC errors made the writer   *)
(* skip.                                                                   *)
THEOREM ReadInOrderTheorem == Spec => []ReadInOrder
  <1>1. IInv => ReadInOrder
    BY DEF IInv, ReadInv
  <1> QED BY SpecInv, <1>1, PTL
=============================================================================
