-------------------------------- MODULE SfcNand --------------------------------
(***************************************************************************)
(* Reading and writing an image on SPI NAND in the second program loader   *)
(* (u-boot/common/spl/spl_sfc_nand_v2.c).  Blocks may carry a bad-block    *)
(* mark, which the loader sees only when it reads the first page of the    *)
(* block; a read may fail with an uncorrectable ECC error, once or always. *)
(* sfc_nand_load goes past marked blocks and past blocks it cannot read.   *)
(*                                                                         *)
(* Addresses count pages: every pass of the loops moves at most one page.  *)
(* The image written is the sequence 1, 2, ..., ImageLen of page contents. *)
(***************************************************************************)
EXTENDS Integers, Sequences, FiniteSets

CONSTANTS
    NBlocks,     \* blocks of the device
    PPB,         \* CONFIG_SPI_NAND_PPB, pages per block
    Start,       \* page at which the partition of the image starts
    ImageLen,    \* pages of the image
    Retries,     \* initial value of retry_count
    MaxWeak,     \* bound: pages that can never be read again
    MaxFaults    \* bound: reads that fail though the page is readable

(* Partitions start on a block boundary: sfc_erase_data insists on it. *)
ASSUME SfcNandAssumption ==
    /\ NBlocks \in Nat \ {0} /\ PPB \in Nat \ {0} /\ ImageLen \in Nat \ {0}
    /\ Start \in Nat /\ Start < NBlocks * PPB /\ Start % PPB = 0
    /\ Retries \in Nat /\ MaxWeak \in Nat /\ MaxFaults \in Nat

Block == 0 .. NBlocks - 1
Page == 0 .. NBlocks * PPB - 1
BlockOf(p) == p \div PPB
Erased == 0

(* What spinand_read_page returns. *)
EccError == -1
Good == 0
MarkedBad == 1

NoVerdict == -1

VARIABLES
    bad,       \* blocks that carry a bad-block mark
    weak,      \* pages whose every read ends in an ECC error
    faults,    \* how many more reads of other pages may fail
    flash,     \* content of the pages
    stored,    \* the image has been written completely, and not erased
    missed,    \* the writer went past a block that carries no mark
    pc,        \* the function that runs, "ready" between calls
    addr,      \* src_addr or flash_start_addr
    length,    \* pages the call was asked for
    count,     \* pages it still has to transfer
    retry,     \* retry_count
    buf,       \* the pages in the caller's buffer
    ret,       \* result of the last sfc_nand_block_check
    fails,     \* reads that failed since the last one that did not, or skip
    given      \* blocks this call gave up on because of ECC errors

medium == <<bad, weak, flash, stored, missed>>
vars == <<medium, faults, pc, addr, length, count, retry, buf, ret, fails,
          given>>

(* The types of the variables; retry_count does not go below zero between  *)
(* two reads.                                                              *)
TypeOK ==
    /\ bad \subseteq Block /\ weak \subseteq Page /\ faults \in 0 .. MaxFaults
    /\ flash \in [Page -> {Erased} \cup 1 .. ImageLen]
    /\ stored \in BOOLEAN /\ missed \in BOOLEAN
    /\ pc \in {"ready", "write", "load", "check", "off_end"}
    /\ addr \in Nat /\ length \in Nat /\ count \in 0 .. length
    /\ retry \in 0 .. Retries /\ fails \in 0 .. Retries + 1
    /\ buf \in Seq({Erased} \cup 1 .. ImageLen)
    /\ ret \in {NoVerdict, 0, 1, 2}
    /\ given \subseteq Block

(* A device with marked blocks and nothing written yet. *)
Init ==
    /\ bad \in SUBSET Block /\ weak = {} /\ faults = MaxFaults
    /\ flash = [p \in Page |-> Erased] /\ stored = FALSE /\ missed = FALSE
    /\ pc = "ready" /\ addr = Start /\ length = 0 /\ count = 0
    /\ retry = Retries /\ buf = <<>> /\ ret = NoVerdict /\ fails = 0
    /\ given = {}
--------------------------------------------------------------------------------
(* spinand_read_page: the ECC status comes first, for the data and for the *)
(* spare area alike; the mark is looked at on the first page of a block.   *)
spinand_read_page(p, r) ==
    \/ /\ r = EccError
       /\ \/ p \in weak /\ UNCHANGED faults
          \/ p \notin weak /\ faults > 0 /\ faults' = faults - 1
    \/ /\ p \notin weak /\ UNCHANGED faults
       /\ r = IF p % PPB = 0 /\ BlockOf(p) \in bad THEN MarkedBad ELSE Good

Call(f, start, n) ==
    /\ pc = "ready" /\ pc' = f /\ addr' = start /\ length' = n /\ count' = n
    /\ retry' = Retries /\ fails' = 0 /\ given' = {}
    /\ buf' = <<>> /\ ret' = NoVerdict
    /\ UNCHANGED faults

Reading(f, r) ==
    /\ pc = f /\ count > 0 /\ addr \in Page
    /\ spinand_read_page(addr, r)

Return ==
    /\ pc \in {"write", "load", "check"} /\ count = 0
    /\ pc' = "ready"
    /\ stored' = (stored \/ pc = "write")
    /\ ret' = IF pc = "check" THEN 0 ELSE ret
    /\ UNCHANGED <<length, bad, weak, flash, missed, faults, addr, count, retry,
                   buf, fails, given>>

(* The loops know nothing of the end of the partition or of the device.    *)
(* What a read past the device returns is not modelled.                    *)
OffEnd ==
    /\ pc \in {"write", "load"} /\ count > 0 /\ addr \notin Page
    /\ pc' = "off_end"
    /\ UNCHANGED <<length, medium, faults, addr, count, retry, buf, ret, fails,
                   given>>
--------------------------------------------------------------------------------
(* sfc_nand_load: the partition, or the beginning of it, into the buffer.  *)
sfc_nand_load ==
    /\ \E n \in 1 .. ImageLen : Call("load", Start, n)
    /\ UNCHANGED medium

(* Mutant: one page on instead of one block. *)
LoadSkipPage ==
    /\ Reading("load", MarkedBad)
    /\ addr' = addr + 1 /\ fails' = 0
    /\ UNCHANGED <<length, medium, pc, count, retry, buf, ret, given>>

(* Mutant: retry_count runs below zero. *)
RetryAlways ==
    /\ \E f \in {"load", "check"} : Reading(f, EccError)
    /\ retry' = retry - 1 /\ fails' = fails + 1
    /\ UNCHANGED <<length, medium, pc, addr, count, buf, ret, given>>

(* A marked block: on to the next one.  retry_count keeps its value. *)
LoadSkip ==
    /\ Reading("load", MarkedBad)
    /\ addr' = addr + PPB /\ fails' = 0
    /\ UNCHANGED <<length, medium, pc, count, retry, buf, ret, given>>

Retry ==
    /\ \E f \in {"load", "check"} : Reading(f, EccError)
    /\ retry > 0
    /\ retry' = retry - 1 /\ fails' = fails + 1
    /\ UNCHANGED <<length, medium, pc, addr, count, buf, ret, given>>

(* Mutants: the address is not moved, or it is moved twice. *)
LoadGiveUpStays ==
    /\ Reading("load", EccError) /\ retry = 0
    /\ retry' = Retries /\ fails' = 0
    /\ given' = given \cup {BlockOf(addr)}
    /\ UNCHANGED <<length, medium, pc, addr, count, buf, ret>>

LoadGiveUpTwice ==
    /\ Reading("load", EccError) /\ retry = 0
    /\ retry' = Retries /\ addr' = addr + 2 * PPB /\ fails' = 0
    /\ given' = given \cup {BlockOf(addr)}
    /\ UNCHANGED <<length, medium, pc, count, buf, ret>>

(* No retry is left: the block is skipped as a bad block would be, from    *)
(* the page at hand to the same page of the next block.                    *)
LoadGiveUp ==
    /\ Reading("load", EccError) /\ retry = 0
    /\ retry' = Retries /\ addr' = addr + PPB /\ fails' = 0
    /\ given' = given \cup {BlockOf(addr)}
    /\ UNCHANGED <<length, medium, pc, count, buf, ret>>

LoadPage ==
    /\ Reading("load", Good)
    /\ buf' = Append(buf, flash[addr])
    /\ addr' = addr + 1 /\ count' = count - 1 /\ retry' = Retries /\ fails' = 0
    /\ UNCHANGED <<length, medium, pc, ret, given>>
--------------------------------------------------------------------------------
(* sfc_nand_block_check: the same loop, which ends at the first obstacle.  *)
sfc_nand_block_check ==
    /\ \E b \in Block : Call("check", b * PPB, PPB)
    /\ UNCHANGED medium

CheckMarked ==
    /\ Reading("check", MarkedBad)
    /\ ret' = 1 /\ pc' = "ready"
    /\ UNCHANGED <<length, medium, addr, count, retry, buf, fails, given>>

(* Mutant: retry_count is not reset. *)
CheckPageKeepsRetry ==
    /\ Reading("check", Good)
    /\ addr' = addr + 1 /\ count' = count - 1 /\ fails' = 0
    /\ UNCHANGED <<length, medium, pc, retry, buf, ret, given>>

CheckGiveUp ==
    /\ Reading("check", EccError) /\ retry = 0
    /\ ret' = 2 /\ pc' = "ready" /\ retry' = Retries /\ fails' = fails + 1
    /\ UNCHANGED <<length, medium, addr, count, buf, given>>

CheckPage ==
    /\ Reading("check", Good)
    /\ addr' = addr + 1 /\ count' = count - 1 /\ retry' = Retries /\ fails' = 0
    /\ UNCHANGED <<length, medium, pc, buf, ret, given>>
--------------------------------------------------------------------------------
(* sfc_nand_write.  NAND pages are programmed once after an erase. *)
sfc_nand_write ==
    /\ \A p \in Page : p >= Start => flash[p] = Erased
    /\ Call("write", Start, ImageLen)
    /\ stored' = FALSE /\ missed' = FALSE
    /\ UNCHANGED <<bad, weak, flash>>

(* Mutant: an ECC error is returned as a negative number, for which        *)
(* sfc_nand_write goes on as if the page had been programmed.              *)
WriteStepFallsThrough ==
    /\ pc = "write" /\ count > 0 /\ addr \in Page
    /\ \E r \in {EccError, Good, MarkedBad} :
        /\ spinand_read_page(BlockOf(addr) * PPB, r)
        /\ \/ /\ r = MarkedBad
              /\ addr' = addr + PPB /\ UNCHANGED <<flash, count>>
           \/ /\ r # MarkedBad
              /\ flash' = [flash EXCEPT ![addr] = IF r = Good
                                                  THEN ImageLen - count + 1 ELSE @]
              /\ addr' = addr + 1 /\ count' = count - 1
        /\ missed' = (missed \/ r = EccError)
    /\ UNCHANGED <<length, bad, weak, stored, pc, retry, buf, ret, fails, given>>

(* spinand_write_page reads the first page of the block for the mark on    *)
(* every page it writes.  It keeps the result in an unsigned variable, in  *)
(* which an ECC error is positive as well: the block is then skipped at    *)
(* once, like a marked one, from the page at hand to the same page of the  *)
(* next block.                                                             *)
WriteStep ==
    /\ pc = "write" /\ count > 0 /\ addr \in Page
    /\ \E r \in {EccError, Good, MarkedBad} :
        /\ spinand_read_page(BlockOf(addr) * PPB, r)
        /\ \/ /\ r = Good
              /\ flash' = [flash EXCEPT ![addr] = ImageLen - count + 1]
              /\ addr' = addr + 1 /\ count' = count - 1
              /\ UNCHANGED <<missed, given>>
           \/ /\ r # Good
              /\ addr' = addr + PPB
              /\ missed' = (missed \/ BlockOf(addr) \notin bad)
              /\ given' = given \cup {b \in {BlockOf(addr)} : r = EccError}
              /\ UNCHANGED <<flash, count>>
    /\ UNCHANGED <<length, bad, weak, stored, pc, retry, buf, ret, fails>>

(* sfc_erase_data on the partition: marked blocks are erased too, and may  *)
(* or may not lose their mark.                                             *)
sfc_erase_data ==
    /\ pc = "ready"
    /\ flash' = [p \in Page |-> IF p >= Start THEN Erased ELSE flash[p]]
    /\ \E lost \in SUBSET {b \in bad : b >= BlockOf(Start)} : bad' = bad \ lost
    /\ stored' = FALSE /\ ret' = NoVerdict
    /\ UNCHANGED <<length, weak, missed, faults, pc, addr, count, retry, buf,
                   fails, given>>
--------------------------------------------------------------------------------
(* Retention: a page becomes unreadable. *)
Decay ==
    /\ pc = "ready" /\ Cardinality(weak) < MaxWeak
    /\ \E p \in Page : weak' = weak \cup {p}
    /\ UNCHANGED <<length, bad, flash, stored, missed, faults, pc, addr, count,
                   retry, buf, ret, fails, given>>

(* The power goes, in the middle of a call or after it ran off the end. *)
Reset ==
    /\ pc # "ready" /\ pc' = "ready" /\ ret' = NoVerdict /\ buf' = <<>>
    /\ given' = {}
    /\ UNCHANGED <<length, medium, faults, addr, count, retry, fails>>

Loop == \/ LoadSkip \/ Retry \/ LoadGiveUp \/ LoadPage
        \/ CheckMarked \/ CheckGiveUp \/ CheckPage
        \/ WriteStep \/ Return \/ OffEnd

Next == \/ sfc_nand_load \/ sfc_nand_block_check \/ sfc_nand_write
        \/ sfc_erase_data \/ Decay \/ Reset \/ Loop

Spec == Init /\ [][Next]_vars

(* The loader is the only program that runs. *)
FairSpec == Spec /\ WF_vars(Loop)
--------------------------------------------------------------------------------
(* Reader and writer step over the same blocks: as long as no block was    *)
(* given up for ECC errors, neither by this load nor by the writer, what   *)
(* is in the buffer at any moment of a load is the image from its          *)
(* beginning.                                                              *)
ReadBack ==
    stored /\ ~missed /\ given = {} => \A i \in DOMAIN buf : buf[i] = i

(* The writer skips a block on a single ECC error, a load only after       *)
(* Retries + 1 of them.  A load that did not give up then finds erased     *)
(* pages where the writer found errors, but no page of the image is lost   *)
(* before one that was read, none is read twice or out of order.           *)
ReadInOrder ==
    stored /\ given = {} =>
        \A i \in DOMAIN buf : buf[i] # Erased =>
            /\ \A k \in 1 .. i - 1 : buf[k] < buf[i]
            /\ buf[i] > 1 => \E k \in 1 .. i - 1 : buf[k] = buf[i] - 1

(* A transfer leaves the device only if what is left of it without the     *)
(* marked blocks and the ones given up is shorter than the image.          *)
OffEndOnlyWhenShort ==
    pc = "off_end" =>
        PPB * Cardinality({b \in BlockOf(Start) .. NBlocks - 1 :
                             b \notin bad \cup given}) < length

(* What sfc_nand_block_check reports: 0 never for a marked block, 1 only   *)
(* for one, 2 only when a page failed Retries + 1 times in a row.          *)
CheckVerdict ==
    /\ ret = 0 => BlockOf(addr - 1) \notin bad
    /\ ret = 1 => BlockOf(addr) \in bad
    /\ ret = 2 => fails = Retries + 1

(* Every call returns or runs off the device, however many pages fail. *)
CallsEnd == pc \in {"write", "load", "check"} ~> pc \in {"ready", "off_end"}

================================================================================
