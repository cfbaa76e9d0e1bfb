--------------------------------- MODULE Hwinfo ---------------------------------
(***************************************************************************)
(* The hardware information and the choice of the kernel to boot           *)
(* (u-boot/common/spl/hwinfo.c, spl_sfc_nand_os_load).  Two regions of     *)
(* flash blocks each hold a copy of the record, in the first block of the  *)
(* region that is usable, with a checksum and an update count.  At boot    *)
(* hwinfo_init reads both and keeps the newer of the valid ones.           *)
(*                                                                         *)
(* The program that updates the record runs in the booted system and is    *)
(* not part of the repository.  It is modelled from what hwinfo_init needs *)
(* of it: it erases and programs one copy at a time, never the newer one   *)
(* and never the only one, and counts updates up by one.                   *)
(***************************************************************************)
EXTENDS Integers, Sequences, FiniteSetsExt

CONSTANTS
    Flag,        \* contents of HWINFO_BLOCK_BOOT_SELECT, as sequences of bytes
    Garbage,     \* any content whose checksum does not fit
    R,           \* blocks of one region (HWINFO1_SEEK_MAX / HWINFO1_SEEK_STEP)
    MaxCount,    \* bound: updates
    MaxDecay     \* bound: blocks that become unreadable

Record == [flag : Flag, count : 0 .. MaxCount]

ASSUME HwinfoAssumption ==
    /\ Flag \subseteq Seq(0 .. 255) /\ <<>> \in Flag
    /\ R \in Nat \ {0} /\ MaxCount \in Nat /\ MaxDecay \in Nat
    /\ Garbage \notin Record

Copy == {1, 2}
Block == 0 .. 2 * R - 1
SeekStart(c) == (c - 1) * R
Region(c) == SeekStart(c) .. SeekStart(c) + R - 1
NoBlock == -1

VARIABLES
    state,    \* state[b]: "good", marked "bad", or ECC errors on the first
              \* page of the record ("ecc_first"), on a later one
              \* ("ecc_later") or behind the record ("ecc_behind")
    data,     \* data[b]: what block b holds
    target,   \* the block the updater is writing, or NoBlock
    new,      \* the record it writes or has written last
    kernel,   \* partition the system was booted from, "off" without power
    mem,      \* the record at HWINFO_VA_MEMORY_ADDR, Garbage if not inited
    last,     \* update count of the last record written
    decays    \* how much of the bound has been used

vars == <<state, data, target, new, kernel, mem, last, decays>>

EccStates == {"ecc_first", "ecc_later", "ecc_behind"}

(* The types of the variables; update counts stay within their bound. *)
TypeOK ==
    /\ state \in [Block -> {"good", "bad"} \cup EccStates]
    /\ data \in [Block -> Record \cup {Garbage}]
    /\ target \in Block \cup {NoBlock}
    /\ new \in Record /\ mem \in Record \cup {Garbage}
    /\ kernel \in {"off", "kernel", "kernel_bak"}
    /\ last \in 0 .. MaxCount /\ decays \in 0 .. MaxDecay
--------------------------------------------------------------------------------
(* The scan of a region with sfc_nand_block_check; if it finds nothing the *)
(* seek variable keeps its initial value, the start of the region.         *)
Seek(st, c) ==
    LET usable == {b \in Region(c) : st[b] = "good"}
    IN  IF usable = {} THEN SeekStart(c) ELSE Min(usable)

(* sfc_nand_load of the record from block b: marked blocks and those whose *)
(* first page is unreadable are skipped, into the next region and past the *)
(* partition if need be; a page that fails later mixes two blocks; what    *)
(* is behind the record is not read.                                       *)
Load(st, d, b) ==
    LET readable == {x \in Block : x >= b /\ st[x] \notin {"bad", "ecc_first"}}
    IN  IF readable # {} /\ st[Min(readable)] # "ecc_later"
        THEN d[Min(readable)] ELSE Garbage

(* Mutants: the older of two valid copies; the second copy only when the   *)
(* first is valid too.                                                     *)
SelectOlder(h1, h2) ==
    IF \/ h1 = Garbage
       \/ h1 # Garbage /\ h2 # Garbage /\ h1.count > h2.count
    THEN h2 ELSE h1

SelectFirst(h1, h2) ==
    IF h1 # Garbage /\ h2 # Garbage /\ h1.count < h2.count THEN h2 ELSE h1

(* The record hwinfo_init keeps. *)
Select(h1, h2) ==
    IF \/ h1 = Garbage
       \/ h1 # Garbage /\ h2 # Garbage /\ h1.count < h2.count
    THEN h2 ELSE h1

Found(st, d) == Select(Load(st, d, Seek(st, 1)), Load(st, d, Seek(st, 2)))

(* The bytes of the flag are copied over an int that is zero. *)
boot_select_get(m) ==
    m # Garbage /\ \E i \in DOMAIN m.flag : m.flag[i] # 0

(* A device as it leaves the factory: some blocks are marked, the record,  *)
(* without a boot flag, has been written to one region or to both.         *)
Init ==
    /\ \E marked \in SUBSET Block :
        /\ state = [b \in Block |-> IF b \in marked THEN "bad" ELSE "good"]
        /\ \E written \in SUBSET Copy :
            /\ \E c \in written : Region(c) \ marked # {}
            /\ data = [b \in Block |->
                        IF \E c \in written : /\ b \in Region(c) \ marked
                                              /\ b = Seek(state, c)
                        THEN [flag |-> <<>>, count |-> 0] ELSE Garbage]
    /\ target = NoBlock /\ new = [flag |-> <<>>, count |-> 0]
    /\ kernel = "off" /\ mem = Garbage /\ last = 0 /\ decays = 0

(* hwinfo_init and the choice of the partition in spl_sfc_nand_os_load. *)
hwinfo_init ==
    /\ kernel = "off"
    /\ mem' = Found(state, data)
    /\ kernel' = IF boot_select_get(mem') THEN "kernel_bak" ELSE "kernel"
    /\ UNCHANGED <<state, data, target, new, last, decays>>
--------------------------------------------------------------------------------
(* The copy of region c, as the updater sees it. *)
Held(c) ==
    LET b == Seek(state, c) IN IF state[b] = "good" THEN data[b] ELSE Garbage

(* The updater starts on the copy in region c. *)
Erase(c) ==
    LET b == Seek(state, c)
        keep == Held(3 - c)
    IN  /\ kernel # "off" /\ target = NoBlock /\ state[b] = "good"
        /\ keep # Garbage
        /\ Held(c) # Garbage => Held(c).count <= keep.count
        /\ data' = [data EXCEPT ![b] = Garbage] /\ target' = b
        /\ \/ new' = keep
           \/ /\ keep.count < MaxCount
              /\ \E f \in Flag : new' = [flag |-> f, count |-> keep.count + 1]
        /\ UNCHANGED <<state, kernel, mem, last, decays>>

Program ==
    /\ target # NoBlock
    /\ data' = [data EXCEPT ![target] = new]
    /\ last' = new.count /\ target' = NoBlock
    /\ UNCHANGED <<state, new, kernel, mem, decays>>

(* Mutant: the next block, without a look at the end of the region. *)
WearOutNext ==
    /\ target # NoBlock
    /\ state' = [state EXCEPT ![target] = "bad"]
    /\ target' = target + 1
    /\ UNCHANGED <<data, new, kernel, mem, last, decays>>

(* The block cannot be erased or programmed: it is marked, and the updater *)
(* takes the next one of the region, if there is one.                      *)
WearOut ==
    /\ target # NoBlock
    /\ state' = [state EXCEPT ![target] = "bad"]
    /\ LET c == IF target < R THEN 1 ELSE 2
           b == Seek(state', c)
       IN  IF state'[b] = "good"
           THEN target' = b /\ data' = [data EXCEPT ![b] = Garbage]
           ELSE target' = NoBlock /\ UNCHANGED data
    /\ UNCHANGED <<new, kernel, mem, last, decays>>

PowerOff ==
    /\ kernel # "off" /\ kernel' = "off"
    /\ mem' = Garbage /\ target' = NoBlock
    /\ UNCHANGED <<state, data, new, last, decays>>

(* A block becomes unreadable while both copies are there. *)
Decay ==
    /\ decays < MaxDecay /\ target = NoBlock
    /\ \A c \in Copy : Held(c) # Garbage
    /\ \E b \in Block, e \in EccStates :
        /\ state[b] = "good"
        /\ state' = [state EXCEPT ![b] = e]
    /\ decays' = decays + 1
    /\ UNCHANGED <<data, target, new, kernel, mem, last>>

Next == \/ hwinfo_init \/ PowerOff \/ Decay
        \/ Program \/ WearOut \/ \E c \in Copy : Erase(c)

Spec == Init /\ [][Next]_vars
--------------------------------------------------------------------------------
(* The record is replaced as a whole: two copies in flash that wears out,  *)
(* updated by a program that can lose power at any moment, implement       *)
(* BootStore.  The record is what hwinfo_init would find; it may change    *)
(* otherwise only after a block has decayed.                               *)
Store == INSTANCE BootStore WITH
            Info <- Flag,
            Backup <- {f \in Flag : \E i \in DOMAIN f : f[i] # 0},
            info <- Found(state, data).flag,
            new <- new.flag,
            lost <- decays > 0

AtomicStore == Store!Spec

(* When one block has become unreadable, a boot at any moment still finds  *)
(* a record, at most one update behind the last one written.               *)
SurvivesOneLoss ==
    /\ Found(state, data) # Garbage
    /\ Found(state, data).count >= last - 1

(* hwinfo.h on HWINFO_BLOCK_BOOT_SELECT: "null or 0 = default first part   *)
(* boot, 1= second part boot"; every field of the record is text, and the  *)
(* repository's tool for writing fields writes text.                       *)
Char0 == 48

FlagAsDocumented ==
    kernel = "kernel_bak" => mem.flag \notin {<<>>, <<Char0>>}
================================================================================
