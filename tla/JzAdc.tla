-------------------------------- MODULE JzAdc --------------------------------
(***************************************************************************)
(* The SADC driver of the Ingenic boards: the MFD core (jz_adc_v13.c),     *)
(* which owns the ENABLE register and counts the channels in use, and the  *)
(* channel devices (jz_adc_aux.c), which processes open, enable, read and  *)
(* disable.  The system calls on one channel are serialised by its mutex;  *)
(* those on different channels run concurrently and meet in the core, whose *)
(* ENABLE register is read and written back under a spinlock in one place  *)
(* (jz_adc_set_enabled) and without it in two (jz_adc_enable, _disable).   *)
(***************************************************************************)
EXTENDS Integers, FiniteSets

CONSTANTS
    Chan,        \* the channels, one cell and one misc device each
    Reader,      \* the threads of the process that has a channel open
    MaxCount     \* bound: |enable_count|

ASSUME AdcAssumption ==
    /\ IsFiniteSet(Chan) /\ Chan # {}
    /\ IsFiniteSet(Reader)
    /\ MaxCount \in Nat \ {0}

VARIABLES
    open_count,    \* open_count[c]: 1 while a process has the device open
    enable_count,  \* enable_count[c]: ADC_ENABLEs minus ADC_DISABLEs
    pc,            \* pc[c]: where the holder of the channel's mutex is
    val,           \* val[c]: the register value that thread has read
    reg,           \* the ENABLE register: power-down bit and engine bits
    clk_ref,       \* the core's count of channels in use
    raced,         \* history: a channel was counted while another one was
                   \* switching the power, and the power was on ever since
    depth,         \* depth[c]: the interrupt's disable depth
    done,          \* done[c]: how often the read completion is completed
    waiting        \* waiting[c]: the threads in read, and what came since

chanVars == <<open_count, enable_count>>
coreVars == <<reg, clk_ref, raced>>
vars == <<chanVars, pc, val, coreVars, depth, done, waiting>>

Register == [down : BOOLEAN, eng : SUBSET Chan]

(* The value of the local variable where it is dead. *)
NoVal == [down |-> TRUE, eng |-> {}]

(* No thread is in read: each element of Reader maps to "out", "waits" (no *)
(* sample since the read began) or "sampled".                              *)
NoReader == [r \in Reader |-> "out"]

(* The state jz_adc_probe and jz_adc_aux_probe leave. *)
Init ==
    /\ open_count = [c \in Chan |-> 0]
    /\ enable_count = [c \in Chan |-> 0]
    /\ pc = [c \in Chan |-> "idle"]
    /\ val = [c \in Chan |-> NoVal]
    /\ reg = [down |-> TRUE, eng |-> {}]
    /\ clk_ref = 0 /\ raced = FALSE
    /\ depth = [c \in Chan |-> 1]
    /\ done = [c \in Chan |-> 0]
    /\ waiting = [c \in Chan |-> NoReader]

-------------------------------------------------------------------------------
(* Scheduling: threads on different channels interleave anywhere. *)

At(c, l) == pc[c] = l
Goto(c, l) == pc' = [pc EXCEPT ![c] = l]

(* A variant of LockFree: the lock is taken before it is taken. *)
LockNested == \A d \in Chan : pc[d] \notin {"wr_set", "rd_clr", "wr_clr"}

(* adc->lock, held from the read to the write of jz_adc_set_enabled. *)
LockFree == \A d \in Chan : pc[d] \notin {"wr_set", "wr_clr"}

-------------------------------------------------------------------------------
(* System calls on a channel. *)

Open(c) ==
    /\ At(c, "idle")
    /\ open_count[c] = 0
    /\ open_count' = [open_count EXCEPT ![c] = 1]
    /\ UNCHANGED <<enable_count, pc, val, coreVars, depth, done, waiting>>

(* The last file descriptor is closed. *)
Release(c) ==
    /\ At(c, "idle")
    /\ open_count[c] > 0 /\ waiting[c] = NoReader
    /\ open_count' = [open_count EXCEPT ![c] = 0]
    /\ Goto(c, IF enable_count[c] > 0 THEN "irqoff" ELSE "end")
    /\ UNCHANGED <<enable_count, val, coreVars, depth, done, waiting>>

IoctlEnable(c) ==
    /\ At(c, "idle")
    /\ open_count[c] > 0 /\ enable_count[c] < MaxCount
    /\ enable_count' = [enable_count EXCEPT ![c] = @ + 1]
    /\ Goto(c, IF enable_count'[c] = 1 THEN "inc" ELSE "idle")
    /\ UNCHANGED <<open_count, val, coreVars, depth, done, waiting>>

(* A variant of IoctlDisable: a channel that is not enabled is disabled. *)
IoctlDisableAlways(c) ==
    /\ At(c, "idle")
    /\ open_count[c] > 0 /\ enable_count[c] > -MaxCount
    /\ enable_count' = [enable_count EXCEPT ![c] = @ - 1]
    /\ Goto(c, IF enable_count'[c] <= 0 THEN "irqoff" ELSE "idle")
    /\ UNCHANGED <<open_count, val, coreVars, depth, done, waiting>>

IoctlDisable(c) ==
    /\ At(c, "idle")
    /\ open_count[c] > 0 /\ enable_count[c] > -MaxCount
    /\ enable_count' = [enable_count EXCEPT ![c] = @ - 1]
    /\ Goto(c, IF enable_count'[c] = 0 THEN "irqoff" ELSE "idle")
    /\ UNCHANGED <<open_count, val, coreVars, depth, done, waiting>>

(* A variant of ReadBegin: an old completion is not cleared. *)
ReadKeepsDone(c, r) ==
    /\ open_count[c] > 0 /\ waiting[c][r] = "out"
    /\ waiting' = [waiting EXCEPT ![c][r] = "waits"]
    /\ UNCHANGED <<chanVars, pc, val, coreVars, depth, done>>

(* read does not take the mutex: it clears the completion and waits. *)
ReadBegin(c, r) ==
    /\ open_count[c] > 0 /\ waiting[c][r] = "out"
    /\ done' = [done EXCEPT ![c] = 0]
    /\ waiting' = [waiting EXCEPT ![c][r] = "waits"]
    /\ UNCHANGED <<chanVars, pc, val, coreVars, depth>>

(* The wait ends with a completion, which it consumes. *)
ReadSample(c, r) ==
    /\ waiting[c][r] # "out" /\ done[c] > 0
    /\ done' = [done EXCEPT ![c] = @ - 1]
    /\ waiting' = [waiting EXCEPT ![c][r] = "out"]
    /\ UNCHANGED <<chanVars, pc, val, coreVars, depth>>

(* A second has passed, or a signal has come. *)
ReadFails(c, r) ==
    /\ waiting[c][r] # "out" /\ done[c] = 0
    /\ waiting' = [waiting EXCEPT ![c][r] = "out"]
    /\ UNCHANGED <<chanVars, pc, val, coreVars, depth, done>>

-------------------------------------------------------------------------------
(* jz_adc_cell_enable, then enable_irq. *)

(* Another thread reads and writes the register without the lock. *)
Switching(c) == \E d \in Chan \ {c} : pc[d] \in {"rd_on", "wr_on", "rd_off", "wr_off"}

(* jz_adc_enable: the first channel powers the converter up. *)
CountUp(c) ==
    /\ At(c, "inc")
    /\ clk_ref' = clk_ref + 1
    /\ raced' = (Switching(c) \/ (raced /\ clk_ref > 0))
    /\ Goto(c, IF clk_ref' = 1 THEN "rd_on" ELSE "rd_set")
    /\ UNCHANGED <<chanVars, val, reg, depth, done, waiting>>

PowerUpRead(c) ==
    /\ At(c, "rd_on")
    /\ val' = [val EXCEPT ![c] = reg]
    /\ Goto(c, "wr_on")
    /\ UNCHANGED <<chanVars, coreVars, depth, done, waiting>>

PowerUpWrite(c) ==
    /\ At(c, "wr_on")
    /\ reg' = [val[c] EXCEPT !.down = FALSE]
    /\ val' = [val EXCEPT ![c] = NoVal]
    /\ Goto(c, "sleep")
    /\ UNCHANGED <<chanVars, clk_ref, raced, depth, done, waiting>>

(* msleep(5), then the stable and repeat times are written. *)
Wake(c) ==
    /\ At(c, "sleep")
    /\ Goto(c, "rd_set")
    /\ UNCHANGED <<chanVars, val, coreVars, depth, done, waiting>>

(* jz_adc_set_enabled(..., true) *)
SetRead(c) ==
    /\ At(c, "rd_set") /\ LockFree
    /\ val' = [val EXCEPT ![c] = reg]
    /\ Goto(c, "wr_set")
    /\ UNCHANGED <<chanVars, coreVars, depth, done, waiting>>

SetWrite(c) ==
    /\ At(c, "wr_set")
    /\ reg' = [val[c] EXCEPT !.eng = @ \cup {c}]
    /\ val' = [val EXCEPT ![c] = NoVal]
    /\ Goto(c, "irqon")
    /\ UNCHANGED <<chanVars, clk_ref, raced, depth, done, waiting>>

EnableIrq(c) ==
    /\ At(c, "irqon")
    /\ depth' = [depth EXCEPT ![c] = @ - 1]
    /\ Goto(c, "idle")
    /\ UNCHANGED <<chanVars, val, coreVars, done, waiting>>

-------------------------------------------------------------------------------
(* disable_irq, then jz_adc_cell_disable. *)

DisableIrq(c) ==
    /\ At(c, "irqoff")
    /\ depth' = [depth EXCEPT ![c] = @ + 1]
    /\ Goto(c, "rd_clr")
    /\ UNCHANGED <<chanVars, val, coreVars, done, waiting>>

(* jz_adc_set_enabled(..., false) *)
ClearRead(c) ==
    /\ At(c, "rd_clr") /\ LockFree
    /\ val' = [val EXCEPT ![c] = reg]
    /\ Goto(c, "wr_clr")
    /\ UNCHANGED <<chanVars, coreVars, depth, done, waiting>>

ClearWrite(c) ==
    /\ At(c, "wr_clr")
    /\ reg' = [val[c] EXCEPT !.eng = @ \ {c}]
    /\ val' = [val EXCEPT ![c] = NoVal]
    /\ Goto(c, "dec")
    /\ UNCHANGED <<chanVars, clk_ref, raced, depth, done, waiting>>

(* A variant of CountDown: the first channel to stop powers down. *)
CountDownAny(c) ==
    /\ At(c, "dec")
    /\ clk_ref' = clk_ref - 1
    /\ Goto(c, "rd_off")
    /\ UNCHANGED <<chanVars, val, reg, raced, depth, done, waiting>>

(* A variant of CountDown: the last channel leaves the converter powered. *)
CountDownNever(c) ==
    /\ At(c, "dec")
    /\ clk_ref' = clk_ref - 1
    /\ Goto(c, "end")
    /\ UNCHANGED <<chanVars, val, reg, raced, depth, done, waiting>>

(* jz_adc_disable: the last channel powers the converter down. *)
CountDown(c) ==
    /\ At(c, "dec")
    /\ clk_ref' = clk_ref - 1
    /\ Goto(c, IF clk_ref' = 0 THEN "rd_off" ELSE "end")
    /\ UNCHANGED <<chanVars, val, reg, raced, depth, done, waiting>>

PowerDownRead(c) ==
    /\ At(c, "rd_off")
    /\ val' = [val EXCEPT ![c] = reg]
    /\ Goto(c, "wr_off")
    /\ UNCHANGED <<chanVars, coreVars, depth, done, waiting>>

PowerDownWrite(c) ==
    /\ At(c, "wr_off")
    /\ reg' = [val[c] EXCEPT !.down = TRUE]
    /\ val' = [val EXCEPT ![c] = NoVal]
    /\ Goto(c, "end")
    /\ UNCHANGED <<chanVars, clk_ref, raced, depth, done, waiting>>

(* A variant of End: release does not reset the count. *)
EndKeepsCount(c) ==
    /\ At(c, "end")
    /\ Goto(c, "idle")
    /\ UNCHANGED <<chanVars, val, coreVars, depth, done, waiting>>

(* ADC_DISABLE ends with the count at 0; release sets it to 0. *)
End(c) ==
    /\ At(c, "end")
    /\ enable_count' = [enable_count EXCEPT ![c] = 0]
    /\ Goto(c, "idle")
    /\ UNCHANGED <<open_count, val, coreVars, depth, done, waiting>>

-------------------------------------------------------------------------------
(* Bound on the completion's count: readers consume no more of it before   *)
(* the next read clears it.                                                *)
MaxDone == Cardinality(Reader)

(* The converter has a sample of a channel: the demultiplexer runs the     *)
(* channel's handler, which completes the read.                            *)
Interrupt(c) ==
    /\ ~reg.down /\ c \in reg.eng
    /\ depth[c] = 0
    /\ done' = [done EXCEPT ![c] = IF @ < MaxDone THEN @ + 1 ELSE @]
    /\ waiting' = [waiting EXCEPT ![c] =
                      [r \in Reader |-> IF @[r] = "waits" THEN "sampled" ELSE @[r]]]
    /\ UNCHANGED <<chanVars, pc, val, coreVars, depth>>

(* The thread that holds the mutex of a channel goes on. *)
Thread(c) ==
    \/ CountUp(c) \/ PowerUpRead(c) \/ PowerUpWrite(c) \/ Wake(c)
    \/ SetRead(c) \/ SetWrite(c) \/ EnableIrq(c)
    \/ DisableIrq(c) \/ ClearRead(c) \/ ClearWrite(c)
    \/ CountDown(c) \/ PowerDownRead(c) \/ PowerDownWrite(c) \/ End(c)

Read(c, r) == ReadBegin(c, r) \/ ReadSample(c, r) \/ ReadFails(c, r)

Next ==
    \E c \in Chan :
        \/ Open(c) \/ Release(c) \/ IoctlEnable(c) \/ IoctlDisable(c)
        \/ Thread(c)
        \/ \E r \in Reader : Read(c, r)
        \/ Interrupt(c)

Spec == Init /\ [][Next]_vars

(* The scheduler is fair and so is the spinlock: a thread in the kernel    *)
(* that can go on again and again does.                                    *)
FairSpec == Spec /\ \A c \in Chan : SF_vars(Thread(c))

-------------------------------------------------------------------------------
(* Properties. *)

Label == {"idle", "inc", "rd_on", "wr_on", "sleep", "rd_set", "wr_set", "irqon",
          "irqoff", "rd_clr", "wr_clr", "dec", "rd_off", "wr_off", "end"}

(* Counters, registers and threads are what the driver makes of them; no   *)
(* sequence of system calls takes clk_ref or a disable depth below zero.   *)
TypeOK ==
    /\ open_count \in [Chan -> 0 .. 1]
    /\ enable_count \in [Chan -> -MaxCount .. MaxCount]
    /\ pc \in [Chan -> Label]
    /\ val \in [Chan -> Register]
    /\ reg \in Register
    /\ clk_ref \in Nat /\ raced \in BOOLEAN
    /\ depth \in [Chan -> Nat]
    /\ done \in [Chan -> 0 .. MaxDone]
    /\ waiting \in [Chan -> [Reader -> {"out", "waits", "sampled"}]]

Quiet == \A c \in Chan : pc[c] = "idle"

(* When no system call is in progress, the core counts exactly the         *)
(* channels with a positive enable_count, and a closed channel has none,   *)
(* although ADC_DISABLE may take enable_count below zero and release may   *)
(* find it anywhere (jz_adc_aux_ioctl, jz_adc_aux_release).                *)
RefCountExact ==
    /\ Quiet => clk_ref = Cardinality({c \in Chan : enable_count[c] > 0})
    /\ \A c \in Chan : pc[c] = "idle" /\ open_count[c] = 0 => enable_count[c] = 0

(* enable_irq and disable_irq are balanced: between two system calls a     *)
(* channel's interrupt is enabled once if the channel is, and disabled     *)
(* once if not.                                                            *)
IrqBalanced ==
    \A c \in Chan : pc[c] = "idle" =>
        depth[c] = IF enable_count[c] > 0 THEN 0 ELSE 1

(* An enabled channel is converting: its engine bit is set and the         *)
(* converter has power, under every interleaving but one.  jz_adc_enable   *)
(* and jz_adc_disable switch the power without the lock, and if another    *)
(* channel is counted meanwhile, a bit can get lost; the harm ends when    *)
(* the converter is next switched on from off.  No other overlap of the    *)
(* reads and writes of the register does harm.                             *)
Powered ==
    ~raced => \A c \in Chan : pc[c] = "idle" /\ enable_count[c] > 0 =>
                ~reg.down /\ c \in reg.eng

(* The converter does not stay on: once no channel is enabled it is        *)
(* powered down, under every interleaving of the unlocked writes.          *)
OffWhenUnused ==
    Quiet /\ (\A c \in Chan : enable_count[c] <= 0) => reg.down

(* A read that succeeds was completed by an interrupt from after its       *)
(* start, never by one left over from an earlier read or from before the   *)
(* channel was disabled and enabled again, also when other threads read    *)
(* the channel and consume or clear the completion in between              *)
(* (INIT_COMPLETION in jz_adc_aux_sample_volt).                            *)
FreshSample ==
    [][\A c \in Chan, r \in Reader :
        waiting[c][r] # "out" /\ waiting'[c][r] = "out" /\ done[c] > 0 => waiting[c][r] = "sampled"]_vars

(* Every system call that takes the mutex of a channel gives it back. *)
CallsReturn == \A c \in Chan : pc[c] # "idle" ~> pc[c] = "idle"
===============================================================================
