------------------------------- MODULE BootStore -------------------------------
(***************************************************************************)
(* What the hardware information promises the rest of the system: one      *)
(* record that an update replaces as a whole, that survives a loss of      *)
(* power at any moment, and whose boot flag names the kernel of every boot *)
(* (u-boot/common/spl/hwinfo.h).  After part of the memory has failed      *)
(* another record may take its place.                                      *)
(***************************************************************************)
CONSTANTS
    Info,       \* what the record may say
    Backup      \* the records whose flag asks for the second partition

VARIABLES
    info,       \* the record
    new,        \* what an update is to make of it
    lost,       \* part of the memory has failed
    kernel      \* the partition the running system was booted from, or "off"

vars == <<info, new, lost, kernel>>

Init ==
    /\ info \in Info /\ new \in Info
    /\ lost = FALSE /\ kernel = "off"

Request ==
    /\ kernel # "off" /\ new' \in Info
    /\ UNCHANGED <<info, lost, kernel>>

Update ==
    /\ kernel # "off" /\ info' = new
    /\ UNCHANGED <<new, lost, kernel>>

Lose == lost' = TRUE /\ info' \in Info /\ UNCHANGED <<new, kernel>>

PowerOff == kernel' = "off" /\ UNCHANGED <<info, new, lost>>

Boot ==
    /\ kernel = "off"
    /\ kernel' = IF info \in Backup THEN "kernel_bak" ELSE "kernel"
    /\ UNCHANGED <<info, new, lost>>

Next == Request \/ Update \/ Lose \/ PowerOff \/ Boot

Spec == Init /\ [][Next]_vars
================================================================================
