----------------------------- MODULE MC_Storage ------------------------------
(***************************************************************************)
(* The stick, the volume on it and what is kept there, in one run: the USB *)
(* mass storage driver, the FAT32 driver and the user database. They share *)
(* no state here (Users takes from a file what FileStore promises, Fat32   *)
(* from a sector what OkMeansDone promises), so a behaviour lets one of    *)
(* them move, chosen at the start, and the rest stays where it began.      *)
(***************************************************************************)
EXTENDS MC_Fat32

CONSTANTS
    Names, Callers, Passwords, Default, MAX_USERS, MaxUid, UserFaults, Tears, HealFails,
    Corrupt, NoSave,
    Pieces, Values, Junk, MaxCalls, MaxUsbFaults

VARIABLES
    part,
    s_users, s_next_uid, db, bak, phase, save, caller, may, userFaults,
    out, in, evs, halted, dev, medium, g_cbw, g_csw, g_buf, usbBuf, g_tag, g_sectors, cmd,
    usbCall, calls, usbFaults

U == INSTANCE Users WITH MaxFaults <- UserFaults, faults <- userFaults
B == INSTANCE UsbMsc WITH faults <- usbFaults, buf <- usbBuf, call <- usbCall

\* What a line of the user database can say
Records == [name : Names \cup {U!RootAdmin}, uid : 0 .. MaxUid,
            pw : Passwords \cup {Default}, must : BOOLEAN]
\* NoSave is no save, and the boot is no caller.
ASSUME StorageAssumption ==
    /\ Absent # Corrupt /\ MaxUid \in Nat /\ U!Init_ \notin Callers
    /\ NoSave \notin [stage : {"bak", "db"}, back : SUBSET Records, by : Callers \cup {U!Init_}]
ASSUME StickAssumption == Pieces \in Nat

accounts == <<s_users, s_next_uid, db, bak, phase, save, caller, may, userFaults>>
stick == <<out, in, evs, halted, dev, medium, g_cbw, g_csw, g_buf, usbBuf, g_tag, g_sectors,
           cmd, usbCall, calls, usbFaults>>
storage_vars == <<part, vars, accounts, stick>>

StorageInit ==
    /\ part \in {"fat32", "users", "usb"}
    /\ Init /\ U!Init /\ B!Init
    /\ part # "fat32" => num_fats = 1

InFat32(A) == part = "fat32" /\ A /\ UNCHANGED <<part, accounts, stick>>
InUsers(A) == part = "users" /\ A /\ UNCHANGED <<part, vars, stick>>
InUsb(A) == part = "usb" /\ A /\ UNCHANGED <<part, vars, accounts>>

StorageNext == InFat32(Next) \/ InUsers(U!Next) \/ InUsb(B!Next)
StorageSpec == StorageInit /\ [][StorageNext]_storage_vars

-----------------------------------------------------------------------------
(***************************************************************************)
(* The properties of the volume, where it is the part that moves           *)
(***************************************************************************)
OnVolume(P) == part = "fat32" => P

\* Fat32!AtMostOrphans: whatever fails, only orphans are left (fat32.c:1317).
VolumeSound == OnVolume(AtMostOrphans)

\* Fat32!CacheHarmless: no file is read wrongly through the cached FAT sector.
CacheSafe == OnVolume(CacheHarmless)

\* Fat32!NothingLost: without faults no cluster leaks and the counts are exact.
NoClusterLost == OnVolume(NothingLost)

\* Fat32!ImplementsStore: the driver's sector writes implement FileStore. (An idle
\* volume stutters there, so its steps need no look.)
VolumeIsStore ==
    /\ Store!Init
    /\ [][OnVolume([Store!Next]_(Store!vars))]_storage_vars

-----------------------------------------------------------------------------
\* Users!Durable: an answered change is never lost to an error or a reboot.
Durable == U!Durable
\* Users!AlwaysAGoodCopy: one of the two files can always be read.
AlwaysAGoodCopy == U!AlwaysAGoodCopy
\* Users!UidStable: a password change never reaches another account.
UidStable == U!UidStable
\* UsbMsc!OkMeansDone: a sector call that returns 0 has moved these very data.
OkMeansDone == B!OkMeansDone
==============================================================================
