-------------------------- MODULE StorageEnumerate -------------------------
(***************************************************************************)
(* storage_enumerate and query_device                                      *)
(* (src/platform/windows/storage_enum_windows.c): the handles, the         *)
(* descriptor buffer and the drives reported.  Which drives there are,     *)
(* whether a call succeeds and every byte of a descriptor are external.    *)
(* The buffer is not cleared, so a descriptor shorter than its structure   *)
(* has arbitrary offsets; so has a malformed one.                          *)
(***************************************************************************)
EXTENDS Integers, Sequences, FiniteSets, FiniteSetsExt

CONSTANTS
    STORAGE_MAX_DEVICES,
    BufferSize,      \* sizeof(buf)
    ReturnedSizes,   \* bytes a property query may deliver
    Offsets          \* string offsets and positions of a NUL

ASSUME StorageAssumption ==
    /\ STORAGE_MAX_DEVICES \in Nat /\ BufferSize \in Nat
    /\ ReturnedSizes \subseteq 0..BufferSize /\ Offsets \subseteq Nat

VARIABLES
    stPc,
    drives,      \* the drive numbers in use (external)
    refused,     \* drives that are there but could not be opened (ghost)
    drive,       \* i
    handles,     \* open handles
    badClose,    \* has a handle been closed that was not open?
    returned,    \* bytes the property query delivered
    readTo,      \* end of the highest byte a string was read from
    capacity,    \* dev->capacity_available
    devices      \* out->devices, out->device_count

stVars == <<stPc, drives, refused, drive, handles, badClose, returned, readTo,
            capacity, devices>>
bufferVars == <<returned, readTo>>
outVars    == <<drives, refused, drive, devices>>

StInit ==
    /\ stPc = "start" /\ drives = {} /\ refused = {} /\ drive = 0
    /\ handles = {} /\ badClose = FALSE /\ returned = 0 /\ readTo = 0
    /\ capacity = FALSE /\ devices = <<>>

StGoto(l) == stPc' = l
Close(h)  == /\ handles' = handles \ {h}
             /\ badClose' = (badClose \/ h \notin handles)

-----------------------------------------------------------------------------
\* The drives there are, one number beyond the array included.
StartEnumeration ==
    /\ stPc = "start"
    /\ drives' \in SUBSET (0..STORAGE_MAX_DEVICES)
    /\ StGoto("open")
    /\ UNCHANGED <<refused, drive, handles, badClose, bufferVars, capacity,
                   devices>>

\* MUTANT: the loop stops one short of the array.
MoreDrivesOffByOne == drive < STORAGE_MAX_DEVICES - 1

MoreDrives == drive < STORAGE_MAX_DEVICES

\* CreateFileW without access rights.  Any failure ends the enumeration.
OpenDrive ==
    /\ stPc = "open"
    /\ \/ /\ MoreDrives /\ drive \in drives
          /\ handles' = handles \cup {"h"}
          /\ StGoto("query") /\ UNCHANGED refused
       \/ /\ MoreDrives /\ drive \in drives             \* refused
          /\ refused' = refused \cup {drive}
          /\ StGoto("done") /\ UNCHANGED handles
       \/ /\ ~(MoreDrives /\ drive \in drives)
          /\ StGoto("done") /\ UNCHANGED <<handles, refused>>
    /\ UNCHANGED <<drives, drive, badClose, bufferVars, capacity, devices>>

\* MUTANT: an offset is believed without asking whether the bytes are there.
OffsetUsableNonzero(offset) == offset # 0

OffsetUsable(offset) == offset # 0 /\ offset < returned'

\* Where strnlen(buf + offset, returned - offset) stops reading; with an
\* offset beyond the data the bound wraps around.
StringEnd(offset, nul) ==
    IF offset < returned'
    THEN IF nul \in offset..(returned' - 1) THEN nul + 1 ELSE returned'
    ELSE Max({offset, nul}) + 1

\* The descriptor's strings: product or else vendor as the model; revision
\* and serial number, both by the same rule.
QueryProperty ==
    /\ stPc = "query"
    /\ \/ /\ returned' \in ReturnedSizes
          /\ \E product, vendor, other, nul \in Offsets :
                LET model == IF OffsetUsable(product) THEN product ELSE vendor
                    used  == {o \in {model, other} : OffsetUsable(o)}
                IN readTo' = Max({0} \cup {StringEnd(o, nul) : o \in used})
       \/ UNCHANGED bufferVars                          \* the query fails
    /\ StGoto("length")
    /\ UNCHANGED <<outVars, handles, badClose, capacity>>

\* IOCTL_DISK_GET_LENGTH_INFO on h; if that fails, a second handle with
\* GENERIC_READ.  (For an NVMe drive try_nvme_identify comes before; the
\* macro it is compiled under is a type, so it returns false at once.)
QueryLength ==
    /\ stPc = "length"
    /\ \/ capacity' = TRUE /\ StGoto("close") /\ UNCHANGED handles
       \/ handles' = handles \cup {"h2"} /\ StGoto("length2") /\ UNCHANGED capacity
       \/ UNCHANGED <<handles, capacity>> /\ StGoto("close")
    /\ returned' = 0 /\ readTo' = 0        \* the buffer is not used again
    /\ UNCHANGED <<outVars, badClose>>

\* MUTANT: the second handle is closed only if the query succeeded.
CloseSecondOnSuccess(ok) ==
    IF ok THEN Close("h2") ELSE UNCHANGED <<handles, badClose>>

CloseSecond(ok) == Close("h2")

QueryLengthAgain ==
    /\ stPc = "length2"
    /\ \E ok \in BOOLEAN : capacity' = ok /\ CloseSecond(ok)
    /\ StGoto("close")
    /\ UNCHANGED <<outVars, bufferVars>>

\* CloseHandle(h), and storage_enumerate stores the device.
StoreDrive ==
    /\ stPc = "close"
    /\ Close("h")
    /\ devices' = Append(devices, [index |-> drive, capacity |-> capacity])
    /\ drive' = drive + 1
    /\ capacity' = FALSE                   \* memset of the next device
    /\ StGoto("open")
    /\ UNCHANGED <<drives, refused, bufferVars>>

StNext ==
    \/ StartEnumeration \/ OpenDrive \/ QueryProperty \/ QueryLength
    \/ QueryLengthAgain \/ StoreDrive

StSpec == StInit /\ [][StNext]_stVars

-----------------------------------------------------------------------------
(***************************************************************************)
(* Properties.                                                             *)
(***************************************************************************)
\* On every path through query_device each handle that was opened is closed
\* exactly once before the next drive is opened or the function returns.
HandlesClosed ==
    /\ ~badClose
    /\ stPc \in {"start", "open", "done"} => handles = {}
    /\ stPc \in {"query", "length", "close"} => handles = {"h"}

\* No string is read from outside the bytes this query delivered, whatever
\* the offsets in the descriptor say; the buffer is never cleared, so bytes
\* beyond belong to an earlier drive or to nobody.
StringsFromThisQuery == readTo <= returned /\ returned <= BufferSize

\* What ends the enumeration ends all of it, and nothing else is lost: the
\* drives reported exist and are numbered from 0 without a gap, and a drive
\* within the array is missing only behind a number that is not in use or
\* that could not be opened.
DrivesReported ==
    stPc = "done" =>
        LET reported == {devices[k].index : k \in DOMAIN devices} IN
        /\ \A k \in DOMAIN devices : devices[k].index = k - 1
        /\ reported \subseteq drives
        /\ \A d \in drives \ reported :
              d < STORAGE_MAX_DEVICES =>
                  \E j \in 0..d : j \notin drives \/ j \in refused
=============================================================================
