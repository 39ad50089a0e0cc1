-------------------------------- MODULE Ata --------------------------------
(***************************************************************************)
(* The disk below MiniFS: block_read and block_write (kernel/block/block.c)*)
(* and the polling driver of the primary master (kernel/drivers/ata.c),    *)
(* together with the drive that answers it.                                *)
(*                                                                         *)
(* A request runs with interrupts disabled, so nothing but the drive takes *)
(* steps in between.  Each poll loop of ata_wait is a step of the driver:  *)
(* it succeeds when the drive shows the awaited status, and gives up when  *)
(* the drive reports an error or has not got there after ATA_POLL_LIMIT    *)
(* polls, which may happen whenever the drive is slow.  ata_init runs      *)
(* before anything else and the kernel stops when it fails, so the module  *)
(* starts with a drive that has identified itself.                         *)
(*                                                                         *)
(* The drive is external.  It keeps written sectors in a cache until it is *)
(* told to flush it, it may fail or be slow with any sector, its error bit *)
(* stays set until the next command, and when a command arrives while it   *)
(* still offers or expects data of the previous one it may ignore it.      *)
(***************************************************************************)
EXTENDS Integers, Sequences

CONSTANTS DriveSectors,     \* what IDENTIFY reports
          LbaLimit,         \* ATA_LBA28_MAX + 1
          SectorsPerBlock,  \* 8 in the code
          Contents,         \* what a sector can hold
          RequestBlocks,    \* bounds of the instance: blocks of one request,
          RequestLimit      \* valid requests of one behaviour

Unread == "unread"          \* bytes of the caller's buffer not yet filled in

ASSUME DriveAssumption ==
    /\ SectorsPerBlock \in Nat \ {0} /\ RequestBlocks \in Nat \ {0}
    /\ RequestLimit \in Nat
    /\ DriveSectors \in Nat /\ LbaLimit \in Nat
    /\ DriveSectors >= SectorsPerBlock /\ LbaLimit >= SectorsPerBlock
    /\ Contents # {} /\ Unread \notin Contents

Sectors == 0 .. DriveSectors - 1

\* ata_init: the capacity, cut to what 28 bits address.
DeviceSectorCount == IF DriveSectors > LbaLimit THEN LbaLimit ELSE DriveSectors

\* block_init.
DeviceBlockCount == DeviceSectorCount \div SectorsPerBlock

VARIABLES
    driver,    \* the request in progress: where it is, what it asks for
    drive,     \* status bits, and the command it carries out
    sectors,   \* what a read of each sector returns
    requests,  \* how many valid requests there have been
    unsafe,    \* sectors whose new content may be in the drive's cache only
    found,     \* history: what the disk held when the request's command went out
    taken      \* history: what became of the request's commands: "none", "all"
               \* of them were taken by the drive, or "not all"

ataVars == <<driver, drive, sectors, unsafe, requests, found, taken>>

-----------------------------------------------------------------------------
\* The drive.

IdleDrive == [busy |-> FALSE, drq |-> FALSE, err |-> FALSE, command |-> "none",
              lba |-> 0, left |-> 0, data |-> Unread]

Busy(command, lba, count) ==
    [IdleDrive EXCEPT !.busy = TRUE, !.command = command, !.lba = lba, !.left = count]

\* What a command that is written to the drive makes of it.
Commanded(command, lba, count) ==
    {Busy(command, lba, count)} \cup IF drive.drq THEN {drive} ELSE {}

\* The drive goes on to the next sector of its command.
NextSector == IF drive.left = 1 THEN IdleDrive
              ELSE Busy(drive.command, drive.lba + 1, drive.left - 1)

OffersData == drive.busy /\ drive.command = "read"

WantsData == drive.busy /\ drive.command = "write" /\ drive.data = Unread

DriveTransfers ==
    /\ OffersData \/ WantsData
    /\ drive' = [drive EXCEPT !.busy = FALSE, !.drq = TRUE]
    /\ UNCHANGED <<driver, sectors, unsafe, found, taken>>

Stored(d) == [sectors EXCEPT ![d.lba] = d.data]

DriveStores ==
    /\ drive.busy /\ drive.command = "write" /\ drive.data # Unread
    /\ sectors' = Stored(drive) /\ unsafe' = unsafe \cup {drive.lba}
    /\ drive' = NextSector
    /\ UNCHANGED <<driver, found, taken>>

DriveFlushes ==
    /\ drive.busy /\ drive.command = "flush"
    /\ unsafe' = {}
    /\ drive' = IdleDrive
    /\ UNCHANGED <<driver, sectors, found, taken>>

\* A sector that was handed over may be kept or lost.
DriveFails ==
    /\ drive.busy
    /\ drive' = [IdleDrive EXCEPT !.err = TRUE]
    /\ \/ UNCHANGED <<sectors, unsafe>>
       \/ /\ drive.data # Unread
          /\ sectors' = Stored(drive) /\ unsafe' = unsafe \cup {drive.lba}
    /\ UNCHANGED <<driver, found, taken>>

-----------------------------------------------------------------------------
\* The driver.

\* ata_wait sees what it waits for.  Otherwise it gives up: at once when the
\* drive has an error, after ATA_POLL_LIMIT polls when it does not get there.
Ready(requireDrq) == ~drive.busy /\ ~drive.err /\ (requireDrq => drive.drq)

\* block_request_valid.
BlockRequestValid(block, count) ==
    /\ count > 0 /\ count <= DeviceBlockCount
    /\ block <= DeviceBlockCount - count

\* ata_request_valid.
AtaRequestValid(lba, count) ==
    /\ count > 0 /\ lba < LbaLimit
    /\ count <= DeviceSectorCount /\ lba <= DeviceSectorCount - count
    /\ count - 1 <= LbaLimit - 1 - lba

NoRequest == [at |-> "free", op |-> "none", block |-> 0, count |-> 0, index |-> 0,
              sector |-> 0, buffer |-> <<>>, result |-> "none"]

\* The first sector of the ATA command for the current block.
Lba == (driver.block + driver.index) * SectorsPerBlock

\* The place in the caller's buffer of the sector in transfer.
Slot == driver.index * SectorsPerBlock + driver.sector + 1

Return(result) == driver' = [driver EXCEPT !.at = "free", !.result = result]

\* ata_read_sectors or ata_write_sectors succeeds: the loop of block_read or
\* block_write goes on to the next block, or returns.
BlockDone(request) ==
    IF request.index + 1 < request.count
    THEN [request EXCEPT !.at = "select", !.index = @ + 1, !.sector = 0]
    ELSE [request EXCEPT !.at = "free", !.result = "ok"]

\* block_read or block_write is called.
Request == \E op \in {"read", "write"}, block \in 0 .. DeviceBlockCount,
              count \in 0 .. RequestBlocks :
    /\ driver.at = "free"
    /\ \/ /\ BlockRequestValid(block, count) /\ requests < RequestLimit
          /\ \E buffer \in IF op = "write" THEN [1 .. count * SectorsPerBlock -> Contents]
                           ELSE {[k \in 1 .. count * SectorsPerBlock |-> Unread]} :
                driver' = [NoRequest EXCEPT !.at = "select", !.op = op, !.block = block,
                                            !.count = count, !.buffer = buffer]
          /\ requests' = requests + 1
       \/ /\ ~BlockRequestValid(block, count)
          /\ driver' = [NoRequest EXCEPT !.result = "EINVAL"]
          /\ UNCHANGED requests
    /\ found' = sectors /\ taken' = "none"
    /\ UNCHANGED <<drive, sectors, unsafe>>

\* ata_read_sectors or ata_write_sectors is called: the request is checked, then
\* ata_wait(false) and ata_issue_lba28.
Select ==
    /\ driver.at = "select"
    /\ \/ /\ AtaRequestValid(Lba, SectorsPerBlock) /\ Ready(FALSE)
          /\ drive' \in Commanded(driver.op, Lba, SectorsPerBlock)
          /\ taken' = IF drive' = drive THEN "not all" ELSE IF taken = "none" THEN "all" ELSE taken
          /\ driver' = [driver EXCEPT !.at = "sector"]
          /\ found' = IF driver.index = 0 THEN sectors ELSE found
       \/ /\ ~(AtaRequestValid(Lba, SectorsPerBlock) /\ Ready(FALSE))
          /\ Return(IF AtaRequestValid(Lba, SectorsPerBlock) THEN "EIO" ELSE "EINVAL")
          /\ UNCHANGED <<drive, found, taken>>
    /\ UNCHANGED <<sectors, unsafe>>

\* The words of a sector that is read.  A drive that is still busy with an
\* ignored predecessor delivers the data of that command, or anything.
ReadWords ==
    \E value \in IF drive.command = "read" THEN {sectors[drive.lba]} ELSE Contents :
        /\ drive' = IF drive.command = "read" THEN NextSector ELSE drive
        /\ LET filled == [driver EXCEPT !.buffer[Slot] = value]
           IN  driver' = IF driver.sector + 1 < SectorsPerBlock
                         THEN [filled EXCEPT !.sector = @ + 1]
                         ELSE BlockDone(filled)

\* The words of a sector that is written.
WriteWords ==
    /\ drive' = IF drive.command = "write"
                THEN [drive EXCEPT !.drq = FALSE, !.busy = TRUE, !.data = driver.buffer[Slot]]
                ELSE drive
    /\ driver' = IF driver.sector + 1 < SectorsPerBlock
                 THEN [driver EXCEPT !.sector = @ + 1]
                 ELSE [driver EXCEPT !.at = "written"]

\* ata_wait(true) and the transfer of a sector.
TransferSector ==
    /\ driver.at = "sector"
    /\ \/ Ready(TRUE) /\ IF driver.op = "read" THEN ReadWords ELSE WriteWords
       \/ ~Ready(TRUE) /\ Return("EIO") /\ UNCHANGED drive
    /\ UNCHANGED <<sectors, unsafe, found, taken>>

\* Mutant of Written: the flush is left out.
WrittenWithoutFlush ==
    /\ driver.at = "written"
    /\ \/ Ready(FALSE) /\ driver' = BlockDone(driver)
       \/ ~Ready(FALSE) /\ Return("EIO")
    /\ UNCHANGED <<drive, sectors, unsafe, found, taken>>

\* After the last sector: ata_wait(false), then CACHE FLUSH.
Written ==
    /\ driver.at = "written"
    /\ \/ /\ Ready(FALSE)
          /\ drive' \in Commanded("flush", 0, 0)
          /\ taken' = IF drive' = drive THEN "not all" ELSE IF taken = "none" THEN "all" ELSE taken
          /\ driver' = [driver EXCEPT !.at = "flush"]
       \/ ~Ready(FALSE) /\ Return("EIO") /\ UNCHANGED <<drive, taken>>
    /\ UNCHANGED <<sectors, unsafe, found>>

\* The cache has been flushed: the block is written.
Flushed ==
    /\ driver.at = "flush"
    /\ \/ Ready(FALSE) /\ driver' = BlockDone(driver)
       \/ ~Ready(FALSE) /\ Return("EIO")
    /\ UNCHANGED <<drive, sectors, unsafe, found, taken>>

-----------------------------------------------------------------------------
AtaInit ==
    /\ driver = NoRequest
    /\ drive = IdleDrive
    /\ \E content \in Contents : sectors = [s \in Sectors |-> content]
    /\ unsafe = {} /\ requests = 0
    /\ found = sectors
    /\ taken = "none"

DriverStep == (Select \/ TransferSector \/ Written \/ Flushed) /\ UNCHANGED requests

DriveStep == (DriveTransfers \/ DriveStores \/ DriveFlushes \/ DriveFails) /\ UNCHANGED requests

AtaNext == Request \/ DriverStep \/ DriveStep

AtaSpec == AtaInit /\ [][AtaNext]_ataVars

-----------------------------------------------------------------------------
\* The sectors of the request, and the sector whose words are at a place of
\* its buffer.
FirstSector == driver.block * SectorsPerBlock

Slots == 1 .. driver.count * SectorsPerBlock

SectorOf(slot) == FirstSector + slot - 1

\* A disk on which n sectors from first on have been replaced by those of a
\* buffer, and what the disk holds once n sectors of the request have reached it.
Replaced(disk, first, buffer, n) ==
    [s \in Sectors |-> IF s \in first .. first + n - 1 THEN buffer[s - first + 1]
                      ELSE disk[s]]

WrittenUpTo(n) == Replaced(found, FirstSector, driver.buffer, n)

\* block_read and block_write do what their results say, whatever the drive did
\* in the meantime.  A read that succeeds delivers what the disk held, block
\* after block; one that fails has delivered nothing else.  A write that
\* succeeds has every sector on the medium, where a power loss cannot undo it,
\* and has changed no other sector; one that fails has stored some first part
\* of the request and nothing after it.  A request whose command the drive
\* ignored, because it still waited to transfer data of an earlier request
\* that timed out, is excepted: the driver cannot tell and promises nothing.
RequestsExact ==
    (driver.at = "free" /\ taken = "all") =>
        \/ /\ driver.op = "read" /\ sectors = found
           /\ \A slot \in Slots :
                 \/ driver.buffer[slot] = found[SectorOf(slot)]
                 \/ driver.result # "ok" /\ driver.buffer[slot] = Unread
        \/ /\ driver.op = "write" /\ driver.result = "ok"
           /\ sectors = WrittenUpTo(driver.count * SectorsPerBlock) /\ unsafe = {}
        \/ /\ driver.op = "write" /\ driver.result # "ok"
           /\ \E n \in 0 .. driver.count * SectorsPerBlock : sectors = WrittenUpTo(n)

\* "Best-effort rollback in reverse order when a single I/O fails"
\* (docs/PROJECT.md:213) needs a drive that takes commands again after the
\* failed one: a request that finds the drive no longer busy is not refused.
ErrorEndsWithItsRequest ==
    [][driver.at = "select" /\ ~drive.busy => driver'.result # "EIO"]_ataVars

-----------------------------------------------------------------------------
\* Why RequestsExact holds: the drive and the driver in step with each other.

\* How many sectors of the request the driver has moved when it waits for the
\* next one, and how many there are up to the end of the current block.
Moved == driver.index * SectorsPerBlock + driver.sector

BlockEnd == driver.index * SectorsPerBlock + SectorsPerBlock

DriveTypes ==
    /\ drive \in [busy : BOOLEAN, drq : BOOLEAN, err : BOOLEAN,
                  command : {"none", "read", "write", "flush"},
                  lba : Nat, left : Nat, data : Contents \cup {Unread}]
    /\ sectors \in [Sectors -> Contents]
    /\ found \in [Sectors -> Contents]
    /\ drive.data # Unread => drive.busy /\ drive.command = "write"
    /\ drive.err => ~drive.busy /\ ~drive.drq
    /\ drive.drq => ~drive.busy /\ drive.command \in {"read", "write"}
    /\ drive.command = "none" <=> ~drive.busy /\ ~drive.drq
    /\ drive.command \in {"read", "write"} => drive.left > 0

DriverTypes ==
    /\ DOMAIN driver = {"at", "op", "block", "count", "index", "sector", "buffer", "result"}
    /\ driver.at \in {"free", "select", "sector", "written", "flush"}
    /\ driver.at # "free" => driver.op # "none" /\ driver.result = "none"
    /\ driver.at \in {"written", "flush"} => driver.op = "write"
    /\ driver.op # "none" =>
          /\ driver.op \in {"read", "write"}
          /\ driver.block \in Nat /\ driver.count \in Nat /\ driver.index \in Nat
          /\ driver.index < driver.count
          /\ driver.sector \in 0 .. SectorsPerBlock - 1
          /\ DOMAIN driver.buffer = Slots
          /\ driver.op = "write" => driver.buffer \in [Slots -> Contents]
    /\ taken \in {"none", "all", "not all"}
    /\ taken = "none" /\ driver.at # "free" => driver.at = "select" /\ driver.index = 0
    /\ taken = "none" /\ driver.op = "read" => \A slot \in Slots : driver.buffer[slot] = Unread
    /\ driver.at = "select" => driver.sector = 0
    /\ taken = "all" => driver.op # "none" /\ (driver.at = "select" => driver.index > 0)

\* A read leaves the disk alone.  While it waits for a sector, the drive has that
\* sector for it, and the buffer is filled up to there.
Reading ==
    /\ driver.op = "read" /\ sectors = found
    /\ drive.command \in {"none", "read"}
    /\ driver.at = "sector" /\ drive.command = "read" => drive.lba = FirstSector + Moved
    /\ \A slot \in Slots :
          \/ driver.buffer[slot] = found[SectorOf(slot)]
          \/ /\ driver.buffer[slot] = Unread
             /\ driver.result # "ok" /\ slot > Moved

\* Of a write, n sectors have reached the disk.  The drive expects the next
\* one, or has it already; when the driver waits for the drive to finish the
\* block it has, and when the drive has flushed its cache nothing is unsafe.
WritingUpTo(n) ==
    /\ sectors = WrittenUpTo(n)
    /\ drive.command = "write" =>
          /\ drive.lba = FirstSector + n
          /\ drive.data # Unread => n < driver.count * SectorsPerBlock /\ drive.data = driver.buffer[n + 1]
          /\ driver.at \in {"sector", "written"} => drive.left = BlockEnd - n
    /\ driver.at = "select" => drive.command = "none" /\ n = Moved
    /\ driver.at = "sector" /\ drive.command = "write" =>
          Moved = IF drive.data = Unread THEN n ELSE n + 1
    /\ driver.at = "written" =>
          IF drive.command = "write" THEN drive.data # Unread /\ BlockEnd = n + 1
          ELSE drive.err \/ BlockEnd = n
    /\ driver.at = "flush" =>
          /\ drive.command # "write" /\ (drive.err \/ BlockEnd = n)
          /\ drive.command = "none" /\ ~drive.err => unsafe = {}
    /\ driver.at = "free" /\ driver.result = "ok" =>
          /\ drive.command = "none" /\ unsafe = {}
          /\ n = driver.count * SectorsPerBlock

Writing ==
    /\ driver.op = "write" /\ drive.command # "read"
    /\ \E n \in 0 .. driver.count * SectorsPerBlock : WritingUpTo(n)

AtaInv == DriveTypes /\ DriverTypes /\ (taken = "all" => Reading \/ Writing)
=============================================================================
