----------------------------- MODULE AtaProofs ------------------------------
(***************************************************************************)
(* Proof that a disk request does exactly what its result says (Ata), for  *)
(* every size of the disk, of the buffer and of the request, and whatever  *)
(* the drive does in between.                                              *)
(***************************************************************************)
EXTENDS Ata, TLAPS

-----------------------------------------------------------------------------
\* Numbers.

\* What a division leaves is smaller than the divisor.
LEMMA Quotient ==
    ASSUME NEW x \in Nat, NEW d \in Nat \ {0}
    PROVE  /\ x \div d \in Nat
           /\ (x \div d) * d <= x /\ x < (x \div d) * d + d
OBVIOUS

\* Multiplication by a natural number keeps the order.
LEMMA ProductMonotone ==
    ASSUME NEW a \in Nat, NEW b \in Nat, NEW d \in Nat, a <= b
    PROVE  a * d <= b * d
OBVIOUS

\* One more sector of the buffer on the disk.
LEMMA OneMoreReplaced ==
    ASSUME FirstSector \in Nat, NEW n \in Nat, NEW s \in Sectors
    PROVE  WrittenUpTo(n + 1)[s] = IF s = FirstSector + n THEN driver.buffer[n + 1]
                                   ELSE WrittenUpTo(n)[s]
<1> DEFINE first == FirstSector
<1>1. Sectors \subseteq Int
    BY DriveAssumption DEF Sectors
<1>2. CASE s = first + n
    <2>1. s - first + 1 = n + 1 /\ s \in first .. first + (n + 1) - 1
        BY <1>1, <1>2
    <2> QED BY <1>2, <2>1, Zenon DEF Replaced, WrittenUpTo
<1>3. CASE s # first + n
    <2>1. (s \in first .. first + (n + 1) - 1) <=> (s \in first .. first + n - 1)
        BY <1>1, <1>3
    <2> QED BY <1>3, <2>1 DEF Replaced, WrittenUpTo
<1> QED BY <1>2, <1>3

\* Before the first sector it is the disk that was found.
LEMMA NoneReplaced ==
    ASSUME NEW disk \in [Sectors -> Contents], NEW first \in Nat, NEW buffer
    PROVE  Replaced(disk, first, buffer, 0) = disk
<1>1. \A s \in Sectors : s \notin first .. first + 0 - 1
    BY DriveAssumption DEF Sectors
<1> QED BY <1>1 DEF Replaced

\* The sectors up to the one in transfer, to the end of its block and to the
\* end of the request.
LEMMA RequestBounds ==
    ASSUME DriverTypes, driver.op # "none"
    PROVE  /\ driver.index \in Nat /\ driver.count \in Nat /\ driver.index < driver.count
           /\ driver.sector \in Nat /\ driver.sector < SectorsPerBlock
           /\ SectorsPerBlock \in Nat \ {0} /\ driver.index * SectorsPerBlock \in Nat
           /\ Moved \in Nat /\ BlockEnd \in Nat /\ FirstSector \in Nat
           /\ driver.count * SectorsPerBlock \in Nat
           /\ Moved < BlockEnd /\ BlockEnd <= driver.count * SectorsPerBlock
           /\ Slot = Moved + 1 /\ Slot \in Slots
           /\ Lba = FirstSector + driver.index * SectorsPerBlock
           /\ (driver.sector = 0 => Lba = FirstSector + Moved /\ BlockEnd = Moved + SectorsPerBlock)
           /\ (driver.sector + 1 >= SectorsPerBlock => BlockEnd = Moved + 1)
           /\ (driver.index + 1 >= driver.count => BlockEnd = driver.count * SectorsPerBlock)
<1>1. PICK b \in Nat, c \in Nat, i \in Nat, t \in Nat, S \in Nat :
        /\ b = driver.block /\ c = driver.count /\ i = driver.index
        /\ t = driver.sector /\ S = SectorsPerBlock /\ i < c /\ t < S /\ S > 0
    <2>1. 0 .. SectorsPerBlock - 1 \subseteq Nat /\ \A x \in 0 .. SectorsPerBlock - 1 : x < SectorsPerBlock
        BY DriveAssumption
    <2>2. /\ driver.block \in Nat /\ driver.count \in Nat /\ driver.index \in Nat
          /\ driver.index < driver.count /\ driver.sector \in 0 .. SectorsPerBlock - 1
        BY Zenon DEF DriverTypes
    <2>3. driver.sector \in Nat /\ driver.sector < SectorsPerBlock
        BY <2>1, <2>2, Zenon
    <2>4. SectorsPerBlock \in Nat /\ SectorsPerBlock > 0
        BY DriveAssumption
    <2> QED BY <2>2, <2>3, <2>4, Zenon
<1>2. /\ i * S \in Nat /\ c * S \in Nat /\ b * S \in Nat
      /\ (b + i) * S = b * S + i * S
      /\ (i + 1) * S = i * S + S
    BY <1>1
<1>3. (i + 1) * S <= c * S
    BY <1>1, ProductMonotone
<1>4. ASSUME i + 1 >= c PROVE c * S = i * S + S
    <2>1. c = i + 1
        BY <1>1, <1>4
    <2> QED BY <1>2, <2>1
<1> QED BY <1>1, <1>2, <1>3, <1>4 DEF Moved, BlockEnd, FirstSector, Slot, Slots, Lba

-----------------------------------------------------------------------------
\* Steps of the drive.

\* What the steps of the drive leave alone.
LEMMA DriverUntouched ==
    ASSUME DriverTypes, UNCHANGED <<driver, taken>>
    PROVE  DriverTypes'
BY DEF DriverTypes, Slots

\* The drive goes on to the next sector: one less is left.
LEMMA NextSectorTypes ==
    ASSUME DriveTypes, drive.command \in {"read", "write"}
    PROVE  /\ NextSector \in [busy : BOOLEAN, drq : BOOLEAN, err : BOOLEAN,
                              command : {"none", "read", "write", "flush"},
                              lba : Nat, left : Nat, data : Contents \cup {Unread}]
           /\ NextSector.data = Unread /\ ~NextSector.drq /\ ~NextSector.err
           /\ IF drive.left = 1 THEN ~NextSector.busy /\ NextSector.command = "none"
              ELSE /\ NextSector.busy /\ NextSector.command = drive.command
                   /\ NextSector.lba = drive.lba + 1
                   /\ NextSector.left = drive.left - 1 /\ NextSector.left > 0
<1>1. drive.left \in Nat /\ drive.left > 0 /\ drive.lba \in Nat
    BY DEF DriveTypes
<1>2. CASE drive.left = 1
    BY <1>2 DEF NextSector, IdleDrive
<1>3. CASE drive.left # 1
    <2>1. drive.left - 1 \in Nat /\ drive.left - 1 > 0 /\ drive.lba + 1 \in Nat
        BY <1>1, <1>3
    <2>2. NextSector = [busy |-> TRUE, drq |-> FALSE, err |-> FALSE, command |-> drive.command,
                        lba |-> drive.lba + 1, left |-> drive.left - 1, data |-> Unread]
        BY <1>3, Zenon DEF NextSector, Busy, IdleDrive
    <2> QED BY <1>3, <2>1, <2>2
<1> QED BY <1>2, <1>3

\* The drive asks for, or offers, the next sector of its command.
LEMMA DriveTransfersInv ==
    ASSUME AtaInv, DriveTransfers
    PROVE  AtaInv'
<1>1. DriveTypes'
    BY Zenon DEF AtaInv, DriveTypes, DriveTransfers, OffersData, WantsData
<1>2. DriverTypes'
    BY DriverUntouched DEF AtaInv, DriveTransfers
<1>3. /\ drive'.command = drive.command /\ drive'.lba = drive.lba /\ drive'.err = drive.err
      /\ drive'.left = drive.left /\ drive'.data = drive.data
    BY DEF AtaInv, DriveTypes, DriveTransfers
<1>4. ASSUME Reading PROVE Reading'
    BY <1>3, <1>4 DEF Reading, DriveTransfers, FirstSector, Moved, Slots, SectorOf
<1>5. ASSUME NEW n, WritingUpTo(n) PROVE WritingUpTo(n)'
    BY <1>3, <1>5 DEF WritingUpTo, WrittenUpTo, DriveTransfers, FirstSector, Moved, BlockEnd
<1>6. ASSUME Writing PROVE Writing'
    <2>1. PICK n \in 0 .. driver.count * SectorsPerBlock : WritingUpTo(n)
        BY <1>6 DEF Writing
    <2>2. WritingUpTo(n)'
        BY <1>5, <2>1
    <2> QED BY <1>3, <1>6, <2>2 DEF Writing, DriveTransfers
<1> QED BY <1>1, <1>2, <1>4, <1>6 DEF AtaInv, DriveTransfers

\* The drive empties its cache.
LEMMA DriveFlushesInv ==
    ASSUME AtaInv, DriveFlushes
    PROVE  AtaInv'
<1>1. DriveTypes'
    BY DEF AtaInv, DriveTypes, DriveFlushes, IdleDrive
<1>2. DriverTypes'
    BY DriverUntouched DEF AtaInv, DriveFlushes
<1>3. drive'.command = "none" /\ unsafe' = {} /\ drive.command = "flush" /\ ~drive.err
    BY DEF AtaInv, DriveTypes, DriveFlushes, IdleDrive
<1>4. ~Reading
    BY <1>3 DEF Reading
<1>5. ASSUME NEW n, WritingUpTo(n) PROVE WritingUpTo(n)'
    BY <1>3, <1>5 DEF WritingUpTo, WrittenUpTo, DriveFlushes, FirstSector, Moved, BlockEnd
<1>6. ASSUME Writing PROVE Writing'
    <2>1. PICK n \in 0 .. driver.count * SectorsPerBlock : WritingUpTo(n)
        BY <1>6 DEF Writing
    <2>2. WritingUpTo(n)'
        BY <1>5, <2>1
    <2> QED BY <1>3, <1>6, <2>2 DEF Writing, DriveFlushes
<1> QED BY <1>1, <1>2, <1>4, <1>6 DEF AtaInv, DriveFlushes

\* A sector of a write that reaches the disk is the next one of the buffer.
LEMMA StoredIsNext ==
    ASSUME AtaInv, taken = "all", drive.data # Unread
    PROVE  /\ drive.command = "write" /\ driver.op = "write" /\ ~Reading
           /\ \A n \in 0 .. driver.count * SectorsPerBlock : WritingUpTo(n) =>
                /\ n + 1 \in 0 .. driver.count * SectorsPerBlock
                /\ Stored(drive) = WrittenUpTo(n + 1)
<1>1. drive.command = "write"
    BY DEF AtaInv, DriveTypes
<1>2. ~Reading
    BY <1>1 DEF Reading
<1>3. driver.op = "write"
    BY <1>2 DEF AtaInv, Writing
<1>4. driver.count * SectorsPerBlock \in Nat /\ FirstSector \in Nat
    BY <1>3, RequestBounds DEF AtaInv
<1>5. ASSUME NEW n \in 0 .. driver.count * SectorsPerBlock, WritingUpTo(n)
      PROVE  /\ n + 1 \in 0 .. driver.count * SectorsPerBlock
             /\ Stored(drive) = WrittenUpTo(n + 1)
    <2>1. /\ n < driver.count * SectorsPerBlock /\ drive.lba = FirstSector + n
          /\ drive.data = driver.buffer[n + 1] /\ sectors = WrittenUpTo(n)
        BY <1>1, <1>5 DEF WritingUpTo
    <2>2. n + 1 \in 0 .. driver.count * SectorsPerBlock /\ n \in Nat
        BY <1>4, <2>1
    <2>3. ASSUME NEW s \in Sectors
          PROVE  WrittenUpTo(n + 1)[s] = IF s = drive.lba THEN drive.data ELSE sectors[s]
        BY <1>4, <2>1, <2>2, OneMoreReplaced, Zenon
    <2>4. /\ WrittenUpTo(n + 1) = [s \in Sectors |-> WrittenUpTo(n + 1)[s]]
          /\ sectors = [s \in Sectors |-> sectors[s]]
        BY <2>1, Zenon DEF WrittenUpTo, Replaced
    <2>5. Stored(drive) = [s \in Sectors |-> IF s = drive.lba THEN drive.data ELSE sectors[s]]
        BY <2>4 DEF Stored
    <2> QED BY <2>2, <2>3, <2>4, <2>5, Zenon
<1> QED BY <1>1, <1>2, <1>3, <1>5

\* What the sectors hold after the drive has taken the data on its port.
LEMMA StoredTypes ==
    ASSUME DriveTypes, drive.data # Unread
    PROVE  Stored(drive) \in [Sectors -> Contents]
BY Zenon DEF DriveTypes, Stored

\* The drive takes the sector it was sent: one more of the request is on the disk.
LEMMA DriveStoresInv ==
    ASSUME AtaInv, DriveStores
    PROVE  AtaInv'
<1>0. /\ drive.command = "write" /\ drive.data # Unread /\ drive.left \in Nat
      /\ drive' = NextSector /\ sectors' = Stored(drive)
      /\ DriveTypes /\ DriverTypes
      /\ UNCHANGED <<driver, found, taken>>
    BY DEF DriveStores, AtaInv, DriveTypes
<1>a. NextSector.data = Unread /\ ~NextSector.drq /\ ~NextSector.err
    BY <1>0, NextSectorTypes
<1>1. DriveTypes'
    <2>1. IF drive.left = 1 THEN ~drive'.busy /\ drive'.command = "none"
          ELSE drive'.busy /\ drive'.command = drive.command /\ drive'.left > 0
        BY <1>0, NextSectorTypes
    <2>2. drive' \in [busy : BOOLEAN, drq : BOOLEAN, err : BOOLEAN,
                      command : {"none", "read", "write", "flush"},
                      lba : Nat, left : Nat, data : Contents \cup {Unread}]
        BY <1>0, NextSectorTypes
    <2>3. sectors' \in [Sectors -> Contents] /\ found' \in [Sectors -> Contents]
        BY <1>0, StoredTypes DEF DriveTypes
    <2> QED BY <1>0, <1>a, <2>1, <2>2, <2>3 DEF DriveTypes
<1>2. DriverTypes'
    BY <1>0, DriverUntouched
<1>3. ASSUME taken = "all" PROVE Writing'
    <2>1. PICK n \in 0 .. driver.count * SectorsPerBlock : WritingUpTo(n)
        BY <1>3, <1>0, StoredIsNext DEF AtaInv, Writing
    <2>2. driver.op = "write" /\ n + 1 \in 0 .. driver.count * SectorsPerBlock
        BY <1>3, <1>0, <2>1, StoredIsNext
    <2>3. sectors' = WrittenUpTo(n + 1)'
        <3>1. sectors' = WrittenUpTo(n + 1)
            BY <1>3, <1>0, <2>1, StoredIsNext
        <3> QED BY <1>0, <3>1 DEF WrittenUpTo, FirstSector
    <2>4. /\ FirstSector \in Nat /\ BlockEnd \in Nat /\ Moved \in Nat
          /\ FirstSector' = FirstSector /\ BlockEnd' = BlockEnd /\ Moved' = Moved
        BY <1>0, <2>2, RequestBounds DEF FirstSector, BlockEnd, Moved
    <2>5. /\ drive.lba = FirstSector + n
          /\ driver.at \in {"sector", "written"} => drive.left = BlockEnd - n
          /\ driver.at # "select" /\ driver.at # "flush"
          /\ ~(driver.at = "free" /\ driver.result = "ok")
          /\ driver.at = "sector" => Moved = n + 1
          /\ driver.at = "written" => BlockEnd = n + 1
        BY <1>0, <2>1 DEF WritingUpTo
    <2>6. CASE drive.left = 1
        <3>1. drive'.command = "none"
            BY <1>0, <2>6, NextSectorTypes
        <3>2. WritingUpTo(n + 1)'
            BY <1>0, <2>3, <2>4, <2>5, <3>1 DEF WritingUpTo
        <3> QED BY <1>0, <2>2, <3>1, <3>2 DEF Writing
    <2>7. CASE drive.left # 1
        <3>1. /\ drive'.command = "write" /\ drive'.lba = drive.lba + 1
              /\ drive'.left = drive.left - 1 /\ drive'.data = Unread
            BY <1>0, <2>7, NextSectorTypes
        <3>2. drive'.lba = FirstSector + (n + 1)
            BY <2>1, <2>4, <2>5, <3>1
        <3>3. driver.at \in {"sector", "written"} => drive'.left = BlockEnd - (n + 1)
            BY <1>0, <2>1, <2>4, <2>5, <3>1
        <3>4. driver.at # "written"
            BY <1>0, <2>1, <2>4, <2>5, <2>7
        <3>5. WritingUpTo(n + 1)'
            BY <1>0, <2>3, <2>4, <2>5, <3>1, <3>2, <3>3, <3>4 DEF WritingUpTo
        <3> QED BY <1>0, <2>2, <3>1, <3>5 DEF Writing
    <2> QED BY <2>6, <2>7
<1> QED BY <1>0, <1>1, <1>2, <1>3 DEF AtaInv

\* An error of the drive changes no sector that is not part of the command.
LEMMA DriveFailsInv ==
    ASSUME AtaInv, DriveFails
    PROVE  AtaInv'
<1>0. /\ drive'.command = "none" /\ drive'.err /\ drive'.data = Unread
      /\ drive' = [IdleDrive EXCEPT !.err = TRUE] /\ drive.busy /\ drive.command # "none"
      /\ UNCHANGED <<driver, found, taken>> /\ DriveTypes /\ DriverTypes
      /\ \/ sectors' = sectors
         \/ drive.data # Unread /\ sectors' = Stored(drive)
    BY DEF DriveFails, AtaInv, DriveTypes, IdleDrive
<1>1. DriveTypes'
    <2>1. sectors' \in [Sectors -> Contents] /\ found' \in [Sectors -> Contents]
        BY <1>0, StoredTypes DEF DriveTypes
    <2>2. drive' = [busy |-> FALSE, drq |-> FALSE, err |-> TRUE, command |-> "none",
                    lba |-> 0, left |-> 0, data |-> Unread]
        BY <1>0, Zenon DEF IdleDrive
    <2> QED BY <2>1, <2>2 DEF DriveTypes
<1>2. DriverTypes'
    BY <1>0, DriverUntouched
<1>3. ASSUME taken = "all", Reading PROVE Reading'
    <2>1. sectors' = sectors
        BY <1>0, <1>3, StoredIsNext
    <2> QED BY <1>0, <1>3, <2>1 DEF Reading, FirstSector, Moved, Slots, SectorOf
<1>4. ASSUME taken = "all", Writing PROVE Writing'
    <2>1. PICK n \in 0 .. driver.count * SectorsPerBlock : WritingUpTo(n)
        BY <1>4 DEF Writing
    <2>2. driver.at # "select" /\ ~(driver.at = "free" /\ driver.result = "ok")
        BY <1>0, <2>1 DEF WritingUpTo
    <2>3. PICK k \in 0 .. driver.count * SectorsPerBlock : sectors' = WrittenUpTo(k)
        <3>1. CASE sectors' = sectors
            BY <2>1, <3>1 DEF WritingUpTo
        <3>2. CASE drive.data # Unread /\ sectors' = Stored(drive)
            BY <1>4, <2>1, <3>2, StoredIsNext
        <3> QED BY <1>0, <3>1, <3>2
    <2>4. sectors' = WrittenUpTo(k)'
        BY <1>0, <2>3 DEF WrittenUpTo, FirstSector
    <2>5. WritingUpTo(k)'
        BY <1>0, <2>2, <2>4 DEF WritingUpTo
    <2> QED BY <1>0, <1>4, <2>5 DEF Writing
<1> QED BY <1>0, <1>1, <1>2, <1>3, <1>4 DEF AtaInv

-----------------------------------------------------------------------------
\* Steps of the driver.

\* A command that the drive has just taken.
LEMMA BusyTypes ==
    ASSUME NEW c \in {"read", "write", "flush"}, NEW first \in Nat, NEW n \in Nat
    PROVE  /\ Busy(c, first, n) \in [busy : BOOLEAN, drq : BOOLEAN, err : BOOLEAN,
                                     command : {"none", "read", "write", "flush"},
                                     lba : Nat, left : Nat, data : Contents \cup {Unread}]
           /\ Busy(c, first, n).busy /\ ~Busy(c, first, n).drq /\ ~Busy(c, first, n).err
           /\ Busy(c, first, n).command = c /\ Busy(c, first, n).lba = first
           /\ Busy(c, first, n).left = n /\ Busy(c, first, n).data = Unread
BY Zenon DEF Busy, IdleDrive

\* block_read and block_write start with nothing transferred, or refuse at once.
LEMMA RequestInv ==
    ASSUME AtaInv, Request
    PROVE  AtaInv'
<1>1. DriveTypes'
    BY ZenonT(30) DEF Request, AtaInv, DriveTypes
<1>2. taken' = "none"
    BY Zenon DEF Request
<1>3. PICK op \in {"read", "write"}, block \in 0 .. DeviceBlockCount, count \in 0 .. RequestBlocks :
        /\ driver.at = "free"
        /\ \/ /\ BlockRequestValid(block, count) /\ requests < RequestLimit
              /\ \E buffer \in IF op = "write" THEN [1 .. count * SectorsPerBlock -> Contents]
                               ELSE {[k \in 1 .. count * SectorsPerBlock |-> Unread]} :
                    driver' = [NoRequest EXCEPT !.at = "select", !.op = op, !.block = block,
                                                !.count = count, !.buffer = buffer]
              /\ requests' = requests + 1
           \/ /\ ~BlockRequestValid(block, count)
              /\ driver' = [NoRequest EXCEPT !.result = "EINVAL"]
              /\ UNCHANGED requests
        /\ found' = sectors /\ taken' = "none"
        /\ UNCHANGED <<drive, sectors, unsafe>>
    BY Zenon DEF Request
<1>4. CASE driver' = [NoRequest EXCEPT !.result = "EINVAL"]
    <2>1. DriverTypes'
        BY <1>2, <1>4 DEF DriverTypes, NoRequest
    <2> QED BY <1>1, <1>2, <2>1 DEF AtaInv
<1>5. CASE driver' # [NoRequest EXCEPT !.result = "EINVAL"]
    <2>1. PICK buffer \in IF op = "write" THEN [1 .. count * SectorsPerBlock -> Contents]
                          ELSE {[k \in 1 .. count * SectorsPerBlock |-> Unread]} :
             driver' = [NoRequest EXCEPT !.at = "select", !.op = op, !.block = block,
                                         !.count = count, !.buffer = buffer]
        BY <1>3, <1>5, Zenon
    <2>2. BlockRequestValid(block, count)
        BY <1>3, <1>5, Zenon
    <2>3. DeviceSectorCount \in Nat
        BY DriveAssumption DEF DeviceSectorCount
    <2>4. DeviceBlockCount \in Nat
        BY <2>3, DriveAssumption, Quotient DEF DeviceBlockCount
    <2>5. block \in Nat /\ count \in Nat /\ 0 < count /\ 0 \in 0 .. SectorsPerBlock - 1
        BY <2>2, <2>4, DriveAssumption DEF BlockRequestValid
    <2>6. driver' = [at |-> "select", op |-> op, block |-> block, count |-> count,
                     index |-> 0, sector |-> 0, buffer |-> buffer, result |-> "none"]
        BY <2>1, Zenon DEF NoRequest
    <2>7. /\ op = "write" => buffer \in [1 .. count * SectorsPerBlock -> Contents]
          /\ DOMAIN buffer = 1 .. count * SectorsPerBlock
          /\ op = "read" => \A slot \in 1 .. count * SectorsPerBlock : buffer[slot] = Unread
        BY <2>1, Zenon
    <2>8. DriverTypes'
        BY <1>2, <2>5, <2>6, <2>7 DEF DriverTypes, Slots
    <2> QED BY <1>1, <1>2, <2>8 DEF AtaInv
<1> QED BY <1>4, <1>5

\* What the steps of a request keep.
SameRequest ==
    /\ DOMAIN driver' = DOMAIN driver
    /\ driver'.op = driver.op /\ driver'.block = driver.block /\ driver'.count = driver.count

\* A request that gives up leaves the drive, the disk and the buffer as they are.
LEMMA GivesUp ==
    ASSUME AtaInv, driver.at # "free", NEW result, result # "ok", Return(result),
           UNCHANGED <<drive, sectors, unsafe, found, taken>>
    PROVE  AtaInv'
<1>1. /\ SameRequest /\ driver'.at = "free" /\ driver'.result = result
      /\ driver'.index = driver.index /\ driver'.sector = driver.sector
      /\ driver'.buffer = driver.buffer
    BY DEF SameRequest, AtaInv, DriverTypes, Return
<1>2. DriveTypes'
    BY DEF AtaInv, DriveTypes
<1>3. DriverTypes'
    BY <1>1 DEF AtaInv, DriverTypes, Slots, SameRequest
<1>4. ASSUME Reading PROVE Reading'
    BY <1>1, <1>4 DEF Reading, FirstSector, Moved, Slots, SectorOf, SameRequest
<1>5. ASSUME NEW n, WritingUpTo(n) PROVE WritingUpTo(n)'
    BY <1>1, <1>5 DEF WritingUpTo, WrittenUpTo, FirstSector, Moved, BlockEnd, SameRequest
<1>6. ASSUME Writing PROVE Writing'
    <2>1. PICK n \in 0 .. driver.count * SectorsPerBlock : WritingUpTo(n)
        BY <1>6 DEF Writing
    <2>2. WritingUpTo(n)'
        BY <1>5, <2>1
    <2> QED BY <1>1, <1>6, <2>2 DEF Writing, SameRequest
<1> QED BY <1>2, <1>3, <1>4, <1>6 DEF AtaInv

\* ata_issue_lba28 for a block: either the drive has taken the command, and has
\* it to do from the first sector on, or it goes on with what it has.
LEMMA SelectInv ==
    ASSUME AtaInv, Select
    PROVE  AtaInv'
<1>0. DriveTypes /\ DriverTypes /\ driver.at = "select" /\ driver.op \in {"read", "write"}
    BY DEF Select, AtaInv, DriverTypes
<1>1. CASE Return(IF AtaRequestValid(Lba, SectorsPerBlock) THEN "EIO" ELSE "EINVAL")
           /\ UNCHANGED <<drive, found, taken>>
    <2>1. UNCHANGED <<drive, sectors, unsafe, found, taken>>
        BY <1>1 DEF Select
    <2>2. PICK result : result # "ok" /\ Return(result)
        BY <1>1
    <2> QED BY <1>0, <2>1, <2>2, GivesUp
<1>2. CASE /\ Ready(FALSE)
           /\ drive' \in Commanded(driver.op, Lba, SectorsPerBlock)
           /\ taken' = IF drive' = drive THEN "not all" ELSE IF taken = "none" THEN "all" ELSE taken
           /\ driver' = [driver EXCEPT !.at = "sector"]
           /\ found' = IF driver.index = 0 THEN sectors ELSE found
    <2>0. UNCHANGED <<sectors, unsafe>>
        BY DEF Select
    <2>1. /\ Moved \in Nat /\ BlockEnd \in Nat /\ FirstSector \in Nat /\ driver.sector = 0
          /\ Lba = FirstSector + Moved /\ SectorsPerBlock \in Nat \ {0}
          /\ Moved < BlockEnd /\ BlockEnd <= driver.count * SectorsPerBlock
          /\ driver.count * SectorsPerBlock \in Nat
        BY <1>0, RequestBounds, DriveAssumption DEF DriverTypes
    <2>2. BlockEnd = Moved + SectorsPerBlock
        BY <1>0, <2>1, RequestBounds
    <2>3. /\ SameRequest /\ driver'.at = "sector" /\ driver'.result = driver.result
          /\ driver'.index = driver.index /\ driver'.sector = driver.sector
          /\ driver'.buffer = driver.buffer
        BY <1>0, <1>2 DEF DriverTypes, SameRequest
    <2>4. /\ FirstSector' = FirstSector /\ Moved' = Moved /\ BlockEnd' = BlockEnd
          /\ Slots' = Slots /\ \A slot : SectorOf(slot)' = SectorOf(slot)
        BY <2>3 DEF FirstSector, Moved, BlockEnd, Slots, SectorOf, SameRequest
    <2>5. drive' = drive \/ drive' = Busy(driver.op, FirstSector + Moved, SectorsPerBlock)
        BY <1>2, <2>1 DEF Commanded
    <2>6. DriveTypes'
        <3>1. found' \in [Sectors -> Contents]
            BY <1>0, <1>2 DEF DriveTypes
        <3>2. CASE drive' = drive
            BY <1>0, <2>0, <3>1, <3>2 DEF DriveTypes
        <3>3. CASE drive' = Busy(driver.op, FirstSector + Moved, SectorsPerBlock)
            <4>1. FirstSector + Moved \in Nat /\ SectorsPerBlock \in Nat /\ SectorsPerBlock > 0
                BY <2>1
            <4>2. /\ drive' \in [busy : BOOLEAN, drq : BOOLEAN, err : BOOLEAN,
                                 command : {"none", "read", "write", "flush"},
                                 lba : Nat, left : Nat, data : Contents \cup {Unread}]
                  /\ drive'.busy /\ ~drive'.drq /\ ~drive'.err /\ drive'.command = driver.op
                  /\ drive'.left = SectorsPerBlock /\ drive'.data = Unread
                BY <1>0, <3>3, <4>1, BusyTypes
            <4> QED BY <1>0, <2>0, <3>1, <4>1, <4>2 DEF DriveTypes
        <3> QED BY <2>5, <3>2, <3>3
    <2>7. DriverTypes'
        <3>1. taken' \in {"all", "not all"}
            BY <1>0, <1>2 DEF DriverTypes
        <3> QED BY <1>0, <2>3, <3>1 DEF DriverTypes, Slots, SameRequest
    <2>8. ASSUME taken' = "all" PROVE Reading' \/ Writing'
        <3>1. drive' = Busy(driver.op, FirstSector + Moved, SectorsPerBlock)
            BY <1>2, <2>5, <2>8
        <3>2. /\ drive'.command = driver.op /\ drive'.lba = FirstSector + Moved
              /\ drive'.left = SectorsPerBlock /\ drive'.data = Unread
            BY <1>0, <2>1, <3>1, BusyTypes
        <3>3. \/ taken = "none" /\ driver.index = 0 /\ found' = sectors
              \/ taken = "all" /\ driver.index > 0 /\ found' = found /\ (Reading \/ Writing)
            <4>1. taken \in {"none", "all"}
                BY <1>2, <2>8, <1>0 DEF DriverTypes
            <4>2. CASE taken = "none"
                BY <1>0, <1>2, <4>2 DEF DriverTypes
            <4>3. CASE taken = "all"
                <5>1. driver.index > 0 /\ driver.index \in Nat
                    BY <1>0, <4>3 DEF DriverTypes
                <5>2. driver.index # 0
                    BY <5>1
                <5> QED BY <1>2, <4>3, <5>1, <5>2 DEF AtaInv
            <4> QED BY <4>1, <4>2, <4>3
        <3>4. CASE driver.op = "read"
            <4>1. sectors' = found'
                BY <2>0, <3>3, <3>4 DEF Reading, Writing
            <4>2. ASSUME NEW slot \in Slots
                  PROVE  \/ driver'.buffer[slot] = found'[SectorOf(slot)]
                         \/ /\ driver'.buffer[slot] = Unread
                            /\ driver'.result # "ok" /\ slot > Moved
                <5>1. CASE taken = "none" /\ driver.index = 0
                    <6>1. driver.buffer[slot] = Unread /\ driver.result = "none"
                        BY <1>0, <3>4, <5>1 DEF DriverTypes
                    <6>2. slot > Moved
                        <7>1. Moved = 0
                            BY <2>1, <5>1 DEF Moved
                        <7> QED BY <2>1, <7>1 DEF Slots
                    <6> QED BY <2>3, <6>1, <6>2
                <5>2. CASE taken = "all" /\ found' = found /\ Reading
                    BY <2>3, <5>2 DEF Reading
                <5> QED BY <3>3, <3>4, <5>1, <5>2 DEF Writing
            <4> QED BY <2>3, <2>4, <3>2, <3>4, <4>1, <4>2 DEF Reading, SameRequest
        <3>5. CASE driver.op = "write"
            <4>1. sectors = Replaced(found', FirstSector, driver.buffer, Moved)
                <5>1. CASE taken = "none" /\ driver.index = 0 /\ found' = sectors
                    <6>1. Moved = 0
                        BY <2>1, <5>1 DEF Moved
                    <6>2. sectors \in [Sectors -> Contents]
                        BY <1>0 DEF DriveTypes
                    <6>3. Replaced(sectors, FirstSector, driver.buffer, 0) = sectors
                        BY <2>1, <6>2, NoneReplaced
                    <6> QED BY <5>1, <6>1, <6>3
                <5>2. CASE taken = "all" /\ found' = found /\ Writing
                    BY <1>0, <5>2 DEF Writing, WritingUpTo, WrittenUpTo
                <5> QED BY <3>3, <3>5, <5>1, <5>2 DEF Reading
            <4>2. sectors' = WrittenUpTo(Moved)'
                BY <2>0, <2>3, <2>4, <4>1 DEF WrittenUpTo
            <4>3. PICK n \in 0 .. driver.count * SectorsPerBlock : n = Moved
                BY <2>1
            <4>4. sectors' = WrittenUpTo(n)'
                BY <2>4, <4>2, <4>3 DEF WrittenUpTo
            <4>5. SectorsPerBlock = BlockEnd - n
                BY <2>1, <2>2, <4>3
            <4>6. WritingUpTo(n)'
                BY <2>3, <2>4, <3>2, <3>5, <4>3, <4>4, <4>5 DEF WritingUpTo, SameRequest
            <4> QED BY <2>3, <3>2, <3>5, <4>6 DEF Writing, SameRequest
        <3> QED BY <1>0, <3>4, <3>5
    <2> QED BY <2>6, <2>7, <2>8 DEF AtaInv
<1> QED BY <1>1, <1>2 DEF Select

\* The request after a block is done: it waits to begin the next block, or it
\* has succeeded.
LEMMA BlockDoneSteps ==
    ASSUME NEW request, NEW next, next = BlockDone(request),
           DOMAIN request = {"at", "op", "block", "count", "index", "sector", "buffer", "result"}
    PROVE  /\ DOMAIN next = DOMAIN request
           /\ next.op = request.op /\ next.block = request.block /\ next.count = request.count
           /\ next.buffer = request.buffer
           /\ IF request.index + 1 < request.count
              THEN /\ next.at = "select" /\ next.index = request.index + 1
                   /\ next.sector = 0 /\ next.result = request.result
              ELSE /\ next.at = "free" /\ next.index = request.index
                   /\ next.sector = request.sector /\ next.result = "ok"
<1>1. CASE request.index + 1 < request.count
    BY <1>1 DEF BlockDone
<1>2. CASE ~(request.index + 1 < request.count)
    BY <1>2 DEF BlockDone
<1> QED BY <1>1, <1>2

\* CACHE FLUSH after the last sector of a block.
LEMMA WrittenInv ==
    ASSUME AtaInv, Written
    PROVE  AtaInv'
<1>0. DriveTypes /\ DriverTypes /\ driver.at = "written" /\ driver.op = "write"
    BY DEF Written, AtaInv, DriverTypes
<1>1. CASE Return("EIO") /\ UNCHANGED <<drive, taken>>
    <2>1. UNCHANGED <<drive, sectors, unsafe, found, taken>>
        BY <1>1 DEF Written
    <2> QED BY <1>0, <1>1, <2>1, GivesUp
<1>2. CASE /\ Ready(FALSE)
           /\ drive' \in Commanded("flush", 0, 0)
           /\ taken' = IF drive' = drive THEN "not all" ELSE IF taken = "none" THEN "all" ELSE taken
           /\ driver' = [driver EXCEPT !.at = "flush"]
    <2>0. UNCHANGED <<sectors, unsafe, found>>
        BY DEF Written
    <2>1. taken \in {"all", "not all"} /\ taken' \in {"all", "not all"}
        BY <1>0, <1>2 DEF DriverTypes
    <2>2. /\ SameRequest /\ driver'.at = "flush" /\ driver'.result = driver.result
          /\ driver'.index = driver.index /\ driver'.sector = driver.sector
          /\ driver'.buffer = driver.buffer
        BY <1>0, <1>2 DEF DriverTypes, SameRequest
    <2>3. drive' = drive \/ drive' = Busy("flush", 0, 0)
        BY <1>2 DEF Commanded
    <2>4. DriveTypes'
        <3>1. CASE drive' = drive
            BY <1>0, <2>0, <3>1 DEF DriveTypes
        <3>2. CASE drive' = Busy("flush", 0, 0)
            <4>1. /\ drive' \in [busy : BOOLEAN, drq : BOOLEAN, err : BOOLEAN,
                                 command : {"none", "read", "write", "flush"},
                                 lba : Nat, left : Nat, data : Contents \cup {Unread}]
                  /\ drive'.busy /\ ~drive'.drq /\ ~drive'.err /\ drive'.command = "flush"
                  /\ drive'.data = Unread
                BY <3>2, BusyTypes
            <4> QED BY <1>0, <2>0, <4>1 DEF DriveTypes
        <3> QED BY <2>3, <3>1, <3>2
    <2>5. DriverTypes'
        BY <1>0, <2>1, <2>2 DEF DriverTypes, Slots, SameRequest
    <2>6. ASSUME taken' = "all" PROVE Writing'
        <3>1. drive' = Busy("flush", 0, 0) /\ taken = "all"
            BY <1>2, <2>1, <2>3, <2>6
        <3>2. drive'.command = "flush"
            BY <3>1, BusyTypes
        <3>3. PICK n \in 0 .. driver.count * SectorsPerBlock : WritingUpTo(n)
            BY <1>0, <3>1 DEF AtaInv, Reading, Writing
        <3>4. drive.command # "write"
            BY <1>0, <1>2, <3>3 DEF WritingUpTo, DriveTypes, Ready
        <3>5. BlockEnd = n /\ sectors = WrittenUpTo(n)
            BY <1>0, <1>2, <3>3, <3>4 DEF WritingUpTo, Ready
        <3>6. WritingUpTo(n)'
            BY <2>0, <2>2, <3>2, <3>5 DEF WritingUpTo, WrittenUpTo, BlockEnd, FirstSector, SameRequest
        <3> QED BY <1>0, <2>2, <3>2, <3>6 DEF Writing, SameRequest
    <2> QED BY <2>4, <2>5, <2>6 DEF AtaInv
<1> QED BY <1>1, <1>2 DEF Written

\* The cache is flushed: the block is on the medium, and with the last block the
\* whole request.
LEMMA FlushedInv ==
    ASSUME AtaInv, Flushed
    PROVE  AtaInv'
<1>0. /\ DriveTypes /\ DriverTypes /\ driver.at = "flush" /\ driver.op = "write"
      /\ UNCHANGED <<drive, sectors, unsafe, found, taken>>
    BY DEF Flushed, AtaInv, DriverTypes
<1>1. CASE Return("EIO")
    BY <1>0, <1>1, GivesUp
<1>2. CASE Ready(FALSE) /\ driver' = BlockDone(driver)
    <2>0. /\ driver.index \in Nat /\ driver.count \in Nat /\ driver.index < driver.count
          /\ driver.sector \in Nat /\ driver.sector < SectorsPerBlock
          /\ SectorsPerBlock \in Nat \ {0} /\ driver.index * SectorsPerBlock \in Nat
        BY <1>0, RequestBounds DEF DriverTypes
    <2>1. /\ SameRequest /\ driver'.buffer = driver.buffer
          /\ IF driver.index + 1 < driver.count
             THEN /\ driver'.at = "select" /\ driver'.index = driver.index + 1
                  /\ driver'.sector = 0 /\ driver'.result = "none"
             ELSE /\ driver'.at = "free" /\ driver'.index = driver.index
                  /\ driver'.sector = driver.sector /\ driver'.result = "ok"
        <3>1. DOMAIN driver = {"at", "op", "block", "count", "index", "sector", "buffer", "result"}
              /\ driver.result = "none"
            BY <1>0 DEF DriverTypes
        <3> QED BY <1>2, <3>1, BlockDoneSteps DEF SameRequest
    <2>2. DriveTypes'
        BY <1>0 DEF DriveTypes
    <2>3. taken \in {"all", "not all"}
        BY <1>0 DEF DriverTypes
    <2>4. DriverTypes'
        <3>2. driver'.index \in Nat /\ driver'.index < driver.count /\ driver'.sector \in 0 .. SectorsPerBlock - 1
              /\ (driver'.at = "select" => driver'.index > 0)
            BY <2>0, <2>1
        <3> QED BY <1>0, <2>1, <2>3, <3>2 DEF DriverTypes, SameRequest, Slots
    <2>5. ASSUME taken = "all" PROVE Writing'
        <3>1. PICK n \in 0 .. driver.count * SectorsPerBlock : WritingUpTo(n)
            BY <1>0, <2>5 DEF AtaInv, Reading, Writing
        <3>2. drive.command = "none"
            <4>1. drive.command # "write" /\ drive.command # "read"
                BY <1>0, <2>5, <3>1 DEF WritingUpTo, AtaInv, Reading, Writing
            <4> QED BY <1>0, <1>2, <4>1 DEF DriveTypes, Ready
        <3>3. unsafe = {} /\ BlockEnd = n /\ sectors = WrittenUpTo(n)
            BY <1>0, <1>2, <3>1, <3>2 DEF WritingUpTo, Ready
        <3>4. sectors' = WrittenUpTo(n)'
            BY <1>0, <2>1, <3>3 DEF SameRequest, WrittenUpTo, FirstSector
        <3>5. CASE driver.index + 1 < driver.count
            <4>1. Moved' = n
                <5>1. driver.index \in Nat /\ SectorsPerBlock \in Nat
                    BY <1>0, DriveAssumption DEF DriverTypes
                <5>2. PICK i \in Nat, S \in Nat : i = driver.index /\ S = SectorsPerBlock
                    BY <5>1
                <5>3. (i + 1) * S + 0 = i * S + S
                    BY <5>2
                <5>4. driver'.index = i + 1 /\ driver'.sector = 0
                    BY <2>1, <3>5, <5>2
                <5> QED BY <3>3, <5>2, <5>3, <5>4 DEF Moved, BlockEnd
            <4>2. driver'.at = "select"
                BY <2>1, <3>5
            <4>3. WritingUpTo(n)'
                BY <1>0, <3>2, <3>4, <4>1, <4>2 DEF WritingUpTo
            <4> QED BY <1>0, <2>1, <3>2, <4>3 DEF Writing, SameRequest
        <3>6. CASE ~(driver.index + 1 < driver.count)
            <4>1. n = driver.count * SectorsPerBlock
                <5>1. driver.index + 1 >= driver.count
                    BY <2>0, <3>6
                <5> QED BY <1>0, <3>3, <5>1, RequestBounds
            <4>2. driver'.at = "free" /\ driver'.count = driver.count
                BY <2>1, <3>6 DEF SameRequest
            <4>3. WritingUpTo(n)'
                BY <1>0, <3>2, <3>3, <3>4, <4>1, <4>2 DEF WritingUpTo
            <4> QED BY <1>0, <2>1, <3>2, <4>3 DEF Writing, SameRequest
        <3> QED BY <3>5, <3>6
    <2> QED BY <1>0, <2>2, <2>4, <2>5 DEF AtaInv
<1> QED BY <1>1, <1>2, Zenon DEF Flushed

\* A sector is handed to the drive.
LEMMA WriteWordsInv ==
    ASSUME AtaInv, driver.at = "sector", driver.op = "write", Ready(TRUE), WriteWords,
           UNCHANGED <<sectors, unsafe, found, taken>>
    PROVE  AtaInv'
<1>0. DriveTypes /\ DriverTypes /\ taken \in {"all", "not all"}
    BY DEF AtaInv, DriverTypes
<1>a. /\ driver.index \in Nat /\ driver.sector \in Nat /\ driver.sector < SectorsPerBlock
      /\ SectorsPerBlock \in Nat \ {0} /\ driver.index * SectorsPerBlock \in Nat
    BY <1>0, RequestBounds DEF DriverTypes
<1>1. /\ Moved \in Nat /\ BlockEnd \in Nat /\ FirstSector \in Nat
      /\ Moved < BlockEnd /\ BlockEnd <= driver.count * SectorsPerBlock
      /\ driver.count * SectorsPerBlock \in Nat
      /\ Slot = Moved + 1 /\ Slot \in Slots
      /\ driver.sector + 1 >= SectorsPerBlock => BlockEnd = Moved + 1
    BY <1>0, RequestBounds DEF DriverTypes
<1>2. driver.buffer[Slot] \in Contents /\ driver.buffer[Slot] # Unread
    <2>1. driver.buffer \in [Slots -> Contents]
        BY <1>0, Zenon DEF DriverTypes
    <2>2. driver.buffer[Slot] \in Contents
        BY <1>1, <2>1
    <2> QED BY <2>2, DriveAssumption, Zenon
<1>3. /\ SameRequest /\ driver'.buffer = driver.buffer /\ driver'.index = driver.index
      /\ driver'.result = driver.result
      /\ IF driver.sector + 1 < SectorsPerBlock
         THEN driver'.at = "sector" /\ driver'.sector = driver.sector + 1
         ELSE driver'.at = "written" /\ driver'.sector = driver.sector
    BY <1>0 DEF WriteWords, DriverTypes, SameRequest
<1>4. IF drive.command = "write"
      THEN /\ drive'.busy /\ ~drive'.drq /\ ~drive'.err /\ drive'.command = "write"
           /\ drive'.lba = drive.lba /\ drive'.left = drive.left
           /\ drive'.data = driver.buffer[Slot]
      ELSE drive' = drive
    BY <1>0 DEF WriteWords, DriveTypes, Ready
<1>5. DriveTypes'
    <2>1. drive' \in [busy : BOOLEAN, drq : BOOLEAN, err : BOOLEAN,
                      command : {"none", "read", "write", "flush"},
                      lba : Nat, left : Nat, data : Contents \cup {Unread}]
        BY <1>0, <1>2 DEF WriteWords, DriveTypes
    <2> QED BY <1>0, <1>2, <1>4, <2>1 DEF DriveTypes
<1>6. DriverTypes'
    <2>1. driver'.sector \in 0 .. SectorsPerBlock - 1
        BY <1>a, <1>3
    <2> QED BY <1>0, <1>3, <2>1 DEF DriverTypes, SameRequest, Slots
<1>7. ASSUME taken = "all" PROVE Writing'
    <2>1. PICK n \in 0 .. driver.count * SectorsPerBlock : WritingUpTo(n)
        BY <1>7 DEF AtaInv, Reading, Writing
    <2>2. drive.command = "write" /\ drive.data = Unread
        <3>1. drive.command # "read"
            BY <1>7 DEF AtaInv, Reading, Writing
        <3> QED BY <1>0, <3>1 DEF DriveTypes, Ready
    <2>3. /\ n = Moved /\ drive.lba = FirstSector + n /\ drive.left = BlockEnd - n
          /\ sectors = WrittenUpTo(n)
        BY <2>1, <2>2 DEF WritingUpTo
    <2>4. n < driver.count * SectorsPerBlock /\ drive'.data = driver.buffer[n + 1]
        BY <1>1, <1>4, <2>2, <2>3
    <2>5. sectors' = WrittenUpTo(n)' /\ FirstSector' = FirstSector /\ BlockEnd' = BlockEnd
        BY <1>3, <2>3 DEF WrittenUpTo, FirstSector, BlockEnd, SameRequest
    <2>6. driver'.at = "sector" => Moved' = n + 1
        <3>1. ASSUME driver'.at = "sector" PROVE Moved' = n + 1
            <4>1. driver'.sector = driver.sector + 1 /\ driver'.index = driver.index
                BY <1>3, <3>1
            <4>2. PICK p \in Nat, t \in Nat : p = driver.index * SectorsPerBlock /\ t = driver.sector
                BY <1>a
            <4>3. p + t = n /\ Moved' = p + (t + 1)
                BY <2>3, <4>1, <4>2 DEF Moved
            <4> QED BY <4>2, <4>3
        <3> QED BY <3>1
    <2>7. driver'.at = "written" => BlockEnd = n + 1
        <3>1. ASSUME driver'.at = "written" PROVE driver.sector + 1 >= SectorsPerBlock
            BY <1>a, <1>3, <3>1
        <3> QED BY <1>1, <2>3, <3>1
    <2>8. driver'.at \in {"sector", "written"} /\ driver'.count = driver.count
        BY <1>3 DEF SameRequest
    <2>9. WritingUpTo(n)'
        BY <1>2, <1>3, <1>4, <2>2, <2>3, <2>4, <2>5, <2>6, <2>7, <2>8 DEF WritingUpTo
    <2> QED BY <1>3, <1>4, <2>2, <2>8, <2>9 DEF Writing, SameRequest
<1> QED BY <1>5, <1>6, <1>7 DEF AtaInv

\* A sector is taken from the drive.
LEMMA ReadWordsInv ==
    ASSUME AtaInv, driver.at = "sector", driver.op = "read", Ready(TRUE), ReadWords,
           UNCHANGED <<sectors, unsafe, found, taken>>
    PROVE  AtaInv'
<1>0. DriveTypes /\ DriverTypes /\ taken \in {"all", "not all"} /\ driver.result = "none"
    BY DEF AtaInv, DriverTypes
<1>a. /\ driver.index \in Nat /\ driver.count \in Nat /\ driver.index < driver.count
      /\ driver.sector \in Nat /\ driver.sector < SectorsPerBlock
      /\ SectorsPerBlock \in Nat \ {0} /\ driver.index * SectorsPerBlock \in Nat
    BY <1>0, RequestBounds DEF DriverTypes
<1>1. /\ Moved \in Nat /\ BlockEnd \in Nat /\ FirstSector \in Nat
      /\ Moved < BlockEnd /\ BlockEnd <= driver.count * SectorsPerBlock
      /\ driver.count * SectorsPerBlock \in Nat
      /\ Slot = Moved + 1 /\ Slot \in Slots
      /\ driver.sector + 1 >= SectorsPerBlock => BlockEnd = Moved + 1
      /\ driver.index + 1 >= driver.count => BlockEnd = driver.count * SectorsPerBlock
    BY <1>0, RequestBounds DEF DriverTypes
<1>2. PICK value : /\ drive.command = "read" => value = sectors[drive.lba]
                   /\ drive' = IF drive.command = "read" THEN NextSector ELSE drive
                   /\ driver' = IF driver.sector + 1 < SectorsPerBlock
                                THEN [[driver EXCEPT !.buffer[Slot] = value] EXCEPT !.sector = @ + 1]
                                ELSE BlockDone([driver EXCEPT !.buffer[Slot] = value])
    <2>1. PICK value \in IF drive.command = "read" THEN {sectors[drive.lba]} ELSE Contents :
              /\ drive' = IF drive.command = "read" THEN NextSector ELSE drive
              /\ driver' = IF driver.sector + 1 < SectorsPerBlock
                           THEN [[driver EXCEPT !.buffer[Slot] = value] EXCEPT !.sector = @ + 1]
                           ELSE BlockDone([driver EXCEPT !.buffer[Slot] = value])
        BY Zenon DEF ReadWords
    <2>2. drive.command = "read" => value = sectors[drive.lba]
        BY <2>1
    <2> QED BY <2>1, <2>2, Zenon
<1>3. PICK filled : filled = [driver EXCEPT !.buffer[Slot] = value]
    BY Zenon
<1>4. /\ DOMAIN filled = {"at", "op", "block", "count", "index", "sector", "buffer", "result"}
      /\ filled.op = driver.op /\ filled.block = driver.block /\ filled.count = driver.count
      /\ filled.index = driver.index /\ filled.sector = driver.sector
      /\ filled.result = "none" /\ filled.at = "sector"
      /\ filled.buffer = [driver.buffer EXCEPT ![Slot] = value]
    <2>1. DOMAIN driver = {"at", "op", "block", "count", "index", "sector", "buffer", "result"}
        BY <1>0 DEF DriverTypes
    <2> QED BY <1>0, <1>3, <2>1
<1>5. /\ SameRequest /\ driver'.buffer = [driver.buffer EXCEPT ![Slot] = value]
      /\ IF driver.sector + 1 < SectorsPerBlock
         THEN /\ driver'.at = "sector" /\ driver'.index = driver.index
              /\ driver'.sector = driver.sector + 1 /\ driver'.result = "none"
         ELSE IF driver.index + 1 < driver.count
         THEN /\ driver'.at = "select" /\ driver'.index = driver.index + 1
              /\ driver'.sector = 0 /\ driver'.result = "none"
         ELSE /\ driver'.at = "free" /\ driver'.index = driver.index
              /\ driver'.sector = driver.sector /\ driver'.result = "ok"
    <2>1. DOMAIN driver = {"at", "op", "block", "count", "index", "sector", "buffer", "result"}
        BY <1>0 DEF DriverTypes
    <2>2. CASE driver.sector + 1 < SectorsPerBlock
        <3>1. driver' = [filled EXCEPT !.sector = @ + 1]
            BY <1>2, <1>3, <2>2
        <3> QED BY <1>4, <2>1, <2>2, <3>1 DEF SameRequest
    <2>3. CASE ~(driver.sector + 1 < SectorsPerBlock)
        <3>1. driver' = BlockDone(filled)
            BY <1>2, <1>3, <2>3
        <3> QED BY <1>4, <2>1, <2>3, <3>1, BlockDoneSteps DEF SameRequest
    <2> QED BY <2>2, <2>3
<1>6. DOMAIN driver.buffer = Slots /\ Slots' = Slots
    BY <1>0, <1>5 DEF DriverTypes, Slots, SameRequest
<1>7. DriveTypes'
    <2>1. CASE drive.command = "read"
        <3>1. drive' = NextSector
            BY <1>2, <2>1
        <3>2. /\ drive' \in [busy : BOOLEAN, drq : BOOLEAN, err : BOOLEAN,
                             command : {"none", "read", "write", "flush"},
                             lba : Nat, left : Nat, data : Contents \cup {Unread}]
              /\ drive'.data = Unread /\ ~drive'.drq /\ ~drive'.err
              /\ IF drive.left = 1 THEN ~drive'.busy /\ drive'.command = "none"
                 ELSE drive'.busy /\ drive'.command = drive.command /\ drive'.left > 0
            BY <1>0, <2>1, <3>1, NextSectorTypes
        <3> QED BY <1>0, <2>1, <3>2 DEF DriveTypes
    <2>2. CASE drive.command # "read"
        BY <1>0, <1>2, <2>2 DEF DriveTypes
    <2> QED BY <2>1, <2>2
<1>8. DriverTypes'
    <2>1. /\ driver'.index \in Nat /\ driver'.index < driver.count
          /\ driver'.sector \in 0 .. SectorsPerBlock - 1
          /\ driver'.at = "select" => driver'.index > 0
        BY <1>a, <1>5
    <2>2. DOMAIN driver'.buffer = Slots'
        BY <1>5, <1>6
    <2> QED BY <1>0, <1>5, <2>1, <2>2 DEF DriverTypes, SameRequest
<1>9. ASSUME taken = "all" PROVE Reading'
    <2>1. Reading
        BY <1>9 DEF AtaInv, Writing
    <2>2. drive.command = "read"
        BY <1>0, <2>1 DEF Reading, DriveTypes, Ready
    <2>3. value = found[SectorOf(Slot)]
        <3>1. drive.lba = FirstSector + Moved /\ value = found[drive.lba]
            BY <1>2, <2>1, <2>2 DEF Reading
        <3>2. SectorOf(Slot) = FirstSector + Moved
            BY <1>1 DEF SectorOf
        <3> QED BY <3>1, <3>2
    <2>4. ASSUME NEW slot \in Slots
          PROVE  \/ driver'.buffer[slot] = found[SectorOf(slot)]
                 \/ driver'.buffer[slot] = Unread /\ slot > Moved + 1
        <3>1. CASE slot = Slot
            BY <1>5, <1>6, <2>3, <3>1
        <3>2. CASE slot # Slot
            <4>1. driver'.buffer[slot] = driver.buffer[slot]
                BY <1>5, <1>6, <3>2
            <4>2. slot \in Int
                BY DEF Slots
            <4> QED BY <1>1, <2>1, <3>2, <4>1, <4>2 DEF Reading
        <3> QED BY <3>1, <3>2
    <2>5. IF driver'.at = "free" THEN driver.count * SectorsPerBlock = Moved + 1
          ELSE Moved' = Moved + 1 /\ driver'.result = "none"
        <3>1. PICK p \in Nat, t \in Nat, i \in Nat, S \in Nat :
                 /\ p = driver.index * SectorsPerBlock /\ t = driver.sector
                 /\ i = driver.index /\ S = SectorsPerBlock
            BY <1>a
        <3>2. Moved = p + t
            BY <3>1 DEF Moved
        <3>3. CASE driver.sector + 1 < SectorsPerBlock
            BY <1>5, <3>1, <3>2, <3>3 DEF Moved
        <3>4. CASE ~(driver.sector + 1 < SectorsPerBlock) /\ driver.index + 1 < driver.count
            <4>1. BlockEnd = Moved + 1 /\ BlockEnd = p + S
                BY <1>1, <1>a, <3>1, <3>4 DEF BlockEnd
            <4>2. Moved' = (i + 1) * S + 0 /\ driver'.at = "select" /\ driver'.result = "none"
                BY <1>5, <3>1, <3>4 DEF Moved
            <4>3. (i + 1) * S + 0 = i * S + S
                BY <3>1
            <4> QED BY <3>1, <4>1, <4>2, <4>3
        <3>5. CASE ~(driver.sector + 1 < SectorsPerBlock) /\ ~(driver.index + 1 < driver.count)
            <4>1. driver.sector + 1 >= SectorsPerBlock /\ driver.index + 1 >= driver.count
                BY <1>a, <3>5
            <4> QED BY <1>1, <1>5, <3>5, <4>1
        <3> QED BY <3>3, <3>4, <3>5
    <2>6. ASSUME NEW slot \in Slots
          PROVE  \/ driver'.buffer[slot] = found[SectorOf(slot)]
                 \/ /\ driver'.buffer[slot] = Unread
                    /\ driver'.result # "ok" /\ slot > Moved'
        <3>1. CASE driver'.at = "free"
            <4>1. slot <= Moved + 1 /\ slot \in Int
                BY <1>1, <2>5, <3>1 DEF Slots
            <4>2. ~(slot > Moved + 1)
                BY <1>1, <4>1
            <4> QED BY <2>4, <4>2
        <3>2. CASE driver'.at # "free"
            BY <2>4, <2>5, <3>2
        <3> QED BY <3>1, <3>2
    <2>7. /\ drive'.command \in {"none", "read"}
          /\ drive'.command = "read" => drive'.lba = FirstSector + (Moved + 1)
        <3>1. /\ drive'.command \in {"none", "read"}
              /\ drive'.command = "read" => drive'.lba = drive.lba + 1
            BY <1>0, <1>2, <2>2, NextSectorTypes
        <3>2. drive.lba = FirstSector + Moved
            BY <2>1, <2>2 DEF Reading
        <3> QED BY <1>1, <3>1, <3>2
    <2>8. FirstSector' = FirstSector /\ \A slot : SectorOf(slot)' = SectorOf(slot)
        BY <1>5 DEF FirstSector, SectorOf, SameRequest
    <2>9. driver'.at = "sector" => Moved' = Moved + 1
        BY <2>5
    <2> QED BY <1>5, <1>6, <2>1, <2>6, <2>7, <2>8, <2>9 DEF Reading, SameRequest
<1> QED BY <1>7, <1>8, <1>9 DEF AtaInv

\* One turn of the loop over the sectors of a command, in either direction.
LEMMA TransferSectorInv ==
    ASSUME AtaInv, TransferSector
    PROVE  AtaInv'
<1>0. driver.at = "sector" /\ UNCHANGED <<sectors, unsafe, found, taken>>
    BY DEF TransferSector
<1>1. CASE Return("EIO") /\ UNCHANGED drive
    BY <1>0, <1>1, GivesUp
<1>2. CASE Ready(TRUE) /\ driver.op = "read" /\ ReadWords
    BY <1>0, <1>2, ReadWordsInv
<1>3. CASE Ready(TRUE) /\ driver.op # "read" /\ WriteWords
    <2>1. driver.op = "write"
        BY <1>0, <1>3 DEF AtaInv, DriverTypes
    <2> QED BY <1>0, <1>3, <2>1, WriteWordsInv
<1> QED BY <1>1, <1>2, <1>3, Zenon DEF TransferSector

-----------------------------------------------------------------------------
\* No request is in progress when the driver has been set up.
LEMMA AtaInitInv ==
    ASSUME AtaInit
    PROVE  AtaInv
<1>1. DriveTypes
    BY DEF AtaInit, DriveTypes, IdleDrive
<1>2. DriverTypes
    BY DEF AtaInit, DriverTypes, NoRequest
<1> QED BY <1>1, <1>2 DEF AtaInv, AtaInit

\* Every step of the driver and of the drive keeps the invariant.
LEMMA AtaStepInv ==
    ASSUME AtaInv, [AtaNext]_ataVars
    PROVE  AtaInv'
<1>1. CASE Request
    BY <1>1, RequestInv
<1>2. CASE Select
    BY <1>2, SelectInv
<1>3. CASE TransferSector
    BY <1>3, TransferSectorInv
<1>4. CASE Written
    BY <1>4, WrittenInv
<1>5. CASE Flushed
    BY <1>5, FlushedInv
<1>6. CASE DriveTransfers
    BY <1>6, DriveTransfersInv
<1>7. CASE DriveStores
    BY <1>7, DriveStoresInv
<1>8. CASE DriveFlushes
    BY <1>8, DriveFlushesInv
<1>9. CASE DriveFails
    BY <1>9, DriveFailsInv
<1>10. CASE UNCHANGED ataVars
    <2>1. /\ driver' = driver /\ drive' = drive /\ sectors' = sectors /\ unsafe' = unsafe
          /\ found' = found /\ taken' = taken
        BY <1>10 DEF ataVars
    <2>2. (DriveTypes <=> DriveTypes') /\ (DriverTypes <=> DriverTypes')
        BY <2>1, Zenon DEF DriveTypes, DriverTypes, Slots
    <2>3. Reading <=> Reading'
        BY <2>1, Zenon DEF Reading, Moved, FirstSector, Slots, SectorOf
    <2>4. ASSUME NEW n PROVE WritingUpTo(n) <=> WritingUpTo(n)'
        <3>1. WrittenUpTo(n)' = WrittenUpTo(n)
            BY <2>1, Zenon DEF WrittenUpTo, FirstSector
        <3>2. Moved' = Moved /\ BlockEnd' = BlockEnd /\ FirstSector' = FirstSector
            BY <2>1, Zenon DEF Moved, BlockEnd, FirstSector
        <3> QED BY <2>1, <3>1, <3>2, Zenon DEF WritingUpTo
    <2>5. Writing <=> Writing'
        BY <2>1, <2>4, Zenon DEF Writing
    <2> QED BY <2>1, <2>2, <2>3, <2>5, Zenon DEF AtaInv
<1> QED BY <1>1, <1>2, <1>3, <1>4, <1>5, <1>6, <1>7, <1>8, <1>9, <1>10
        DEF AtaNext, DriverStep, DriveStep

\* A request that is over has done what its result says: the counts of the
\* invariant have reached the length of the request.
LEMMA InvIsExact ==
    ASSUME AtaInv
    PROVE  RequestsExact
<1> SUFFICES ASSUME driver.at = "free", taken = "all" PROVE RequestsExact
    BY DEF RequestsExact
<1>1. CASE Reading
    BY <1>1 DEF Reading, RequestsExact
<1>2. CASE Writing
    <2>1. PICK n \in 0 .. driver.count * SectorsPerBlock : WritingUpTo(n)
        BY <1>2 DEF Writing
    <2>2. driver.op = "write"
        BY <1>2 DEF Writing
    <2> QED BY <2>1, <2>2 DEF WritingUpTo, RequestsExact
<1> QED BY <1>1, <1>2 DEF AtaInv

\* block_read and block_write do what their results say (ata_read_sectors,
\* ata_write_sectors, ata_wait, ata_issue_lba28), for every disk, every number
\* of sectors per block and requests of any length, whenever the drive is slow,
\* fails, or loses the sector that was handed over.
THEOREM RequestsAreExact == AtaSpec => []RequestsExact
<1>1. AtaInit => AtaInv
    BY AtaInitInv
<1>2. AtaInv /\ [AtaNext]_ataVars => AtaInv'
    BY AtaStepInv
<1>3. AtaInv => RequestsExact
    BY InvIsExact
<1> QED BY <1>1, <1>2, <1>3, PTL DEF AtaSpec
=============================================================================
