------------------------------- MODULE UmdImage -------------------------------
(* The UMD as a disk (systemctrl/usbdevice.c): in place of the memory stick     *)
(* the host sees a FAT16 file system with a single file, the disc as an ISO     *)
(* image.  Boot sector, FAT and root directory are made up when they are read;   *)
(* the file's sectors come from the UMD driver, whose sectors hold four of the   *)
(* host's, through one buffered sector.                                          *)
(*                                                                              *)
(* The USB storage driver calls one function at a time, so each call is a step;   *)
(* it opens the drive after each pspUsbDeviceSetDevice before it seeks or reads.  *)
(* Sizes are parameters; the code's are given behind them.  Numbers of sectors   *)
(* stay below 2^22 and numbers of clusters below 2^16 for every disc that fits    *)
(* the image, so that nothing wraps.  Assumed of the UMD driver: a seek within    *)
(* the disc succeeds, a seek behind it may fail and then moves nothing, and a      *)
(* read that fails leaves its buffer as it was.                                   *)
EXTENDS Integers

CONSTANTS
  Reserved,        \* sectors before the first FAT (8)
  FatSectors,      \* sectors of each of the two FATs (0xF4)
  RootSectors,     \* sectors of the root directory (32)
  ClusterSectors,  \* sectors of a cluster (64)
  PerFatSector,    \* entries in a sector of the FAT (256)
  ImageEnd,        \* dat_13B4, the sectors the boot sector declares (3995648)
  DiscSizes,       \* the sizes of disc to look at, in sectors of the disc
  Offsets,         \* bound: the offsets given to umdIoLseek
  MaxRead,         \* bound: the sectors of one umdIoRead
  LastPointer      \* bound: the largest filePointer

ASSUME UmdConstants ==
  /\ Reserved \in Nat \ {0} /\ FatSectors \in Nat \ {0} /\ RootSectors \in Nat \ {0}
  /\ ClusterSectors \in Nat \ {0} /\ PerFatSector \in Nat /\ PerFatSector >= 2
  /\ ImageEnd \in Nat /\ MaxRead \in Nat /\ LastPointer \in Nat
  /\ DiscSizes \subseteq Nat
  /\ \A d \in DiscSizes : 4 * d < ImageEnd
  /\ Offsets \subseteq Int

RootAt == Reserved + 2 * FatSectors
DataAt == RootAt + RootSectors          \* 0x210

VARIABLES
  discSectors,   \* what the UMD driver answered in pspUsbDeviceSetDevice
  opened,        \* the storage driver has opened the drive since
  filePointer,
  cur_sector,    \* the disc's sector the buffer is believed to hold, or -1
  pool,          \* the disc's sector UmdSectorPoolAddr holds, or -1
  position,      \* where the UMD driver reads next
  out            \* the last call, if a read: where, what it returned and delivered

vars == <<discSectors, opened, filePointer, cur_sector, pool, position, out>>

NoRead == [at |-> -1, ok |-> FALSE, fault |-> FALSE, cells |-> <<>>]

fileSize == 4 * discSectors

\* Mutant: a last cluster that is not full is not counted.
MaxSizeRoundedDown == fileSize \div ClusterSectors

\* The clusters of the file.
max_size == fileSize \div ClusterSectors
            + (IF fileSize % ClusterSectors # 0 THEN 1 ELSE 0)

Init ==
  /\ discSectors \in DiscSizes
  /\ opened = FALSE
  /\ filePointer = 0
  /\ cur_sector = 0
  /\ pool = -1
  /\ position = 0
  /\ out = NoRead

-------------------------------------------------------------------------------
(* The made-up part *)

Media == -8             \* 0xFFF8
EndOfFile == -1         \* 0xFFFF

\* GetUMDFreeSize: sector k of the FAT, one chain from cluster 2 on.
GetUMDFreeSize(k) ==
  LET t0   == IF k = 0 THEN 2 ELSE 0
      size == IF k = 0 THEN 0 ELSE k * PerFatSector - 2
      last == t0 + (max_size - size) - 1
  IN [j \in 0..(PerFatSector - 1) |->
        CASE j < t0                       -> IF j = 0 THEN Media ELSE EndOfFile
          [] j >= t0 /\ size >= max_size  -> 0
          [] j >= t0 /\ size < max_size   ->
               IF j < last THEN size + 3 + (j - t0)
               ELSE IF j = last THEN EndOfFile ELSE 0]

\* What umdIoRead makes up for sector f.  The second FAT is asked for with the
\* distance from the first, so it continues the first instead of repeating it.
MadeUp(f) ==
  CASE f = 0 -> <<"boot">>
    [] f - Reserved \in 0..(2 * FatSectors - 1) -> <<"fat", GetUMDFreeSize(f - Reserved)>>
    [] f = RootAt -> <<"root">>
    [] OTHER -> <<"zero">>

-------------------------------------------------------------------------------
(* The UMD driver *)

\* Where it stands after a seek from "from" to "to".
Seeks(from, to) == IF to < discSectors THEN {to} ELSE {from, to}

\* The buffer, what is believed of it and the position after umdReadSector, which
\* believes curIfFailed if the driver cannot read.
ReadingSector(from, sector, curIfFailed) ==
  IF sector = cur_sector
  THEN {[cur |-> cur_sector, pool |-> pool, position |-> from, fault |-> FALSE]}
  ELSE LET there == IF cur_sector # sector - 1 THEN Seeks(from, sector) ELSE {from}
       IN UNION {{[cur |-> sector,
                   pool |-> IF p < discSectors THEN p ELSE pool,
                   position |-> IF p < discSectors THEN p + 1 ELSE p,
                   fault |-> FALSE],
                  [cur |-> curIfFailed, pool |-> pool, position |-> p, fault |-> TRUE]} :
                   p \in there}

\* Mutant: the sector counts as read although reading it failed.
UmdReadSectorBelievesFailures(from, sector) == ReadingSector(from, sector, sector)

\* umdReadSector
UmdReadSector(from, sector) == ReadingSector(from, sector, cur_sector)

-------------------------------------------------------------------------------
(* The functions of the driver's table *)

\* pspUsbDeviceSetDevice for another session: a new buffer and perhaps another
\* disc; what is believed of the buffer stays.
SetDevice ==
  /\ discSectors' \in DiscSizes
  /\ opened' = FALSE
  /\ pool' = -1
  /\ position' = 0
  /\ out' = NoRead
  /\ UNCHANGED <<filePointer, cur_sector>>

\* umdIoOpen
Open ==
  /\ opened' = TRUE
  /\ cur_sector' = -1
  /\ filePointer' = 0
  /\ position' = 0
  /\ out' = NoRead
  /\ UNCHANGED <<discSectors, pool>>

\* umdIoLseek with an offset of whole sectors; the others are refused.
Lseek(whence, ofs) ==
  /\ opened
  /\ filePointer' = ofs + [set |-> 0, cur |-> filePointer, end |-> ImageEnd][whence]
  /\ filePointer' <= LastPointer /\ filePointer' >= -1
  /\ out' = NoRead
  /\ UNCHANGED <<discSectors, opened, cur_sector, pool, position>>

InFile == filePointer >= DataAt /\ filePointer - DataAt <= fileSize

Aligned == (filePointer - DataAt) % 4 = 0

\* A read that returns its length.
Delivers(n, fault, cells) ==
  /\ filePointer' = filePointer + n
  /\ out' = [at |-> filePointer, ok |-> TRUE, fault |-> fault, cells |-> cells]

\* umdIoRead from a sector that is made up: all of it is, also what reaches into
\* the file.
ReadMadeUp(n) ==
  /\ ~InFile
  /\ Delivers(n, FALSE, [i \in 1..n |-> MadeUp(filePointer + i - 1)])
  /\ UNCHANGED <<discSectors, opened, cur_sector, pool, position>>

\* umdIoRead from within a sector of the disc: returns after the memset.
ReadUnaligned(n) ==
  /\ InFile /\ ~Aligned
  /\ Delivers(n, FALSE, [i \in 1..n |-> <<"zero">>])
  /\ UNCHANGED <<discSectors, opened, cur_sector, pool, position>>

\* What has arrived: whole sectors of the disc from p on, then a part of the
\* buffer from its quarter "from" on, then nothing.
Arriving(n, p, whole, rest, buffer, from) ==
  [i \in 1..n |->
     IF i <= 4 * whole
     THEN IF p + (i - 1) \div 4 < discSectors THEN <<"disc", 4 * p + (i - 1)>> ELSE <<"zero">>
     ELSE IF i > 4 * whole + rest THEN <<"zero">>
     ELSE IF buffer = -1 THEN <<"junk">>
     ELSE <<"disc", 4 * buffer + from + (i - 1 - 4 * whole)>>]

\* Mutant: the buffered sector is copied from its second quarter on.
ArrivedShifted(n, p, whole, rest, buffer) == Arriving(n, p, whole, rest, buffer, 1)

Arrived(n, p, whole, rest, buffer) == Arriving(n, p, whole, rest, buffer, 0)

\* umdIoRead from the beginning of a sector of the disc.  A failure in reading
\* whole sectors is returned; one in reading the last is not looked at.
ReadDisc(n) ==
  /\ InFile /\ Aligned
  /\ LET first     == (filePointer - DataAt) \div 4
         remaining == IF filePointer - DataAt + n >= ImageEnd
                      THEN ImageEnd - (filePointer - DataAt) ELSE n
         whole     == remaining \div 4
         rest      == remaining % 4
     IN \E p \in Seeks(position, first) :
          LET after == IF p + whole <= discSectors THEN p + whole
                       ELSE IF p < discSectors THEN discSectors ELSE p
          IN \/ /\ whole # 0
                /\ out' = [at |-> filePointer, ok |-> FALSE, fault |-> TRUE, cells |-> <<>>]
                /\ position' = p
                /\ UNCHANGED <<discSectors, opened, filePointer, cur_sector, pool>>
             \/ /\ rest = 0
                /\ position' = after
                /\ Delivers(n, FALSE, Arrived(n, p, whole, 0, -1))
                /\ UNCHANGED <<discSectors, opened, cur_sector, pool>>
             \/ /\ rest > 0
                /\ \E r \in UmdReadSector(after, first + whole) :
                     /\ cur_sector' = r.cur
                     /\ pool' = r.pool
                     /\ position' = r.position
                     /\ Delivers(n, r.fault, Arrived(n, p, whole, rest, r.pool))
                /\ UNCHANGED <<discSectors, opened>>

Read(n) ==
  /\ opened
  /\ filePointer + n <= LastPointer
  /\ ReadMadeUp(n) \/ ReadUnaligned(n) \/ ReadDisc(n)

Next ==
  \/ SetDevice
  \/ Open
  \/ \E whence \in {"set", "cur", "end"}, ofs \in Offsets : Lseek(whence, ofs)
  \/ \E n \in 1..MaxRead : Read(n)

Spec == Init /\ [][Next]_vars

-------------------------------------------------------------------------------
(* Properties *)

\* The state has its type: in particular the host's pointer and the buffer never
\* name a sector that the image or the disc does not have.
TypeOK ==
  /\ discSectors \in DiscSizes
  /\ opened \in BOOLEAN
  /\ filePointer \in -1..LastPointer
  /\ cur_sector \in Int /\ cur_sector >= -1
  /\ pool \in -1..(discSectors - 1)
  /\ position \in Nat
  /\ out.at \in -1..LastPointer
  /\ out.ok \in BOOLEAN /\ out.fault \in BOOLEAN
  /\ DOMAIN out.cells \subseteq 1..MaxRead

\* What the buffer is believed to hold (cur_sector) it holds, whatever was read
\* before it and failed, and whichever disc was read from it in an earlier
\* session: a sector of the disc is never taken for another.
BufferIsTheSector == opened /\ cur_sector \in 0..(discSectors - 1) => pool = cur_sector

\* The sectors a read of the file delivers from the beginning of a sector of the
\* disc are the disc's, in place, however the read splits into whole sectors and
\* a buffered one and whatever was read before; only a failure of the drive in
\* this very read excuses others.
ReadsTheDisc ==
  LET first == out.at - DataAt
  IN (/\ out.ok /\ ~out.fault
      /\ first >= 0 /\ first <= fileSize /\ first % 4 = 0)
     => \A i \in DOMAIN out.cells :
          first + i - 1 < fileSize => out.cells[i] = <<"disc", first + i - 1>>

\* The cluster that follows cluster c of the file, from the file's size alone.
FollowingCluster(c) ==
  LET begin == (c - 2) * ClusterSectors
  IN CASE c = 0 -> Media
       [] c = 1 -> EndOfFile
       [] c > 1 /\ begin >= fileSize -> 0
       [] c > 1 /\ begin < fileSize /\ begin + ClusterSectors >= fileSize -> EndOfFile
       [] c > 1 /\ begin + ClusterSectors < fileSize -> c + 1

\* The first FAT, read in whatever pieces, chains the clusters of the file in
\* their order, ends the chain with the one its last sector is in and leaves the
\* others free.
FatChainsTheFile ==
  \A i \in DOMAIN out.cells :
    LET k == out.at + (i - 1) - Reserved
    IN (out.at >= 0 /\ out.at < DataAt /\ k \in 0..(FatSectors - 1))
       => /\ out.cells[i][1] = "fat"
          /\ \A j \in 0..(PerFatSector - 1) :
               out.cells[i][2][j] = FollowingCluster(k * PerFatSector + j)
===============================================================================
