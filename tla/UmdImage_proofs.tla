--------------------------- MODULE UmdImage_proofs ---------------------------
(* For every disc that fits the image, every read and every size of the made-up *)
(* part: what the host reads of the file from the beginning of a sector of the   *)
(* disc is the disc's.  The invariant is that the buffer is the sector it is      *)
(* believed to be; it holds over failures because cur_sector moves only with a    *)
(* read that succeeded and with the opening of each session, and without a seek    *)
(* only because umdIoRead has just moved the drive to where the buffered read goes  *)
(* on.                                                                              *)
EXTENDS UmdImage, TLAPS

\* The sizes derived from the constants are numbers.
LEMMA Sizes ==
  ASSUME TypeOK
  PROVE  /\ discSectors \in Nat /\ fileSize \in Nat /\ fileSize = 4 * discSectors
         /\ fileSize < ImageEnd
         /\ DataAt \in Nat /\ RootAt \in Nat /\ ImageEnd \in Nat
         /\ MaxRead \in Nat /\ LastPointer \in Nat /\ filePointer \in Int
  BY UmdConstants DEF TypeOK, fileSize, DataAt, RootAt

\* A seek ends where it was to end or where it began; within the disc, where it
\* was to end.
LEMMA SeekEnds ==
  ASSUME NEW from \in Nat, NEW to \in Nat, NEW p \in Seeks(from, to), TypeOK
  PROVE  p \in Nat /\ (to < discSectors => p = to)
  BY Sizes DEF Seeks

\* What umdReadSector leaves: the buffer is what it is believed to be, and it is
\* the sector asked for unless the drive failed, if the drive stands there or
\* seeks.
LEMMA ReadSectorTrue ==
  ASSUME TypeOK, BufferIsTheSector, opened, NEW from \in Nat, NEW sector \in Nat,
         sector < discSectors => from = sector,
         NEW r \in UmdReadSector(from, sector)
  PROVE  /\ r.cur \in Int /\ r.cur >= -1
         /\ r.pool \in -1..(discSectors - 1)
         /\ r.position \in Nat
         /\ r.fault \in BOOLEAN
         /\ (r.cur \in 0..(discSectors - 1) => r.pool = r.cur)
         /\ (sector < discSectors /\ ~r.fault => r.pool = sector)
<1> DEFINE there == IF cur_sector # sector - 1 THEN Seeks(from, sector) ELSE {from}
<1> DEFINE good(p) == [cur |-> sector,
                       pool |-> IF p < discSectors THEN p ELSE pool,
                       position |-> IF p < discSectors THEN p + 1 ELSE p,
                       fault |-> FALSE]
<1> DEFINE bad(p) == [cur |-> cur_sector, pool |-> pool, position |-> p, fault |-> TRUE]
<1>0. /\ discSectors \in Nat /\ cur_sector \in Int /\ cur_sector >= -1
      /\ pool \in -1..(discSectors - 1)
  BY Sizes DEF TypeOK
<1>1. CASE sector = cur_sector
  <2>1. r = [cur |-> cur_sector, pool |-> pool, position |-> from, fault |-> FALSE]
    BY <1>1 DEF UmdReadSector, ReadingSector
  <2> QED
    BY <1>0, <1>1, <2>1 DEF BufferIsTheSector
<1>2. CASE sector # cur_sector
  <2>1. PICK p \in there : r = good(p) \/ r = bad(p)
    <3>1. r \in UNION {{good(q), bad(q)} : q \in there}
      BY <1>2 DEF UmdReadSector, ReadingSector
    <3> HIDE DEF there, good, bad
    <3> QED
      BY <3>1
  <2>2. p \in Nat /\ (sector < discSectors => p = sector)
    BY <2>1, SeekEnds
  <2>3. CASE r = good(p)
    BY <1>0, <2>2, <2>3
  <2>4. CASE r = bad(p)
    BY <1>0, <2>2, <2>4 DEF BufferIsTheSector
  <2> QED
    BY <2>1, <2>3, <2>4
<1> QED
  BY <1>1, <1>2

IInv == TypeOK /\ BufferIsTheSector /\ ReadsTheDisc

LEMMA Initially ==
  ASSUME Init
  PROVE  IInv
<1>1. discSectors \in Nat /\ DataAt \in Nat
  BY UmdConstants DEF Init, DataAt, RootAt
<1>2. TypeOK
  <2>1. opened \in BOOLEAN
    BY DEF Init
  <2>2. pool \in -1..(discSectors - 1)
    BY <1>1, UmdConstants DEF Init, TypeOK
  <2>3. /\ discSectors \in DiscSizes
        /\ filePointer \in -1..LastPointer
        /\ cur_sector \in Int /\ cur_sector >= -1
        /\ position \in Nat
    BY <1>1, UmdConstants DEF Init, TypeOK
  <2>4. /\ out.at \in -1..LastPointer
        /\ out.ok \in BOOLEAN /\ out.fault \in BOOLEAN
        /\ DOMAIN out.cells \subseteq 1..MaxRead
    BY <1>1, UmdConstants DEF Init, NoRead
  <2> QED
    BY <2>1, <2>2, <2>3, <2>4 DEF TypeOK
<1>3. BufferIsTheSector /\ ReadsTheDisc
  BY <1>1 DEF Init, BufferIsTheSector, ReadsTheDisc, NoRead
<1> QED
  BY <1>2, <1>3 DEF IInv

LEMMA SetDeviceKeeps ==
  ASSUME IInv, SetDevice
  PROVE  IInv'
<1>1. TypeOK'
  <2>1. opened' \in BOOLEAN
    BY DEF SetDevice, IInv
  <2>2. pool' \in -1..(discSectors' - 1)
    <3>1. pool' = -1 /\ discSectors' \in Nat
      BY UmdConstants DEF SetDevice
    <3>2. \A d \in Nat : -1 \in -1..(d - 1)
      OBVIOUS
    <3> QED
      BY <3>1, <3>2, Zenon
  <2>3. /\ discSectors' \in DiscSizes
        /\ filePointer' \in -1..LastPointer
        /\ cur_sector' \in Int /\ cur_sector' >= -1
        /\ position' \in Nat
    BY UmdConstants DEF SetDevice, IInv, TypeOK
  <2>4. /\ out'.at \in -1..LastPointer
        /\ out'.ok \in BOOLEAN /\ out'.fault \in BOOLEAN
        /\ DOMAIN out'.cells \subseteq 1..MaxRead
    BY UmdConstants DEF SetDevice, IInv, NoRead
  <2> QED
    BY <2>1, <2>2, <2>3, <2>4 DEF TypeOK
<1>2. DataAt \in Nat
  BY Sizes DEF IInv
<1>3. BufferIsTheSector' /\ ReadsTheDisc'
  BY <1>2 DEF IInv, SetDevice, BufferIsTheSector, ReadsTheDisc, NoRead
<1> QED
  BY <1>1, <1>3 DEF IInv

LEMMA OpenKeeps ==
  ASSUME IInv, Open
  PROVE  IInv'
<1>1. TypeOK'
  BY UmdConstants DEF IInv, Open, TypeOK, NoRead
<1>2. BufferIsTheSector' /\ ReadsTheDisc'
  BY Sizes DEF IInv, Open, BufferIsTheSector, ReadsTheDisc, NoRead
<1> QED
  BY <1>1, <1>2 DEF IInv

LEMMA LseekKeeps ==
  ASSUME IInv, NEW whence \in {"set", "cur", "end"}, NEW ofs \in Offsets, Lseek(whence, ofs)
  PROVE  IInv'
<1>1. filePointer' \in -1..LastPointer
  BY UmdConstants, Sizes DEF IInv, Lseek
<1>2. TypeOK'
  BY <1>1, UmdConstants DEF IInv, Lseek, TypeOK, NoRead
<1>3. BufferIsTheSector' /\ ReadsTheDisc'
  BY Sizes DEF IInv, Lseek, BufferIsTheSector, ReadsTheDisc, NoRead
<1> QED
  BY <1>2, <1>3 DEF IInv

\* A read that returns its length leaves a pointer and a result of their types.
LEMMA DeliversTyped ==
  ASSUME TypeOK, NEW n \in 1..MaxRead, NEW fault \in BOOLEAN, NEW cells,
         DOMAIN cells = 1..n, filePointer + n <= LastPointer, Delivers(n, fault, cells)
  PROVE  /\ filePointer' \in -1..LastPointer
         /\ out' = [at |-> filePointer, ok |-> TRUE, fault |-> fault, cells |-> cells]
         /\ out'.at \in -1..LastPointer
         /\ out'.ok \in BOOLEAN /\ out'.fault \in BOOLEAN
         /\ DOMAIN out'.cells \subseteq 1..MaxRead
<1>1. filePointer \in -1..LastPointer
  BY DEF TypeOK
<1>2. out' = [at |-> filePointer, ok |-> TRUE, fault |-> fault, cells |-> cells]
  BY DEF Delivers
<1>3. filePointer' \in -1..LastPointer
  BY <1>1, Sizes DEF Delivers
<1>4. 1..n \subseteq 1..MaxRead
  BY Sizes
<1> QED
  BY <1>1, <1>2, <1>3, <1>4

LEMMA ReadMadeUpKeeps ==
  ASSUME IInv, NEW n \in 1..MaxRead, filePointer + n <= LastPointer, ReadMadeUp(n)
  PROVE  IInv'
<1>1. Delivers(n, FALSE, [i \in 1..n |-> MadeUp(filePointer + i - 1)])
  BY DEF ReadMadeUp
<1>2. TypeOK'
  BY <1>1, DeliversTyped DEF IInv, ReadMadeUp, TypeOK
<1>3. BufferIsTheSector'
  BY DEF IInv, ReadMadeUp, BufferIsTheSector
<1>4. ReadsTheDisc'
  <2>1. out'.at = filePointer /\ fileSize' = fileSize
    BY <1>1 DEF Delivers, ReadMadeUp, fileSize
  <2>2. ~(out'.at - DataAt >= 0 /\ out'.at - DataAt <= fileSize')
    BY <2>1, Sizes DEF IInv, ReadMadeUp, InFile
  <2> QED
    BY <2>2 DEF ReadsTheDisc
<1> QED
  BY <1>2, <1>3, <1>4 DEF IInv

LEMMA ReadUnalignedKeeps ==
  ASSUME IInv, NEW n \in 1..MaxRead, filePointer + n <= LastPointer, ReadUnaligned(n)
  PROVE  IInv'
<1>1. Delivers(n, FALSE, [i \in 1..n |-> <<"zero">>])
  BY DEF ReadUnaligned
<1>2. TypeOK'
  BY <1>1, DeliversTyped DEF IInv, ReadUnaligned, TypeOK
<1>3. BufferIsTheSector'
  BY DEF IInv, ReadUnaligned, BufferIsTheSector
<1>4. ReadsTheDisc'
  BY <1>1, Sizes DEF IInv, ReadUnaligned, Aligned, Delivers, ReadsTheDisc
<1> QED
  BY <1>2, <1>3, <1>4 DEF IInv

LEMMA ReadDiscKeeps ==
  ASSUME IInv, NEW n \in 1..MaxRead, opened, filePointer + n <= LastPointer, ReadDisc(n)
  PROVE  IInv'
<1> DEFINE first     == (filePointer - DataAt) \div 4
           remaining == IF filePointer - DataAt + n >= ImageEnd
                        THEN ImageEnd - (filePointer - DataAt) ELSE n
           whole     == remaining \div 4
           rest      == remaining % 4
           after(p)  == IF p + whole <= discSectors THEN p + whole
                        ELSE IF p < discSectors THEN discSectors ELSE p
<1>0. TypeOK /\ BufferIsTheSector /\ ReadsTheDisc
  BY DEF IInv
<1>1. /\ discSectors \in Nat /\ fileSize = 4 * discSectors /\ fileSize < ImageEnd
      /\ DataAt \in Nat /\ ImageEnd \in Nat /\ filePointer \in Int /\ n \in Nat /\ n > 0
  BY <1>0, Sizes
<1>2. /\ filePointer - DataAt \in 0..fileSize
      /\ (filePointer - DataAt) % 4 = 0
  BY <1>1 DEF ReadDisc, InFile, Aligned
<1>3. /\ first \in Nat /\ 4 * first = filePointer - DataAt
      /\ remaining \in Nat /\ whole \in Nat /\ rest \in 0..3
      /\ remaining = 4 * whole + rest
      /\ (n <= 4 * whole + rest \/ fileSize <= 4 * first + (4 * whole + rest))
  <2> DEFINE g == filePointer - DataAt
  <2>1. g \in 0..fileSize /\ g % 4 = 0 /\ g \in Nat
    BY <1>1, <1>2
  <2>2. first \in Nat /\ 4 * first = g
    <3> HIDE DEF g
    <3>1. g \div 4 \in Nat /\ 4 * (g \div 4) = g
      BY <2>1
    <3> QED
      BY <3>1 DEF g
  <2>3. remaining \in Nat /\ (n <= remaining \/ fileSize <= g + remaining)
    BY <1>1, <2>1
  <2>4. whole \in Nat /\ rest \in 0..3 /\ remaining = 4 * whole + rest
    <3> HIDE DEF remaining
    <3> QED
      BY <2>3
  <2> QED
    BY <2>1, <2>2, <2>3, <2>4, <1>1
<1>4. PICK p \in Seeks(position, first) :
          \/ /\ whole # 0
             /\ out' = [at |-> filePointer, ok |-> FALSE, fault |-> TRUE, cells |-> <<>>]
             /\ position' = p
             /\ UNCHANGED <<discSectors, opened, filePointer, cur_sector, pool>>
          \/ /\ rest = 0
             /\ position' = after(p)
             /\ Delivers(n, FALSE, Arrived(n, p, whole, 0, -1))
             /\ UNCHANGED <<discSectors, opened, cur_sector, pool>>
          \/ /\ rest > 0
             /\ \E r \in UmdReadSector(after(p), first + whole) :
                  /\ cur_sector' = r.cur
                  /\ pool' = r.pool
                  /\ position' = r.position
                  /\ Delivers(n, r.fault, Arrived(n, p, whole, rest, r.pool))
             /\ UNCHANGED <<discSectors, opened>>
  BY DEF ReadDisc
<1>5. p \in Nat /\ (first < discSectors => p = first)
  <2> HIDE DEF first
  <2> QED
    BY <1>0, <1>3, <1>4, SeekEnds DEF TypeOK
<1>6. after(p) \in Nat /\ (first + whole < discSectors => after(p) = first + whole)
  <2> HIDE DEF first, whole
  <2> QED
    BY <1>1, <1>3, <1>5
<1> HIDE DEF first, remaining, whole, rest, after
\* A read whose result is right for all the sectors of the file in it.
<1>7. ASSUME NEW fault \in BOOLEAN, NEW buffer \in -1..(discSectors - 1),
             (~fault /\ rest > 0 /\ first + whole < discSectors) => buffer = first + whole,
             Delivers(n, fault, Arrived(n, p, whole, rest, buffer)), UNCHANGED discSectors
      PROVE  ReadsTheDisc'
  <2>1. out' = [at |-> filePointer, ok |-> TRUE, fault |-> fault,
                cells |-> Arrived(n, p, whole, rest, buffer)]
    BY <1>7 DEF Delivers
  <2>2. fileSize' = fileSize
    BY <1>7 DEF fileSize
  <2>3. DOMAIN out'.cells = 1..n
    BY <2>1 DEF Arrived, Arriving
  <2>4. ASSUME ~fault, NEW i \in 1..n, 4 * first + i - 1 < fileSize
        PROVE  out'.cells[i] = <<"disc", 4 * first + i - 1>>
    <3>1. /\ first \in Nat /\ p \in Nat /\ whole \in Nat /\ rest \in 0..3
          /\ (first < discSectors => p = first)
          /\ ((rest > 0 /\ first + whole < discSectors) => buffer = first + whole)
          /\ (n <= 4 * whole + rest \/ fileSize <= 4 * first + (4 * whole + rest))
      BY <1>3, <1>5, <1>7, <2>4
    <3>2. /\ n \in Nat /\ i \in Nat /\ i >= 1 /\ rest \in Nat /\ rest <= 3
          /\ i <= 4 * whole + rest
          /\ first < discSectors /\ p = first
      BY <1>1, <2>4, <3>1
    <3>3. CASE i <= 4 * whole
      <4>1. p + (i - 1) \div 4 < discSectors
        BY <1>1, <2>4, <3>1, <3>2
      <4>2. Arrived(n, p, whole, rest, buffer)[i] = <<"disc", 4 * p + (i - 1)>>
        BY <3>3, <4>1 DEF Arrived, Arriving
      <4>3. 4 * p + (i - 1) = 4 * first + i - 1
        BY <3>1, <3>2
      <4> QED
        BY <2>1, <4>2, <4>3
    <3>4. CASE i > 4 * whole
      <4>1. rest > 0 /\ first + whole < discSectors
        BY <1>1, <2>4, <3>1, <3>2, <3>4
      <4>2. buffer = first + whole /\ buffer # -1
        BY <3>1, <4>1
      <4>3. Arrived(n, p, whole, rest, buffer)[i]
            = <<"disc", 4 * buffer + 0 + (i - 1 - 4 * whole)>>
        BY <3>1, <3>2, <3>4, <4>2 DEF Arrived, Arriving
      <4>4. 4 * buffer + 0 + (i - 1 - 4 * whole) = 4 * first + i - 1
        BY <3>1, <3>2, <4>2
      <4> QED
        BY <2>1, <4>3, <4>4
    <3> QED
      BY <3>1, <3>2, <3>3, <3>4
  <2> QED
    BY <1>3, <2>1, <2>2, <2>3, <2>4 DEF ReadsTheDisc
<1>8. CASE /\ whole # 0
           /\ out' = [at |-> filePointer, ok |-> FALSE, fault |-> TRUE, cells |-> <<>>]
           /\ position' = p
           /\ UNCHANGED <<discSectors, opened, filePointer, cur_sector, pool>>
  <2>1. TypeOK'
    BY <1>0, <1>5, <1>8 DEF TypeOK
  <2>2. BufferIsTheSector' /\ ReadsTheDisc'
    BY <1>0, <1>8 DEF BufferIsTheSector, ReadsTheDisc
  <2> QED
    BY <2>1, <2>2 DEF IInv
<1>9. CASE /\ rest = 0
           /\ position' = after(p)
           /\ Delivers(n, FALSE, Arrived(n, p, whole, 0, -1))
           /\ UNCHANGED <<discSectors, opened, cur_sector, pool>>
  <2>0. DOMAIN Arrived(n, p, whole, 0, -1) = 1..n
    BY DEF Arrived, Arriving
  <2>1. TypeOK'
    BY <1>0, <1>6, <1>9, <2>0, DeliversTyped DEF TypeOK
  <2>2. BufferIsTheSector'
    BY <1>0, <1>9 DEF BufferIsTheSector
  <2>3. -1 \in -1..(discSectors - 1)
    BY <1>1
  <2>4. ReadsTheDisc'
    <3>1. Delivers(n, FALSE, Arrived(n, p, whole, rest, -1))
      BY <1>9
    <3>2. (~FALSE /\ rest > 0 /\ first + whole < discSectors) => -1 = first + whole
      <4>1. ~(rest > 0)
        BY <1>9
      <4> QED
        BY <4>1
    <3>3. UNCHANGED discSectors
      BY <1>9
    <3> QED
      BY <1>7, <2>3, <3>1, <3>2, <3>3, ZenonT(30)
  <2> QED
    BY <2>1, <2>2, <2>4 DEF IInv
<1>10. CASE /\ rest > 0
            /\ \E r \in UmdReadSector(after(p), first + whole) :
                 /\ cur_sector' = r.cur
                 /\ pool' = r.pool
                 /\ position' = r.position
                 /\ Delivers(n, r.fault, Arrived(n, p, whole, rest, r.pool))
            /\ UNCHANGED <<discSectors, opened>>
  <2>1. PICK r \in UmdReadSector(after(p), first + whole) :
               /\ cur_sector' = r.cur
               /\ pool' = r.pool
               /\ position' = r.position
               /\ Delivers(n, r.fault, Arrived(n, p, whole, rest, r.pool))
    BY <1>10
  <2>2. /\ r.cur \in Int /\ r.cur >= -1
        /\ r.pool \in -1..(discSectors - 1)
        /\ r.position \in Nat
        /\ r.fault \in BOOLEAN
        /\ (r.cur \in 0..(discSectors - 1) => r.pool = r.cur)
        /\ (first + whole < discSectors /\ ~r.fault => r.pool = first + whole)
    <3>1. first + whole \in Nat
      BY <1>3
    <3> QED
      BY <1>0, <1>6, <2>1, <3>1, ReadSectorTrue
  <2>3. DOMAIN Arrived(n, p, whole, rest, r.pool) = 1..n
    BY DEF Arrived, Arriving
  <2>4. TypeOK'
    BY <1>0, <1>10, <2>1, <2>2, <2>3, DeliversTyped DEF TypeOK
  <2>5. BufferIsTheSector'
    BY <1>10, <2>1, <2>2 DEF BufferIsTheSector
  <2>6. ReadsTheDisc'
    BY <1>7, <1>10, <2>1, <2>2
  <2> QED
    BY <2>4, <2>5, <2>6 DEF IInv
<1> QED
  BY <1>4, <1>8, <1>9, <1>10

LEMMA NextKeeps ==
  ASSUME IInv, [Next]_vars
  PROVE  IInv'
<1>0. CASE SetDevice
  BY <1>0, SetDeviceKeeps
<1>1. CASE Open
  BY <1>1, OpenKeeps
<1>2. ASSUME NEW whence \in {"set", "cur", "end"}, NEW ofs \in Offsets, Lseek(whence, ofs)
      PROVE  IInv'
  BY <1>2, LseekKeeps
<1>3. ASSUME NEW n \in 1..MaxRead, Read(n)
      PROVE  IInv'
  BY <1>3, ReadMadeUpKeeps, ReadUnalignedKeeps, ReadDiscKeeps DEF Read
<1>4. CASE UNCHANGED vars
  BY <1>4 DEF IInv, vars, TypeOK, BufferIsTheSector, ReadsTheDisc, fileSize
<1> QED
  BY <1>0, <1>1, <1>2, <1>3, <1>4 DEF Next

\* What every state satisfies.
THEOREM Inductive == Spec => []IInv
<1>1. Init => IInv
  BY Initially
<1>2. IInv /\ [Next]_vars => IInv'
  BY NextKeeps
<1> QED
  BY <1>1, <1>2, PTL DEF Spec

\* The variables keep their types, the buffer a sector of the disc.
THEOREM Typing == Spec => []TypeOK
<1>1. IInv => TypeOK
  BY DEF IInv
<1> QED
  BY <1>1, Inductive, PTL

\* umdReadSector's cache is true: for every disc and every sequence of opens, seeks
\* and reads, failed ones included, the buffer is the sector it is believed to be.
THEOREM BufferTrue == Spec => []BufferIsTheSector
<1>1. IInv => BufferIsTheSector
  BY DEF IInv
<1> QED
  BY <1>1, Inductive, PTL

\* For every disc that fits the image and every read from the beginning of one of
\* its sectors, umdIoRead delivers the disc's contents in their place.
THEOREM Served == Spec => []ReadsTheDisc
<1>1. IInv => ReadsTheDisc
  BY DEF IInv
<1> QED
  BY <1>1, Inductive, PTL

-------------------------------------------------------------------------------
(* The FAT *)

\* max_size is the number of clusters that have a part of the file.
LEMMA ClusterCount ==
  ASSUME TypeOK
  PROVE  /\ max_size \in Nat
         /\ \A n \in Nat : n >= max_size <=> n * ClusterSectors >= fileSize
<1> DEFINE F == fileSize
           C == ClusterSectors
           q == F \div C
           r == F % C
<1>1. F \in Nat /\ C \in Nat /\ C > 0
  BY Sizes, UmdConstants
<1> HIDE DEF F, C
<1>2. q \in Nat /\ r \in 0..(C - 1) /\ F = (C * q) + r
  BY <1>1
<1>3. max_size = q + (IF r # 0 THEN 1 ELSE 0)
  BY DEF max_size, F, C
<1> HIDE DEF q, r
<1>4. max_size \in Nat
  BY <1>2, <1>3
<1>5. F <= max_size * C /\ (max_size >= 1 => (max_size - 1) * C < F)
  <2>1. /\ q * C = C * q /\ (q + 1) * C = C * q + C /\ (q - 1) * C = C * q - C
        /\ C * q \in Nat
    BY <1>1, <1>2
  <2>2. CASE r = 0
    BY <1>1, <1>2, <1>3, <2>1, <2>2
  <2>3. CASE r # 0
    <3>1. max_size = q + 1 /\ max_size - 1 = q
      BY <1>2, <1>3, <2>3
    <3> QED BY <1>1, <1>2, <2>1, <2>3, <3>1
  <2> QED BY <2>2, <2>3
<1>6. \A a, b \in Nat : a <= b => a * C <= b * C
  BY <1>1
<1>7. ASSUME NEW n \in Nat
      PROVE  n >= max_size <=> n * C >= F
  <2>1. n * C \in Nat /\ max_size * C \in Nat
    BY <1>1, <1>4
  <2>2. CASE n >= max_size
    <3>1. max_size * C <= n * C
      BY <1>4, <1>6, <2>2
    <3> QED BY <1>1, <1>5, <2>1, <2>2, <3>1
  <2>3. CASE n < max_size
    <3>1. n <= max_size - 1 /\ max_size - 1 \in Nat /\ max_size >= 1
      BY <1>4, <2>3
    <3>2. n * C <= (max_size - 1) * C /\ (max_size - 1) * C \in Nat
      BY <1>1, <1>6, <3>1
    <3> QED BY <1>1, <1>4, <1>5, <2>1, <2>3, <3>1, <3>2
  <2> QED BY <1>4, <2>2, <2>3
<1> QED BY <1>4, <1>7 DEF F, C

\* GetUMDFreeSize counts in entries of the sector what the chain is in clusters.
LEMMA FreeSizeChains ==
  ASSUME TypeOK, NEW k \in Nat, NEW j \in 0..(PerFatSector - 1)
  PROVE  GetUMDFreeSize(k)[j] = FollowingCluster(k * PerFatSector + j)
<1> DEFINE P == PerFatSector
           c == k * P + j
           t0 == IF k = 0 THEN 2 ELSE 0
           size == IF k = 0 THEN 0 ELSE k * P - 2
           last == t0 + (max_size - size) - 1
<1>1. P \in Nat /\ P >= 2 /\ j \in Nat /\ max_size \in Nat
      /\ fileSize \in Nat /\ ClusterSectors \in Nat
  BY UmdConstants, ClusterCount, Sizes
<1>2. GetUMDFreeSize(k)[j] =
        CASE j < t0                     -> IF j = 0 THEN Media ELSE EndOfFile
        [] j >= t0 /\ size >= max_size  -> 0
        [] j >= t0 /\ size < max_size   -> IF j < last THEN size + 3 + (j - t0)
                                           ELSE IF j = last THEN EndOfFile ELSE 0
  BY DEF GetUMDFreeSize
<1> HIDE DEF P
<1>3. k * P \in Nat /\ (k = 0 => k * P = 0) /\ (k # 0 => k * P >= 2)
  <2>1. CASE k = 0
    BY <1>1, <2>1
  <2>2. CASE k # 0
    <3>1. (k - 1) * P \in Nat /\ k * P = (k - 1) * P + P
      BY <1>1, <2>2
    <3> QED BY <1>1, <2>2, <3>1
  <2> QED BY <2>1, <2>2
<1>4. size \in Nat /\ t0 \in Nat /\ c \in Nat
  BY <1>1, <1>3
<1>5. CASE j < t0
  <2>1. k = 0 /\ c = j /\ (j = 0 \/ j = 1)
    BY <1>1, <1>3, <1>5
  <2> QED BY <1>2, <1>5, <2>1 DEF FollowingCluster, P
<1>6. CASE j >= t0
  <2> DEFINE n == c - 2
             begin == n * ClusterSectors
  <2>1. n \in Nat /\ c > 1 /\ n = size + (j - t0)
    BY <1>1, <1>3, <1>4, <1>6
  <2>2. (n + 1) * ClusterSectors = begin + ClusterSectors /\ begin \in Nat
    BY <1>1, <2>1
  <2>3. n >= max_size <=> begin >= fileSize
    BY <2>1, ClusterCount
  <2>4. n + 1 >= max_size <=> begin + ClusterSectors >= fileSize
    BY <2>1, <2>2, ClusterCount
  <2>5. GetUMDFreeSize(k)[j] = IF n >= max_size THEN 0
                               ELSE IF n + 1 >= max_size THEN EndOfFile ELSE c + 1
    <3>1. CASE size >= max_size
      BY <1>1, <1>2, <1>4, <1>6, <2>1, <3>1
    <3>2. CASE size < max_size
      BY <1>1, <1>2, <1>4, <1>6, <2>1, <3>2
    <3> QED BY <1>1, <1>4, <3>1, <3>2
  <2>6. FollowingCluster(c) = IF begin >= fileSize THEN 0
                              ELSE IF begin + ClusterSectors >= fileSize THEN EndOfFile
                              ELSE c + 1
    BY <1>1, <1>4, <2>1, <2>2 DEF FollowingCluster
  <2> QED BY <2>3, <2>4, <2>5, <2>6 DEF P
<1> QED BY <1>1, <1>4, <1>5, <1>6

\* The first FAT is where the host looks for it.
LEMMA MadeUpFat ==
  ASSUME TypeOK, NEW f \in Nat, f - Reserved \in 0..(FatSectors - 1)
  PROVE  MadeUp(f) = <<"fat", GetUMDFreeSize(f - Reserved)>>
<1>1. Reserved \in Nat /\ Reserved > 0 /\ FatSectors \in Nat /\ f # 0
  BY UmdConstants
<1>2. f - Reserved \in 0..(2 * FatSectors - 1) /\ f # RootAt
  BY <1>1 DEF RootAt
<1> QED BY <1>1, <1>2 DEF MadeUp

\* Reads of the file and the failing ones begin behind the FATs.
LEMMA FatKept ==
  ASSUME IInv, FatChainsTheFile, [Next]_vars
  PROVE  FatChainsTheFile'
<1>1. TypeOK
  BY DEF IInv
<1>2. ASSUME out' = NoRead
      PROVE  FatChainsTheFile'
  BY <1>2 DEF FatChainsTheFile, NoRead
<1>3. ASSUME NEW n \in 1..MaxRead, ReadMadeUp(n)
      PROVE  FatChainsTheFile'
  <2>1. /\ out'.at = filePointer /\ out'.cells = [i \in 1..n |-> MadeUp(filePointer + i - 1)]
        /\ discSectors' = discSectors
    BY <1>3 DEF ReadMadeUp, Delivers
  <2>3. SUFFICES ASSUME NEW i \in 1..n, filePointer >= 0,
                        filePointer + (i - 1) - Reserved \in 0..(FatSectors - 1)
                 PROVE  /\ out'.cells[i][1] = "fat"
                        /\ \A j \in 0..(PerFatSector - 1) : out'.cells[i][2][j] =
                             FollowingCluster((filePointer + (i - 1) - Reserved)
                                                * PerFatSector + j)
    BY <2>1 DEF FatChainsTheFile, FollowingCluster, fileSize
  <2> DEFINE f == filePointer + i - 1
             k == f - Reserved
  <2>4. f \in Nat /\ k = filePointer + (i - 1) - Reserved /\ k \in Nat
    BY <1>1, <2>3, Sizes, UmdConstants
  <2>5. out'.cells[i] = <<"fat", GetUMDFreeSize(k)>>
    BY <1>1, <2>1, <2>3, <2>4, MadeUpFat
  <2>6. \A j \in 0..(PerFatSector - 1) :
          GetUMDFreeSize(k)[j] = FollowingCluster(k * PerFatSector + j)
    BY <1>1, <2>4, FreeSizeChains
  <2> QED BY <2>4, <2>5, <2>6
<1>4. ASSUME NEW n \in 1..MaxRead, ReadUnaligned(n) \/ ReadDisc(n)
      PROVE  FatChainsTheFile'
  <2>1. InFile /\ out'.at = filePointer
    BY <1>4 DEF ReadUnaligned, ReadDisc, Delivers
  <2>2. out'.at >= DataAt
    BY <2>1 DEF InFile
  <2> QED BY <1>1, <2>1, <2>2, Sizes DEF FatChainsTheFile
<1>5. CASE UNCHANGED vars
  BY <1>5 DEF vars, FatChainsTheFile, FollowingCluster, fileSize
<1>6. CASE SetDevice \/ Open
  BY <1>2, <1>6 DEF SetDevice, Open
<1>7. ASSUME NEW whence \in {"set", "cur", "end"}, NEW ofs \in Offsets, Lseek(whence, ofs)
      PROVE  FatChainsTheFile'
  BY <1>2, <1>7 DEF Lseek
<1> QED BY <1>3, <1>4, <1>5, <1>6, <1>7 DEF Next, Read

\* For every disc and every size of sectors, clusters and FAT: whatever piece of the
\* first FAT is read, its entries chain the file's clusters, end the chain with the
\* cluster the file ends in, and leave the others free.
THEOREM FatChained == Spec => []FatChainsTheFile
<1>1. Init => FatChainsTheFile
  BY DEF Init, NoRead, FatChainsTheFile
<1>2. IInv /\ FatChainsTheFile /\ [Next]_vars => FatChainsTheFile'
  BY FatKept
<1> QED
  BY <1>1, <1>2, Inductive, PTL DEF Spec
===============================================================================
