---------------------------- MODULE SDMountProofs ----------------------------
(***************************************************************************)
(* Proofs about SDMount: what the card holds between any two writes of a     *)
(* format (Parts), that a card is never left with a volume that looks sound  *)
(* and is not (Sound), that a mounted volume is on the card (Mounted), and   *)
(* what a boot relies on while nothing has failed (Faultless).               *)
(***************************************************************************)
EXTENDS SDMount, TLAPS

(* The next write of the format into a card c gives d; the parts come in the
   order of Layout. *)
LEMMA WritesAligned ==
  ASSUME aligned, NEW c \in Card, NEW p \in 1 .. 4, NEW k \in 0 .. FatWrites - 1,
         NEW d \in Written(c, p, k)
  PROVE  /\ d \in Card /\ d.kind = c.kind /\ d.other = c.other /\ d.fits = c.fits
         /\ d.table = IF p = 4 THEN "own" ELSE c.table
         /\ d.vbr = IF p = 1 THEN "new" ELSE c.vbr
         /\ d.fat = IF p # 2 THEN c.fat ELSE IF k = FatWrites - 1 THEN "new" ELSE "mixed"
         /\ d.root = IF p = 3 THEN "new" ELSE c.root
<1>1. CASE p = 1
  BY <1>1 DEF Written, Layout, Last, Card
<1>2. CASE p = 2
  BY <1>2 DEF Written, Layout, Last, Card
<1>3. CASE p = 3
  BY <1>3 DEF Written, Layout, Last, Card
<1>4. CASE p = 4
  BY <1>4 DEF Written, Layout, Last, Card
<1> QED
  BY <1>1, <1>2, <1>3, <1>4

LEMMA WritesUnaligned ==
  ASSUME ~aligned, NEW c \in Card, NEW p \in 1 .. 4, NEW k \in 0 .. FatWrites - 1,
         NEW d \in Written(c, p, k)
  PROVE  /\ d \in Card /\ d.kind = c.kind /\ d.other = c.other /\ d.fits = c.fits
         /\ d.table = c.table \/ d.table = "none"
         /\ d.vbr = c.vbr \/ d.vbr = "junk"
<1>1. CASE p = 1
  BY <1>1 DEF Written, Layout, Last, Card
<1>2. CASE p = 2
  BY <1>2 DEF Written, Layout, Last, Card
<1>3. CASE p = 3
  BY <1>3 DEF Written, Layout, Last, Card
<1>4. CASE p = 4
  BY <1>4 DEF Written, Layout, Last, Card
<1> QED
  BY <1>1, <1>2, <1>3, <1>4

LEMMA OverwritesOther ==
  ASSUME NEW c \in Card, NEW p, NEW d \in Overwrites(c, p)
  PROVE  /\ d \in Card /\ d.kind = c.kind /\ d.table = c.table /\ d.vbr = c.vbr
         /\ d.fat = c.fat /\ d.root = c.root /\ d.fits = c.fits
         /\ \/ d.other = c.other
            \/ c.other \in {"whole", "damaged"} /\ d.other \in {"damaged", "gone"}
BY DEF Overwrites, Card

(* A format that writes what it means to makes of a card without a volume, or
   with its own, a card with its own. *)
Sane(c) == c.table = "own" => c.vbr # "junk"

Parts ==
  /\ pc # "format" => part = 1
  /\ pc = "format" => card.fits
  /\ pc = "format" /\ aligned =>
       /\ part >= 2 => card.vbr = "new"
       /\ part >= 3 => card.fat = "new"
       /\ part = 4 => card.root = "new"
       /\ had = "none" => Seen(card) = "none"

Sound ==
  aligned =>
    /\ Sane(card)
    /\ pc # "format" /\ ~spoiled /\ Seen(card) # "none" => Whole(card)

Mounted ==
  /\ fs_type # "none" => Seen(card) = fs_type
  /\ pc = "format" => fs_type = "none"

Faultless ==
  ~fault =>
    /\ pc \in {"check", "mkfs", "format", "server"} => SDQueueID
    /\ pc \in {"check", "mkfs"} => Stat = "OK"
    /\ pc = "check" => fs_type = Seen(card)
    /\ pc \in {"mkfs", "format"} => Seen(card) # "FAT32"
    /\ pc = "mkfs" => ~isFsCreated
    /\ pc = "server" /\ aligned =>
         Seen(card) = "FAT32" \/ (~card.fits /\ ~isFsCreated)

IInv == TypeOK /\ Parts /\ Sound /\ Mounted /\ Faultless

LEMMA InitEstablishes == Init => IInv
<1> SUFFICES ASSUME Init PROVE IInv
  OBVIOUS
<1> USE FatWritesAssumption DEF Init
<1>1. /\ card \in Card
      /\ card.table = "own" => card.vbr # "junk"
      /\ card.table = "own" => card.fat = "old" /\ card.root = "old"
      /\ card.table = "other" => card.other = "whole"
  <2>1. CASE card = Own
    BY <2>1 DEF Own, Prepared, Card, Type
  <2>2. CASE \E fits \in BOOLEAN : card = Blank(fits)
    BY <2>2 DEF Blank, Prepared, Card, Type
  <2>3. CASE \E type \in {"FAT16", "FAT32"}, fits \in BOOLEAN : card = Foreign(type, fits)
    BY <2>3 DEF Foreign, Prepared, Card, Type
  <2> QED
    BY <2>1, <2>2, <2>3 DEF Factory
<1>2. TypeOK
  <2>1. part \in 1 .. 4 /\ n \in 0 .. FatWrites - 1
    OBVIOUS
  <2>2. /\ present \in BOOLEAN /\ aligned \in BOOLEAN /\ detectIT \in BOOLEAN
        /\ halted \in BOOLEAN /\ usable \in BOOLEAN /\ isInit \in BOOLEAN
        /\ SDQueueID \in BOOLEAN /\ isFsCreated \in BOOLEAN /\ fault \in BOOLEAN
        /\ spoiled \in BOOLEAN
    OBVIOUS
  <2>3. /\ pc \in {"off", "boot", "mount", "check", "mkfs", "format", "server"}
        /\ Stat \in {"STA_NOINIT", "OK"} /\ fs_type \in Type /\ had \in Type
    BY DEF Type
  <2> QED
    BY <1>1, <2>1, <2>2, <2>3 DEF TypeOK
<1>3. Sane(card) /\ (Seen(card) # "none" => Whole(card))
  BY <1>1 DEF Sane, Seen, Whole
<1> QED
  BY <1>2, <1>3 DEF IInv, Parts, Sound, Mounted, Faultless

LEMMA SeenType == ASSUME NEW c \in Card PROVE Seen(c) \in Type
BY DEF Seen, Card, Type

(* What one write of the format does *)
LEMMA WriteTypes ==
  ASSUME TypeOK, NEW c \in Written(card, part, n), card' \in Overwrites(c, part)
  PROVE  card' \in Card /\ card'.fits = card.fits
<1>1. c \in Card /\ c.fits = card.fits
  BY WritesAligned, WritesUnaligned DEF TypeOK
<1> QED
  BY <1>1, OverwritesOther

LEMMA TypeStep == TypeOK /\ [Next]_vars => TypeOK'
<1> SUFFICES ASSUME TypeOK, [Next]_vars PROVE TypeOK'
  OBVIOUS
<1> USE FatWritesAssumption DEF TypeOK
<1>1. CASE PowerOn
  BY <1>1 DEF PowerOn, format, driver
<1>2. CASE SD_Initialize
  BY <1>2 DEF SD_Initialize, BSP_SD_Init, Running, format
<1>3. CASE f_mount
  BY <1>3, SeenType DEF f_mount, Running, Created, format, Type
<1>4. CASE FATFS_SDDiskInit
  BY <1>4 DEF FATFS_SDDiskInit, Running, format, driver
<1>5. CASE f_mkfs
  BY <1>5, SeenType DEF f_mkfs, Running, driver, Type
<1>6. CASE FormatWrite
  <2>1. card' \in Card
    BY <1>6, WriteTypes DEF FormatWrite
  <2>2. part' \in 1 .. 4 /\ n' \in 0 .. FatWrites - 1
    BY <1>6 DEF FormatWrite, Layout, Last
  <2> QED
    BY <1>6, <2>1, <2>2 DEF FormatWrite, Running, driver
<1>7. CASE FormatFails
  <2>1. card' \in Card
    BY <1>7, WriteTypes DEF FormatFails
  <2> QED
    BY <1>7, <2>1 DEF FormatFails, Running, driver, Interrupted
<1>8. CASE find_volume
  <2>1. fs_type' \in Type /\ halted' \in BOOLEAN /\ fault' \in BOOLEAN
    BY <1>8, SeenType DEF find_volume, ReadVolume, Moves, Fails, Stops, Type
  <2>2. Stat' \in {"STA_NOINIT", "OK"}
    BY <1>8 DEF find_volume
  <2> QED
    BY <1>8, <2>1, <2>2 DEF find_volume, format
<1>9. CASE CardDetect
  BY <1>9 DEF CardDetect, format, driver
<1>10. CASE PowerCut
  <2>1. part' \in 1 .. 4 /\ n' \in 0 .. FatWrites - 1
    BY <1>10 DEF PowerCut, Off
  <2> QED
    BY <1>10, <2>1 DEF PowerCut, Off, Interrupted, Type
<1>11. CASE UNCHANGED vars
  BY <1>11 DEF vars, format, driver
<1> QED
  BY <1>1, <1>2, <1>3, <1>4, <1>5, <1>6, <1>7, <1>8, <1>9, <1>10, <1>11 DEF Next

(* What one write makes of the card, as far as a mount sees it *)
LEMMA WriteAligned ==
  ASSUME TypeOK, aligned, Parts, Sound, Mounted, pc = "format",
         NEW c \in Written(card, part, n), card' \in Overwrites(c, part)
  PROVE  /\ Sane(card')
         /\ card'.table = IF part = 4 THEN "own" ELSE card.table
         /\ card'.vbr = IF part = 1 THEN "new" ELSE card.vbr
         /\ card'.fat = IF part # 2 THEN card.fat
                        ELSE IF n = FatWrites - 1 THEN "new" ELSE "mixed"
         /\ card'.root = IF part = 3 THEN "new" ELSE card.root
         /\ had = "none" /\ part # 4 => Seen(card') = "none"
         /\ Seen(card) # "FAT32" /\ part # 4 => Seen(card') # "FAT32"
         /\ part = 4 => Seen(card') = "FAT32" /\ Whole(card')
<1>1. /\ c \in Card /\ c.kind = card.kind /\ c.other = card.other
      /\ c.table = IF part = 4 THEN "own" ELSE card.table
      /\ c.vbr = IF part = 1 THEN "new" ELSE card.vbr
      /\ c.fat = IF part # 2 THEN card.fat
                 ELSE IF n = FatWrites - 1 THEN "new" ELSE "mixed"
      /\ c.root = IF part = 3 THEN "new" ELSE card.root
  BY WritesAligned DEF TypeOK
<1>2. /\ card' \in Card /\ card'.kind = c.kind /\ card'.table = c.table
      /\ card'.vbr = c.vbr /\ card'.fat = c.fat /\ card'.root = c.root
      /\ \/ card'.other = c.other
         \/ c.other \in {"whole", "damaged"} /\ card'.other \in {"damaged", "gone"}
  BY <1>1, OverwritesOther
<1>3. Sane(card) /\ (part >= 2 => card.vbr = "new") /\ part \in 1 .. 4
  BY DEF Sound, Parts, TypeOK
<1>4. Sane(card')
  BY <1>1, <1>2, <1>3 DEF Sane
<1>5. part = 4 => Seen(card') = "FAT32" /\ Whole(card')
  BY <1>1, <1>2 DEF Parts, Seen, Whole
<1>6. part # 4 /\ Seen(card) # "FAT32" => card.table # "own"
  BY <1>3 DEF Sane, Seen
<1>7. ASSUME part # 4, Seen(card) # "FAT32"
      PROVE  Seen(card') \in {"none", Seen(card)}
  BY <1>1, <1>2, <1>6, <1>7 DEF Seen
<1>8. had = "none" => Seen(card) = "none"
  BY DEF Parts
<1> QED
  BY <1>1, <1>2, <1>4, <1>5, <1>7, <1>8

LEMMA WriteUnaligned ==
  ASSUME TypeOK, ~aligned, NEW c \in Written(card, part, n),
         card' \in Overwrites(c, part), Seen(card) # "FAT32"
  PROVE  Seen(card') # "FAT32"
<1>1. /\ c \in Card /\ c.kind = card.kind /\ c.other = card.other
      /\ c.table = card.table \/ c.table = "none"
      /\ c.vbr = card.vbr \/ c.vbr = "junk"
  BY WritesUnaligned DEF TypeOK
<1>2. /\ card' \in Card /\ card'.kind = c.kind /\ card'.table = c.table
      /\ card'.vbr = c.vbr
      /\ \/ card'.other = c.other
         \/ c.other \in {"whole", "damaged"} /\ card'.other \in {"damaged", "gone"}
  BY <1>1, OverwritesOther
<1> QED
  BY <1>1, <1>2 DEF Seen

LEMMA CardStep ==
  TypeOK /\ Parts /\ Sound /\ Mounted /\ [Next]_vars => Parts' /\ Sound' /\ Mounted'
<1> SUFFICES ASSUME TypeOK, Parts, Sound, Mounted, [Next]_vars
             PROVE  Parts' /\ Sound' /\ Mounted'
  OBVIOUS
<1> USE FatWritesAssumption
<1>1. ASSUME PowerOn \/ SD_Initialize \/ FATFS_SDDiskInit \/ CardDetect
             \/ UNCHANGED vars
      PROVE  Parts' /\ Sound' /\ Mounted'
  <2>1. /\ UNCHANGED <<card, aligned, part, had, fs_type, spoiled>>
        /\ pc' = "format" <=> pc = "format"
    BY <1>1 DEF PowerOn, SD_Initialize, FATFS_SDDiskInit, CardDetect, vars, Running, format
  <2> QED
    BY <2>1 DEF Parts, Sound, Mounted
<1>2. ASSUME f_mount \/ find_volume PROVE Parts' /\ Sound' /\ Mounted'
  <2>1. /\ UNCHANGED <<card, aligned, part, had, spoiled>>
        /\ pc' # "format" /\ pc # "format"
        /\ fs_type' \in {"none", Seen(card), fs_type}
    BY <1>2 DEF f_mount, find_volume, ReadVolume, Running, format
  <2> QED
    BY <2>1 DEF Parts, Sound, Mounted
<1>3. ASSUME f_mkfs PROVE Parts' /\ Sound' /\ Mounted'
  <2>1. /\ UNCHANGED <<card, aligned, part, spoiled>> /\ fs_type' = "none"
        /\ pc = "mkfs"
        /\ pc' = "format" => had' = Seen(card) /\ card.fits
        /\ pc' \in {"format", "server"}
    BY <1>3 DEF f_mkfs, Running
  <2> QED
    BY <2>1 DEF Parts, Sound, Mounted
<1>4. ASSUME FormatWrite PROVE Parts' /\ Sound' /\ Mounted'
  <2>0. /\ pc = "format" /\ UNCHANGED <<aligned, had, fs_type>>
        /\ fs_type = "none"
    BY <1>4 DEF FormatWrite, Running, Mounted
  <2>1. PICK c \in Written(card, part, n) : card' \in Overwrites(c, part)
    BY <1>4 DEF FormatWrite
  <2>2. CASE part = 4
    <3>1. pc' = "server" /\ part' = 1
      BY <1>4, <2>2 DEF FormatWrite, Last, Layout
    <3>2. aligned => Sane(card') /\ Whole(card')
      BY <2>0, <2>1, <2>2, WriteAligned
    <3> QED
      BY <2>0, <3>1, <3>2 DEF Parts, Sound, Mounted
  <2>3. CASE part # 4
    <3>1. part \in 1 .. 3 /\ n \in 0 .. FatWrites - 1
      BY <2>3 DEF TypeOK
    <3>2. /\ pc' = "format"
          /\ part' = IF part = 2 /\ n # FatWrites - 1 THEN 2 ELSE part + 1
      BY <1>4, <2>0, <3>1 DEF FormatWrite, Last, Layout
    <3>3. Parts'
      <4>1. card'.fits
        BY <2>0, <2>1, WriteTypes DEF Parts
      <4> QED
        BY <2>0, <2>1, <2>3, <3>1, <3>2, <4>1, WriteAligned DEF Parts
    <3>4. Sound'
      BY <2>0, <2>1, <3>2, WriteAligned DEF Sound
    <3>5. Mounted'
      BY <2>0 DEF Mounted
    <3> QED
      BY <3>3, <3>4, <3>5
  <2> QED
    BY <2>2, <2>3
<1>5. ASSUME FormatFails \/ PowerCut PROVE Parts' /\ Sound' /\ Mounted'
  <2>1. /\ UNCHANGED aligned /\ part' = 1 /\ pc' # "format"
        /\ fs_type' = "none" \/ (fs_type' = fs_type /\ card' = card)
        /\ pc # "format" => card' = card
        /\ ~spoiled' => ~spoiled /\ (pc = "format" => had = "none")
    BY <1>5 DEF FormatFails, PowerCut, Off, Interrupted, Running, Mounted
  <2>2. ASSUME pc = "format", aligned
        PROVE  Sane(card') /\ (had = "none" /\ Seen(card') # "none" => Whole(card'))
    <3>1. CASE card' = card
      BY <2>2, <3>1 DEF Sound, Parts
    <3>2. CASE \E c \in Written(card, part, n) : card' \in Overwrites(c, part)
      BY <2>2, <3>2, WriteAligned
    <3> QED
      BY <1>5, <3>1, <3>2 DEF FormatFails, PowerCut
  <2>3. Parts' /\ Mounted'
    BY <2>1 DEF Parts, Mounted
  <2>4. ASSUME aligned'
        PROVE  /\ Sane(card')
               /\ ~spoiled' /\ Seen(card') # "none" => Whole(card')
    <3>1. CASE pc = "format"
      BY <2>1, <2>2, <2>4, <3>1
    <3>2. CASE pc # "format"
      BY <2>1, <2>4, <3>2 DEF Sound
    <3> QED
      BY <3>1, <3>2
  <2> QED
    BY <2>3, <2>4 DEF Sound
<1> QED
  BY <1>1, <1>2, <1>3, <1>4, <1>5 DEF Next

LEMMA FaultStep ==
  TypeOK /\ Parts /\ Sound /\ Mounted /\ Faultless /\ [Next]_vars => Faultless'
<1> SUFFICES ASSUME TypeOK, Parts, Sound, Mounted, Faultless, [Next]_vars, ~fault'
             PROVE  Faultless'
  BY DEF Faultless
<1> USE FatWritesAssumption
<1>1. ASSUME PowerOn \/ SD_Initialize \/ PowerCut PROVE Faultless'
  BY <1>1 DEF PowerOn, SD_Initialize, PowerCut, Off, Faultless
<1>2. ASSUME CardDetect \/ UNCHANGED vars PROVE Faultless'
  BY <1>2 DEF CardDetect, vars, driver, Faultless
<1>3. ASSUME f_mount PROVE Faultless'
  <2>1. /\ pc' = "check" /\ Stat' = "OK" /\ SDQueueID'
        /\ fs_type' = Seen(card) /\ card' = card
    BY <1>3 DEF f_mount, Created
  <2> QED
    BY <2>1 DEF Faultless
<1>4. ASSUME FATFS_SDDiskInit PROVE Faultless'
  <2>1. /\ pc = "check" /\ UNCHANGED <<card, aligned, SDQueueID, Stat, fs_type, fault>>
    BY <1>4 DEF FATFS_SDDiskInit, Running, driver
  <2>2. /\ pc' = IF fs_type = "FAT32" THEN "server" ELSE "mkfs"
        /\ pc' = "mkfs" => ~isFsCreated'
    <3>1. CASE fs_type = "FAT32"
      BY <1>4, <3>1 DEF FATFS_SDDiskInit
    <3>2. CASE fs_type # "FAT32"
      BY <1>4, <3>2 DEF FATFS_SDDiskInit
    <3> QED
      BY <3>1, <3>2
  <2> QED
    BY <2>1, <2>2 DEF Faultless
<1>5. ASSUME f_mkfs PROVE Faultless'
  <2>1. /\ pc = "mkfs" /\ ~fault
        /\ UNCHANGED <<card, aligned, Stat, SDQueueID, isFsCreated, fault>>
    BY <1>5 DEF f_mkfs, Running, driver
  <2>2. SDQueueID /\ Stat = "OK" /\ Seen(card) # "FAT32" /\ ~isFsCreated
    BY <2>1 DEF Faultless
  <2>3. pc' = IF card.fits THEN "format" ELSE "server"
    <3>1. CASE card.fits
      BY <1>5, <2>2, <3>1 DEF f_mkfs
    <3>2. CASE ~card.fits
      BY <1>5, <2>2, <3>2 DEF f_mkfs
    <3> QED
      BY <3>1, <3>2
  <2> QED
    BY <2>1, <2>2, <2>3 DEF Faultless
<1>6. ASSUME FormatWrite PROVE Faultless'
  <2>0. /\ pc = "format" /\ ~fault /\ UNCHANGED <<aligned, SDQueueID>>
        /\ Seen(card) # "FAT32" /\ SDQueueID
    BY <1>6 DEF FormatWrite, Running, driver, Faultless
  <2>1. PICK c \in Written(card, part, n) : card' \in Overwrites(c, part)
    BY <1>6 DEF FormatWrite
  <2>2. CASE part = 4
    <3>1. pc' = "server"
      BY <1>6, <2>2 DEF FormatWrite, Last, Layout
    <3>2. aligned => Seen(card') = "FAT32"
      BY <2>0, <2>1, <2>2, WriteAligned
    <3> QED
      BY <2>0, <3>1, <3>2 DEF Faultless
  <2>3. CASE part # 4
    <3>1. pc' = "format"
      BY <1>6, <2>0, <2>3 DEF FormatWrite, Last, Layout, TypeOK
    <3>2. Seen(card') # "FAT32"
      BY <2>0, <2>1, <2>3, WriteAligned, WriteUnaligned
    <3> QED
      BY <2>0, <3>1, <3>2 DEF Faultless
  <2> QED
    BY <2>2, <2>3
<1>7. ASSUME FormatFails PROVE Faultless'
  BY <1>7 DEF FormatFails
<1>8. ASSUME find_volume PROVE Faultless'
  <2>1. /\ pc = "server" /\ pc' = "server"
        /\ UNCHANGED <<card, aligned, SDQueueID, isFsCreated>>
        /\ ~fault
    BY <1>8 DEF find_volume, Running, ReadVolume, Moves, Fails, Stops
  <2> QED
    BY <2>1 DEF Faultless
<1> QED
  BY <1>1, <1>2, <1>3, <1>4, <1>5, <1>6, <1>7, <1>8 DEF Next

LEMMA Invariance == Spec => []IInv
<1>1. IInv /\ [Next]_vars => IInv'
  BY TypeStep, CardStep, FaultStep DEF IInv
<1> QED
  BY InitEstablishes, <1>1, PTL DEF Spec

-----------------------------------------------------------------------------
(* The state of card, driver and mount keeps its type, for every number of writes
   that fill the FAT. *)
THEOREM MountTypes == Spec => []TypeOK
BY Invariance, PTL DEF IInv

(* What is mounted is a sound volume, whatever was cut off before. *)
THEOREM MountsWhole == Spec => []MountedIsWhole
<1>1. IInv => MountedIsWhole
  BY DEF IInv, Sound, Mounted, MountedIsWhole
<1> QED
  BY Invariance, <1>1, PTL

(* A boot without a fault leaves a FAT32 volume, or a card that f_mkfs refused for
   its size, with isFsCreated still clear. *)
THEOREM BootsRecover == Spec => []BootRecovers
<1>1. IInv => BootRecovers
  BY DEF IInv, Sound, Faultless, BootRecovers
<1> QED
  BY Invariance, <1>1, PTL

(* A card that f_mkfs refuses for its size is not written at all; without a fault
   no FAT32 volume is written over. *)
THEOREM Fat32Spared == Spec => SparesFat32
<1>1. IInv /\ [Next]_vars
        => [card' # card => card.fits /\ (Seen(card) = "FAT32" => fault)]_vars
  <2> SUFFICES ASSUME IInv, Next, card' # card
               PROVE  card.fits /\ (~fault => Seen(card) # "FAT32")
    BY DEF vars
  <2>1. pc = "format"
    BY DEF Next, PowerOn, SD_Initialize, f_mount, FATFS_SDDiskInit, f_mkfs, FormatWrite,
           FormatFails, find_volume, CardDetect, PowerCut, Running
  <2> QED
    BY <2>1 DEF IInv, Parts, Faultless
<1> QED
  BY Invariance, <1>1, PTL DEF SparesFat32, Spec

(* Without a fault nothing but a card that is pulled or plugged stops the
   processor. *)
THEOREM OnlyCardDetectStops == Spec => StopsOnlyAfterFault
<1>1. IInv /\ [Next]_vars
        => [halted' /\ ~halted => present' # present \/ fault]_vars
  <2> SUFFICES ASSUME IInv, Next, halted', ~halted, ~fault PROVE present' # present
    BY DEF vars
  <2>1. CASE find_volume
    <3>1. SDQueueID
      BY <2>1 DEF find_volume, Running, IInv, Faultless
    <3> QED
      BY <2>1, <3>1 DEF find_volume, ReadVolume, Moves, Fails, Stops
  <2>2. CASE CardDetect
    BY <2>2 DEF CardDetect, IInv, TypeOK
  <2>3. CASE ~find_volume /\ ~CardDetect
    BY <2>3 DEF Next, PowerOn, SD_Initialize, f_mount, FATFS_SDDiskInit, f_mkfs,
                FormatWrite, FormatFails, PowerCut, Off
  <2> QED
    BY <2>1, <2>2, <2>3
<1> QED
  BY Invariance, <1>1, PTL DEF StopsOnlyAfterFault, Spec
===============================================================================
