------------------------------- MODULE SDMount -------------------------------
(***************************************************************************)
(* How Src/fatfs.c brings the card into use: MX_FATFS_Init mounts it, and    *)
(* formats it if that does not yield a FAT32 volume; later calls on files    *)
(* mount again when FatFs finds the volume gone.  Power may be cut, and the  *)
(* card pulled or plugged, between any two steps; any transfer may fail.     *)
(*                                                                         *)
(* Of the card's contents there is what a mount looks at and what must agree *)
(* on a sound volume.  The volume that f_mkfs makes begins at sector 63; a   *)
(* card that another system prepared has its volume elsewhere.               *)
(***************************************************************************)
EXTENDS Naturals, Sequences

CONSTANT FatWrites   (* writes that fill the FAT, two sectors at a time *)

ASSUME FatWritesAssumption == FatWrites \in Nat /\ FatWrites >= 2

VARIABLES
  card,        (* the contents, which outlive the power *)
  present,     (* a card is in the slot *)
  aligned,     (* the linker put workBuffer on a 4-byte boundary *)
  pc,
  part, n,     (* f_mkfs: what it writes next, and how often it has *)
  detectIT,    (* the card-detect interrupt is enabled *)
  halted,      (* configASSERT failed in an interrupt *)
  usable,      (* the HAL has identified the card and transfers blocks *)
  isInit, Stat, SDQueueID,    (* diskio.c's flag; the driver's state *)
  fs_type, isFsCreated,
  (* history: something has failed since power-on; what the card held when the
     format began; a format over a volume was not completed *)
  fault, had, spoiled

driver == <<usable, isInit, Stat, SDQueueID>>
format == <<part, n, had>>
vars == <<card, present, aligned, pc, format, detectIT, halted, driver,
          fs_type, isFsCreated, fault, spoiled>>

Type == {"none", "FAT16", "FAT32"}

(* table is sector 0: no signature, the volume at sector 63, or a volume
   elsewhere.  The rest is the volume at 63, each part left from another use of
   the card, of an earlier volume, partly or wholly of the present one; the
   state of the volume elsewhere; and whether the card is of a size that f_mkfs
   accepts for FAT32. *)
Card == [table : {"none", "own", "other"}, vbr : {"junk", "old", "new"},
         fat : {"junk", "old", "mixed", "new"}, root : {"junk", "old", "new"},
         kind : Type, other : {"none", "whole", "damaged", "gone"}, fits : BOOLEAN]

Prepared(table, left, kind, other, fits) ==
  [table |-> table, vbr |-> left, fat |-> left, root |-> left, kind |-> kind,
   other |-> other, fits |-> fits]
Blank(fits) == Prepared("none", "junk", "none", "none", fits)
Foreign(type, fits) == Prepared("other", "junk", type, "whole", fits)
Own == Prepared("own", "old", "none", "none", TRUE)

(* The cards one may plug in *)
Factory ==
  {Own} \cup {Blank(fits) : fits \in BOOLEAN}
        \cup {Foreign(type, fits) : type \in {"FAT16", "FAT32"}, fits \in BOOLEAN}

TypeOK ==
  /\ card \in Card /\ present \in BOOLEAN /\ aligned \in BOOLEAN
  /\ pc \in {"off", "boot", "mount", "check", "mkfs", "format", "server"}
  /\ part \in 1 .. 4 /\ n \in 0 .. FatWrites - 1
  /\ detectIT \in BOOLEAN /\ halted \in BOOLEAN
  /\ usable \in BOOLEAN /\ isInit \in BOOLEAN /\ SDQueueID \in BOOLEAN
  /\ Stat \in {"STA_NOINIT", "OK"}
  /\ fs_type \in Type /\ isFsCreated \in BOOLEAN
  /\ fault \in BOOLEAN /\ had \in Type /\ spoiled \in BOOLEAN

-----------------------------------------------------------------------------
(* What find_volume makes of the card when it can read it *)
Seen(c) ==
  CASE c.table = "own" /\ c.vbr # "junk" -> "FAT32"
    [] c.table = "other" /\ c.other \in {"whole", "damaged"} -> c.kind
    [] OTHER -> "none"

(* The volume it finds has the FAT and the directory that belong together.
   f_mkfs makes the same boot sector of the same card every time. *)
Whole(c) == IF c.table = "own" THEN c.fat = c.root /\ c.fat # "junk"
                               ELSE c.other = "whole"

(* f_mkfs writes the boot sector, the FAT, the root directory and, last, the
   partition table.  FSINFO and the copy of the boot sector, of which it
   ignores the results, are left out. *)
Layout_TableFirst == <<"table", "vbr", "fat", "root">>
Layout == <<"vbr", "fat", "root", "table">>

Last_OneMore(p, k) == Layout[p] # "fat" \/ k = FatWrites
Last(p, k) == Layout[p] # "fat" \/ k = FatWrites - 1

(* A write of workBuffer.  Unless it is aligned the driver writes its scratch
   block instead: anything that was read before. *)
Written(c, p, k) ==
  IF aligned
  THEN {[c EXCEPT ![Layout[p]] = IF Layout[p] = "table" THEN "own"
                                 ELSE IF Last(p, k) THEN "new" ELSE "mixed"]}
  ELSE IF Layout[p] = "table" THEN {c, [c EXCEPT !.table = "none"]}
       ELSE {c, [c EXCEPT ![Layout[p]] = "junk"]}

(* The FAT and the directory may lie over the volume elsewhere. *)
Overwrites(c, p) ==
  IF c.other \in {"whole", "damaged"} /\ Layout[p] \in {"fat", "root"}
  THEN {c, [c EXCEPT !.other = "damaged"], [c EXCEPT !.other = "gone"]}
  ELSE {c}

-----------------------------------------------------------------------------
Off ==
  /\ pc' = "off"
  /\ part' = 1 /\ n' = 0 /\ had' = "none"
  /\ detectIT' = FALSE /\ halted' = FALSE
  /\ usable' = FALSE /\ isInit' = FALSE /\ Stat' = "STA_NOINIT" /\ SDQueueID' = FALSE
  /\ fs_type' = "none" /\ isFsCreated' = FALSE /\ fault' = FALSE

Init ==
  /\ card \in Factory /\ present \in BOOLEAN /\ aligned \in BOOLEAN
  /\ pc = "off"
  /\ part = 1 /\ n = 0 /\ had = "none"
  /\ detectIT = FALSE /\ halted = FALSE
  /\ usable = FALSE /\ isInit = FALSE /\ Stat = "STA_NOINIT" /\ SDQueueID = FALSE
  /\ fs_type = "none" /\ isFsCreated = FALSE
  /\ fault = FALSE /\ spoiled = FALSE

PowerOn ==
  /\ pc = "off" /\ pc' = "boot"
  /\ UNCHANGED <<card, present, aligned, format, detectIT, halted, driver, fs_type,
                 isFsCreated, fault, spoiled>>

Running(p) == pc = p /\ ~halted

(* BSP_SD_Init finds the card or not; it may fail after identifying it. *)
BSP_SD_Init(ok) ==
  /\ ok => present
  /\ usable' \in (IF ok THEN {TRUE} ELSE IF present THEN BOOLEAN ELSE {usable})
  /\ fault' = (fault \/ ~ok)

SD_Initialize ==
  /\ Running("boot") /\ pc' = "mount"
  /\ \E ok \in BOOLEAN : BSP_SD_Init(ok)
  /\ detectIT' = TRUE
  /\ UNCHANGED <<card, present, aligned, format, halted, isInit, Stat, SDQueueID,
                 fs_type, isFsCreated, spoiled>>

(* A transfer fails, or completes; its completion is posted to the driver's
   queue, and without one the interrupt stops the processor. *)
Fails == fault' = TRUE /\ UNCHANGED halted
Moves == usable /\ SDQueueID /\ UNCHANGED <<halted, fault>>
Stops == usable /\ ~SDQueueID /\ halted' = TRUE /\ UNCHANGED fault

(* The sectors of find_volume are read.  Only then is a volume mounted. *)
ReadVolume ==
  \/ Moves /\ fs_type' = Seen(card)
  \/ (Fails \/ Stops) /\ fs_type' = "none"

Created_Inverted(ok) == ok /\ SDQueueID
Created(ok) == ok \/ SDQueueID

(* f_mount with disk_initialize: SD_initialize sets Stat and makes the queue.
   The flag is set whatever comes of it. *)
f_mount ==
  /\ Running("mount") /\ pc' = "check" /\ isInit' = TRUE
  /\ \E ok \in BOOLEAN :
       /\ ok => present
       /\ Stat' = IF ok THEN "OK" ELSE "STA_NOINIT"
       /\ SDQueueID' = Created(ok)
       /\ usable' \in (IF ok THEN {TRUE} ELSE IF present THEN BOOLEAN ELSE {usable})
       /\ \/ ok /\ fs_type' = Seen(card) /\ UNCHANGED fault
          \/ fs_type' = "none" /\ fault' = TRUE
  /\ UNCHANGED <<card, present, aligned, format, detectIT, halted, isFsCreated, spoiled>>

FATFS_SDDiskInit_AnyVolume ==
  /\ Running("check")
  /\ isFsCreated' = (fs_type # "none")
  /\ pc' = IF isFsCreated' THEN "server" ELSE "mkfs"
  /\ UNCHANGED <<card, present, aligned, format, detectIT, halted, driver, fs_type,
                 fault, spoiled>>
FATFS_SDDiskInit_Fat16 ==
  /\ Running("check")
  /\ isFsCreated' = (fs_type = "FAT16")
  /\ pc' = IF isFsCreated' THEN "server" ELSE "mkfs"
  /\ UNCHANGED <<card, present, aligned, format, detectIT, halted, driver, fs_type,
                 fault, spoiled>>
FATFS_SDDiskInit ==
  /\ Running("check")
  /\ isFsCreated' = (fs_type = "FAT32")
  /\ pc' = IF isFsCreated' THEN "server" ELSE "mkfs"
  /\ UNCHANGED <<card, present, aligned, format, detectIT, halted, driver, fs_type,
                 fault, spoiled>>

(* disk_initialize answers RES_OK unread, but the size of the card is refused
   when the driver is not initialised; and of a card that is too small for
   FAT32, FR_MKFS_ABORTED is returned before anything is written. *)
f_mkfs ==
  /\ Running("mkfs")
  /\ fs_type' = "none"
  /\ IF Stat = "OK" /\ card.fits THEN pc' = "format" /\ had' = Seen(card)
                                  ELSE pc' = "server" /\ UNCHANGED had
  /\ UNCHANGED <<card, present, aligned, part, n, detectIT, halted, driver,
                 isFsCreated, fault, spoiled>>

Interrupted == spoiled' = (spoiled \/ had # "none")

(* disk_write of the next sectors *)
FormatWrite ==
  /\ Running("format") /\ usable
  /\ \E c \in Written(card, part, n) : card' \in Overwrites(c, part)
  /\ IF ~Last(part, n) THEN n' = n + 1 /\ UNCHANGED <<pc, part, isFsCreated, spoiled>>
     ELSE /\ n' = 0
          /\ IF part < Len(Layout)
             THEN part' = part + 1 /\ UNCHANGED <<pc, isFsCreated, spoiled>>
             ELSE /\ part' = 1 /\ pc' = "server" /\ isFsCreated' = TRUE
                  /\ spoiled' = FALSE
  /\ UNCHANGED <<present, aligned, had, detectIT, halted, driver, fs_type, fault>>

(* The write fails, having reached the card or not. *)
FormatFails ==
  /\ Running("format")
  /\ \/ UNCHANGED card
     \/ usable /\ \E c \in Written(card, part, n) : card' \in Overwrites(c, part)
  /\ pc' = "server" /\ part' = 1 /\ n' = 0
  /\ Interrupted /\ fault' = TRUE
  /\ UNCHANGED <<present, aligned, had, detectIT, halted, driver, fs_type, isFsCreated>>

(* A call on a file: find_volume asks for the status of a mounted volume, and
   mounts it if it is not mounted or the card does not answer. *)
find_volume ==
  /\ Running("server")
  /\ \E stat \in {"STA_NOINIT"} \cup (IF present THEN {"OK"} ELSE {}) :
       IF fs_type = "none" THEN ReadVolume /\ UNCHANGED Stat
       ELSE /\ Stat' = stat
            /\ IF stat = "OK" THEN UNCHANGED <<halted, fault, fs_type>> ELSE ReadVolume
  /\ UNCHANGED <<card, present, aligned, pc, format, detectIT, usable, isInit,
                 SDQueueID, isFsCreated, spoiled>>

(* The slot changes.  HAL_GPIO_EXTI_Callback posts to ConnectionEvent, which
   nobody has created. *)
CardDetect ==
  /\ ~halted
  /\ present' = ~present
  /\ halted' = detectIT
  /\ UNCHANGED <<card, aligned, pc, format, detectIT, driver, fs_type, isFsCreated,
                 fault, spoiled>>

PowerCut ==
  /\ pc # "off" /\ Off
  /\ IF pc = "format" THEN Interrupted ELSE UNCHANGED spoiled
  /\ UNCHANGED <<card, present, aligned>>

Next ==
  \/ PowerOn \/ SD_Initialize \/ f_mount \/ FATFS_SDDiskInit \/ f_mkfs
  \/ FormatWrite \/ FormatFails \/ find_volume \/ CardDetect \/ PowerCut

Spec == Init /\ [][Next]_vars

-----------------------------------------------------------------------------
(* What should hold *)

(* A volume that is mounted is sound, whatever pulls, power cuts and failed
   formats the card has been through; but for a format that was broken off over
   a volume that was there, which a mount cannot tell from a sound one.  The
   partition table is written last for this. *)
MountedIsWhole == fs_type # "none" /\ aligned /\ ~spoiled => Whole(card)

(* A boot in which nothing fails leaves a FAT32 volume on the card, so that a
   format that was broken off is made good; but for a card of a size that f_mkfs
   refuses, with which the program goes on as well, and knows only by isFsCreated
   that it has none (fatfs.c:472-481). *)
BootRecovers ==
  pc = "server" /\ ~fault /\ aligned =>
    \/ Seen(card) = "FAT32" /\ (spoiled \/ Whole(card))
    \/ ~card.fits /\ ~isFsCreated

(* A card is written only if a FAT32 volume can be made of it, and over a FAT32
   volume only in a boot in which something failed. *)
SparesFat32 ==
  [][card' # card => card.fits /\ (Seen(card) = "FAT32" => fault)]_vars

(* The completion interrupt finds the driver's queue in every boot in which
   nothing has failed yet; what stops the processor (queue.c:929 configASSERT) is
   then only a card that is pulled or plugged, whose interrupt posts to a queue
   that nobody creates.  diskio.c:99 marks the drive initialised before it is, so
   that a mount after a failed one transfers without the queue. *)
StopsOnlyAfterFault ==
  [][halted' /\ ~halted => present' # present \/ fault]_vars
===============================================================================
