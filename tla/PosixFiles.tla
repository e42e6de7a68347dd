------------------------------ MODULE PosixFiles ------------------------------
(***************************************************************************)
(* The POSIX layer of fatfs_wrapper.c over FatFs: the table of descriptors,  *)
(* the file objects it allocates, and FatFs's table of open files, Files,    *)
(* by which f_open, f_unlink and f_rename refuse what would corrupt a file   *)
(* that is open.                                                            *)
(*                                                                         *)
(* A call of FatFs runs under the lock of the volume and is one step; the    *)
(* calls of the wrapper are several.  Any of them may find the card busy or  *)
(* gone, the volume in need of a mount, the transfer failing, or the volume  *)
(* lock taken for longer than _FS_TIMEOUT by another task's call (a wait of  *)
(* the disk driver lasts thirty times as long).  The sections of the wrapper *)
(* under filehandle_mutex neither wait nor fail and are one step each.       *)
(* Contents of files are not modelled.                                      *)
(***************************************************************************)
EXTENDS Naturals, FiniteSets

CONSTANTS
  Task,       (* tasks that use files; httpserver in this build *)
  Fd,         (* the descriptors that are no terminal: 3 .. FOPEN_MAX - 1 *)
  File,       (* names of files *)
  SubDir,     (* directories other than the root *)
  FS_LOCK,    (* _FS_LOCK of ffconf.h *)
  MaxReaders, (* bound: opens for reading counted in one entry; the counter of
                 the code would run into WriteMode after 255 *)
  None

ASSUME PosixAssumption ==
  /\ FS_LOCK \in Nat /\ MaxReaders \in 1 .. 255
  /\ Fd \cap Task = {} /\ File \cap SubDir = {}
  /\ None \notin Fd \cup Task \cup File \cup SubDir
  /\ IsFiniteSet(Fd) /\ IsFiniteSet(Task)

VARIABLES
  (* file objects by the descriptor they belong to; those of truncate() live
     on the stack of its task *)
  fil,
  owner,      (* the task that was given a descriptor *)
  dp,         (* _dp, the one directory object *)
  Files, mounted,
  exists,     (* the files in the directories of the card *)
  pc, fileno, req,
  (* history: objects whose entry in Files was left behind since the mount *)
  leaked

vars == <<fil, owner, dp, Files, mounted, exists, pc, fileno, req, leaked>>

Key == File \cup SubDir
Handle == Fd \cup Task

(* Modes of f_open as fat_open makes them of the flags: O_RDONLY, O_RDWR, and
   with O_CREAT | O_TRUNC, with O_CREAT | O_APPEND.  Without O_APPEND the file
   pointer is not moved. *)
Mode == {"read", "update", "create", "append"}
Writes(m) == m # "read"
Creates(m) == m \in {"create", "append"}

NoReq == [key |-> None, mode |-> "read"]

WriteMode == 256   (* 0x100 *)

(* A file or directory object: no memory; memory that validate() refuses, as its
   obj.fs is 0 or its obj.id that of an earlier mount; open *)
FIL == [st : {"null", "blank", "open"}, key : Key \cup {None},
        w : BOOLEAN, lockid : 0 .. FS_LOCK]
Closed(st) == [st |-> st, key |-> None, w |-> FALSE, lockid |-> 0]
NoFil == Closed("null")
BlankFil == Closed("blank")

FILESEM == [key : Key \cup {None}, ctr : (0 .. MaxReaders) \cup {WriteMode}]
NoEntry == [key |-> None, ctr |-> 0]

TypeOK ==
  /\ fil \in [Handle -> FIL]
  /\ owner \in [Fd -> Task \cup {None}]
  /\ dp \in FIL
  /\ Files \in [1 .. FS_LOCK -> FILESEM]
  /\ mounted \in BOOLEAN
  /\ exists \in SUBSET File
  /\ pc \in [Task -> {"idle", "open", "append", "sync", "unlock", "free", "truncate"}]
  /\ fileno \in [Task -> Fd \cup {None}]
  /\ req \in [Task -> [key : File \cup {None}, mode : Mode]]
  /\ leaked \in SUBSET Key

-----------------------------------------------------------------------------
(* The table of open files *)

Entries(L, k) == {i \in DOMAIN L : L[i].key = k}
EntryOf(L, k) == CHOOSE i \in Entries(L, k) : TRUE
FirstBlank(L) == CHOOSE i \in Entries(L, None) : \A j \in Entries(L, None) : i <= j

enq_lock(L) == Entries(L, None) # {}

chk_lock_DeleteOpen(L, k, acc) ==
  IF Entries(L, k) = {}
  THEN IF enq_lock(L) \/ acc = 2 THEN "OK" ELSE "TOO_MANY_OPEN_FILES"
  ELSE IF acc = 1 \/ L[EntryOf(L, k)].ctr = WriteMode THEN "LOCKED" ELSE "OK"

(* acc is 0 to read, 1 to write, 2 to delete or rename *)
chk_lock(L, k, acc) ==
  IF Entries(L, k) = {}
  THEN IF enq_lock(L) \/ acc = 2 THEN "OK" ELSE "TOO_MANY_OPEN_FILES"
  ELSE IF acc # 0 \/ L[EntryOf(L, k)].ctr = WriteMode THEN "LOCKED" ELSE "OK"

LockFor_New(L, k, w) == IF enq_lock(L) THEN FirstBlank(L) ELSE 0

(* The entry that inc_lock takes, 0 if there is none to take *)
LockFor(L, k, w) ==
  IF Entries(L, k) # {}
  THEN IF w /\ L[EntryOf(L, k)].ctr # 0 THEN 0 ELSE EntryOf(L, k)
  ELSE IF enq_lock(L) THEN FirstBlank(L) ELSE 0

(* The bound on readers *)
Countable(L, k, w) == w \/ L[LockFor(L, k, w)].ctr < MaxReaders

inc_lock(L, k, w) ==
  [L EXCEPT ![LockFor(L, k, w)] =
     [key |-> k, ctr |-> IF w THEN WriteMode ELSE @.ctr + 1]]

dec_lock(L, i) ==
  [L EXCEPT ![i] = IF @.ctr \in {1, WriteMode} THEN NoEntry
                   ELSE [key |-> @.key, ctr |-> @.ctr - 1]]

clear_lock == [i \in 1 .. FS_LOCK |-> NoEntry]

-----------------------------------------------------------------------------
(* Entering a call of FatFs *)

Waiting(t) == \E u \in Task \ {t} : pc[u] # "idle"

(* What find_volume may come to: the volume is mounted and the card answers;
   it is mounted again; that fails; the volume lock is not to be had *)
Volume(t) == {"remount", "gone"} \cup (IF mounted THEN {"ok"} ELSE {})
                                 \cup (IF Waiting(t) THEN {"timeout"} ELSE {})

Aged_NoId(f) == f

(* obj.id no longer is the mount's. *)
Aged(f) == IF f.st = "open" THEN BlankFil ELSE f

(* The tables as the call finds them after find_volume *)
LocksAfter(v) == IF v = "remount" THEN clear_lock ELSE Files
FilAfter(v) == IF v = "remount" THEN [h \in Handle |-> Aged(fil[h])] ELSE fil
DirAfter(v) == IF v = "remount" THEN Aged(dp) ELSE dp
LeakedAfter(v) == IF v = "remount" THEN {} ELSE leaked

find_volume(v) == mounted' = (v = "remount" \/ (v # "gone" /\ mounted))

Entered(v) == v \in {"ok", "remount"}

(* validate() succeeds, as far as it can be foreseen *)
Valid(f) == f.st = "open" /\ mounted

-----------------------------------------------------------------------------
(* f_open *)

Accessible(L, k, m) ==
  IF k \in exists THEN chk_lock(L, k, IF Writes(m) THEN 1 ELSE 0) = "OK"
                  ELSE Creates(m) /\ enq_lock(L)

Opened(v, h, k, m) ==
  LET L == LocksAfter(v)
      i == LockFor(L, k, Writes(m))
  IN /\ Entered(v) /\ Accessible(L, k, m) /\ i # 0 /\ Countable(L, k, Writes(m))
     /\ Files' = inc_lock(L, k, Writes(m))
     /\ fil' = [FilAfter(v) EXCEPT ![h] =
                  [st |-> "open", key |-> k, w |-> Writes(m), lockid |-> i]]
     /\ exists' = exists \cup {k}
     /\ leaked' = LeakedAfter(v)

(* An error; a new file may have got its entry in the directory before it.  f is
   what is left of the file object. *)
NotOpened(v, h, k, m, f) ==
  /\ Files' = LocksAfter(v)
  /\ fil' = [FilAfter(v) EXCEPT ![h] = f]
  /\ leaked' = LeakedAfter(v)
  /\ exists' \in {exists} \cup
       (IF Entered(v) /\ Creates(m) /\ Accessible(LocksAfter(v), k, m)
        THEN {exists \cup {k}} ELSE {})

(* An error while seeking to the end, after the file was locked *)
OpenedInVain(v, h, k, m) ==
  LET L == LocksAfter(v)
  IN /\ Entered(v) /\ Accessible(L, k, m) /\ LockFor(L, k, Writes(m)) # 0
     /\ m = "append"
     /\ Files' = inc_lock(L, k, Writes(m))
     /\ fil' = [FilAfter(v) EXCEPT ![h] = BlankFil]
     /\ exists' = exists \cup {k}
     /\ leaked' = LeakedAfter(v) \cup {k}

-----------------------------------------------------------------------------
Init ==
  /\ fil = [h \in Handle |-> NoFil]
  /\ owner = [d \in Fd |-> None]
  /\ dp = BlankFil
  /\ Files = clear_lock
  /\ mounted \in BOOLEAN
  /\ exists \in SUBSET File
  /\ pc = [t \in Task |-> "idle"]
  /\ fileno = [t \in Task |-> None]
  /\ req = [t \in Task |-> NoReq]
  /\ leaked = {}

Goto(t, p) == pc' = [pc EXCEPT ![t] = p]

(* fat_open: new_file_descriptor takes the first free slot and allocates; if
   there is none the call returns ENFILE and nothing changes. *)
fat_open(t, k, m) ==
  /\ pc[t] = "idle"
  /\ \E d \in Fd :
       /\ fil[d].st = "null"
       /\ fil' = [fil EXCEPT ![d] = BlankFil]
       /\ fileno' = [fileno EXCEPT ![t] = d]
  /\ req' = [req EXCEPT ![t] = [key |-> k, mode |-> m]]
  /\ Goto(t, "open")
  /\ UNCHANGED <<owner, dp, Files, mounted, exists, leaked>>

Done(t) ==
  /\ Goto(t, "idle")
  /\ fileno' = [fileno EXCEPT ![t] = None]
  /\ req' = [req EXCEPT ![t] = NoReq]

(* The descriptor goes to the caller. *)
Return(t) == Done(t) /\ owner' = [owner EXCEPT ![fileno[t]] = t]

f_open(t) ==
  /\ pc[t] = "open"
  /\ \E v \in Volume(t) :
       /\ find_volume(v) /\ dp' = DirAfter(v)
       /\ \/ /\ Opened(v, fileno[t], req[t].key, req[t].mode)
             /\ IF req[t].mode = "append"
                THEN Goto(t, "append") /\ UNCHANGED <<owner, fileno, req>>
                ELSE Return(t)
          \/ /\ \/ NotOpened(v, fileno[t], req[t].key, req[t].mode, BlankFil)
                \/ OpenedInVain(v, fileno[t], req[t].key, req[t].mode)
             /\ Goto(t, "free") /\ UNCHANGED <<owner, fileno, req>>

(* The second seek to the end, by fat_open itself; if it fails, f_close *)
AppendSeek(t) ==
  /\ pc[t] = "append"
  /\ \/ Valid(fil[fileno[t]]) /\ Return(t)
     \/ Goto(t, "sync") /\ UNCHANGED <<owner, fileno, req>>
  /\ UNCHANGED <<fil, dp, Files, mounted, exists, leaked>>

fat_close(t, d) ==
  /\ pc[t] = "idle" /\ owner[d] = t
  /\ owner' = [owner EXCEPT ![d] = None]
  /\ fileno' = [fileno EXCEPT ![t] = d]
  /\ Goto(t, "sync")
  /\ UNCHANGED <<fil, dp, Files, mounted, exists, req, leaked>>

(* The object of a call is given up with its entry still in the table. *)
Forsaken(f) == IF f.st = "open" THEN {f.key} ELSE {}

(* f_sync within f_close; whatever fails, f_close returns at once. *)
CloseSync(t) ==
  /\ pc[t] = "sync"
  /\ \/ /\ Valid(fil[fileno[t]])
        /\ Goto(t, "unlock") /\ UNCHANGED leaked
     \/ /\ Goto(t, "free")
        /\ leaked' = leaked \cup Forsaken(fil[fileno[t]])
  /\ UNCHANGED <<fil, owner, dp, Files, mounted, exists, fileno, req>>

(* f_close takes the volume lock a second time. *)
CloseUnlock(t) ==
  LET d == fileno[t]
  IN /\ pc[t] = "unlock" /\ Goto(t, "free")
     /\ \/ /\ Valid(fil[d])
           /\ Files' = dec_lock(Files, fil[d].lockid)
           /\ fil' = [fil EXCEPT ![d] = BlankFil]
           /\ UNCHANGED leaked
        \/ /\ leaked' = leaked \cup Forsaken(fil[d])
           /\ UNCHANGED <<Files, fil>>
     /\ UNCHANGED <<owner, dp, mounted, exists, fileno, req>>

free_file_descriptor_Dangling(t) ==
  /\ pc[t] = "free" /\ Done(t)
  /\ UNCHANGED <<fil, owner, dp, Files, mounted, exists, leaked>>

free_file_descriptor(t) ==
  /\ pc[t] = "free" /\ Done(t)
  /\ fil' = [fil EXCEPT ![fileno[t]] = NoFil]
  /\ UNCHANGED <<owner, dp, Files, mounted, exists, leaked>>

(* truncate(): opens a file object of its own and never closes it. *)
truncate(t, k) ==
  /\ pc[t] = "idle"
  /\ \E v \in Volume(t) :
       /\ find_volume(v) /\ dp' = DirAfter(v)
       /\ \/ Opened(v, t, k, "update") /\ Goto(t, "truncate")
          \/ NotOpened(v, t, k, "update", NoFil) /\ UNCHANGED pc
  /\ UNCHANGED <<owner, fileno, req>>

TruncateReturn(t) ==
  /\ pc[t] = "truncate" /\ Goto(t, "idle")
  /\ fil' = [fil EXCEPT ![t] = NoFil]
  /\ leaked' = leaked \cup Forsaken(fil[t])
  /\ UNCHANGED <<owner, dp, Files, mounted, exists, fileno, req>>

(* f_unlink and f_rename change the directory only after chk_lock; an error
   after the entry was removed or made leaves it so. *)
ChangeEntry(t, k, names) ==
  /\ pc[t] = "idle"
  /\ \E v \in Volume(t) :
       /\ find_volume(v) /\ dp' = DirAfter(v)
       /\ Files' = LocksAfter(v)
       /\ fil' = FilAfter(v)
       /\ leaked' = LeakedAfter(v)
       /\ exists' \in {exists} \cup
            (IF Entered(v) /\ k \in exists /\ chk_lock(LocksAfter(v), k, 2) = "OK"
             THEN names ELSE {})
  /\ UNCHANGED <<owner, pc, fileno, req>>

unlink(t, k) == ChangeEntry(t, k, {exists \ {k}})

(* A file may be given its own name, but not that of another file. *)
rename(t, k, new) ==
  new \notin exists \ {k} /\ ChangeEntry(t, k, {exists \cup {new}, (exists \ {k}) \cup {new}})

(* opendir uses the one directory object whatever it holds; the root (None) is
   not locked. *)
opendir(t, d) ==
  /\ pc[t] = "idle"
  /\ \E v \in Volume(t) :
       LET L == LocksAfter(v)
           i == IF d = None THEN 0 ELSE LockFor(L, d, FALSE)
           dir == [st |-> "open", key |-> d, w |-> FALSE, lockid |-> i]
       IN /\ find_volume(v)
          /\ fil' = FilAfter(v)
          /\ leaked' = LeakedAfter(v) \cup
                         (IF DirAfter(v).lockid # 0 THEN Forsaken(DirAfter(v)) ELSE {})
          /\ \/ /\ Entered(v) /\ i # 0 /\ Countable(L, d, FALSE)
                /\ Files' = inc_lock(L, d, FALSE) /\ dp' = dir
             \/ Entered(v) /\ d = None /\ Files' = L /\ dp' = dir
             \/ Files' = L /\ dp' = BlankFil
  /\ UNCHANGED <<owner, exists, pc, fileno, req>>

closedir(t) ==
  /\ pc[t] = "idle" /\ Valid(dp)
  /\ Files' = IF dp.lockid = 0 THEN Files ELSE dec_lock(Files, dp.lockid)
  /\ dp' = BlankFil
  /\ UNCHANGED <<fil, owner, mounted, exists, pc, fileno, req, leaked>>

-----------------------------------------------------------------------------
Next ==
  \E t \in Task :
    \/ \E k \in File : truncate(t, k) \/ unlink(t, k)
    \/ \E k \in File, m \in Mode : fat_open(t, k, m)
    \/ \E k, new \in File : rename(t, k, new)
    \/ \E d \in Fd : fat_close(t, d)
    \/ \E d \in SubDir \cup {None} : opendir(t, d)
    \/ f_open(t) \/ AppendSeek(t) \/ CloseSync(t) \/ CloseUnlock(t)
    \/ free_file_descriptor(t) \/ TruncateReturn(t) \/ closedir(t)

Spec == Init /\ [][Next]_vars

-----------------------------------------------------------------------------
(* What should hold *)

OpenHandles(k) == {h \in Handle : fil[h].st = "open" /\ fil[h].key = k}
DirOpen(k) == IF dp.st = "open" /\ dp.key = k THEN 1 ELSE 0
Opens(k) == Cardinality(OpenHandles(k)) + DirOpen(k)

(* The table of open files does what it is for: no file is opened twice if one
   of the opens may write, and no file that is open is deleted or renamed,
   whatever fails, is forsaken or mounted again in between. *)
Sharing == INSTANCE FileSharing WITH
  opens <- {[h |-> h, key |-> fil[h].key, w |-> fil[h].w] :
              h \in {h \in Handle : fil[h].st = "open"}},
  Handle <- Handle, File <- File, exists <- exists
KeepsSharing == Sharing!Spec

(* Every open object of the present mount has its entry in Files, found by
   lockid, with a counter that tells a writer from readers and is not below
   their number; so that one close does not free what another still uses. *)
LocksHeld ==
  /\ \A h \in Handle : fil[h].st = "open" =>
       /\ fil[h].lockid # 0 /\ Files[fil[h].lockid].key = fil[h].key
       /\ fil[h].w <=> Files[fil[h].lockid].ctr = WriteMode
  /\ dp.st = "open" /\ dp.key # None => dp.lockid # 0 /\ Files[dp.lockid].key = dp.key
  /\ \A i \in 1 .. FS_LOCK : Files[i].key # None =>
       Files[i].ctr = WriteMode \/ Files[i].ctr >= Opens(Files[i].key)

(* An entry is there for open objects only, and as many times as they are open,
   but for the objects of calls that ended without unlocking (leaked). *)
LocksReleased ==
  \A i \in 1 .. FS_LOCK :
    Files[i].key # None /\ Files[i].key \notin leaked =>
      IF Files[i].ctr = WriteMode THEN Opens(Files[i].key) = 1
                                  ELSE Files[i].ctr = Opens(Files[i].key)

(* A file object has exactly one user: a task's call in progress, or the task
   that fat_open gave its descriptor to; none is lost and none is shared. *)
DescriptorsAccounted ==
  /\ \A d \in Fd : fil[d].st # "null" <=>
       owner[d] # None \/ \E t \in Task : fileno[t] = d
  /\ \A d \in Fd : owner[d] # None => \A t \in Task : fileno[t] # d
  /\ \A t, u \in Task : fileno[t] # None /\ fileno[t] = fileno[u] => t = u
===============================================================================
