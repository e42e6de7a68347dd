------------------------------ MODULE SqliteVfs ------------------------------
(***************************************************************************)
(* One file behind SQLite's VFS, sqlite_os_freertos.c: the write buffer of   *)
(* a journal (aBuffer), below it the buffer of the C library's FILE, below   *)
(* that the file of FatFs as the calls on it see it, and the card, which a   *)
(* crash leaves with any mixture of what was handed to it since the last     *)
(* f_sync.  Every transfer between two layers may fail after any number of   *)
(* bytes.                                                                  *)
(*                                                                         *)
(* The connection calls one method at a time; only a buffered write takes    *)
(* more than one step, the iterations of its loop.                          *)
(***************************************************************************)
EXTENDS FileContents

CONSTANTS
  BUFFERSZ   (* SQLITE_DEMOVFS_BUFFERSZ *)

ASSUME BufferAssumption == BUFFERSZ \in Nat \ {0}

VARIABLES
  open, buffered,
  aBuffer, iBufferOfst,   (* nBuffer is Len(aBuffer) *)
  (* the bytes that xFreeRTOSWrite has still to place, and their offset *)
  z, i,
  (* the FILE: bytes waiting at an offset; the FatFs file; the card *)
  h,
  (* history: a call on the open file returned an error; the result of
     the last call *)
  broken, out

vars == <<open, buffered, aBuffer, iBufferOfst, z, i, h, broken, out>>

Segments == UNION {[1 .. n -> Byte] : n \in 0 .. MaxSize}

NoOut == [op |-> "none", rc |-> "OK", at |-> 0, data |-> << >>, size |-> 0]
Out(op) == [NoOut EXCEPT !.op = op]

Handles == [at : 0 .. MaxSize, bytes : Segments, file : Contents,
            disk : [Pos -> SUBSET (Byte \cup {Absent})]]

TypeOK ==
  /\ open \in BOOLEAN /\ buffered \in BOOLEAN
  /\ aBuffer \in Segments /\ iBufferOfst \in 0 .. MaxSize
  /\ z \in Segments /\ i \in 0 .. MaxSize
  /\ h \in Handles
  /\ broken \in BOOLEAN

-------------------------------------------------------------------------------
(* The layers.  A transfer has a set of outcomes: whether it succeeded, and
   the FILE after it. *)

Handle(f, d) == [at |-> 0, bytes |-> << >>, file |-> f, disk |-> d]

Put(f, o, ds) ==
  [f EXCEPT !.file = Overlay(@, o, ds),
            !.disk = [p \in Pos |-> IF Covers(o, ds, p)
                                      THEN @[p] \cup {ds[p - o + 1]} ELSE @[p]]]

Prefix(ds, n) == SubSeq(ds, 1, n)
Rest(ds, n) == SubSeq(ds, n + 1, Len(ds))

(* f_lseek beyond the end makes the file longer, by whatever the card holds.  A
   write there gives it its bytes anyway: of the seek before a write only what is
   left when the write fails is kept apart. *)
Extended(f, o) ==
  IF o > Size(f.file) THEN {Put(f, o - 1, <<b>>) : b \in Byte} ELSE {f}

(* fflush: what waits is handed to fat_write; on an error the rest of it is
   dropped. *)
Drained(f) == [f EXCEPT !.at = 0, !.bytes = << >>]
Flush(f) ==
  {[ok |-> TRUE, h |-> Drained(Put(f, f.at, f.bytes))]}
    \cup {[ok |-> FALSE, h |-> Drained(Put(g, f.at, Prefix(f.bytes, n)))] :
            n \in 0 .. Len(f.bytes), g \in Extended(f, f.at)}

Sought(f) == {s \in Flush(f) : s.ok}

(* fseek flushes and seeks; a seek that fails may have come a part of the way. *)
FseekFails(f, o) ==
  {s \in Flush(f) : ~s.ok}
    \cup {[ok |-> FALSE, h |-> g] : g \in UNION {Extended(s.h, e) : s \in Sought(f), e \in 0 .. o}}

(* fwrite: a part of the bytes, or none, goes to fat_write at once, and the rest
   waits. *)
Handed(f, o, ds, n) ==
  [Put(f, o, Prefix(ds, n)) EXCEPT !.at = o + n, !.bytes = Rest(ds, n)]
Fwrite(f, o, ds) ==
  {[ok |-> TRUE, h |-> Handed(f, o, ds, n)] : n \in 0 .. Len(ds)}
    \cup UNION {{[ok |-> FALSE, h |-> Put(g, o, Prefix(ds, n))] : n \in 0 .. Len(ds)} :
                   g \in Extended(f, o)}

xFreeRTOSDirectWrite(f, o, ds) ==
  FseekFails(f, o) \cup UNION {Fwrite(s.h, o, ds) : s \in Sought(f)}

xFreeRTOSFlushBuffer(f) ==
  IF aBuffer = << >> THEN {[ok |-> TRUE, h |-> f]}
  ELSE xFreeRTOSDirectWrite(f, iBufferOfst, aBuffer)

(* f_sync, f_close and the card *)
Synced(f) == [f EXCEPT !.disk = [p \in Pos |-> {f.file[p]}]]

-------------------------------------------------------------------------------
Init ==
  /\ open = FALSE /\ buffered = FALSE
  /\ aBuffer = << >> /\ iBufferOfst = 0
  /\ z = << >> /\ i = 0
  /\ \E f \in Contents : h = Handle(f, [p \in Pos |-> {f[p]}])
  /\ broken = FALSE /\ out = NoOut

(* The file as SQLite sees it: what its write still has to place over the
   journal buffer over the FILE over the FatFs file. *)
Held(f) == Overlay(f.file, f.at, f.bytes)
View == Overlay(Overlay(Held(h), iBufferOfst, aBuffer), i, z)

Idle == open /\ z = << >>

Return(r, f) ==
  /\ h' = f /\ aBuffer' = << >> /\ out' = r
  /\ UNCHANGED <<open, buffered, iBufferOfst, z, i, broken>>

(* The call returns an error; what was buffered is gone. *)
Fail(f) ==
  /\ h' = f /\ aBuffer' = << >>
  /\ broken' = TRUE
  /\ out' = NoOut
  /\ UNCHANGED <<open, buffered, iBufferOfst, z, i>>

(* A file whose stat fails, because it is absent or by an error, is opened
   with "w+", which empties it. *)
Emptied(f) ==
  [f EXCEPT !.file = Empty, !.disk = [p \in Pos |-> @[p] \cup {Absent}]]

xFreeRTOSOpen(journal, found) ==
  /\ ~open /\ open' = TRUE
  /\ buffered' = journal /\ aBuffer' = << >> /\ iBufferOfst' = 0
  /\ h' = IF found THEN h ELSE Emptied(h)
  /\ out' = NoOut
  /\ UNCHANGED <<z, i, broken>>

xFreeRTOSWrite(o, ds) ==
  /\ Idle
  /\ z' = ds /\ i' = o /\ out' = NoOut
  /\ UNCHANGED <<open, buffered, aBuffer, iBufferOfst, h, broken>>

(* What one iteration of a write may leave: without a buffer all bytes go to
   the FILE, with one the buffer is flushed if it is full or what follows is
   not contiguous to it, and as much as fits is copied. *)
WriteThrough ==
  {[h |-> r.h, aBuffer |-> aBuffer, iBufferOfst |-> iBufferOfst,
    z |-> << >>, i |-> i, broken |-> broken \/ ~r.ok] : r \in xFreeRTOSDirectWrite(h, i, z)}

MustFlush_FullOnly == Len(aBuffer) = BUFFERSZ
MustFlush_GapOnly == iBufferOfst + Len(aBuffer) # i
MustFlush == Len(aBuffer) = BUFFERSZ \/ iBufferOfst + Len(aBuffer) # i

Smaller(m, n) == IF m < n THEN m ELSE n

CopyAfter_All(f, kept) ==
  [h |-> f, aBuffer |-> kept \o z, iBufferOfst |-> i - Len(kept),
   z |-> << >>, i |-> i + Len(z), broken |-> broken]
CopyAfter(f, kept) ==
  LET n == Smaller(BUFFERSZ - Len(kept), Len(z)) IN
    [h |-> f, aBuffer |-> kept \o Prefix(z, n), iBufferOfst |-> i - Len(kept),
     z |-> Rest(z, n), i |-> i + n, broken |-> broken]

Dropped(f) ==
  [h |-> f, aBuffer |-> << >>, iBufferOfst |-> iBufferOfst,
   z |-> << >>, i |-> i, broken |-> TRUE]

WriteChunk ==
  IF MustFlush
    THEN {IF r.ok THEN CopyAfter(r.h, << >>) ELSE Dropped(r.h) : r \in xFreeRTOSFlushBuffer(h)}
    ELSE {CopyAfter(h, aBuffer)}

WriteOutcomes == IF buffered THEN WriteChunk ELSE WriteThrough

Leaves(s) ==
  /\ h' = s.h /\ aBuffer' = s.aBuffer /\ iBufferOfst' = s.iBufferOfst
  /\ z' = s.z /\ i' = s.i /\ broken' = s.broken

WriteStep ==
  /\ z # << >>
  /\ \E s \in WriteOutcomes : Leaves(s)
  /\ UNCHANGED <<open, buffered, out>>

(* fread stops at the end of the file or at an error, which it does not tell
   apart; a hole holds any bytes. *)
ReadOut(f, o, n, m, data) ==
  /\ o + m <= Size(f) \/ m = 0
  /\ Agrees(f, o, data, m)
  /\ \A k \in m + 1 .. n : data[k] = Zero
  /\ out' = [Out("read") EXCEPT !.at = o, !.data = data,
                !.rc = IF m = n THEN "OK" ELSE "SHORT_READ"]

xFreeRTOSRead(o, n) ==
  /\ Idle
  /\ \E r \in xFreeRTOSFlushBuffer(h) :
       \/ ~r.ok /\ Fail(r.h)
       \/ r.ok /\ \E s \in FseekFails(r.h, o) : Fail(s.h)
       \/ r.ok /\ \E s \in Sought(r.h) :
               /\ h' \in Extended(s.h, o) /\ aBuffer' = << >>
               /\ \E m \in 0 .. n, data \in [1 .. n -> Byte] :
                    ReadOut(s.h.file, o, n, m, data)
               /\ UNCHANGED <<open, buffered, iBufferOfst, z, i, broken>>

xFreeRTOSSync ==
  /\ Idle
  /\ \E r \in xFreeRTOSFlushBuffer(h) :
       \/ ~r.ok /\ Fail(r.h)
       \/ r.ok /\ \E s \in Flush(r.h) :
            \/ Fail(s.h)
            \/ s.ok /\ Return(Out("sync"), Synced(s.h))

(* fstat asks FatFs, which does not know what the FILE holds but was moved to
   where it waits. *)
f_size(f) == IF f.bytes # << >> /\ f.at > Size(f.file) THEN f.at ELSE Size(f.file)

xFreeRTOSFileSize ==
  /\ Idle
  /\ \E r \in xFreeRTOSFlushBuffer(h) :
       \/ ~r.ok /\ Fail(r.h)
       \/ r.ok /\ Return([Out("size") EXCEPT !.size = f_size(r.h)], r.h)

xFreeRTOSTruncate(n) ==
  /\ Idle
  /\ out' = [Out("truncate") EXCEPT !.size = n]
  /\ UNCHANGED <<open, buffered, aBuffer, iBufferOfst, z, i, h, broken>>

(* The result of the last flush is overwritten by that of fclose, which closes
   the file even if it fails. *)
xFreeRTOSClose ==
  /\ Idle
  /\ \E r \in xFreeRTOSFlushBuffer(h) : \E s \in Flush(r.h) : h' \in {s.h, Synced(s.h)}
  /\ open' = FALSE /\ buffered' = FALSE /\ aBuffer' = << >> /\ iBufferOfst' = 0
  /\ broken' = FALSE /\ out' = NoOut
  /\ UNCHANGED <<z, i>>

(* SQLite deletes a file after closing it. *)
xFreeRTOSDelete ==
  /\ ~open
  /\ h' \in {Emptied(h), Synced(Emptied(h))}
  /\ out' = NoOut
  /\ UNCHANGED <<open, buffered, aBuffer, iBufferOfst, z, i, broken>>

(* Power is lost and comes back. *)
Crash ==
  /\ \E f \in Contents :
       /\ \A p \in Pos : f[p] \in h.disk[p]
       /\ h' = Handle(f, [p \in Pos |-> {f[p]}])
  /\ open' = FALSE /\ buffered' = FALSE
  /\ aBuffer' = << >> /\ iBufferOfst' = 0 /\ z' = << >> /\ i' = 0
  /\ broken' = FALSE /\ out' = NoOut

Next ==
  \/ \E journal, found \in BOOLEAN : xFreeRTOSOpen(journal, found)
  \/ \E o \in Pos : \E n \in 1 .. MaxSize - o :
       xFreeRTOSRead(o, n) \/ \E ds \in [1 .. n -> Byte] : xFreeRTOSWrite(o, ds)
  \/ WriteStep
  \/ xFreeRTOSSync \/ xFreeRTOSFileSize
  \/ \E n \in 0 .. MaxSize : xFreeRTOSTruncate(n)
  \/ xFreeRTOSClose \/ xFreeRTOSDelete \/ Crash

Spec == Init /\ [][Next]_vars

-------------------------------------------------------------------------------
(* What a crash now or later may leave, as far as writes already called go. *)
Kept ==
  [p \in Pos |->
     h.disk[p] \cup
     {Held(h)[p], Overlay(h.file, iBufferOfst, aBuffer)[p], Overlay(h.file, i, z)[p]}]

Promise == INSTANCE VfsFile WITH content <- View, durable <- Kept

(* Four things the code does otherwise.  Each says all that it changes. *)
Unkept == open /\ ~broken /\ UNCHANGED <<open, broken>>

(* A file is not made shorter (line 463). *)
TruncateIgnored ==
  /\ Unkept /\ UNCHANGED <<View, Kept>>
  /\ out'.op = "truncate" /\ out'.size < Size(View)

(* A file not synchronised since it was written is said to be shorter than it is
   (line 515). *)
SizeStale ==
  /\ Unkept /\ UNCHANGED <<View, Kept>>
  /\ out'.op = "size" /\ out'.size < Size(View) /\ Kept # [p \in Pos |-> {View[p]}]

(* A read stops before the end of the file, and zeros are returned for the rest
   (line 381). *)
ReadCutShort ==
  /\ Unkept /\ UNCHANGED <<View, Kept>>
  /\ out'.op = "read" /\ out'.rc = "SHORT_READ"
  /\ \E m \in 0 .. Len(out'.data) - 1 :
       /\ out'.at + m < Size(View)
       /\ Agrees(View, out'.at, out'.data, m)
       /\ \A k \in m + 1 .. Len(out'.data) : out'.data[k] = Zero

(* A read from beyond the end makes the file end where it began (line 367). *)
ReadExtends ==
  /\ Unkept
  /\ out'.op = "read" /\ out'.rc = "SHORT_READ" /\ out'.at > Size(View)
  /\ \A k \in 1 .. Len(out'.data) : out'.data[k] = Zero
  /\ \E b \in Byte :
       /\ View' = [View EXCEPT ![out'.at - 1] = b]
       /\ Kept' = [Kept EXCEPT ![out'.at - 1] = @ \cup {b}]

Departs == TruncateIgnored \/ SizeStale \/ ReadCutShort \/ ReadExtends

(* But for these four the layers together keep the promise of VfsFile: a read sees
   every write before it whatever layer its bytes are in, a Sync that returns
   SQLITE_OK has moved all of them to the card, and a crash at any point leaves
   nothing that was neither synchronised nor written since
   (sqlite_os_freertos.c:338, 399, 469 and 311). *)
KeepsPromise == Promise!Init /\ [][Promise!Next \/ Departs]_(Promise!vars)

(* The memcpy of sqlite_os_freertos.c:440 stays inside the buffer whatever the
   write's length and position, and a file opened without a buffer has no
   buffered bytes, which a Close would free unwritten (line 414). *)
BufferFits ==
  /\ Len(aBuffer) <= BUFFERSZ
  /\ aBuffer # << >> => buffered /\ open

(* A write returns: as long as bytes are left its loop can go on, and every
   iteration leaves fewer of them, whatever the buffer held when the write was
   called (sqlite_os_freertos.c:419-446). *)
WriteReturns ==
  z # << >> =>
    /\ WriteOutcomes # {}
    /\ \A s \in WriteOutcomes : Len(s.z) < Len(z)

===============================================================================
