--------------------------- MODULE SqliteVfsProofs ---------------------------
(***************************************************************************)
(* The layers of SqliteVfs implement VfsFile, for every size of file and of *)
(* buffer and every content.                                               *)
(***************************************************************************)
EXTENDS SqliteVfs, SequenceTheorems, WellFoundedInduction, TLAPS

-------------------------------------------------------------------------------
(* The inductive invariant *)

(* What the FILE holds lies in the file, and what FatFs has of the file was
   handed to the card. *)
Sound(f) ==
  /\ f \in Handles
  /\ f.at + Len(f.bytes) <= MaxSize
  /\ \A p \in Pos : f.file[p] \in f.disk[p]

(* A file that is not open holds nothing; neither buffer nor write reaches past
   the end of what fits. *)
IInv ==
  /\ TypeOK /\ BufferFits
  /\ Sound(h)
  /\ iBufferOfst + Len(aBuffer) <= MaxSize /\ i + Len(z) <= MaxSize
  /\ ~open => h.bytes = << >> /\ z = << >>

-------------------------------------------------------------------------------
(* Segments and stretches of a file *)

LEMMA SegmentIs ==
  ASSUME NEW ds
  PROVE  ds \in Segments <=> ds \in Seq(Byte) /\ Len(ds) \in 0 .. MaxSize
<1>1. ASSUME ds \in Segments PROVE ds \in Seq(Byte) /\ Len(ds) \in 0 .. MaxSize
  <2>1. PICK n \in 0 .. MaxSize : ds \in [1 .. n -> Byte]
    BY <1>1 DEF Segments
  <2>2. n \in Nat
    BY <2>1, SizeAssumption
  <2>3. ds \in Seq(Byte)
    BY <2>1, <2>2
  <2>4. Len(ds) = n
    BY <2>1, <2>2, <2>3
  <2> QED
    BY <2>1, <2>3, <2>4
<1>2. ASSUME ds \in Seq(Byte), Len(ds) \in 0 .. MaxSize PROVE ds \in Segments
  BY <1>2, LenProperties DEF Segments
<1> QED
  BY <1>1, <1>2

LEMMA NothingIsSegment == << >> \in Segments /\ Len(<< >>) = 0 /\ << >> \in Seq(Byte)
<1>1. << >> \in Seq(Byte) /\ Len(<< >>) = 0
  BY EmptySeq
<1>2. << >> \in Segments <=> << >> \in Seq(Byte) /\ Len(<< >>) \in 0 .. MaxSize
  BY SegmentIs
<1> QED
  BY <1>1, <1>2, SizeAssumption

(* A write cut in two *)
LEMMA Cut ==
  ASSUME NEW ds \in Segments, NEW n \in 0 .. Len(ds)
  PROVE  /\ Prefix(ds, n) \in Segments /\ Len(Prefix(ds, n)) = n
         /\ \A k \in 1 .. n : Prefix(ds, n)[k] = ds[k]
         /\ Rest(ds, n) \in Segments /\ Len(Rest(ds, n)) = Len(ds) - n
         /\ \A k \in 1 .. Len(ds) - n : Rest(ds, n)[k] = ds[n + k]
<1>1. ds \in Seq(Byte) /\ Len(ds) \in 0 .. MaxSize /\ n \in Nat /\ MaxSize \in Nat
  BY SegmentIs, SizeAssumption
<1>2. \A k \in 1 .. Len(ds) : ds[k] \in Byte
  BY <1>1
<1>3. /\ Prefix(ds, n) \in Seq(Byte) /\ Len(Prefix(ds, n)) = n
      /\ \A k \in 1 .. n : Prefix(ds, n)[k] = ds[k]
  <2>1. \A k \in 1 .. n : ds[k] \in Byte
    BY <1>1, <1>2
  <2>2. /\ SubSeq(ds, 1, n) \in Seq(Byte)
        /\ Len(SubSeq(ds, 1, n)) = IF 1 <= n THEN n - 1 + 1 ELSE 0
        /\ \A k \in 1 .. n - 1 + 1 : SubSeq(ds, 1, n)[k] = ds[1 + k - 1]
    BY <2>1, <1>1, SubSeqProperties
  <2> QED
    BY <1>1, <2>2 DEF Prefix
<1>4. /\ Rest(ds, n) \in Seq(Byte) /\ Len(Rest(ds, n)) = Len(ds) - n
      /\ \A k \in 1 .. Len(ds) - n : Rest(ds, n)[k] = ds[n + k]
  <2>1. \A k \in n + 1 .. Len(ds) : ds[k] \in Byte
    BY <1>1, <1>2
  <2>2. /\ SubSeq(ds, n + 1, Len(ds)) \in Seq(Byte)
        /\ Len(SubSeq(ds, n + 1, Len(ds))) = IF n + 1 <= Len(ds) THEN Len(ds) - (n + 1) + 1 ELSE 0
        /\ \A k \in 1 .. Len(ds) - (n + 1) + 1 : SubSeq(ds, n + 1, Len(ds))[k] = ds[(n + 1) + k - 1]
    BY <2>1, <1>1, SubSeqProperties
  <2> QED
    BY <1>1, <2>2 DEF Rest
<1> QED
  BY <1>1, <1>3, <1>4, SegmentIs

LEMMA Joined ==
  ASSUME NEW a \in Segments, NEW b \in Segments, Len(a) + Len(b) <= MaxSize
  PROVE  /\ a \o b \in Segments /\ Len(a \o b) = Len(a) + Len(b)
         /\ \A k \in 1 .. Len(a) + Len(b) :
              (a \o b)[k] = IF k <= Len(a) THEN a[k] ELSE b[k - Len(a)]
<1>1. /\ a \in Seq(Byte) /\ Len(a) \in 0 .. MaxSize
      /\ b \in Seq(Byte) /\ Len(b) \in 0 .. MaxSize /\ MaxSize \in Nat
  BY SegmentIs, SizeAssumption
<1>2. /\ a \o b \in Seq(Byte) /\ Len(a \o b) = Len(a) + Len(b)
      /\ \A k \in 1 .. Len(a) + Len(b) :
              (a \o b)[k] = IF k <= Len(a) THEN a[k] ELSE b[k - Len(a)]
  BY <1>1, ConcatProperties
<1>3. a \o b \in Segments <=> a \o b \in Seq(Byte) /\ Len(a \o b) \in 0 .. MaxSize
  BY SegmentIs
<1> QED
  BY <1>1, <1>2, <1>3

(* A byte of a segment *)
LEMMA Covered ==
  ASSUME NEW ds \in Segments, NEW o \in 0 .. MaxSize, NEW p \in Pos, Covers(o, ds, p)
  PROVE  p - o + 1 \in 1 .. Len(ds) /\ ds[p - o + 1] \in Byte
<1>1. ds \in Seq(Byte) /\ Len(ds) \in 0 .. MaxSize /\ MaxSize \in Nat
  BY SegmentIs, SizeAssumption
<1>2. p - o + 1 \in 1 .. Len(ds)
  BY <1>1 DEF Covers, Pos
<1> QED
  BY <1>1, <1>2

LEMMA OverlayType ==
  ASSUME NEW f \in Contents, NEW o \in 0 .. MaxSize, NEW ds \in Segments
  PROVE  Overlay(f, o, ds) \in Contents
BY Covered DEF Overlay, Contents

LEMMA OverlayNothing ==
  ASSUME NEW f \in Contents, NEW o \in 0 .. MaxSize
  PROVE  Overlay(f, o, << >>) = f
<1>1. \A p \in Pos : ~Covers(o, << >>, p)
  BY NothingIsSegment, SizeAssumption DEF Covers, Pos
<1> QED
  BY <1>1 DEF Overlay, Contents

(* Writing a segment in two parts is writing it. *)
LEMMA OverlayCut ==
  ASSUME NEW f \in Contents, NEW o \in 0 .. MaxSize, NEW ds \in Segments,
         o + Len(ds) <= MaxSize, NEW n \in 0 .. Len(ds)
  PROVE  Overlay(Overlay(f, o, Prefix(ds, n)), o + n, Rest(ds, n)) = Overlay(f, o, ds)
<1>1. Len(ds) \in 0 .. MaxSize /\ MaxSize \in Nat /\ o \in Nat /\ n \in Nat
  BY SegmentIs, SizeAssumption
<1>2. ASSUME NEW p \in Pos
      PROVE  Overlay(Overlay(f, o, Prefix(ds, n)), o + n, Rest(ds, n))[p] = Overlay(f, o, ds)[p]
  <2>1. p \in Nat
    BY <1>1 DEF Pos
  <2>2. CASE o <= p /\ p < o + n
    <3>1. Covers(o, Prefix(ds, n), p) /\ ~Covers(o + n, Rest(ds, n), p) /\ Covers(o, ds, p)
      BY <1>1, <2>1, <2>2, Cut DEF Covers
    <3>2. Prefix(ds, n)[p - o + 1] = ds[p - o + 1]
      BY <1>1, <2>1, <2>2, Cut
    <3> QED
      BY <3>1, <3>2 DEF Overlay
  <2>3. CASE o + n <= p /\ p < o + Len(ds)
    <3>1. Covers(o + n, Rest(ds, n), p) /\ Covers(o, ds, p)
      BY <1>1, <2>1, <2>3, Cut DEF Covers
    <3>2. Rest(ds, n)[p - (o + n) + 1] = ds[n + (p - (o + n) + 1)]
      BY <1>1, <2>1, <2>3, Cut
    <3>3. n + (p - (o + n) + 1) = p - o + 1
      BY <1>1, <2>1
    <3> QED
      BY <3>1, <3>2, <3>3 DEF Overlay
  <2>4. CASE p < o \/ p >= o + Len(ds)
    <3>1. ~Covers(o, Prefix(ds, n), p) /\ ~Covers(o + n, Rest(ds, n), p) /\ ~Covers(o, ds, p)
      BY <1>1, <2>1, <2>4, Cut DEF Covers
    <3> QED
      BY <3>1 DEF Overlay
  <2> QED
    BY <1>1, <2>1, <2>2, <2>3, <2>4
<1> QED
  BY <1>2 DEF Overlay

LEMMA PrefixOver ==
  ASSUME NEW f \in Contents, NEW o \in 0 .. MaxSize, NEW ds \in Segments,
         NEW n \in 0 .. Len(ds), NEW p \in Pos, Covers(o, Prefix(ds, n), p)
  PROVE  Covers(o, ds, p) /\ Overlay(f, o, Prefix(ds, n))[p] = Overlay(f, o, ds)[p]
<1>1. Len(ds) \in 0 .. MaxSize /\ MaxSize \in Nat /\ o \in Nat /\ n \in Nat /\ p \in Nat
  BY SegmentIs, SizeAssumption DEF Pos
<1>2. o <= p /\ p < o + n
  BY Cut DEF Covers
<1>3. Covers(o, ds, p) /\ Prefix(ds, n)[p - o + 1] = ds[p - o + 1]
  BY <1>1, <1>2, Cut DEF Covers
<1> QED
  BY <1>3 DEF Overlay

(* So is appending to a buffer in place of writing behind it. *)
LEMMA OverlayJoined ==
  ASSUME NEW f \in Contents, NEW o \in 0 .. MaxSize, NEW a \in Segments, NEW b \in Segments,
         o + Len(a) + Len(b) <= MaxSize
  PROVE  Overlay(f, o, a \o b) = Overlay(Overlay(f, o, a), o + Len(a), b)
<1>1. /\ Len(a) \in 0 .. MaxSize /\ Len(b) \in 0 .. MaxSize /\ MaxSize \in Nat
      /\ o \in Nat /\ Len(a) + Len(b) <= MaxSize
  BY SegmentIs, SizeAssumption
<1>2. ASSUME NEW p \in Pos
      PROVE  Overlay(f, o, a \o b)[p] = Overlay(Overlay(f, o, a), o + Len(a), b)[p]
  <2>1. p \in Nat
    BY <1>1 DEF Pos
  <2>2. CASE o <= p /\ p < o + Len(a)
    <3>1. Covers(o, a, p) /\ ~Covers(o + Len(a), b, p) /\ Covers(o, a \o b, p)
      BY <1>1, <2>1, <2>2, Joined DEF Covers
    <3>2. p - o + 1 \in 1 .. Len(a) + Len(b) /\ p - o + 1 <= Len(a)
      BY <1>1, <2>1, <2>2
    <3>3. (a \o b)[p - o + 1] = a[p - o + 1]
      BY <1>1, <3>2, Joined
    <3> QED
      BY <3>1, <3>3 DEF Overlay
  <2>3. CASE o + Len(a) <= p /\ p < o + Len(a) + Len(b)
    <3>1. Covers(o + Len(a), b, p) /\ Covers(o, a \o b, p)
      BY <1>1, <2>1, <2>3, Joined DEF Covers
    <3>2. p - o + 1 \in 1 .. Len(a) + Len(b) /\ ~(p - o + 1 <= Len(a))
      BY <1>1, <2>1, <2>3
    <3>3. (a \o b)[p - o + 1] = b[(p - o + 1) - Len(a)]
      BY <1>1, <3>2, Joined
    <3>4. (p - o + 1) - Len(a) = p - (o + Len(a)) + 1
      BY <1>1, <2>1
    <3> QED
      BY <3>1, <3>3, <3>4 DEF Overlay
  <2>4. CASE p < o \/ p >= o + Len(a) + Len(b)
    <3>1. ~Covers(o, a, p) /\ ~Covers(o + Len(a), b, p) /\ ~Covers(o, a \o b, p)
      BY <1>1, <2>1, <2>4, Joined DEF Covers
    <3> QED
      BY <3>1 DEF Overlay
  <2> QED
    BY <1>1, <2>1, <2>2, <2>3, <2>4
<1> QED
  BY <1>2 DEF Overlay

LEMMA SmallestInt ==
  ASSUME NEW S \in SUBSET Nat, S # {}
  PROVE  \E m \in S : \A n \in S : m <= n
<1>1. PICK m \in S : \A n \in S : ~(<<n, m>> \in OpToRel(<, Nat))
  BY NatLessThanWellFounded, WFMin
<1>2. \A n \in S : ~(n < m)
  BY <1>1 DEF OpToRel
<1>3. \A n \in S : n \in Nat
  OBVIOUS
<1> QED
  BY <1>2, <1>3

(* There is an end of the file. *)
LEMMA SizeIs ==
  ASSUME NEW f \in Contents
  PROVE  /\ Size(f) \in 0 .. MaxSize
         /\ \A p \in Pos : p >= Size(f) => f[p] = Absent
         /\ Size(f) > 0 => f[Size(f) - 1] # Absent
<1> DEFINE S == {n \in 0 .. MaxSize : \A p \in Pos : p >= n => f[p] = Absent}
<1> USE SizeAssumption
<1>1. MaxSize \in S /\ S \subseteq Nat
  BY DEF Pos
<1>2. PICK m \in S : \A n \in S : m <= n
  BY <1>1, SmallestInt
<1>3. m \in 0 .. MaxSize /\ \A p \in Pos : p >= m => f[p] = Absent
  BY <1>2
<1>4. m > 0 => f[m - 1] # Absent
  <2> SUFFICES ASSUME m > 0, f[m - 1] = Absent PROVE FALSE
    OBVIOUS
  <2>1. \A p \in Pos : p >= m - 1 => p = m - 1 \/ p >= m
    BY <1>3 DEF Pos
  <2>2. m - 1 \in S
    BY <1>3, <2>1
  <2> QED
    BY <1>2, <1>3, <2>2
<1> QED
  BY <1>3, <1>4 DEF Size

(* A file with more bytes in it is no shorter. *)
LEMMA SizeGrows ==
  ASSUME NEW f \in Contents, NEW o \in 0 .. MaxSize, NEW ds \in Segments
  PROVE  Size(f) <= Size(Overlay(f, o, ds))
<1> DEFINE g == Overlay(f, o, ds)
<1>1. g \in Contents
  BY OverlayType
<1>2. /\ Size(f) \in 0 .. MaxSize /\ Size(g) \in 0 .. MaxSize
      /\ \A p \in Pos : p >= Size(g) => g[p] = Absent
      /\ Size(f) > 0 => f[Size(f) - 1] # Absent
  BY <1>1, SizeIs
<1>3. \A p \in Pos : g[p] = Absent => f[p] = Absent
  BY Covered, ByteAssumption DEF Overlay
<1> HIDE DEF g
<1>4. ASSUME Size(f) > Size(g) PROVE FALSE
  <2>1. Size(f) - 1 \in Pos /\ Size(f) - 1 >= Size(g) /\ Size(f) > 0
    BY <1>2, <1>4, SizeAssumption DEF Pos
  <2> QED
    BY <1>2, <1>3, <2>1
<1>5. Size(f) \in Int /\ Size(g) \in Int
  BY <1>2, SizeAssumption
<1>6. Size(f) <= Size(g)
  BY <1>4, <1>5
<1> QED
  BY <1>6 DEF g

-------------------------------------------------------------------------------
(* Transfers between two layers *)

(* What a crash may leave once what the FILE holds has been handed down. *)
Reach(f) == [p \in Pos |-> f.disk[p] \cup {Held(f)[p]}]

LEMMA HandleIs ==
  ASSUME NEW f, Sound(f)
  PROVE  /\ f = [at |-> f.at, bytes |-> f.bytes, file |-> f.file, disk |-> f.disk]
         /\ f.at \in 0 .. MaxSize /\ f.bytes \in Segments /\ f.file \in Contents
         /\ f.disk \in [Pos -> SUBSET (Byte \cup {Absent})]
         /\ Held(f) \in Contents
<1>1. /\ f = [at |-> f.at, bytes |-> f.bytes, file |-> f.file, disk |-> f.disk]
      /\ f.at \in 0 .. MaxSize /\ f.bytes \in Segments /\ f.file \in Contents
      /\ f.disk \in [Pos -> SUBSET (Byte \cup {Absent})]
  BY DEF Sound, Handles
<1> QED
  BY <1>1, OverlayType DEF Held

LEMMA PutIs ==
  ASSUME NEW f, Sound(f), NEW o \in 0 .. MaxSize, NEW ds \in Segments
  PROVE  /\ Sound(Put(f, o, ds))
         /\ Put(f, o, ds).at = f.at /\ Put(f, o, ds).bytes = f.bytes
         /\ Put(f, o, ds).file = Overlay(f.file, o, ds)
         /\ \A p \in Pos : Put(f, o, ds).disk[p] =
              IF Covers(o, ds, p) THEN f.disk[p] \cup {Overlay(f.file, o, ds)[p]}
                                  ELSE f.disk[p]
<1> DEFINE disk == [p \in Pos |-> IF Covers(o, ds, p) THEN f.disk[p] \cup {ds[p - o + 1]}
                                                      ELSE f.disk[p]]
<1>2. \A p \in Pos : disk[p] =
        IF Covers(o, ds, p) THEN f.disk[p] \cup {Overlay(f.file, o, ds)[p]} ELSE f.disk[p]
  BY DEF Overlay
<1>3. disk \in [Pos -> SUBSET (Byte \cup {Absent})]
  BY HandleIs, Covered
<1>4. \A p \in Pos : Overlay(f.file, o, ds)[p] \in disk[p]
  BY <1>2 DEF Sound, Overlay
<1>5. Overlay(f.file, o, ds) \in Contents
  BY HandleIs, OverlayType
<1> HIDE DEF disk
<1>6. Put(f, o, ds) = [f EXCEPT !.file = Overlay(f.file, o, ds), !.disk = disk]
  BY DEF Put, disk
<1>7. /\ Put(f, o, ds) \in Handles
      /\ Put(f, o, ds).at = f.at /\ Put(f, o, ds).bytes = f.bytes
      /\ Put(f, o, ds).file = Overlay(f.file, o, ds) /\ Put(f, o, ds).disk = disk
  <2> DEFINE F == Overlay(f.file, o, ds)
             g == Put(f, o, ds)
  <2>1. f \in Handles /\ F \in Contents /\ g = [f EXCEPT !.file = F, !.disk = disk]
    BY <1>5, <1>6 DEF Sound
  <2> HIDE DEF F, g
  <2>2. g \in Handles /\ g.at = f.at /\ g.bytes = f.bytes /\ g.file = F /\ g.disk = disk
    BY <1>3, <2>1 DEF Handles
  <2> QED
    BY <2>2 DEF F, g
<1>8. Sound(Put(f, o, ds))
  BY <1>4, <1>7 DEF Sound
<1> QED
  BY <1>2, <1>7, <1>8

LEMMA DrainedIs ==
  ASSUME NEW f, Sound(f)
  PROVE  /\ Sound(Drained(f)) /\ Drained(f).bytes = << >>
         /\ Drained(f).file = f.file /\ Drained(f).disk = f.disk
         /\ Held(Drained(f)) = f.file
<1>1. 0 \in 0 .. MaxSize /\ 0 + Len(<< >>) <= MaxSize /\ << >> \in Segments
  BY NothingIsSegment, SizeAssumption
<1>2. /\ Sound(Drained(f)) /\ Drained(f).at = 0 /\ Drained(f).bytes = << >>
      /\ Drained(f).file = f.file /\ Drained(f).disk = f.disk
  <2> DEFINE g == Drained(f)
  <2>1. g = [f EXCEPT !.at = 0, !.bytes = << >>]
    BY DEF Drained
  <2> HIDE DEF g
  <2>2. Sound(g) /\ g.at = 0 /\ g.bytes = << >> /\ g.file = f.file /\ g.disk = f.disk
    BY <1>1, <2>1 DEF Sound, Handles
  <2> QED
    BY <2>2 DEF g
<1> QED
  BY <1>1, <1>2, HandleIs, OverlayNothing DEF Held

(* What may be any byte *)
LEMMA JunkHolds ==
  ASSUME NEW S PROVE S \subseteq OrJunk(S)
BY DEF OrJunk

LEMMA JunkGrows ==
  ASSUME NEW S, NEW T, S \subseteq T PROVE OrJunk(S) \subseteq OrJunk(T)
BY DEF OrJunk

LEMMA JunkOnce ==
  ASSUME NEW S PROVE OrJunk(OrJunk(S)) = OrJunk(S)
BY ByteAssumption DEF OrJunk

(* g is f with byte b put at q. *)
ByteAt(g, f, q, b) ==
  /\ Sound(g) /\ g.at = f.at /\ g.bytes = f.bytes
  /\ \A p \in Pos : g.file[p] = IF p = q THEN b ELSE f.file[p]
  /\ \A p \in Pos : g.disk[p] = IF p = q THEN f.disk[p] \cup {b} ELSE f.disk[p]

LEMMA OneByte ==
  ASSUME NEW f, Sound(f), NEW q \in Pos, NEW b \in Byte
  PROVE  ByteAt(Put(f, q, <<b>>), f, q, b)
<1> DEFINE ds == <<b>>
           g == Put(f, q, ds)
<1>1. q \in 0 .. MaxSize /\ q \in Nat
  BY SizeAssumption DEF Pos
<1>2. ds \in Segments /\ Len(ds) = 1 /\ ds[1] = b
  <2>1. ds \in Seq(Byte) /\ Len(ds) = 1 /\ ds[1] = b
    OBVIOUS
  <2>2. 1 \in 0 .. MaxSize
    BY SizeAssumption DEF Pos
  <2> QED
    BY <2>1, <2>2, SegmentIs
<1> HIDE DEF ds
<1>3. /\ Sound(g) /\ g.at = f.at /\ g.bytes = f.bytes /\ g.file = Overlay(f.file, q, ds)
      /\ \A p \in Pos : g.disk[p] =
           IF Covers(q, ds, p) THEN f.disk[p] \cup {Overlay(f.file, q, ds)[p]} ELSE f.disk[p]
  BY <1>1, <1>2, PutIs
<1>4. \A p \in Pos : p \in Nat /\ (Covers(q, ds, p) <=> p = q)
  BY <1>1, <1>2, SizeAssumption DEF Covers, Pos
<1> HIDE DEF g
<1>5. q - q + 1 = 1
  BY <1>1
<1>6. \A p \in Pos : Overlay(f.file, q, ds)[p] = IF p = q THEN b ELSE f.file[p]
  BY <1>2, <1>4, <1>5 DEF Overlay
<1>7. \A p \in Pos : g.file[p] = IF p = q THEN b ELSE f.file[p]
  BY <1>3, <1>6
<1>8. \A p \in Pos : g.disk[p] = IF p = q THEN f.disk[p] \cup {b} ELSE f.disk[p]
  BY <1>3, <1>4, <1>6
<1> QED
  BY <1>3, <1>7, <1>8 DEF ByteAt, g, ds

(* f_lseek beyond the end *)
LEMMA ExtendedIs ==
  ASSUME NEW f, Sound(f), NEW o \in 0 .. MaxSize, NEW g \in Extended(f, o)
  PROVE  /\ Sound(g) /\ g.at = f.at /\ g.bytes = f.bytes
         /\ \A p \in Pos : g.disk[p] \subseteq OrJunk(f.disk[p])
<1>1. CASE ~(o > Size(f.file))
  <2>1. g = f
    BY <1>1 DEF Extended
  <2> QED
    BY <2>1 DEF OrJunk
<1>2. CASE o > Size(f.file)
  <2> DEFINE q == o - 1
  <2>1. PICK b \in Byte : g = Put(f, q, <<b>>)
    BY <1>2 DEF Extended
  <2>2. Size(f.file) \in 0 .. MaxSize /\ \A p \in Pos : p >= Size(f.file) => f.file[p] = Absent
    BY HandleIs, SizeIs
  <2>3. q \in Pos /\ q >= Size(f.file)
    BY <1>2, <2>2, SizeAssumption DEF Pos
  <2> HIDE DEF q
  <2>4. /\ Sound(g) /\ g.at = f.at /\ g.bytes = f.bytes
        /\ \A p \in Pos : g.disk[p] = IF p = q THEN f.disk[p] \cup {b} ELSE f.disk[p]
    <3>1. ByteAt(g, f, q, b)
      BY <2>1, <2>3, OneByte
    <3> QED
      BY <3>1 DEF ByteAt
  <2>5. Absent \in f.disk[q]
    BY <2>2, <2>3 DEF Sound
  <2> QED
    BY <2>4, <2>5 DEF OrJunk
<1> QED
  BY <1>1, <1>2

(* fflush *)
LEMMA FlushIs ==
  ASSUME NEW f, Sound(f), NEW s \in Flush(f)
  PROVE  /\ Sound(s.h) /\ s.h.bytes = << >>
         /\ \A p \in Pos : s.h.disk[p] \subseteq OrJunk(Reach(f)[p])
         /\ s.ok => /\ s.h.file = Held(f) /\ Held(s.h) = Held(f)
                    /\ \A p \in Pos : s.h.disk[p] = Reach(f)[p]
<1>0. f.at \in 0 .. MaxSize /\ f.bytes \in Segments /\ f.at + Len(f.bytes) <= MaxSize
  BY HandleIs DEF Sound
<1>1. CASE s = [ok |-> TRUE, h |-> Drained(Put(f, f.at, f.bytes))]
  <2> DEFINE g == Put(f, f.at, f.bytes)
  <2>1. /\ Sound(g) /\ g.file = Held(f)
        /\ \A p \in Pos : g.disk[p] = IF Covers(f.at, f.bytes, p)
                                        THEN f.disk[p] \cup {Held(f)[p]} ELSE f.disk[p]
    BY <1>0, PutIs DEF Held
  <2> HIDE DEF g
  <2>2. \A p \in Pos : g.disk[p] = Reach(f)[p]
    <3>1. \A p \in Pos : ~Covers(f.at, f.bytes, p) => Held(f)[p] \in f.disk[p]
      BY DEF Held, Overlay, Sound
    <3> QED
      BY <2>1, <3>1 DEF Reach
  <2>3. s.h = Drained(g) /\ s.ok
    BY <1>1 DEF g
  <2>4. \A p \in Pos : Reach(f)[p] \subseteq OrJunk(Reach(f)[p])
    BY JunkHolds, JunkGrows
  <2> QED
    BY <2>1, <2>2, <2>3, <2>4, DrainedIs
<1>2. ASSUME NEW n \in 0 .. Len(f.bytes), NEW e \in Extended(f, f.at),
             s = [ok |-> FALSE, h |-> Drained(Put(e, f.at, Prefix(f.bytes, n)))]
      PROVE  /\ Sound(s.h) /\ s.h.bytes = << >> /\ ~s.ok
             /\ \A p \in Pos : s.h.disk[p] \subseteq OrJunk(Reach(f)[p])
  <2> DEFINE g == Put(e, f.at, Prefix(f.bytes, n))
  <2>1. Prefix(f.bytes, n) \in Segments
    BY <1>0, Cut
  <2>0. Sound(e) /\ \A p \in Pos : e.disk[p] \subseteq OrJunk(f.disk[p])
    BY <1>0, ExtendedIs
  <2>2. /\ Sound(g)
        /\ \A p \in Pos : g.disk[p] =
             IF Covers(f.at, Prefix(f.bytes, n), p)
               THEN e.disk[p] \cup {Overlay(e.file, f.at, Prefix(f.bytes, n))[p]} ELSE e.disk[p]
    BY <1>0, <2>0, <2>1, PutIs
  <2>3. s.h = Drained(g) /\ ~s.ok
    BY <1>2 DEF g
  <2> HIDE DEF g
  <2>4. \A p \in Pos : Covers(f.at, Prefix(f.bytes, n), p) =>
          Overlay(e.file, f.at, Prefix(f.bytes, n))[p] = Held(f)[p]
    <3>1. \A p \in Pos : Covers(f.at, Prefix(f.bytes, n), p) =>
            Overlay(f.file, f.at, Prefix(f.bytes, n))[p] = Held(f)[p]
      BY <1>0, HandleIs, PrefixOver DEF Held
    <3> QED
      BY <3>1 DEF Overlay
  <2>5. Sound(s.h) /\ s.h.bytes = << >> /\ s.h.disk = g.disk
    BY <2>2, <2>3, DrainedIs
  <2>6. \A p \in Pos : g.disk[p] \subseteq OrJunk(Reach(f)[p])
    <3> SUFFICES ASSUME NEW p \in Pos PROVE g.disk[p] \subseteq OrJunk(Reach(f)[p])
      OBVIOUS
    <3>1. f.disk[p] \subseteq Reach(f)[p] /\ Held(f)[p] \in Reach(f)[p]
      BY DEF Reach
    <3>2. /\ OrJunk(f.disk[p]) \subseteq OrJunk(Reach(f)[p])
          /\ Reach(f)[p] \subseteq OrJunk(Reach(f)[p])
      BY <3>1, JunkHolds, JunkGrows
    <3> QED
      BY <2>0, <2>2, <2>4, <3>1, <3>2
  <2> QED
    BY <2>3, <2>5, <2>6
<1> QED
  BY <1>1, <1>2 DEF Flush

(* An fseek that fails *)
LEMMA FseekFailsIs ==
  ASSUME NEW f, Sound(f), NEW o \in 0 .. MaxSize, NEW s \in FseekFails(f, o)
  PROVE  /\ Sound(s.h) /\ s.h.bytes = << >> /\ ~s.ok
         /\ \A p \in Pos : s.h.disk[p] \subseteq OrJunk(Reach(f)[p])
<1>1. CASE s \in Flush(f) /\ ~s.ok
  BY <1>1, FlushIs
<1>2. ASSUME NEW r \in Sought(f), NEW e \in 0 .. o, NEW g \in Extended(r.h, e),
             s = [ok |-> FALSE, h |-> g]
      PROVE  /\ Sound(s.h) /\ s.h.bytes = << >> /\ ~s.ok
             /\ \A p \in Pos : s.h.disk[p] \subseteq OrJunk(Reach(f)[p])
  <2>1. r \in Flush(f) /\ r.ok
    BY DEF Sought
  <2> DEFINE k == r.h
  <2>2. Sound(k) /\ k.bytes = << >> /\ \A p \in Pos : k.disk[p] = Reach(f)[p]
    BY <2>1, FlushIs
  <2>3. g \in Extended(k, e) /\ e \in 0 .. MaxSize
    BY SizeAssumption
  <2> HIDE DEF k
  <2>4. Sound(g) /\ g.bytes = << >> /\ \A p \in Pos : g.disk[p] \subseteq OrJunk(Reach(f)[p])
    BY <2>2, <2>3, ExtendedIs
  <2>5. s.h = g /\ ~s.ok
    BY <1>2
  <2> QED
    BY <2>4, <2>5
<1> QED
  BY <1>1, <1>2 DEF FseekFails

(* fwrite to a FILE in which nothing waits *)
LEMMA FwriteIs ==
  ASSUME NEW f, Sound(f), f.file = Held(f), NEW o \in 0 .. MaxSize, NEW ds \in Segments,
         o + Len(ds) <= MaxSize, NEW s \in Fwrite(f, o, ds)
  PROVE  /\ Sound(s.h)
         /\ \A p \in Pos : s.h.disk[p] \subseteq OrJunk(f.disk[p] \cup {Overlay(f.file, o, ds)[p]})
         /\ s.ok => /\ Held(s.h) = Overlay(f.file, o, ds)
                    /\ \A p \in Pos : Reach(s.h)[p] = f.disk[p] \cup {Overlay(f.file, o, ds)[p]}
<1>0. f.file \in Contents
  BY HandleIs
<1>1. PICK n \in 0 .. Len(ds) :
        \/ s = [ok |-> TRUE, h |-> Handed(f, o, ds, n)]
        \/ \E e \in Extended(f, o) : s = [ok |-> FALSE, h |-> Put(e, o, Prefix(ds, n))]
  BY DEF Fwrite
<1> DEFINE g == Put(f, o, Prefix(ds, n))
<1>2. /\ Prefix(ds, n) \in Segments /\ Rest(ds, n) \in Segments
      /\ o + n \in 0 .. MaxSize /\ (o + n) + Len(Rest(ds, n)) <= MaxSize
  <2>1. Len(ds) \in 0 .. MaxSize /\ MaxSize \in Nat
    BY SegmentIs, SizeAssumption
  <2> QED
    BY <2>1, Cut
<1>3. /\ Sound(g) /\ g.file = Overlay(f.file, o, Prefix(ds, n))
      /\ \A p \in Pos : g.disk[p] =
             IF Covers(o, Prefix(ds, n), p)
               THEN f.disk[p] \cup {Overlay(f.file, o, Prefix(ds, n))[p]} ELSE f.disk[p]
  BY <1>2, PutIs
<1>4. \A p \in Pos : Covers(o, Prefix(ds, n), p) =>
        Overlay(f.file, o, Prefix(ds, n))[p] = Overlay(f.file, o, ds)[p]
  BY <1>0, PrefixOver
<1> HIDE DEF g
<1>5. \A p \in Pos : /\ f.disk[p] \subseteq g.disk[p]
                     /\ g.disk[p] \subseteq f.disk[p] \cup {Overlay(f.file, o, ds)[p]}
  BY <1>3, <1>4
<1>8. \A p \in Pos : /\ OrJunk(f.disk[p]) \subseteq OrJunk(f.disk[p] \cup {Overlay(f.file, o, ds)[p]})
                     /\ f.disk[p] \cup {Overlay(f.file, o, ds)[p]}
                          \subseteq OrJunk(f.disk[p] \cup {Overlay(f.file, o, ds)[p]})
  <2> TAKE p \in Pos
  <2>1. f.disk[p] \subseteq f.disk[p] \cup {Overlay(f.file, o, ds)[p]}
    OBVIOUS
  <2> QED
    BY <2>1, JunkHolds, JunkGrows
<1>6. ASSUME NEW e \in Extended(f, o), s = [ok |-> FALSE, h |-> Put(e, o, Prefix(ds, n))]
      PROVE  /\ Sound(s.h) /\ ~s.ok
             /\ \A p \in Pos : s.h.disk[p] \subseteq OrJunk(f.disk[p] \cup {Overlay(f.file, o, ds)[p]})
  <2>1. Sound(e) /\ \A p \in Pos : e.disk[p] \subseteq OrJunk(f.disk[p])
    BY ExtendedIs
  <2>2. /\ s.h = Put(e, o, Prefix(ds, n)) /\ ~s.ok
    BY <1>6
  <2> DEFINE ps == Prefix(ds, n)
             k == Put(e, o, ps)
  <2>5. ps \in Segments
    BY <1>2
  <2> HIDE DEF ps
  <2>6. /\ Sound(k)
        /\ \A p \in Pos : k.disk[p] =
             IF Covers(o, ps, p) THEN e.disk[p] \cup {Overlay(e.file, o, ps)[p]} ELSE e.disk[p]
    BY <2>1, <2>5, PutIs
  <2> HIDE DEF k
  <2>7. s.h = k
    BY <2>2 DEF k, ps
  <2>3. /\ Sound(s.h)
        /\ \A p \in Pos : s.h.disk[p] =
             IF Covers(o, Prefix(ds, n), p)
               THEN e.disk[p] \cup {Overlay(e.file, o, Prefix(ds, n))[p]} ELSE e.disk[p]
    BY <2>6, <2>7 DEF ps
  <2>4. \A p \in Pos : Covers(o, Prefix(ds, n), p) =>
          Overlay(e.file, o, Prefix(ds, n))[p] = Overlay(f.file, o, ds)[p]
    BY <1>4 DEF Overlay
  <2> QED
    BY <1>8, <2>1, <2>2, <2>3, <2>4
<1>7. CASE s = [ok |-> TRUE, h |-> Handed(f, o, ds, n)]
  <2>1. /\ Sound(s.h) /\ s.h.at = o + n /\ s.h.bytes = Rest(ds, n)
        /\ s.h.file = g.file /\ s.h.disk = g.disk
    <3> DEFINE e == s.h
               at == o + n
               rest == Rest(ds, n)
    <3>1. e = [g EXCEPT !.at = at, !.bytes = rest]
      BY <1>7 DEF Handed, g
    <3>2. at \in 0 .. MaxSize /\ rest \in Segments /\ at + Len(rest) <= MaxSize
      BY <1>2
    <3> HIDE DEF e, at, rest
    <3>3. Sound(e) /\ e.at = at /\ e.bytes = rest /\ e.file = g.file /\ e.disk = g.disk
      BY <1>3, <3>1, <3>2 DEF Sound, Handles
    <3> QED
      BY <3>3 DEF e, at, rest
  <2>2. Held(s.h) = Overlay(f.file, o, ds)
    BY <1>0, <1>3, <2>1, OverlayCut DEF Held
  <2>3. \A p \in Pos : Reach(s.h)[p] = f.disk[p] \cup {Overlay(f.file, o, ds)[p]}
    BY <1>5, <2>1, <2>2 DEF Reach
  <2> QED
    BY <1>5, <1>8, <2>1, <2>2, <2>3
<1> QED
  BY <1>1, <1>6, <1>7 DEF g

(* The whole of xFreeRTOSDirectWrite *)
LEMMA DirectWriteIs ==
  ASSUME NEW f, Sound(f), NEW o \in 0 .. MaxSize, NEW ds \in Segments,
         o + Len(ds) <= MaxSize, NEW s \in xFreeRTOSDirectWrite(f, o, ds)
  PROVE  LET after == Overlay(Held(f), o, ds) IN
         /\ Sound(s.h)
         /\ \A p \in Pos : s.h.disk[p] \subseteq OrJunk(Reach(f)[p] \cup {after[p]})
         /\ s.ok => /\ Held(s.h) = after
                    /\ \A p \in Pos : Reach(s.h)[p] = Reach(f)[p] \cup {after[p]}
<1> DEFINE after == Overlay(Held(f), o, ds)
<1>1. CASE s \in FseekFails(f, o)
  <2>2. ASSUME NEW p \in Pos
        PROVE  OrJunk(Reach(f)[p]) \subseteq OrJunk(Reach(f)[p] \cup {after[p]})
    <3>1. Reach(f)[p] \subseteq Reach(f)[p] \cup {after[p]}
      OBVIOUS
    <3> QED
      BY <3>1, JunkHolds, JunkGrows
  <2> QED
    BY <1>1, <2>2, FseekFailsIs
<1>2. ASSUME NEW r \in Sought(f), s \in Fwrite(r.h, o, ds)
      PROVE  /\ Sound(s.h)
             /\ \A p \in Pos : s.h.disk[p] \subseteq OrJunk(Reach(f)[p] \cup {after[p]})
             /\ s.ok => /\ Held(s.h) = after
                        /\ \A p \in Pos : Reach(s.h)[p] = Reach(f)[p] \cup {after[p]}
  <2>1. r \in Flush(f) /\ r.ok
    BY DEF Sought
  <2> DEFINE g == r.h
  <2>2. /\ Sound(g) /\ g.file = Held(f) /\ Held(g) = Held(f)
        /\ \A p \in Pos : g.disk[p] = Reach(f)[p]
    BY <2>1, FlushIs
  <2>3. s \in Fwrite(g, o, ds)
    BY <1>2
  <2> HIDE DEF g
  <2>4. /\ Sound(s.h)
        /\ \A p \in Pos : s.h.disk[p] \subseteq OrJunk(g.disk[p] \cup {Overlay(g.file, o, ds)[p]})
        /\ s.ok => /\ Held(s.h) = Overlay(g.file, o, ds)
                   /\ \A p \in Pos : Reach(s.h)[p] = g.disk[p] \cup {Overlay(g.file, o, ds)[p]}
    BY <2>2, <2>3, FwriteIs
  <2> QED
    BY <2>2, <2>4
<1> QED
  BY <1>1, <1>2 DEF xFreeRTOSDirectWrite

(* What a read sees of the file without what the write in progress has still to
   place *)
Placed == Overlay(Held(h), iBufferOfst, aBuffer)

LEMMA PlacedIs ==
  ASSUME IInv
  PROVE  /\ Held(h) \in Contents /\ Placed \in Contents /\ View \in Contents
         /\ View = Overlay(Placed, i, z)
         /\ z = << >> => View = Placed
         /\ aBuffer = << >> => Placed = Held(h)
<1>1. /\ aBuffer \in Segments /\ iBufferOfst \in 0 .. MaxSize
      /\ z \in Segments /\ i \in 0 .. MaxSize /\ Sound(h)
  BY DEF IInv, TypeOK
<1>2. Held(h) \in Contents
  BY <1>1, HandleIs
<1>3. Placed \in Contents
  BY <1>1, <1>2, OverlayType DEF Placed
<1>4. View = Overlay(Placed, i, z)
  BY DEF View, Placed
<1> QED
  BY <1>1, <1>2, <1>3, <1>4, OverlayType, OverlayNothing DEF Placed

(* xFreeRTOSFlushBuffer *)
LEMMA FlushBufferIs ==
  ASSUME IInv, NEW s \in xFreeRTOSFlushBuffer(h)
  PROVE  /\ Sound(s.h)
         /\ \A p \in Pos : s.h.disk[p] \subseteq OrJunk(Reach(h)[p] \cup {Placed[p]})
         /\ s.ok => /\ Held(s.h) = Placed
                    /\ \A p \in Pos : Reach(s.h)[p] = Reach(h)[p] \cup {Placed[p]}
<1>1. /\ aBuffer \in Segments /\ iBufferOfst \in 0 .. MaxSize /\ Sound(h)
      /\ iBufferOfst + Len(aBuffer) <= MaxSize
  BY DEF IInv, TypeOK
<1>2. CASE aBuffer = << >>
  <2>1. s = [ok |-> TRUE, h |-> h]
    BY <1>2 DEF xFreeRTOSFlushBuffer
  <2>2. s.h = h
    BY <2>1
  <2>3. Held(h) = Placed
    BY <1>2, PlacedIs
  <2>4. \A p \in Pos : Held(h)[p] \in Reach(h)[p] /\ h.disk[p] \subseteq Reach(h)[p]
    BY DEF Reach
  <2>5. \A p \in Pos : Reach(h)[p] \cup {Placed[p]} \subseteq OrJunk(Reach(h)[p] \cup {Placed[p]})
    BY JunkHolds, JunkGrows
  <2> QED
    BY <1>1, <2>2, <2>3, <2>4, <2>5
<1>3. CASE aBuffer # << >>
  <2>1. s \in xFreeRTOSDirectWrite(h, iBufferOfst, aBuffer)
    BY <1>3 DEF xFreeRTOSFlushBuffer
  <2> QED
    BY <1>1, <2>1, DirectWriteIs DEF Placed
<1> QED
  BY <1>2, <1>3

LEMMA FailedFlushBuffer ==
  ASSUME IInv, NEW s \in xFreeRTOSFlushBuffer(h)
  PROVE  ~s.ok => s.h.bytes = << >> /\ s.h.file = Held(s.h)
<1>a. Sound(s.h)
  BY FlushBufferIs
<1>b. s.h.bytes = << >> => s.h.file = Held(s.h)
  <2> DEFINE g == s.h
  <2>1. Sound(g)
    BY <1>a
  <2> HIDE DEF g
  <2>2. g.bytes = << >> => g.file = Held(g)
    BY <2>1, HandleIs, OverlayNothing DEF Held
  <2> QED
    BY <2>2 DEF g
<1> SUFFICES ASSUME ~s.ok PROVE s.h.bytes = << >>
  BY <1>b
<1>1. s \in xFreeRTOSDirectWrite(h, iBufferOfst, aBuffer)
  BY DEF xFreeRTOSFlushBuffer
<1>2. Sound(h)
  BY DEF IInv
<1>3. CASE s \in FseekFails(h, iBufferOfst)
  BY <1>2, <1>3, FseekFailsIs DEF IInv, TypeOK
<1>4. ASSUME NEW r \in Sought(h), s \in Fwrite(r.h, iBufferOfst, aBuffer)
      PROVE  s.h.bytes = << >>
  <2>1. r \in Flush(h)
    BY DEF Sought
  <2>2. Sound(r.h) /\ r.h.bytes = << >>
    BY <1>2, <2>1, FlushIs
  <2>3. aBuffer \in Segments /\ iBufferOfst \in 0 .. MaxSize
    BY DEF IInv, TypeOK
  <2>4. PICK n \in 0 .. Len(aBuffer) :
          \/ s = [ok |-> TRUE, h |-> Handed(r.h, iBufferOfst, aBuffer, n)]
          \/ \E e \in Extended(r.h, iBufferOfst) :
               s = [ok |-> FALSE, h |-> Put(e, iBufferOfst, Prefix(aBuffer, n))]
    BY <1>4 DEF Fwrite
  <2>5. Prefix(aBuffer, n) \in Segments
    BY <2>3, Cut
  <2>6. PICK e \in Extended(r.h, iBufferOfst) : s.h = Put(e, iBufferOfst, Prefix(aBuffer, n))
    BY <2>4
  <2>7. Sound(e) /\ e.bytes = << >>
    BY <2>2, <2>3, ExtendedIs
  <2> QED
    BY <2>3, <2>5, <2>6, <2>7, PutIs
<1> QED
  BY <1>1, <1>3, <1>4 DEF xFreeRTOSDirectWrite

(* A crash may leave what the card has, what the FILE holds, what the journal
   buffer holds and what the write in progress has still to place, and nothing
   else: no older byte comes back, as each of them is one of the four. *)
LEMMA KeptIs ==
  ASSUME IInv, NEW p \in Pos
  PROVE  Kept[p] = Reach(h)[p] \cup {Placed[p], View[p]}
<1>1. h.file[p] \in h.disk[p]
  BY DEF IInv, Sound
<1>2. Kept[p] = h.disk[p] \cup {Held(h)[p], Overlay(h.file, iBufferOfst, aBuffer)[p],
                                Overlay(h.file, i, z)[p]}
  BY DEF Kept
<1>3. Reach(h)[p] = h.disk[p] \cup {Held(h)[p]}
  BY DEF Reach
<1>4. IF Covers(iBufferOfst, aBuffer, p)
        THEN Overlay(h.file, iBufferOfst, aBuffer)[p] = Placed[p]
        ELSE Overlay(h.file, iBufferOfst, aBuffer)[p] = h.file[p] /\ Placed[p] = Held(h)[p]
  BY DEF Overlay, Placed
<1>5. IF Covers(i, z, p)
        THEN Overlay(h.file, i, z)[p] = View[p]
        ELSE Overlay(h.file, i, z)[p] = h.file[p] /\ View[p] = Placed[p]
  BY DEF Overlay, Placed, View
<1> QED
  BY <1>1, <1>2, <1>3, <1>4, <1>5

(* What the abstract file is, in these terms *)
Views ==
  /\ Held(h) \in Contents /\ Placed \in Contents /\ View \in Contents
  /\ View = Overlay(Placed, i, z)
  /\ z = << >> => View = Placed
  /\ aBuffer = << >> => Placed = Held(h)
  /\ Kept = [p \in Pos |-> Reach(h)[p] \cup {Placed[p], View[p]}]

LEMMA ViewsAre == IInv => Views
<1> SUFFICES ASSUME IInv PROVE Views
  OBVIOUS
<1>1. Kept = [p \in Pos |-> Kept[p]]
  BY DEF Kept
<1>2. \A p \in Pos : Kept[p] = Reach(h)[p] \cup {Placed[p], View[p]}
  BY KeptIs
<1>3. Kept = [p \in Pos |-> Reach(h)[p] \cup {Placed[p], View[p]}]
  BY <1>1, <1>2
<1> QED
  BY <1>3, PlacedIs DEF Views

LEMMA ViewsNext == IInv' => Views'
BY ViewsAre, PTL

-------------------------------------------------------------------------------
(* Steps: each keeps the invariant and is a step of VfsFile, one of the four
   departures, or invisible. *)

Implements == [Promise!Next \/ Departs]_(Promise!vars)

(* A call on a file that an error has spoilt *)
LEMMA BrokenStep ==
  ASSUME open, open', broken'
  PROVE  Implements
BY DEF Implements, Promise!Next, Promise!Break

(* What is in the buffers may move down as long as none of it is lost. *)
LEMMA StaysSame ==
  ASSUME IInv, IInv', Held(h') = Placed, aBuffer' = << >>,
         \A p \in Pos : Reach(h')[p] = Reach(h)[p] \cup {Placed[p]},
         Overlay(Placed, i', z') = View
  PROVE  View' = View /\ Kept' = Kept
<1>1. Views /\ Views'
  BY ViewsAre, ViewsNext
<1>2. Placed' = Placed
  BY <1>1 DEF Views
<1>3. View' = View
  BY <1>1, <1>2 DEF Views
<1>4. \A p \in Pos : Reach(h)'[p] = Reach(h)[p] \cup {Placed[p]}
  BY DEF Reach
<1> QED
  BY <1>1, <1>2, <1>3, <1>4 DEF Views

(* A call after which the journal buffer and the FILE are empty *)
LEMMA SettledIs ==
  ASSUME IInv, IInv', h'.file = Placed, Held(h') = Placed, aBuffer' = << >>,
         UNCHANGED <<z, i>>,
         \A p \in Pos : h'.disk[p] = Reach(h)[p] \cup {Placed[p]}
  PROVE  View' = View /\ Kept' = Kept
<1>1. \A p \in Pos : Reach(h')[p] = Reach(h)[p] \cup {Placed[p]}
  BY DEF Reach
<1>2. Overlay(Placed, i', z') = View
  BY ViewsAre DEF Views
<1> QED
  BY <1>1, <1>2, StaysSame

(* What VfsFile sees of a file of which no layer above FatFs holds anything *)
LEMMA NothingAbove ==
  ASSUME IInv, h.bytes = << >>, z = << >>, aBuffer = << >>
  PROVE  /\ View = h.file /\ Kept = [p \in Pos |-> h.disk[p]] /\ Held(h) = h.file
<1>1. Sound(h)
  BY DEF IInv
<1>2. Held(h) = h.file
  BY <1>1, HandleIs, OverlayNothing DEF Held
<1>3. Views /\ Placed = h.file /\ View = h.file
  BY <1>1, <1>2, ViewsAre DEF Views
<1>4. \A p \in Pos : Reach(h)[p] \cup {Placed[p], View[p]} = h.disk[p]
  BY <1>1, <1>2, <1>3 DEF Reach, Sound
<1> QED
  BY <1>1, <1>2, <1>3, <1>4 DEF Views

LEMMA NothingAboveAre ==
  IInv /\ h.bytes = << >> /\ z = << >> /\ aBuffer = << >>
    => View = h.file /\ Kept = [p \in Pos |-> h.disk[p]]
BY NothingAbove

LEMMA NothingAboveLater ==
  (IInv /\ h.bytes = << >> /\ z = << >> /\ aBuffer = << >>)'
    => (View = h.file /\ Kept = [p \in Pos |-> h.disk[p]])'
BY NothingAboveAre, PTL

LEMMA NothingAboveNext ==
  ASSUME IInv', h'.bytes = << >>, z' = << >>, aBuffer' = << >>
  PROVE  View' = h'.file /\ Kept' = [p \in Pos |-> h'.disk[p]]
BY NothingAboveLater

(* What a read returns and changes: either all that it was asked for, or what
   there is up to the end, or less, or it moves the end. *)
LEMMA ReadIs ==
  ASSUME NEW o \in Pos, NEW n \in 1 .. MaxSize - o, NEW m \in 0 .. n, NEW data \in [1 .. n -> Byte],
         View \in Contents, open, ~broken, UNCHANGED <<open, broken>>,
         out'.op = "read", out'.at = o, out'.data = data,
         out'.rc = IF m = n THEN "OK" ELSE "SHORT_READ",
         o + m <= Size(View) \/ m = 0, Agrees(View, o, data, m),
         \A k \in m + 1 .. n : data[k] = Zero,
         o <= Size(View) => UNCHANGED <<View, Kept>>,
         o > Size(View) => \E b \in Byte : /\ View' = [View EXCEPT ![o - 1] = b]
                                           /\ Kept' = [Kept EXCEPT ![o - 1] = @ \cup {b}]
  PROVE  Promise!Read \/ Departs
<1>1. out'.op = "read" /\ out'.at = o /\ out'.data = data
      /\ out'.rc = IF m = n THEN "OK" ELSE "SHORT_READ"
  OBVIOUS
<1>2. Len(out'.data) = n /\ n \in Nat /\ m \in Nat /\ n > 0 /\ o \in Nat /\ Size(View) \in Nat
  <2>1. n \in Nat /\ o \in Nat /\ Size(View) \in Nat
    BY SizeAssumption, SizeIs DEF Pos
  <2>2. data \in Seq(Byte) /\ Len(data) = n
    BY <2>1
  <2> QED
    BY <1>1, <2>1, <2>2
<1>3. Promise!Agrees(View, o, data, m) /\ Promise!Size(View) = Size(View)
  BY DEF Agrees, Promise!Agrees, Size, Promise!Size, Pos, Promise!Pos
<1>4. CASE m = n
  <2>1. o + n <= Size(View) /\ o <= Size(View)
    BY <1>2, <1>4
  <2> QED
    BY <1>1, <1>2, <1>3, <1>4, <2>1 DEF Promise!Read
<1>5. CASE m # n /\ o <= Size(View) /\ Size(View) <= o + m
  <2>1. m \in 0 .. n - 1 /\ Size(View) < o + n
    BY <1>2, <1>5
  <2> QED
    BY <1>1, <1>2, <1>3, <1>5, <2>1 DEF Promise!Read
<1>6. CASE m # n /\ o <= Size(View) /\ o + m < Size(View)
  <2>1. m \in 0 .. n - 1
    BY <1>2, <1>6
  <2> QED
    BY <1>1, <1>2, <1>6, <2>1 DEF Departs, ReadCutShort, Unkept
<1>7. CASE o > Size(View)
  <2>1. m = 0 /\ m # n
    BY <1>2, <1>7
  <2>2. \A k \in 1 .. n : data[k] = Zero
    BY <2>1
  <2> QED
    BY <1>1, <1>2, <1>7, <2>1, <2>2 DEF Departs, ReadExtends, Unkept
<1> QED
  BY <1>2, <1>4, <1>5, <1>6, <1>7

LEMMA InitHolds == Init => IInv /\ Promise!Init
<1> SUFFICES ASSUME Init PROVE IInv /\ Promise!Init
  OBVIOUS
<1>1. PICK f \in Contents : h = Handle(f, [p \in Pos |-> {f[p]}])
  BY DEF Init
<1> DEFINE D == [p \in Pos |-> {f[p]}]
<1>2. /\ h \in Handles /\ h.at = 0 /\ h.bytes = << >> /\ h.file = f /\ h.disk = D
  <2>1. h = [at |-> 0, bytes |-> << >>, file |-> f, disk |-> D]
    BY <1>1 DEF Handle
  <2>2. D \in [Pos -> SUBSET (Byte \cup {Absent})]
    BY DEF Contents
  <2> HIDE DEF D
  <2> QED
    BY <2>1, <2>2, NothingIsSegment, SizeAssumption DEF Handles
<1>3. Sound(h)
  BY <1>2, NothingIsSegment, SizeAssumption DEF Sound
<1>4. IInv
  <2>1. 0 \in 0 .. MaxSize /\ 0 + Len(<< >>) <= MaxSize /\ Len(<< >>) <= BUFFERSZ
    BY NothingIsSegment, SizeAssumption, BufferAssumption
  <2>2. TypeOK
    BY <1>2, <2>1, NothingIsSegment DEF Init, TypeOK
  <2>3. BufferFits
    BY <2>1 DEF Init, BufferFits
  <2> QED
    BY <1>2, <1>3, <2>1, <2>2, <2>3 DEF Init, IInv
<1>5. View = f
  <2>1. Held(h) = f
    BY <1>2, OverlayNothing, SizeAssumption DEF Held
  <2> QED
    BY <1>4, <2>1, PlacedIs DEF Init
<1>6. Kept = D
  <2>1. Views /\ Placed = f /\ Held(h) = f
    BY <1>4, <1>5, ViewsAre DEF Views, Init
  <2>2. \A p \in Pos : Reach(h)[p] \cup {Placed[p], View[p]} = {f[p]}
    BY <1>2, <1>5, <2>1 DEF Reach
  <2> QED
    BY <2>1, <2>2 DEF Views
<1> QED
  BY <1>4, <1>5, <1>6 DEF Init, Promise!Init, Promise!Contents, Contents, Promise!Pos, Pos,
     Promise!NoOut, NoOut

(* Nothing is buffered after an empty flush of both layers. *)
LEMMA Flushed ==
  ASSUME IInv, NEW r \in xFreeRTOSFlushBuffer(h), r.ok, NEW s \in Flush(r.h)
  PROVE  /\ Sound(s.h) /\ s.h.bytes = << >>
         /\ \A p \in Pos : s.h.disk[p] \subseteq OrJunk(Reach(h)[p] \cup {Placed[p]})
         /\ s.ok => /\ s.h.file = Placed /\ Held(s.h) = Placed
                    /\ \A p \in Pos : s.h.disk[p] = Reach(h)[p] \cup {Placed[p]}
<1> DEFINE g == r.h
<1>1. /\ Sound(g) /\ Held(g) = Placed
      /\ \A p \in Pos : Reach(g)[p] = Reach(h)[p] \cup {Placed[p]}
  BY FlushBufferIs
<1>2. s \in Flush(g)
  OBVIOUS
<1> HIDE DEF g
<1>3. \A p \in Pos : s.h.disk[p] \subseteq OrJunk(Reach(g)[p])
  BY <1>1, <1>2, FlushIs
<1>4. ASSUME NEW p \in Pos PROVE s.h.disk[p] \subseteq OrJunk(Reach(h)[p] \cup {Placed[p]})
  <2>1. Reach(g)[p] = Reach(h)[p] \cup {Placed[p]}
    BY <1>1
  <2> QED
    BY <1>3, <2>1
<1> QED
  BY <1>1, <1>2, <1>4, FlushIs

(* A call that leaves the journal buffer empty *)
LEMMA EmptiedBuffer ==
  ASSUME IInv, open, Sound(h'), aBuffer' = << >>, broken' \in BOOLEAN,
         \/ z' = z /\ i' = i
         \/ z' = << >> /\ i' = i,
         UNCHANGED <<open, buffered, iBufferOfst>>
  PROVE  IInv'
<1>1. /\ << >> \in Segments /\ Len(<< >>) = 0 /\ iBufferOfst \in 0 .. MaxSize /\ i \in 0 .. MaxSize
      /\ BUFFERSZ \in Nat /\ MaxSize \in Nat
  BY NothingIsSegment, BufferAssumption, SizeAssumption DEF IInv, TypeOK
<1>2. z' \in Segments /\ i' + Len(z') <= MaxSize
  BY <1>1 DEF IInv, TypeOK
<1>3. TypeOK'
  BY <1>1, <1>2 DEF IInv, TypeOK, Sound
<1>4. BufferFits'
  BY <1>1 DEF BufferFits
<1> QED
  BY <1>1, <1>2, <1>3, <1>4 DEF IInv, Sound

LEMMA FailStep ==
  ASSUME IInv, NEW f, Sound(f), Idle, Fail(f)
  PROVE  IInv' /\ Implements
<1>1. IInv'
  <2>1. Sound(h')
    BY DEF Fail
  <2> QED
    BY <2>1, EmptiedBuffer DEF Fail, Idle
<1>2. Implements
  BY BrokenStep DEF Fail, Idle
<1> QED
  BY <1>1, <1>2

(* A read after which FatFs's end of the file may have moved *)
LEMMA EndMoves ==
  ASSUME IInv, IInv', z = << >>, z' = << >>, aBuffer' = << >>, NEW g, Sound(g), g.bytes = << >>,
         g.file = Placed, \A p \in Pos : g.disk[p] = Reach(h)[p] \cup {Placed[p]},
         NEW o \in Pos, h' \in Extended(g, o)
  PROVE  /\ o <= Size(View) => UNCHANGED <<View, Kept>>
         /\ o > Size(View) => \E b \in Byte : /\ View' = [View EXCEPT ![o - 1] = b]
                                              /\ Kept' = [Kept EXCEPT ![o - 1] = @ \cup {b}]
<1>1. Views /\ View = Placed /\ View \in Contents
  BY ViewsAre DEF Views
<1>2. Kept = [p \in Pos |-> g.disk[p]]
  BY <1>1 DEF Views
<1>3. o \in 0 .. MaxSize /\ o \in Nat /\ Size(View) \in 0 .. MaxSize
  BY <1>1, SizeIs, SizeAssumption DEF Pos
<1>4. h'.bytes = << >>
  BY <1>3, ExtendedIs
<1>5. View' = h'.file /\ Kept' = [p \in Pos |-> h'.disk[p]]
  BY <1>4, NothingAboveNext
<1>6. CASE o <= Size(View)
  <2>1. h' = g
    BY <1>1, <1>3, <1>6, SizeAssumption DEF Extended
  <2> QED
    BY <1>1, <1>2, <1>3, <1>5, <1>6, <2>1, SizeAssumption
<1>7. CASE o > Size(View)
  <2> DEFINE q == o - 1
  <2>1. PICK b \in Byte : h' = Put(g, q, <<b>>)
    BY <1>1, <1>7 DEF Extended
  <2>2. q \in Pos
    BY <1>3, <1>7, SizeAssumption DEF Pos
  <2> HIDE DEF q
  <2>3. /\ Sound(h')
        /\ \A p \in Pos : h'.file[p] = IF p = q THEN b ELSE g.file[p]
        /\ \A p \in Pos : h'.disk[p] = IF p = q THEN g.disk[p] \cup {b} ELSE g.disk[p]
    <3>1. ByteAt(h', g, q, b)
      BY <2>1, <2>2, OneByte
    <3> QED
      BY <3>1 DEF ByteAt
  <2>4. h'.file \in Contents
    BY <2>3, HandleIs
  <2>5. View' = [View EXCEPT ![q] = b]
    <3>1. \A p \in Pos : View'[p] = IF p = q THEN b ELSE View[p]
      BY <1>1, <1>5, <2>3
    <3> QED
      BY <1>1, <1>5, <2>4, <3>1 DEF Contents
  <2>6. Kept' = [Kept EXCEPT ![q] = @ \cup {b}]
    <3>1. \A p \in Pos : h'.disk[p] = IF p = q THEN Kept[p] \cup {b} ELSE Kept[p]
      BY <1>2, <2>3
    <3> QED
      BY <1>2, <1>5, <3>1
  <2>7. ~(o <= Size(View))
    BY <1>3, <1>7, SizeAssumption
  <2> QED
    BY <2>5, <2>6, <2>7 DEF q
<1> QED
  BY <1>3, <1>6, <1>7, SizeAssumption

LEMMA ReadStep ==
  ASSUME IInv, NEW o \in Pos, NEW n \in 1 .. MaxSize - o, xFreeRTOSRead(o, n)
  PROVE  IInv' /\ Implements
<1>1. PICK r \in xFreeRTOSFlushBuffer(h) :
        \/ ~r.ok /\ Fail(r.h)
        \/ r.ok /\ \E s \in FseekFails(r.h, o) : Fail(s.h)
        \/ r.ok /\ \E s \in Sought(r.h) :
               /\ h' \in Extended(s.h, o) /\ aBuffer' = << >>
               /\ \E m \in 0 .. n, data \in [1 .. n -> Byte] :
                    ReadOut(s.h.file, o, n, m, data)
               /\ UNCHANGED <<open, buffered, iBufferOfst, z, i, broken>>
  BY DEF xFreeRTOSRead
<1>2. Idle /\ o \in 0 .. MaxSize
  BY SizeAssumption DEF xFreeRTOSRead, Pos
<1>3. CASE ~r.ok /\ Fail(r.h)
  BY <1>2, <1>3, FlushBufferIs, FailStep
<1>4. ASSUME r.ok, NEW s \in FseekFails(r.h, o), Fail(s.h)
      PROVE  IInv' /\ Implements
  <2>1. Sound(r.h)
    BY FlushBufferIs
  <2>2. Sound(s.h)
    BY <1>2, <2>1, FseekFailsIs
  <2> QED
    BY <1>2, <1>4, <2>2, FailStep
<1>5. ASSUME r.ok, NEW s \in Sought(r.h), h' \in Extended(s.h, o), aBuffer' = << >>,
             UNCHANGED <<open, buffered, iBufferOfst, z, i, broken>>,
             NEW m \in 0 .. n, NEW data \in [1 .. n -> Byte], ReadOut(s.h.file, o, n, m, data)
      PROVE  IInv' /\ Implements
  <2>0. s \in Flush(r.h) /\ s.ok
    BY DEF Sought
  <2> DEFINE g == s.h
  <2>1. /\ Sound(g) /\ g.bytes = << >> /\ g.file = Placed
        /\ \A p \in Pos : g.disk[p] = Reach(h)[p] \cup {Placed[p]}
    BY <1>5, <2>0, Flushed
  <2>a. h' \in Extended(g, o) /\ ReadOut(g.file, o, n, m, data)
    BY <1>5
  <2> HIDE DEF g
  <2>2. IInv'
    <3>1. Sound(h')
      BY <1>2, <2>1, <2>a, ExtendedIs
    <3> QED
      BY <1>2, <1>5, <3>1, EmptiedBuffer DEF Idle, IInv, TypeOK
  <2>4. CASE broken
    BY <1>2, <1>5, <2>2, <2>4, BrokenStep DEF Idle
  <2>5. CASE ~broken
    <3>1. Views /\ View = Placed /\ View \in Contents
      BY <1>2, ViewsAre DEF Idle, Views
    <3>2. /\ out' = [Out("read") EXCEPT !.at = o, !.data = data,
                        !.rc = IF m = n THEN "OK" ELSE "SHORT_READ"]
          /\ o + m <= Size(View) \/ m = 0
          /\ Agrees(View, o, data, m)
          /\ \A k \in m + 1 .. n : data[k] = Zero
      <4>1. g.file = View
        BY <2>1, <3>1
      <4> QED
        BY <2>a, <4>1 DEF ReadOut
    <3>3. /\ o <= Size(View) => UNCHANGED <<View, Kept>>
          /\ o > Size(View) => \E b \in Byte : /\ View' = [View EXCEPT ![o - 1] = b]
                                               /\ Kept' = [Kept EXCEPT ![o - 1] = @ \cup {b}]
      BY <1>2, <1>5, <2>1, <2>2, <2>a, EndMoves DEF Idle
    <3>5. open /\ ~broken /\ UNCHANGED <<open, broken>>
      BY <1>2, <1>5, <2>5 DEF Idle
    <3>4. Promise!Read \/ Departs
      <4>1. View \in Contents
        BY <3>1
      <4>2. /\ out'.op = "read" /\ out'.at = o /\ out'.data = data
            /\ out'.rc = IF m = n THEN "OK" ELSE "SHORT_READ"
        BY <3>2 DEF Out, NoOut
      <4>3. o + m <= Size(View) \/ m = 0
        BY <3>2
      <4>4. Agrees(View, o, data, m)
        BY <3>2
      <4>5. \A k \in m + 1 .. n : data[k] = Zero
        BY <3>2
      <4>6. o <= Size(View) => UNCHANGED <<View, Kept>>
        BY <3>3
      <4>7. o > Size(View) => \E b \in Byte : /\ View' = [View EXCEPT ![o - 1] = b]
                                              /\ Kept' = [Kept EXCEPT ![o - 1] = @ \cup {b}]
        BY <3>3
      <4>8. open /\ ~broken /\ UNCHANGED <<open, broken>>
        BY <3>5
      <4> QED
        BY <4>1, <4>2, <4>3, <4>4, <4>5, <4>6, <4>7, <4>8, ReadIs
    <3> QED
      BY <2>2, <3>4 DEF Implements, Promise!Next
  <2> QED
    BY <2>2, <2>4, <2>5
<1> QED
  BY <1>1, <1>3, <1>4, <1>5

(* f_sync leaves what the file is and nothing else on the card. *)
LEMMA SyncedIs ==
  ASSUME NEW f, Sound(f), f.bytes = << >>, f.file = Held(f)
  PROVE  /\ Sound(Synced(f)) /\ Synced(f).bytes = << >>
         /\ Synced(f).file = f.file /\ Held(Synced(f)) = f.file
         /\ \A p \in Pos : Synced(f).disk[p] = {f.file[p]}
<1> DEFINE D == [p \in Pos |-> {f.file[p]}]
           g == Synced(f)
<1>1. g = [f EXCEPT !.disk = D]
  BY DEF Synced
<1>2. D \in [Pos -> SUBSET (Byte \cup {Absent})]
  BY HandleIs DEF Contents
<1>3. \A p \in Pos : D[p] = {f.file[p]}
  OBVIOUS
<1> HIDE DEF D, g
<1>4. /\ g \in Handles /\ g.at = f.at /\ g.bytes = f.bytes
      /\ g.file = f.file /\ g.disk = D
  BY <1>1, <1>2 DEF Sound, Handles
<1>5. Sound(g) /\ Held(g) = f.file
  BY <1>3, <1>4 DEF Sound, Held
<1> QED
  BY <1>3, <1>4, <1>5 DEF g

LEMMA SyncStep ==
  ASSUME IInv, xFreeRTOSSync
  PROVE  IInv' /\ Implements
<1>1. PICK r \in xFreeRTOSFlushBuffer(h) :
        \/ ~r.ok /\ Fail(r.h)
        \/ r.ok /\ \E s \in Flush(r.h) :
             \/ Fail(s.h)
             \/ s.ok /\ Return(Out("sync"), Synced(s.h))
  BY DEF xFreeRTOSSync
<1>2. Idle
  BY DEF xFreeRTOSSync
<1>3. CASE ~r.ok /\ Fail(r.h)
  BY <1>2, <1>3, FlushBufferIs, FailStep
<1>4. ASSUME r.ok, NEW s \in Flush(r.h), Fail(s.h)
      PROVE  IInv' /\ Implements
  BY <1>2, <1>4, Flushed, FailStep
<1>5. ASSUME r.ok, NEW s \in Flush(r.h), s.ok, Return(Out("sync"), Synced(s.h))
      PROVE  IInv' /\ Implements
  <2>1. Sound(s.h) /\ s.h.bytes = << >> /\ s.h.file = Placed /\ Held(s.h) = Placed
    BY <1>5, Flushed
  <2>2. /\ Sound(h') /\ h'.bytes = << >> /\ h'.file = Placed /\ Held(h') = Placed
        /\ \A p \in Pos : h'.disk[p] = {Placed[p]}
    BY <1>5, <2>1, SyncedIs DEF Return
  <2>3. IInv'
    BY <1>2, <1>5, <2>2, EmptiedBuffer DEF Return, Idle, IInv, TypeOK
  <2>4. Views /\ Views' /\ View = Placed /\ z' = << >>
    BY <1>2, <1>5, <2>3, ViewsAre, ViewsNext DEF Idle, Views, Return
  <2>5. View' = View /\ Placed' = View
    BY <1>5, <2>2, <2>4 DEF Views, Return
  <2>6. Kept' = [p \in Pos |-> {View'[p]}]
    <3>1. \A p \in Pos : Reach(h)'[p] \cup {Placed'[p], View'[p]} = {View'[p]}
      BY <2>2, <2>4, <2>5 DEF Reach
    <3> QED
      BY <2>4, <3>1 DEF Views
  <2>7. CASE broken
    BY <1>2, <1>5, <2>3, <2>7, BrokenStep DEF Idle, Return
  <2>8. CASE ~broken
    <3>1. Promise!Sync
      BY <1>2, <1>5, <2>5, <2>6, <2>8
         DEF Promise!Sync, Promise!Pos, Pos, Promise!Out, Promise!NoOut, Out, NoOut, Return, Idle
    <3> QED
      BY <2>3, <3>1 DEF Implements, Promise!Next
  <2> QED
    BY <2>7, <2>8
<1> QED
  BY <1>1, <1>3, <1>4, <1>5

(* What FatFs takes for the size of the file is at most what the FILE makes of it. *)
LEMMA SizeKnown ==
  ASSUME NEW f, Sound(f), NEW v, Held(f) = v
  PROVE  /\ f_size(f) \in Int /\ Size(v) \in Int
         /\ f_size(f) <= Size(v) /\ Size(f.file) <= f_size(f)
<1>1. /\ f.at \in 0 .. MaxSize /\ f.bytes \in Segments /\ f.file \in Contents /\ v \in Contents
      /\ f.at + Len(f.bytes) <= MaxSize /\ v = Overlay(f.file, f.at, f.bytes)
  BY HandleIs DEF Held, Sound
<1>2. Size(f.file) <= Size(v)
  BY <1>1, SizeGrows
<1>3. Size(f.file) \in Nat /\ Size(v) \in Nat /\ \A p \in Pos : p >= Size(v) => v[p] = Absent
  BY <1>1, SizeIs, SizeAssumption
<1>4. ASSUME f.bytes # << >> PROVE f.at < Size(v)
  <2>1. Len(f.bytes) \in Nat /\ Len(f.bytes) > 0 /\ f.at \in Nat
    <3>1. f.bytes \in Seq(Byte) /\ Len(f.bytes) \in Nat
      BY <1>1, SegmentIs
    <3> QED
      BY <1>1, <1>4, <3>1, EmptySeq, SizeAssumption
  <2>2. f.at \in Pos /\ Covers(f.at, f.bytes, f.at)
    BY <1>1, <2>1, SizeAssumption DEF Pos, Covers
  <2>3. v[f.at] \in Byte
    BY <1>1, <2>2, Covered DEF Overlay
  <2> QED
    BY <1>3, <2>1, <2>2, <2>3, ByteAssumption
<1>5. CASE f.bytes # << >> /\ f.at > Size(f.file)
  BY <1>1, <1>3, <1>4, <1>5, SizeAssumption DEF f_size
<1>6. CASE ~(f.bytes # << >> /\ f.at > Size(f.file))
  BY <1>2, <1>3, <1>6 DEF f_size
<1> QED
  BY <1>5, <1>6

LEMMA FileSizeStep ==
  ASSUME IInv, xFreeRTOSFileSize
  PROVE  IInv' /\ Implements
<1>1. PICK r \in xFreeRTOSFlushBuffer(h) :
        \/ ~r.ok /\ Fail(r.h)
        \/ r.ok /\ Return([Out("size") EXCEPT !.size = f_size(r.h)], r.h)
  BY DEF xFreeRTOSFileSize
<1>2. Idle
  BY DEF xFreeRTOSFileSize
<1>3. CASE ~r.ok /\ Fail(r.h)
  BY <1>2, <1>3, FlushBufferIs, FailStep
<1>4. CASE r.ok /\ Return([Out("size") EXCEPT !.size = f_size(r.h)], r.h)
  <2>1. /\ Sound(h') /\ Held(h') = Placed
        /\ \A p \in Pos : Reach(h')[p] = Reach(h)[p] \cup {Placed[p]}
    BY <1>4, FlushBufferIs DEF Return
  <2>2. IInv'
    BY <1>2, <1>4, <2>1, EmptiedBuffer DEF Return, Idle, IInv, TypeOK
  <2>3. Views /\ Views' /\ View = Placed
    BY <1>2, <2>2, ViewsAre, ViewsNext DEF Idle, Views
  <2>4. View' = View /\ Kept' = Kept
    BY <1>4, <2>1, <2>2, <2>3, StaysSame DEF Return, Views
  <2>5. CASE broken
    BY <1>2, <1>4, <2>2, <2>5, BrokenStep DEF Idle, Return
  <2>6. CASE ~broken
    <3>1. out'.op = "size" /\ out'.size = f_size(h')
      BY <1>4 DEF Return, Out, NoOut
    <3>2. f_size(h') <= Size(View) /\ Size(h'.file) <= f_size(h')
      BY <2>1, <2>3, SizeKnown
    <3>3. ASSUME Kept = [p \in Pos |-> {View[p]}] PROVE h'.file = View
      <4>1. \A p \in Pos : Kept'[p] = {View[p]}
        BY <2>4, <3>3
      <4>2. \A p \in Pos : h'.file[p] \in Kept'[p]
        <5>1. \A p \in Pos : h'.file[p] \in h'.disk[p] /\ h'.disk[p] \subseteq Reach(h)'[p]
          BY <2>1 DEF Sound, Reach
        <5> QED
          BY <2>3, <5>1 DEF Views
      <4>3. h'.file \in Contents /\ View \in Contents
        BY <2>1, <2>3, HandleIs DEF Views
      <4> QED
        BY <4>1, <4>2, <4>3 DEF Contents
    <3>4. Promise!Size(View) = Size(View)
      BY DEF Size, Promise!Size, Pos, Promise!Pos
    <3>5. open /\ UNCHANGED <<open, broken>>
      BY <1>2, <1>4 DEF Return, Idle
    <3>6. f_size(h') \in Int /\ Size(View) \in Int
      BY <2>1, <2>3, SizeKnown
    <3>7. CASE f_size(h') = Size(View)
      <4>1. Promise!FileSize
        BY <2>4, <2>6, <3>1, <3>4, <3>5, <3>7 DEF Promise!FileSize
      <4> QED
        BY <2>2, <4>1 DEF Implements, Promise!Next
    <3>8. CASE f_size(h') < Size(View)
      <4>1. Kept # [p \in Pos |-> {View[p]}]
        <5> SUFFICES ASSUME Kept = [p \in Pos |-> {View[p]}] PROVE FALSE
          OBVIOUS
        <5>1. Size(View) <= f_size(h')
          BY <3>2, <3>3
        <5> QED
          BY <3>6, <3>8, <5>1
      <4>2. SizeStale
        BY <2>4, <2>6, <3>1, <3>5, <3>8, <4>1 DEF SizeStale, Unkept
      <4> QED
        BY <2>2, <4>2 DEF Implements, Departs
    <3> QED
      BY <3>2, <3>6, <3>7, <3>8
  <2> QED
    BY <2>5, <2>6
<1> QED
  BY <1>1, <1>3, <1>4

LEMMA TruncateStep ==
  ASSUME IInv, NEW n \in 0 .. MaxSize, xFreeRTOSTruncate(n)
  PROVE  IInv' /\ Implements
<1>1. IInv'
  BY DEF xFreeRTOSTruncate, IInv, TypeOK, BufferFits, Sound
<1>2. View' = View /\ Kept' = Kept
  BY DEF xFreeRTOSTruncate, View, Kept
<1>3. out'.op = "truncate" /\ out'.size = n
  BY DEF xFreeRTOSTruncate, Out, NoOut
<1>4. CASE broken
  BY <1>1, <1>4, BrokenStep DEF xFreeRTOSTruncate, Idle
<1>5. CASE ~broken
  <2>0. Views /\ View \in Contents /\ open /\ UNCHANGED <<open, broken>>
    BY ViewsAre DEF Views, xFreeRTOSTruncate, Idle
  <2>1. Size(View) \in Nat /\ n \in Nat /\ \A p \in Pos : p >= Size(View) => View[p] = Absent
    BY <2>0, SizeIs, SizeAssumption
  <2>2. CASE n < Size(View)
    <3>1. TruncateIgnored
      BY <1>2, <1>3, <1>5, <2>0, <2>2 DEF TruncateIgnored, Unkept
    <3> QED
      BY <1>1, <3>1 DEF Implements, Departs
  <2>3. CASE Size(View) <= n
    <3>1. \A p \in Pos : p \in Nat
      BY SizeAssumption DEF Pos
    <3>2. \A p \in Pos : View[p] = IF p < n THEN View[p] ELSE Absent
      BY <2>1, <2>3, <3>1
    <3>3. View' = [p \in Pos |-> IF p < n THEN View[p] ELSE Absent]
      BY <1>2, <2>0, <3>2 DEF Contents
    <3>4. \A p \in Pos : Kept[p] = Kept[p] \cup {View'[p]}
      BY <1>2, <2>0 DEF Views
    <3>5. Kept' = [p \in Pos |-> Kept[p] \cup {View'[p]}]
      BY <1>2, <2>0, <3>4 DEF Views
    <3>6. Promise!Truncate
      BY <1>3, <1>5, <2>0, <3>3, <3>5 DEF Promise!Truncate, Promise!Pos, Pos
    <3> QED
      BY <1>1, <3>6 DEF Implements, Promise!Next
  <2> QED
    BY <2>1, <2>2, <2>3
<1> QED
  BY <1>4, <1>5

(* What becomes of a closed file that is emptied *)
LEMMA EmptiedIs ==
  ASSUME NEW f, Sound(f), f.bytes = << >>
  PROVE  /\ Sound(Emptied(f)) /\ Emptied(f).bytes = << >>
         /\ Emptied(f).file = Empty /\ Held(Emptied(f)) = Empty
         /\ \A p \in Pos : Emptied(f).disk[p] = f.disk[p] \cup {Absent}
<1> DEFINE D == [p \in Pos |-> f.disk[p] \cup {Absent}]
           g == Emptied(f)
<1>1. g = [f EXCEPT !.file = Empty, !.disk = D]
  BY DEF Emptied
<1>2. D \in [Pos -> SUBSET (Byte \cup {Absent})]
  BY HandleIs
<1>3. \A p \in Pos : D[p] = f.disk[p] \cup {Absent}
  OBVIOUS
<1>4. Empty \in Contents /\ \A p \in Pos : Empty[p] = Absent
  BY DEF Empty, Contents
<1> HIDE DEF D, g
<1>5. /\ g \in Handles /\ g.at = f.at /\ g.bytes = f.bytes
      /\ g.file = Empty /\ g.disk = D
  BY <1>1, <1>2, <1>4 DEF Sound, Handles
<1>6. Sound(g)
  BY <1>3, <1>4, <1>5 DEF Sound
<1>7. Held(g) = Empty
  BY <1>4, <1>5, <1>6, HandleIs, OverlayNothing DEF Held
<1> QED
  BY <1>3, <1>5, <1>6, <1>7 DEF g

(* What VfsFile sees of a file that is not open *)
LEMMA ClosedIs ==
  ASSUME IInv, ~open
  PROVE  /\ View = h.file /\ Kept = [p \in Pos |-> h.disk[p]]
         /\ Held(h) = h.file /\ aBuffer = << >> /\ z = << >> /\ h.bytes = << >>
<1>1. h.bytes = << >> /\ z = << >> /\ aBuffer = << >> /\ Sound(h)
  BY DEF IInv, BufferFits
<1> QED
  BY <1>1, NothingAbove

LEMMA ClosedAre ==
  IInv /\ ~open => View = h.file /\ Kept = [p \in Pos |-> h.disk[p]]
BY ClosedIs

LEMMA ClosedLater ==
  (IInv /\ ~open)' => (View = h.file /\ Kept = [p \in Pos |-> h.disk[p]])'
BY ClosedAre, PTL

LEMMA ClosedNext ==
  ASSUME IInv', ~open'
  PROVE  View' = h'.file /\ Kept' = [p \in Pos |-> h'.disk[p]]
BY ClosedLater

LEMMA OpenStep ==
  ASSUME IInv, NEW journal \in BOOLEAN, NEW found \in BOOLEAN, xFreeRTOSOpen(journal, found)
  PROVE  IInv' /\ Implements
<1>1. /\ ~open /\ open' /\ aBuffer' = << >> /\ iBufferOfst' = 0 /\ out' = NoOut
      /\ h' = (IF found THEN h ELSE Emptied(h)) /\ UNCHANGED <<z, i, broken>>
      /\ open' \in BOOLEAN /\ buffered' \in BOOLEAN
  BY DEF xFreeRTOSOpen
<1>2. /\ View = h.file /\ Kept = [p \in Pos |-> h.disk[p]]
      /\ Held(h) = h.file /\ aBuffer = << >> /\ z = << >> /\ h.bytes = << >>
  BY <1>1, ClosedIs
<1>3. Sound(h)
  BY DEF IInv
<1>4. Sound(h') /\ h'.bytes = << >> /\ Held(h') = h'.file
  BY <1>1, <1>2, <1>3, EmptiedIs
<1>5. IInv'
  <2>1. /\ << >> \in Segments /\ Len(<< >>) = 0 /\ 0 \in 0 .. MaxSize
        /\ 0 + Len(<< >>) <= MaxSize /\ Len(<< >>) <= BUFFERSZ
    BY NothingIsSegment, BufferAssumption, SizeAssumption
  <2>2. TypeOK'
    BY <1>1, <1>4, <2>1 DEF IInv, TypeOK, Sound
  <2>3. BufferFits'
    BY <1>1, <2>1 DEF BufferFits
  <2> QED
    BY <1>1, <1>4, <2>1, <2>2, <2>3 DEF IInv, Sound
<1>6. Views' /\ View' = h'.file
  BY <1>1, <1>2, <1>4, <1>5, ViewsNext DEF Views
<1>7. Kept' = [p \in Pos |-> h'.disk[p]]
  <2>1. \A p \in Pos : Reach(h)'[p] \cup {Placed'[p], View'[p]} = h'.disk[p]
    BY <1>1, <1>2, <1>4, <1>6 DEF Reach, Sound, Views
  <2> QED
    BY <1>6, <2>1 DEF Views
<1>8. Promise!Open
  <2>1. CASE found
    BY <1>1, <1>2, <1>6, <1>7, <2>1 DEF Promise!Open, Promise!NoOut, NoOut
  <2>2. CASE ~found
    <3>1. h'.file = Empty /\ \A p \in Pos : h'.disk[p] = h.disk[p] \cup {Absent}
      BY <1>1, <1>2, <1>3, <2>2, EmptiedIs
    <3>2. View' = Empty /\ Kept' = [p \in Pos |-> Kept[p] \cup {Absent}]
      BY <1>2, <1>6, <1>7, <3>1
    <3> QED
      BY <1>1, <3>2 DEF Promise!Open, Promise!NoOut, NoOut, Promise!Empty, Empty, Promise!Pos, Pos
  <2> QED
    BY <2>1, <2>2
<1> QED
  BY <1>5, <1>8 DEF Implements, Promise!Next

LEMMA DeleteStep ==
  ASSUME IInv, xFreeRTOSDelete
  PROVE  IInv' /\ Implements
<1>1. /\ ~open /\ ~open' /\ out' = NoOut
      /\ \/ h' = Emptied(h)
         \/ h' = Synced(Emptied(h))
      /\ UNCHANGED <<open, buffered, aBuffer, iBufferOfst, z, i, broken>>
  BY DEF xFreeRTOSDelete
<1>2. /\ View = h.file /\ Kept = [p \in Pos |-> h.disk[p]] /\ h.bytes = << >> /\ Sound(h)
      /\ aBuffer = << >> /\ z = << >>
  BY <1>1, ClosedIs DEF IInv
<1>3. /\ Sound(h') /\ h'.bytes = << >> /\ h'.file = Empty
      /\ \/ \A p \in Pos : h'.disk[p] = h.disk[p] \cup {Absent}
         \/ \A p \in Pos : h'.disk[p] = {Empty[p]}
  <2> DEFINE g == Emptied(h)
  <2>1. /\ Sound(g) /\ g.bytes = << >> /\ g.file = Empty /\ Held(g) = Empty
        /\ \A p \in Pos : g.disk[p] = h.disk[p] \cup {Absent}
    BY <1>2, EmptiedIs
  <2>2. h' = g \/ h' = Synced(g)
    BY <1>1
  <2> HIDE DEF g
  <2> QED
    BY <2>1, <2>2, SyncedIs
<1>4. IInv'
  BY <1>1, <1>2, <1>3 DEF IInv, TypeOK, BufferFits, Sound
<1>5. View' = Empty /\ Kept' = [p \in Pos |-> h'.disk[p]]
  BY <1>1, <1>3, <1>4, ClosedNext
<1>6. \/ Kept' = [p \in Pos |-> {Absent}]
      \/ Kept' = [p \in Pos |-> Kept[p] \cup {Absent}]
  <2>1. CASE \A p \in Pos : h'.disk[p] = h.disk[p] \cup {Absent}
    BY <1>2, <1>5, <2>1
  <2>2. CASE \A p \in Pos : h'.disk[p] = {Empty[p]}
    BY <1>5, <2>2 DEF Empty
  <2> QED
    BY <1>3, <2>1, <2>2
<1>7. Promise!Delete
  BY <1>1, <1>5, <1>6
     DEF Promise!Delete, Promise!NoOut, NoOut, Promise!Empty, Empty, Promise!Pos, Pos
<1> QED
  BY <1>4, <1>7 DEF Implements, Promise!Next

LEMMA CloseStep ==
  ASSUME IInv, xFreeRTOSClose
  PROVE  IInv' /\ Implements
<1>1. PICK r \in xFreeRTOSFlushBuffer(h) : \E s \in Flush(r.h) : h' \in {s.h, Synced(s.h)}
  BY DEF xFreeRTOSClose
<1>2. PICK s \in Flush(r.h) : h' = s.h \/ h' = Synced(s.h)
  BY <1>1
<1>3. /\ open /\ ~open' /\ ~broken' /\ out' = NoOut /\ aBuffer' = << >> /\ iBufferOfst' = 0
      /\ open' \in BOOLEAN /\ buffered' \in BOOLEAN /\ broken' \in BOOLEAN
      /\ z = << >> /\ UNCHANGED <<z, i>>
  BY DEF xFreeRTOSClose, Idle
<1>4. /\ Sound(s.h) /\ s.h.bytes = << >> /\ s.h.file = Held(s.h)
      /\ \A p \in Pos : s.h.disk[p] \subseteq OrJunk(Reach(h)[p] \cup {Placed[p]})
  <2> DEFINE g == r.h
  <2>1. /\ Sound(g)
        /\ \A p \in Pos : g.disk[p] \subseteq OrJunk(Reach(h)[p] \cup {Placed[p]})
        /\ r.ok => /\ Held(g) = Placed
                   /\ \A p \in Pos : Reach(g)[p] = Reach(h)[p] \cup {Placed[p]}
    BY FlushBufferIs
  <2>2. s \in Flush(g)
    OBVIOUS
  <2>3. ~r.ok => g.bytes = << >> /\ g.file = Held(g)
    BY FailedFlushBuffer
  <2> HIDE DEF g
  <2>4. \A p \in Pos : Reach(g)[p] \subseteq OrJunk(Reach(h)[p] \cup {Placed[p]})
    <3>1. CASE r.ok
      BY <2>1, <3>1, JunkHolds
    <3>2. CASE ~r.ok
      BY <2>1, <2>3, <3>2 DEF Reach, Sound
    <3> QED
      BY <3>1, <3>2
  <2>5. /\ Sound(s.h) /\ s.h.bytes = << >>
        /\ \A p \in Pos : s.h.disk[p] \subseteq OrJunk(Reach(g)[p])
    BY <2>1, <2>2, FlushIs
  <2>7. ASSUME NEW p \in Pos PROVE s.h.disk[p] \subseteq OrJunk(Reach(h)[p] \cup {Placed[p]})
    <3>1. OrJunk(Reach(g)[p]) \subseteq OrJunk(OrJunk(Reach(h)[p] \cup {Placed[p]}))
      BY <2>4, JunkGrows
    <3> QED
      BY <2>5, <3>1, JunkOnce
  <2>6. s.h.file = Held(s.h)
    BY <2>5, HandleIs, OverlayNothing DEF Held
  <2> QED
    BY <2>5, <2>6, <2>7
<1>5. /\ Sound(h') /\ h'.bytes = << >>
      /\ \A p \in Pos : h'.disk[p] \subseteq OrJunk(Reach(h)[p] \cup {Placed[p]})
  <2> DEFINE g == s.h
  <2>1. h' = g \/ h' = Synced(g)
    BY <1>2
  <2>2. /\ Sound(g) /\ g.bytes = << >> /\ g.file = Held(g)
        /\ \A p \in Pos : g.disk[p] \subseteq OrJunk(Reach(h)[p] \cup {Placed[p]})
    BY <1>4
  <2> HIDE DEF g
  <2>3. \A p \in Pos : g.file[p] \in g.disk[p]
    BY <2>2 DEF Sound
  <2>4. CASE h' = g
    BY <2>2, <2>4
  <2>5. CASE h' = Synced(g)
    BY <2>2, <2>3, <2>5, SyncedIs
  <2> QED
    BY <2>1, <2>4, <2>5
<1>6. IInv'
  <2>1. /\ << >> \in Segments /\ Len(<< >>) = 0 /\ 0 \in 0 .. MaxSize
        /\ 0 + Len(<< >>) <= MaxSize /\ Len(<< >>) <= BUFFERSZ
    BY NothingIsSegment, BufferAssumption, SizeAssumption
  <2>2. TypeOK'
    BY <1>3, <1>5, <2>1 DEF IInv, TypeOK, Sound
  <2>3. BufferFits'
    BY <1>3, <2>1 DEF BufferFits
  <2> QED
    BY <1>3, <1>5, <2>1, <2>2, <2>3 DEF IInv, Sound
<1>7. View' = h'.file /\ Kept' = [p \in Pos |-> h'.disk[p]]
  BY <1>3, <1>6, ClosedNext
<1>8. Promise!Close
  <2>0. Views /\ View = Placed
    BY <1>3, ViewsAre DEF Views
  <2>1. \A p \in Pos : Kept'[p] \subseteq Promise!OrJunk(Kept[p])
    <3>1. \A p \in Pos : Kept[p] = Reach(h)[p] \cup {Placed[p]}
      BY <2>0 DEF Views
    <3>2. \A p \in Pos : Kept'[p] \subseteq OrJunk(Kept[p])
      BY <1>5, <1>7, <3>1
    <3> QED
      BY <3>2 DEF OrJunk, Promise!OrJunk
  <2>2. \A p \in Pos : View'[p] \in Kept'[p]
    BY <1>5, <1>7 DEF Sound
  <2> QED
    BY <1>3, <2>1, <2>2 DEF Promise!Close, Promise!Pos, Pos, Promise!NoOut, NoOut
<1> QED
  BY <1>6, <1>8 DEF Implements, Promise!Next

LEMMA CrashStep ==
  ASSUME IInv, Crash
  PROVE  IInv' /\ Implements
<1>1. PICK f \in Contents :
        (\A p \in Pos : f[p] \in h.disk[p]) /\ h' = Handle(f, [p \in Pos |-> {f[p]}])
  BY DEF Crash
<1> DEFINE D == [p \in Pos |-> {f[p]}]
<1>2. /\ ~open' /\ ~broken' /\ out' = NoOut /\ aBuffer' = << >> /\ iBufferOfst' = 0
      /\ z' = << >> /\ i' = 0
      /\ open' \in BOOLEAN /\ buffered' \in BOOLEAN /\ broken' \in BOOLEAN
  BY DEF Crash
<1>3. h' \in Handles /\ h'.at = 0 /\ h'.bytes = << >> /\ h'.file = f /\ h'.disk = D
  <2>1. h' = [at |-> 0, bytes |-> << >>, file |-> f, disk |-> D]
    BY <1>1 DEF Handle
  <2>2. D \in [Pos -> SUBSET (Byte \cup {Absent})]
    BY DEF Contents
  <2> HIDE DEF D
  <2> QED
    BY <2>1, <2>2, NothingIsSegment, SizeAssumption DEF Handles
<1>4. Sound(h')
  BY <1>3, NothingIsSegment, SizeAssumption DEF Sound
<1>5. IInv'
  <2>1. /\ << >> \in Segments /\ Len(<< >>) = 0 /\ 0 \in 0 .. MaxSize
        /\ 0 + Len(<< >>) <= MaxSize /\ Len(<< >>) <= BUFFERSZ
    BY NothingIsSegment, BufferAssumption, SizeAssumption
  <2>2. TypeOK'
    BY <1>2, <1>3, <2>1 DEF TypeOK
  <2>3. BufferFits'
    BY <1>2, <2>1 DEF BufferFits
  <2> QED
    BY <1>2, <1>3, <1>4, <2>1, <2>2, <2>3 DEF IInv, Sound
<1>6. View' = f /\ Kept' = D
  BY <1>2, <1>3, <1>5, ClosedNext
<1>7. \A p \in Pos : f[p] \in Kept[p]
  BY <1>1, ViewsAre DEF Views, Reach
<1>8. Promise!Crash
  BY <1>2, <1>6, <1>7 DEF Promise!Crash, Promise!Pos, Pos, Promise!NoOut, NoOut
<1> QED
  BY <1>5, <1>8 DEF Implements, Promise!Next

-------------------------------------------------------------------------------
(* Writing *)

LEMMA WriteStarts ==
  ASSUME IInv, NEW o \in Pos, NEW n \in 1 .. MaxSize - o, NEW ds \in [1 .. n -> Byte],
         xFreeRTOSWrite(o, ds)
  PROVE  IInv' /\ Implements
<1>0. open /\ z = << >> /\ z' = ds /\ i' = o /\ out' = NoOut
      /\ UNCHANGED <<open, buffered, aBuffer, iBufferOfst, h, broken>>
  BY DEF xFreeRTOSWrite, Idle
<1>1. /\ n \in Nat /\ o \in Nat /\ o + n <= MaxSize /\ n > 0 /\ MaxSize \in Nat
      /\ ds \in Seq(Byte) /\ Len(ds) = n
  <2>1. n \in Nat /\ o \in Nat /\ o + n <= MaxSize /\ n > 0 /\ MaxSize \in Nat
    BY SizeAssumption DEF Pos
  <2>2. ds \in Seq(Byte) /\ Len(ds) = n
    BY <2>1
  <2> QED
    BY <2>1, <2>2
<1>2. ds \in Segments
  BY <1>1, SegmentIs
<1>3. IInv'
  BY <1>0, <1>1, <1>2 DEF IInv, TypeOK, BufferFits, Sound
<1>4. CASE broken
  BY <1>0, <1>3, <1>4, BrokenStep
<1>5. CASE ~broken
  <2>1. Views /\ Views' /\ View = Placed
    BY <1>0, <1>3, ViewsAre, ViewsNext DEF Views
  <2>2. Placed' = Placed
    BY <1>0 DEF Placed
  <2>3. View' = Overlay(View, o, ds)
    BY <1>0, <2>1, <2>2 DEF Views
  <2>4. \A p \in Pos : IF o <= p /\ p <= o + n - 1 THEN View'[p] \in Byte ELSE View'[p] = View[p]
    <3>1. \A p \in Pos : p \in Nat /\ (Covers(o, ds, p) <=> o <= p /\ p <= o + n - 1)
      BY <1>1 DEF Covers, Pos
    <3>2. \A p \in Pos : Covers(o, ds, p) => ds[p - o + 1] \in Byte
      BY <1>1, <1>2, Covered
    <3> QED
      BY <2>3, <3>1, <3>2 DEF Overlay
  <2>5. o + n - 1 \in Pos /\ o <= o + n - 1
    BY <1>1 DEF Pos
  <2>6. Kept' = [p \in Pos |-> Kept[p] \cup {View'[p]}]
    <3>1. \A p \in Pos : Reach(h)'[p] \cup {Placed'[p], View'[p]} = Kept[p] \cup {View'[p]}
      BY <1>0, <2>1, <2>2 DEF Views, Reach
    <3> QED
      BY <2>1, <3>1 DEF Views
  <2>7. Promise!Write
    <3> DEFINE last == o + n - 1
    <3>1. last \in Promise!Pos /\ o \in Promise!Pos /\ o <= last
      BY <2>5 DEF Promise!Pos, Pos
    <3>2. \A p \in Promise!Pos :
            IF o <= p /\ p <= last THEN View'[p] \in Byte ELSE View'[p] = View[p]
      BY <2>4 DEF Promise!Pos, Pos
    <3> HIDE DEF last
    <3>3. out' = Promise!NoOut
      BY <1>0 DEF Promise!NoOut, NoOut
    <3> QED
      BY <1>0, <1>5, <2>6, <3>1, <3>2, <3>3 DEF Promise!Write, Promise!Pos, Pos
  <2> QED
    BY <1>3, <2>7 DEF Implements, Promise!Next
<1> QED
  BY <1>4, <1>5

(* A part of the write has reached the journal buffer or the FILE. *)
LEMMA Unseen ==
  ASSUME IInv, IInv', UNCHANGED <<open, broken, out>>, View' = View,
         \A p \in Pos : Reach(h)'[p] \cup {Placed'[p], View[p]} = Reach(h)[p] \cup {Placed[p], View[p]}
  PROVE  Implements
<1>1. Views /\ Views'
  BY ViewsAre, ViewsNext
<1>2. Kept' = Kept
  BY <1>1 DEF Views
<1> QED
  BY <1>2 DEF Implements, Promise!vars

LEMMA WriteThroughStep ==
  ASSUME IInv, ~buffered, WriteStep
  PROVE  IInv' /\ Implements
<1>0. /\ open /\ ~buffered /\ z # << >> /\ z' = << >>
      /\ UNCHANGED <<open, buffered, aBuffer, iBufferOfst, i, out>>
  BY DEF WriteStep, WriteOutcomes, WriteThrough, Leaves, IInv
<1>1. PICK r \in xFreeRTOSDirectWrite(h, i, z) : h' = r.h /\ broken' = (broken \/ ~r.ok)
  BY DEF WriteStep, WriteOutcomes, WriteThrough, Leaves
<1>2. aBuffer = << >> /\ z \in Segments /\ i \in 0 .. MaxSize /\ i + Len(z) <= MaxSize /\ Sound(h)
  BY <1>0 DEF IInv, TypeOK, BufferFits
<1>3. Views /\ Placed = Held(h) /\ View = Overlay(Held(h), i, z)
  BY <1>2, ViewsAre DEF Views
<1>4. /\ Sound(h')
      /\ r.ok => /\ Held(h') = View
                 /\ \A p \in Pos : Reach(h')[p] = Reach(h)[p] \cup {View[p]}
  BY <1>1, <1>2, <1>3, DirectWriteIs
<1>5. IInv'
  <2>1. broken' \in BOOLEAN
    BY <1>1
  <2>2. << >> \in Segments /\ Len(<< >>) = 0 /\ i + 0 <= MaxSize
    BY <1>2, NothingIsSegment, SizeAssumption
  <2> QED
    BY <1>0, <1>4, <2>1, <2>2 DEF IInv, TypeOK, BufferFits, Sound
<1>6. CASE r.ok
  <2>1. Views'
    BY <1>5, ViewsNext
  <2>2. Placed' = View /\ View' = View
    BY <1>0, <1>2, <1>4, <1>6, <2>1 DEF Views
  <2>3. \A p \in Pos : Held(h)[p] \in Reach(h)[p]
    BY DEF Reach
  <2>4. \A p \in Pos : Reach(h)'[p] = Reach(h)[p] \cup {View[p]}
    BY <1>4, <1>6 DEF Reach
  <2>5. \A p \in Pos : Reach(h)'[p] \cup {Placed'[p], View[p]} = Reach(h)[p] \cup {Placed[p], View[p]}
    BY <1>3, <2>2, <2>3, <2>4
  <2>6. CASE broken
    BY <1>0, <1>1, <1>5, <2>6, BrokenStep
  <2>7. CASE ~broken
    <3>1. broken' = broken
      BY <1>1, <1>6, <2>7 DEF IInv, TypeOK
    <3> QED
      BY <1>0, <1>5, <2>2, <2>5, <3>1, Unseen
  <2> QED
    BY <2>6, <2>7
<1>7. CASE ~r.ok
  BY <1>0, <1>1, <1>5, <1>7, BrokenStep
<1> QED
  BY <1>6, <1>7

(* The copy into the buffer, in which kept stays *)
LEMMA CopyIs ==
  ASSUME IInv, NEW kept \in Segments, Len(kept) < BUFFERSZ, Len(kept) <= i,
         z # << >>, buffered, open, UNCHANGED <<open, buffered>>,
         NEW f, Leaves(CopyAfter(f, kept)), Sound(h'), Overlay(Held(h'), i - Len(kept), kept) = Placed
  PROVE  /\ IInv' /\ View' = View
         /\ \A p \in Pos : p < i => Placed'[p] = Placed[p]
         /\ \A p \in Pos : Placed'[p] \in {Placed[p], View[p]}
<1> DEFINE n == Smaller(BUFFERSZ - Len(kept), Len(z))
           o == i - Len(kept)
<1>1. /\ z \in Seq(Byte) /\ Len(z) \in Nat /\ Len(z) > 0 /\ kept \in Seq(Byte) /\ Len(kept) \in Nat
      /\ i \in Nat /\ i + Len(z) <= MaxSize /\ MaxSize \in Nat /\ BUFFERSZ \in Nat
      /\ z \in Segments
  <2>1. z \in Seq(Byte) /\ kept \in Seq(Byte) /\ z \in Segments
    BY SegmentIs DEF IInv, TypeOK
  <2>2. Len(z) # 0
    BY <2>1, EmptySeq
  <2> QED
    BY <2>1, <2>2, SizeAssumption, BufferAssumption DEF IInv, TypeOK
<1>2. n \in 1 .. Len(z) /\ Len(kept) + n <= BUFFERSZ /\ n \in 0 .. Len(z) /\ n \in Nat
  BY <1>1 DEF Smaller
<1>3. o \in 0 .. MaxSize /\ o + Len(kept) = i
  BY <1>1
<1>4. /\ aBuffer' = kept \o Prefix(z, n) /\ iBufferOfst' = o
      /\ z' = Rest(z, n) /\ i' = i + n /\ broken' = broken
  BY DEF Leaves, CopyAfter
<1> HIDE DEF n, o
<1>5. /\ Prefix(z, n) \in Segments /\ Len(Prefix(z, n)) = n
      /\ Rest(z, n) \in Segments /\ Len(Rest(z, n)) = Len(z) - n
  BY <1>1, <1>2, Cut
<1>6. kept \o Prefix(z, n) \in Segments /\ Len(kept \o Prefix(z, n)) = Len(kept) + n
  <2>1. Len(kept) + Len(Prefix(z, n)) <= MaxSize
    BY <1>1, <1>2, <1>5
  <2> QED
    BY <1>5, <2>1, Joined
<1>7. IInv'
  <2>1. i' \in 0 .. MaxSize /\ i' + Len(z') <= MaxSize /\ iBufferOfst' + Len(aBuffer') <= MaxSize
    BY <1>1, <1>2, <1>3, <1>4, <1>5, <1>6
  <2>2. TypeOK'
    BY <1>3, <1>4, <1>5, <1>6, <2>1 DEF IInv, TypeOK, Sound
  <2>3. BufferFits'
    BY <1>2, <1>4, <1>6 DEF BufferFits
  <2> QED
    BY <2>1, <2>2, <2>3 DEF IInv, Sound
<1>8. Views /\ Views'
  BY <1>7, ViewsAre, ViewsNext
<1>9. Placed' = Overlay(Placed, i, Prefix(z, n))
  <2>1. Held(h') \in Contents /\ o + Len(kept) + Len(Prefix(z, n)) <= MaxSize
    BY <1>1, <1>2, <1>3, <1>5, HandleIs
  <2>2. Overlay(Held(h'), o, kept \o Prefix(z, n))
          = Overlay(Overlay(Held(h'), o, kept), o + Len(kept), Prefix(z, n))
    BY <1>3, <1>5, <2>1, OverlayJoined
  <2>3. Overlay(Held(h'), o, kept) = Placed
    BY DEF o
  <2> QED
    BY <1>3, <1>4, <2>2, <2>3 DEF Placed
<1>10. View' = View
  <2>1. View' = Overlay(Overlay(Placed, i, Prefix(z, n)), i + n, Rest(z, n))
    BY <1>4, <1>8, <1>9 DEF Views
  <2>2. Overlay(Overlay(Placed, i, Prefix(z, n)), i + n, Rest(z, n)) = Overlay(Placed, i, z)
    BY <1>1, <1>2, <1>8, OverlayCut DEF Views
  <2> QED
    BY <1>8, <2>1, <2>2 DEF Views
<1>11. \A p \in Pos : Placed'[p] \in {Placed[p], View[p]}
  <2> SUFFICES ASSUME NEW p \in Pos PROVE Placed'[p] \in {Placed[p], View[p]}
    OBVIOUS
  <2>1. CASE Covers(i, Prefix(z, n), p)
    <3>1. i \in 0 .. MaxSize /\ Placed \in Contents /\ View = Overlay(Placed, i, z)
      BY <1>1, <1>8 DEF Views
    <3> QED
      BY <1>1, <1>2, <1>9, <2>1, <3>1, PrefixOver
  <2>2. CASE ~Covers(i, Prefix(z, n), p)
    BY <1>9, <2>2 DEF Overlay
  <2> QED
    BY <2>1, <2>2
<1>12. \A p \in Pos : p < i => Placed'[p] = Placed[p]
  BY <1>1, <1>9, SizeAssumption DEF Overlay, Covers, Pos
<1> QED
  BY <1>7, <1>10, <1>11, <1>12

LEMMA WriteChunkStep ==
  ASSUME IInv, buffered, WriteStep
  PROVE  IInv' /\ Implements
<1>0. z # << >> /\ buffered /\ open /\ UNCHANGED <<open, buffered, out>>
  BY DEF WriteStep, IInv
<1>1. /\ aBuffer \in Segments /\ Len(aBuffer) \in Nat /\ z \in Segments /\ Len(z) \in Nat
      /\ i \in 0 .. MaxSize /\ iBufferOfst \in Nat /\ Len(z) # 0
      /\ Sound(h) /\ broken \in BOOLEAN /\ MaxSize \in Nat /\ BUFFERSZ \in Nat /\ BUFFERSZ > 0
      /\ Len(aBuffer) <= BUFFERSZ
  <2>1. z \in Seq(Byte) /\ aBuffer \in Seq(Byte) /\ z \in Segments /\ aBuffer \in Segments
    BY SegmentIs DEF IInv, TypeOK
  <2>2. Len(z) # 0
    BY <1>0, <2>1, EmptySeq
  <2> QED
    BY <2>1, <2>2, SizeAssumption, BufferAssumption DEF IInv, TypeOK, BufferFits
<1>2. Views
  BY ViewsAre
<1>6. PICK s \in WriteChunk : Leaves(s)
  BY <1>0 DEF WriteStep, WriteOutcomes
<1>3. CASE ~MustFlush
  <2>0. /\ Leaves(CopyAfter(h, aBuffer))
        /\ UNCHANGED <<h, broken>>
    BY <1>3, <1>6 DEF WriteChunk, Leaves, CopyAfter
  <2>1. Len(aBuffer) < BUFFERSZ /\ i - Len(aBuffer) = iBufferOfst /\ Len(aBuffer) <= i
    BY <1>1, <1>3 DEF MustFlush
  <2>2. Overlay(Held(h'), i - Len(aBuffer), aBuffer) = Placed
    BY <2>0, <2>1 DEF Placed
  <2>3. Sound(h')
    BY <1>1, <2>0
  <2>4. /\ IInv' /\ View' = View
        /\ \A p \in Pos : p < i => Placed'[p] = Placed[p]
        /\ \A p \in Pos : Placed'[p] \in {Placed[p], View[p]}
    BY <1>0, <1>1, <2>0, <2>1, <2>2, <2>3, CopyIs
  <2>5. \A p \in Pos : p >= i => Placed[p] = Held(h)[p]
    <3>1. \A p \in Pos : p >= i => ~Covers(iBufferOfst, aBuffer, p)
      BY <1>1, <2>1 DEF Covers, Pos
    <3> QED
      BY <3>1 DEF Placed, Overlay
  <2>6. \A p \in Pos : Reach(h)'[p] = Reach(h)[p] /\ Held(h)[p] \in Reach(h)[p]
    BY <2>0 DEF Reach
  <2>7. \A p \in Pos : Reach(h)'[p] \cup {Placed'[p], View[p]} = Reach(h)[p] \cup {Placed[p], View[p]}
    <3>1. \A p \in Pos : p < i \/ p >= i
      BY <1>1 DEF Pos
    <3> QED
      BY <2>4, <2>5, <2>6, <3>1
  <2> QED
    BY <1>0, <2>0, <2>4, <2>7, Unseen
<1>4. ASSUME MustFlush, NEW r \in xFreeRTOSFlushBuffer(h), r.ok,
             Leaves(CopyAfter(r.h, << >>))
      PROVE  IInv' /\ Implements
  <2>0. h' = r.h /\ UNCHANGED broken
    BY <1>4 DEF Leaves, CopyAfter
  <2>1. /\ Sound(h') /\ Held(h') = Placed
        /\ \A p \in Pos : Reach(h')[p] = Reach(h)[p] \cup {Placed[p]}
    BY <1>4, <2>0, FlushBufferIs
  <2>2. << >> \in Segments /\ Len(<< >>) = 0
    BY NothingIsSegment
  <2>3. Overlay(Held(h'), i - Len(<< >>), << >>) = Placed
    BY <1>1, <1>2, <2>1, <2>2, OverlayNothing DEF Views
  <2>4. Len(<< >>) < BUFFERSZ /\ Len(<< >>) <= i
    BY <1>1, <2>2
  <2>5. /\ IInv' /\ View' = View
        /\ \A p \in Pos : Placed'[p] \in {Placed[p], View[p]}
    BY <1>0, <1>4, <2>1, <2>2, <2>3, <2>4, CopyIs
  <2>6. \A p \in Pos : Reach(h)'[p] = Reach(h)[p] \cup {Placed[p]}
    BY <2>1 DEF Reach
  <2>7. \A p \in Pos : Reach(h)'[p] \cup {Placed'[p], View[p]} = Reach(h)[p] \cup {Placed[p], View[p]}
    BY <2>5, <2>6
  <2> QED
    BY <1>0, <2>0, <2>5, <2>7, Unseen
<1>5. ASSUME NEW r \in xFreeRTOSFlushBuffer(h), Leaves(Dropped(r.h))
      PROVE  IInv' /\ Implements
  <2>0. /\ h' = r.h /\ aBuffer' = << >> /\ z' = << >> /\ broken' = TRUE
        /\ UNCHANGED <<iBufferOfst, i>>
    BY <1>5 DEF Leaves, Dropped
  <2>1. Sound(h')
    BY <2>0, FlushBufferIs
  <2>2. IInv'
    BY <1>0, <2>0, <2>1, EmptiedBuffer
  <2> QED
    BY <1>0, <2>0, <2>2, BrokenStep
<1>7. ASSUME MustFlush
      PROVE  \E r \in xFreeRTOSFlushBuffer(h) :
               s = IF r.ok THEN CopyAfter(r.h, << >>) ELSE Dropped(r.h)
  BY <1>6, <1>7 DEF WriteChunk
<1>8. CASE MustFlush
  <2>1. PICK r \in xFreeRTOSFlushBuffer(h) :
               s = IF r.ok THEN CopyAfter(r.h, << >>) ELSE Dropped(r.h)
    BY <1>7, <1>8
  <2>2. CASE r.ok
    BY <1>4, <1>6, <1>8, <2>1, <2>2
  <2>3. CASE ~r.ok
    BY <1>5, <1>6, <2>1, <2>3
  <2> QED
    BY <2>2, <2>3
<1> QED
  BY <1>3, <1>8

-------------------------------------------------------------------------------
(* The theorems *)

LEMMA NextHolds == IInv /\ [Next]_vars => IInv' /\ Implements
<1> SUFFICES ASSUME IInv, [Next]_vars PROVE IInv' /\ Implements
  OBVIOUS
<1>1. ASSUME NEW journal \in BOOLEAN, NEW found \in BOOLEAN, xFreeRTOSOpen(journal, found)
      PROVE  IInv' /\ Implements
  BY <1>1, OpenStep
<1>2. ASSUME NEW o \in Pos, NEW n \in 1 .. MaxSize - o, xFreeRTOSRead(o, n)
      PROVE  IInv' /\ Implements
  BY <1>2, ReadStep
<1>3. ASSUME NEW o \in Pos, NEW n \in 1 .. MaxSize - o, NEW ds \in [1 .. n -> Byte],
             xFreeRTOSWrite(o, ds)
      PROVE  IInv' /\ Implements
  BY <1>3, WriteStarts
<1>4. CASE WriteStep
  BY <1>4, WriteThroughStep, WriteChunkStep
<1>5. CASE xFreeRTOSSync
  BY <1>5, SyncStep
<1>6. CASE xFreeRTOSFileSize
  BY <1>6, FileSizeStep
<1>7. ASSUME NEW n \in 0 .. MaxSize, xFreeRTOSTruncate(n)
      PROVE  IInv' /\ Implements
  BY <1>7, TruncateStep
<1>8. CASE xFreeRTOSClose
  BY <1>8, CloseStep
<1>9. CASE xFreeRTOSDelete
  BY <1>9, DeleteStep
<1>10. CASE Crash
  BY <1>10, CrashStep
<1>11. CASE UNCHANGED vars
  <2>1. IInv'
    BY <1>11 DEF vars, IInv, TypeOK, BufferFits, Sound
  <2>2. View' = View /\ Kept' = Kept
    BY <1>11 DEF vars, View, Kept
  <2> QED
    BY <1>11, <2>1, <2>2 DEF vars, Implements, Promise!vars
<1> QED
  BY <1>1, <1>2, <1>3, <1>4, <1>5, <1>6, <1>7, <1>8, <1>9, <1>10, <1>11 DEF Next

LEMMA IInvHolds == Spec => []IInv
<1>1. IInv /\ [Next]_vars => IInv'
  BY NextHolds
<1> QED
  BY InitHolds, <1>1, PTL DEF Spec

(* The layers keep their types: no transfer reaches past the end of what fits. *)
THEOREM VfsTypes == Spec => []TypeOK
<1>1. IInv => TypeOK
  BY DEF IInv
<1> QED
  BY IInvHolds, <1>1, PTL

(* The buffer of a journal is within its bounds and belongs to a file that is
   open with one, whatever the writes and failures (sqlite_os_freertos.c:440). *)
THEOREM BufferIsLargeEnough == Spec => []BufferFits
<1>1. IInv => BufferFits
  BY DEF IInv
<1> QED
  BY IInvHolds, <1>1, PTL

(* A flush can succeed, and whatever it does the write that follows has an
   outcome. *)
LEMMA SomethingHappens ==
  ASSUME IInv
  PROVE  xFreeRTOSDirectWrite(h, i, z) # {} /\ xFreeRTOSFlushBuffer(h) # {}
<1>1. ASSUME NEW o, NEW ds \in Segments PROVE xFreeRTOSDirectWrite(h, o, ds) # {}
  <2> DEFINE s == [ok |-> TRUE, h |-> Drained(Put(h, h.at, h.bytes))]
  <2>1. s \in Sought(h)
    BY DEF Sought, Flush
  <2>2. 0 \in 0 .. Len(ds)
    BY SegmentIs
  <2> DEFINE t == [ok |-> TRUE, h |-> Handed(s.h, o, ds, 0)]
  <2>3. t \in Fwrite(s.h, o, ds)
    BY <2>2 DEF Fwrite
  <2> HIDE DEF s, t
  <2>4. Fwrite(s.h, o, ds) \in {Fwrite(r.h, o, ds) : r \in Sought(h)}
    BY <2>1
  <2> QED
    BY <2>3, <2>4 DEF xFreeRTOSDirectWrite
<1>2. z \in Segments /\ aBuffer \in Segments
  BY DEF IInv, TypeOK
<1> QED
  BY <1>1, <1>2 DEF xFreeRTOSFlushBuffer

(* However an iteration of the loop ends, fewer bytes are left. *)
LEMMA OutcomesShorten ==
  ASSUME IInv, z # << >>, NEW s \in WriteOutcomes
  PROVE  Len(s.z) < Len(z)
<1>1. /\ z \in Segments /\ Len(z) \in Nat /\ Len(z) > 0 /\ Len(<< >>) = 0
      /\ Len(aBuffer) \in Nat /\ Len(aBuffer) <= BUFFERSZ /\ BUFFERSZ \in Nat \ {0}
  <2>1. /\ z \in Segments /\ z \in Seq(Byte) /\ Len(z) \in Nat
        /\ aBuffer \in Seq(Byte) /\ Len(aBuffer) \in Nat
    BY SegmentIs DEF IInv, TypeOK
  <2>2. Len(z) # 0
    BY <2>1, EmptySeq
  <2> QED
    BY <2>1, <2>2, NothingIsSegment, BufferAssumption DEF IInv, BufferFits
<1>2. ASSUME NEW f, NEW kept, Len(kept) \in Nat, Len(kept) < BUFFERSZ
      PROVE  Len(CopyAfter(f, kept).z) < Len(z)
  <2> DEFINE n == Smaller(BUFFERSZ - Len(kept), Len(z))
  <2>1. n \in 1 .. Len(z) /\ n \in 0 .. Len(z)
    BY <1>1, <1>2 DEF Smaller
  <2>2. CopyAfter(f, kept).z = Rest(z, n)
    BY DEF CopyAfter
  <2> HIDE DEF n
  <2>3. Len(Rest(z, n)) = Len(z) - n
    BY <1>1, <2>1, Cut
  <2> QED
    BY <1>1, <2>1, <2>2, <2>3
<1>3. ASSUME NEW f PROVE Len(Dropped(f).z) < Len(z)
  BY <1>1 DEF Dropped
<1>4. CASE ~buffered
  <2>1. PICK r \in xFreeRTOSDirectWrite(h, i, z) : s.z = << >>
    BY <1>4 DEF WriteOutcomes, WriteThrough
  <2> QED
    BY <1>1, <2>1
<1>5. CASE buffered /\ ~MustFlush
  <2>1. s = CopyAfter(h, aBuffer)
    BY <1>5 DEF WriteOutcomes, WriteChunk
  <2>2. Len(aBuffer) < BUFFERSZ
    BY <1>1, <1>5 DEF MustFlush
  <2> QED
    BY <1>1, <1>2, <2>1, <2>2
<1>6. CASE buffered /\ MustFlush
  <2>1. PICK r \in xFreeRTOSFlushBuffer(h) :
               s = IF r.ok THEN CopyAfter(r.h, << >>) ELSE Dropped(r.h)
    BY <1>6 DEF WriteOutcomes, WriteChunk
  <2>2. Len(CopyAfter(r.h, << >>).z) < Len(z)
    BY <1>1, <1>2
  <2> QED
    BY <1>3, <2>1, <2>2
<1> QED
  BY <1>4, <1>5, <1>6

(* The loop of xFreeRTOSWrite ends: while bytes are left an iteration can be
   taken, and however it ends fewer of them are left
   (sqlite_os_freertos.c:419-446). *)
THEOREM WritesReturn == Spec => []WriteReturns
<1>1. ASSUME IInv, z # << >> PROVE WriteOutcomes # {}
  <2>1. CASE ~buffered
    <3>1. PICK r : r \in xFreeRTOSDirectWrite(h, i, z)
      BY <1>1, SomethingHappens
    <3> QED
      BY <2>1, <3>1 DEF WriteOutcomes, WriteThrough
  <2>2. CASE buffered
    <3>1. PICK r : r \in xFreeRTOSFlushBuffer(h)
      BY <1>1, SomethingHappens
    <3> QED
      BY <2>2, <3>1 DEF WriteOutcomes, WriteChunk
  <2> QED
    BY <2>1, <2>2
<1>2. IInv => WriteReturns
  BY <1>1, OutcomesShorten DEF WriteReturns
<1> QED
  BY IInvHolds, <1>2, PTL

(* But for the four departures the layers are a file that keeps what it was given: a
   read returns what was written, and what was synchronised survives a crash
   (sqlite_os_freertos.c:311-525). *)
THEOREM VfsImplementsFile == Spec => KeepsPromise
<1>1. Init => Promise!Init
  BY InitHolds
<1>2. IInv /\ [Next]_vars => [Promise!Next \/ Departs]_(Promise!vars)
  BY NextHolds DEF Implements
<1> QED
  BY IInvHolds, <1>1, <1>2, PTL DEF Spec, KeepsPromise
===============================================================================
