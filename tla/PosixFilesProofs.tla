--------------------------- MODULE PosixFilesProofs ---------------------------
(***************************************************************************)
(* Proofs about PosixFiles, for any number of tasks, descriptors, files and  *)
(* places in the table of open files.                                       *)
(*                                                                         *)
(* The argument is about the table.  Table(F, D, L, X) says what a table L   *)
(* has to do with the file objects F, the directory object D and the keys X  *)
(* that were left behind: every open object finds its entry, no two entries  *)
(* have one key, and each counts at least the objects that are open, exactly *)
(* if its key is not in X.  A lemma for each way in which the code changes   *)
(* the table (OpenKeeps, CloseKeeps, ForsakeKeeps, RemountKeeps and those of *)
(* the directory object) says that Table stays true; the lemmas of the       *)
(* actions put these together.  Control is what a task in the middle of a    *)
(* call may rely on while others run and mount.                             *)
(***************************************************************************)
EXTENDS PosixFiles, FiniteSetTheorems, TLAPS

Slot == 1 .. FS_LOCK

-----------------------------------------------------------------------------
(* The table of open files *)

LEMMA SmallestInt ==
  ASSUME NEW S \in SUBSET Nat, S # {}
  PROVE  \E i \in S : \A j \in S : i <= j
<1>1. PICK x \in S : \A y \in S : ~(<<y, x>> \in OpToRel(<, Nat))
  BY NatLessThanWellFounded, WFMin
<1>2. \A y \in S : ~(y < x)
  BY <1>1 DEF OpToRel
<1>3. \A y \in S : y \in Nat
  OBVIOUS
<1>4. \A y \in S : x <= y
  BY <1>2, <1>3
<1> QED
  BY <1>4

LEMMA Blank ==
  ASSUME NEW L \in [Slot -> FILESEM], enq_lock(L)
  PROVE  FirstBlank(L) \in Slot /\ L[FirstBlank(L)].key = None
<1> USE PosixAssumption
<1>1. Entries(L, None) \in SUBSET Nat /\ Entries(L, None) # {}
  BY DEF Entries, Slot, enq_lock
<1>2. \E i \in Entries(L, None) : \A j \in Entries(L, None) : i <= j
  BY <1>1, SmallestInt
<1>3. FirstBlank(L) \in Entries(L, None)
  BY <1>2 DEF FirstBlank
<1> QED
  BY <1>3 DEF Entries, Slot

LEMMA EntryIs ==
  ASSUME NEW L \in [Slot -> FILESEM], NEW k, Entries(L, k) # {}
  PROVE  EntryOf(L, k) \in Slot /\ L[EntryOf(L, k)].key = k
BY DEF EntryOf, Entries

(* Which entry an open takes, and in what state it is *)
LEMMA LockForIs ==
  ASSUME NEW L \in [Slot -> FILESEM], NEW k \in Key, NEW w \in BOOLEAN,
         LockFor(L, k, w) # 0
  PROVE  LET i == LockFor(L, k, w) IN
         /\ i \in Slot
         /\ \/ L[i].key = k /\ (w => L[i].ctr = 0)
            \/ L[i].key = None /\ \A j \in Slot : L[j].key # k
<1>1. CASE Entries(L, k) # {}
  BY <1>1, EntryIs DEF LockFor
<1>2. CASE Entries(L, k) = {}
  BY <1>2, Blank DEF LockFor, Entries
<1> QED
  BY <1>1, <1>2

-----------------------------------------------------------------------------
(* How many objects have a file or directory open: F are the file objects, D is
   the directory object. *)

Holds(f, k) == f.st = "open" /\ f.key = k
Bit(f, k) == IF Holds(f, k) THEN 1 ELSE 0
Holders(F, k) == {h \in Handle : Holds(F[h], k)}
Count(F, D, k) == Cardinality(Holders(F, k)) + Bit(D, k)

LEMMA HandlesFinite == IsFiniteSet(Handle)
BY PosixAssumption, FS_Union DEF Handle

LEMMA HoldersFinite ==
  ASSUME NEW F, NEW k
  PROVE  /\ IsFiniteSet(Holders(F, k)) /\ Cardinality(Holders(F, k)) \in Nat
<1>1. Holders(F, k) \in SUBSET Handle
  BY DEF Holders
<1>2. IsFiniteSet(Holders(F, k))
  BY <1>1, HandlesFinite, FS_Subset
<1> QED
  BY <1>2, FS_CardinalityType

LEMMA CountType ==
  ASSUME NEW F, NEW D, NEW k
  PROVE  Count(F, D, k) \in Nat
BY HoldersFinite DEF Count, Bit

LEMMA CountChange ==
  ASSUME NEW F \in [Handle -> FIL], NEW D, NEW h \in Handle, NEW f, NEW k, NEW G,
         \A x \in Handle : G[x] = IF x = h THEN f ELSE F[x]
  PROVE  Count(G, D, k) = Count(F, D, k) - Bit(F[h], k) + Bit(f, k)
<1> DEFINE A == Holders(F, k)
<1>1. \A x \in Handle : G[x] = IF x = h THEN f ELSE F[x]
  OBVIOUS
<1>2. IsFiniteSet(A) /\ Cardinality(A) \in Nat /\ (h \in A <=> Holds(F[h], k))
  BY HoldersFinite DEF Holders
<1>3. CASE Holds(f, k)
  <2>1. Holders(G, k) = A \cup {h}
    BY <1>1, <1>3 DEF Holders
  <2>2. Cardinality(A \cup {h}) = IF h \in A THEN Cardinality(A) ELSE Cardinality(A) + 1
    BY <1>2, FS_AddElement
  <2>3. Bit(f, k) = 1 /\ Bit(F[h], k) = IF h \in A THEN 1 ELSE 0
    BY <1>2, <1>3 DEF Bit
  <2> HIDE DEF A
  <2>4. Cardinality(Holders(G, k)) = Cardinality(A) - Bit(F[h], k) + Bit(f, k)
    BY ONLY <1>2, <2>1, <2>2, <2>3
  <2>5. Bit(D, k) \in Nat /\ Bit(F[h], k) \in Nat /\ Bit(f, k) \in Nat
    BY DEF Bit
  <2> QED
    BY <1>2, <2>4, <2>5 DEF Count, A
<1>4. CASE ~Holds(f, k)
  <2>1. Holders(G, k) = A \ {h}
    BY <1>1, <1>4 DEF Holders
  <2>2. Cardinality(A \ {h}) = IF h \in A THEN Cardinality(A) - 1 ELSE Cardinality(A)
    BY <1>2, FS_RemoveElement
  <2>3. Bit(f, k) = 0 /\ Bit(F[h], k) = IF h \in A THEN 1 ELSE 0
    BY <1>2, <1>4 DEF Bit
  <2> HIDE DEF A
  <2>4. Cardinality(Holders(G, k)) = Cardinality(A) - Bit(F[h], k) + Bit(f, k)
    BY ONLY <1>2, <2>1, <2>2, <2>3
  <2>5. Bit(D, k) \in Nat /\ Bit(F[h], k) \in Nat /\ Bit(f, k) \in Nat
    BY DEF Bit
  <2> QED
    BY <1>2, <2>4, <2>5 DEF Count, A
<1> QED
  BY <1>3, <1>4

LEMMA CountZero ==
  ASSUME NEW F, NEW D, NEW k, \A h \in Handle : ~Holds(F[h], k), ~Holds(D, k)
  PROVE  Count(F, D, k) = 0
<1>1. Holders(F, k) = {}
  BY DEF Holders
<1> QED
  BY <1>1, FS_EmptySet DEF Count, Bit

(* Who holds counts; two count twice. *)
LEMMA CountOne ==
  ASSUME NEW F \in [Handle -> FIL], NEW D, NEW k
  PROVE  /\ \A h \in Handle : Holds(F[h], k) => Count(F, D, k) >= 1
         /\ Holds(D, k) => Count(F, D, k) >= 1
         /\ \A h, g \in Handle :
              Holds(F[h], k) /\ Holds(F[g], k) /\ h # g => Count(F, D, k) >= 2
<1>1. ASSUME NEW h \in Handle, Holds(F[h], k) PROVE Count(F, D, k) >= 1
  <2> DEFINE G == [F EXCEPT ![h] = NoFil]
  <2>1. Bit(NoFil, k) = 0 /\ Bit(F[h], k) = 1
    BY <1>1 DEF Bit, Holds, NoFil, Closed
  <2>3. Count(G, D, k) \in Nat /\ Count(F, D, k) \in Nat
    BY CountType
  <2>4. Count(G, D, k) = Count(F, D, k) - Bit(F[h], k) + Bit(NoFil, k)
    <3>1. \A x \in Handle : G[x] = IF x = h THEN NoFil ELSE F[x]
      OBVIOUS
    <3> HIDE DEF G
    <3> QED
      BY <3>1, CountChange
  <2>2. Count(G, D, k) = Count(F, D, k) - 1
    <3> HIDE DEF G
    <3> QED
      BY <2>1, <2>3, <2>4
  <2> HIDE DEF G
  <2> QED
    BY <2>2, <2>3
<1>2. Holds(D, k) => Count(F, D, k) >= 1
  BY HoldersFinite DEF Count, Bit
<1>3. ASSUME NEW h \in Handle, NEW g \in Handle, Holds(F[h], k), Holds(F[g], k), h # g
      PROVE  Count(F, D, k) >= 2
  <2> DEFINE G == [F EXCEPT ![h] = NoFil]
             G2 == [G EXCEPT ![g] = NoFil]
  <2>1. Bit(NoFil, k) = 0 /\ Bit(F[h], k) = 1 /\ Bit(G[g], k) = 1
    BY <1>3 DEF Bit, Holds, NoFil, Closed
  <2>2. G \in [Handle -> FIL]
    <3>1. NoFil \in FIL
      BY PosixAssumption DEF NoFil, Closed, FIL
    <3> QED
      BY <3>1
  <2>4. /\ Count(G, D, k) \in Nat /\ Count(F, D, k) \in Nat /\ Count(G2, D, k) \in Nat
    BY CountType
  <2>8. \A x \in Handle : G[x] = IF x = h THEN NoFil ELSE F[x]
    OBVIOUS
  <2> HIDE DEF G
  <2>6. Count(G, D, k) = Count(F, D, k) - Bit(F[h], k) + Bit(NoFil, k)
    BY <2>8, CountChange
  <2>9. \A x \in Handle : G2[x] = IF x = g THEN NoFil ELSE G[x]
    BY <2>2
  <2> HIDE DEF G2
  <2>7. Count(G2, D, k) = Count(G, D, k) - Bit(G[g], k) + Bit(NoFil, k)
    BY <2>2, <2>9, CountChange
  <2>3. Count(G, D, k) = Count(F, D, k) - 1
    BY <2>1, <2>4, <2>6
  <2>5. Count(G2, D, k) = Count(G, D, k) - 1
    BY <2>1, <2>4, <2>7
  <2> HIDE DEF G2
  <2> QED
    BY <2>3, <2>4, <2>5
<1> QED
  BY <1>1, <1>2, <1>3

-----------------------------------------------------------------------------
(* What the table of open files L says of the objects F and D; X are the keys of
   objects that were given up without unlocking. *)

Weight(c) == IF c = WriteMode THEN 1 ELSE c

Typed(F, D, L, X) ==
  F \in [Handle -> FIL] /\ D \in FIL /\ L \in [Slot -> FILESEM] /\ X \in SUBSET Key

FileLocked(f, L) ==
  f.st = "open" =>
    /\ f.key \in File /\ f.lockid \in Slot /\ L[f.lockid].key = f.key
    /\ f.w <=> L[f.lockid].ctr = WriteMode

DirLocked(D, L) ==
  /\ D.st # "open" => D.lockid = 0
  /\ D.st = "open" =>
       \/ D.key = None /\ D.lockid = 0
       \/ D.key \in SubDir /\ D.lockid \in Slot /\ L[D.lockid].key = D.key

Distinct(L) ==
  /\ \A i, j \in Slot : L[i].key = L[j].key /\ L[i].key # None => i = j
  /\ \A i \in Slot : L[i].key = None => L[i].ctr = 0

Counted(n, e, X) ==
  e.key # None =>
    /\ e.ctr # 0
    /\ e.ctr = WriteMode => e.key \in File
    /\ n <= Weight(e.ctr)
    /\ e.key \notin X => n = Weight(e.ctr)

Table(F, D, L, X) ==
  /\ Typed(F, D, L, X)
  /\ \A h \in Handle : FileLocked(F[h], L)
  /\ DirLocked(D, L)
  /\ Distinct(L)
  /\ \A i \in Slot : Counted(Count(F, D, L[i].key), L[i], X)

LEMMA Unheld ==
  ASSUME NEW F, NEW D, NEW L, NEW X, Table(F, D, L, X), NEW k \in Key,
         \A j \in Slot : L[j].key # k
  PROVE  Count(F, D, k) = 0
<1>1. \A h \in Handle : ~Holds(F[h], k)
  BY DEF Table, FileLocked, Holds
<1>2. ~Holds(D, k)
  BY PosixAssumption DEF Table, DirLocked, Holds, Key
<1> QED
  BY <1>1, <1>2, CountZero

(* What the open of k does to the table *)
LEMMA IncLock ==
  ASSUME NEW F, NEW D, NEW L, NEW X, Table(F, D, L, X),
         NEW k \in Key, NEW w \in BOOLEAN,
         NEW i, i = LockFor(L, k, w), i # 0, Countable(L, k, w),
         NEW M, M = inc_lock(L, k, w)
  PROVE  /\ M \in [Slot -> FILESEM] /\ Distinct(M)
         /\ i \in Slot /\ M[i].key = k /\ M[i].ctr # 0
         /\ w <=> M[i].ctr = WriteMode
         /\ \A j \in Slot : j # i => M[j] = L[j]
         /\ \A j \in Slot : L[j].key # None =>
              M[j].key = L[j].key /\ (M[j].ctr = WriteMode <=> L[j].ctr = WriteMode)
         /\ Count(F, D, k) + 1 <= Weight(M[i].ctr)
         /\ k \notin X => Count(F, D, k) + 1 = Weight(M[i].ctr)
<1> USE PosixAssumption
<1>0. L \in [Slot -> FILESEM] /\ k # None
  BY DEF Table, Typed, Key
<1>1. /\ i \in Slot
      /\ \/ L[i].key = k /\ (w => L[i].ctr = 0)
         \/ L[i].key = None /\ \A j \in Slot : L[j].key # k
  BY <1>0, LockForIs
<1>2. L[i].ctr \in (0 .. MaxReaders) \cup {WriteMode} /\ L[i].key \in Key \cup {None}
  BY <1>0, <1>1 DEF FILESEM
<1> DEFINE c == IF w THEN WriteMode ELSE L[i].ctr + 1
           n == Count(F, D, k)
<1>3. n \in Nat
  BY CountType
<1>4. M = [L EXCEPT ![i] = [key |-> k, ctr |-> c]]
  BY <1>1 DEF inc_lock
<1>5. /\ \A j \in Slot : j # i => M[j] = L[j]
      /\ M[i] = [key |-> k, ctr |-> c]
  BY <1>0, <1>1, <1>4
<1>6. M[i].key = k /\ M[i].ctr = c
  BY <1>5
<1>7. ~w => L[i].ctr \in Nat /\ L[i].ctr < MaxReaders
  BY <1>2 DEF Countable, WriteMode
<1>8. c \in (1 .. MaxReaders) \cup {WriteMode} /\ (w <=> c = WriteMode)
  BY <1>7 DEF WriteMode
<1>9. M \in [Slot -> FILESEM]
  <2>1. [key |-> k, ctr |-> c] \in FILESEM
    BY <1>8 DEF FILESEM
  <2> QED
    BY <1>0, <1>4, <2>1
<1>10. /\ n + 1 <= Weight(c) /\ (k \notin X => n + 1 = Weight(c))
       /\ L[i].key # None => (c = WriteMode <=> L[i].ctr = WriteMode)
  <2>1. CASE L[i].key = k
    <3>1. Counted(n, L[i], X)
      BY <1>1, <2>1 DEF Table
    <3>2. /\ L[i].ctr # 0 /\ n <= Weight(L[i].ctr)
          /\ k \notin X => n = Weight(L[i].ctr)
      BY <1>0, <2>1, <3>1 DEF Counted
    <3>3. ~w
      BY <1>0, <1>1, <2>1, <3>2
    <3>4. L[i].ctr # WriteMode /\ c # WriteMode /\ c = L[i].ctr + 1
      BY <1>7, <1>8, <3>3 DEF WriteMode
    <3> QED
      BY <1>3, <1>7, <3>2, <3>3, <3>4 DEF Weight
  <2>2. CASE L[i].key = None /\ \A j \in Slot : L[j].key # k
    <3>1. L[i].ctr = 0
      BY <1>1, <2>2 DEF Table, Distinct
    <3>2. n = 0
      BY <2>2, Unheld
    <3> QED
      BY <1>8, <2>2, <3>1, <3>2 DEF Weight
  <2> QED
    BY <1>1, <2>1, <2>2
<1>11. Distinct(M)
  <2>1. \A j \in Slot : j # i => L[j].key # k
    BY <1>0, <1>1 DEF Table, Distinct
  <2> QED
    BY <1>0, <1>5, <1>6, <2>1 DEF Table, Distinct
<1> HIDE DEF c, n
<1>12. c # 0
  BY <1>8 DEF WriteMode
<1>13. ASSUME NEW j \in Slot, L[j].key # None
       PROVE  M[j].key = L[j].key /\ (M[j].ctr = WriteMode <=> L[j].ctr = WriteMode)
  <2>1. CASE j = i
    BY <1>1, <1>6, <1>10, <1>13, <2>1
  <2>2. CASE j # i
    BY <1>5, <2>2
  <2> QED
    BY <2>1, <2>2
<1>14. /\ n + 1 <= Weight(M[i].ctr) /\ (k \notin X => n + 1 = Weight(M[i].ctr))
       /\ w <=> M[i].ctr = WriteMode
  BY <1>6, <1>8, <1>10
<1> QED
  BY <1>1, <1>5, <1>6, <1>9, <1>11, <1>12, <1>13, <1>14 DEF n

LEMMA OpenKeeps ==
  ASSUME NEW F, NEW D, NEW L, NEW X, Table(F, D, L, X),
         NEW h \in Handle, F[h].st # "open",
         NEW k \in File, NEW w \in BOOLEAN,
         NEW i, i = LockFor(L, k, w), i # 0, Countable(L, k, w),
         NEW f \in FIL, f.st = "open" => f.key = k /\ f.w = w /\ f.lockid = i,
         NEW Y \in SUBSET Key, X \subseteq Y, f.st # "open" => k \in Y
  PROVE  Table([F EXCEPT ![h] = f], D, inc_lock(L, k, w), Y)
<1> DEFINE M == inc_lock(L, k, w)
           G == [F EXCEPT ![h] = f]
<1>0. F \in [Handle -> FIL] /\ k \in Key /\ k # None /\ k \notin SubDir
  BY PosixAssumption DEF Table, Typed, Key
<1>1. /\ M \in [Slot -> FILESEM] /\ Distinct(M)
      /\ i \in Slot /\ M[i].key = k /\ M[i].ctr # 0
      /\ w <=> M[i].ctr = WriteMode
      /\ \A j \in Slot : j # i => M[j] = L[j]
      /\ \A j \in Slot : L[j].key # None =>
           M[j].key = L[j].key /\ (M[j].ctr = WriteMode <=> L[j].ctr = WriteMode)
      /\ Count(F, D, k) + 1 <= Weight(M[i].ctr)
      /\ k \notin X => Count(F, D, k) + 1 = Weight(M[i].ctr)
  BY <1>0, IncLock
<1>2. G \in [Handle -> FIL] /\ \A x \in Handle : G[x] = IF x = h THEN f ELSE F[x]
  BY <1>0
<1> HIDE DEF M, G
<1>3. ASSUME NEW x \in Handle PROVE FileLocked(G[x], M)
  <2>1. CASE x = h
    BY <1>1, <1>2, <2>1 DEF FileLocked
  <2>2. CASE x # h
    BY <1>1, <1>2, <2>2, PosixAssumption DEF FileLocked, Table
  <2> QED
    BY <2>1, <2>2
<1>4. DirLocked(D, M)
  BY <1>1, PosixAssumption DEF DirLocked, Table
<1>5. ASSUME NEW j \in Slot PROVE Counted(Count(G, D, M[j].key), M[j], Y)
  <2>1. Bit(F[h], M[j].key) = 0
    BY DEF Bit, Holds
  <2>2. Count(G, D, M[j].key) = Count(F, D, M[j].key) + Bit(f, M[j].key)
    <3>1. Count(G, D, M[j].key) = Count(F, D, M[j].key) - Bit(F[h], M[j].key) + Bit(f, M[j].key)
      BY <1>0, <1>2, CountChange
    <3>2. Count(F, D, M[j].key) \in Nat
      BY CountType
    <3> QED
      BY <2>1, <3>1, <3>2 DEF Bit
  <2>3. CASE j = i
    <3>1. Bit(f, k) = IF f.st = "open" THEN 1 ELSE 0
      BY DEF Bit, Holds
    <3>2. Count(F, D, k) \in Nat
      BY CountType
    <3>3. M[i].ctr = WriteMode => M[i].key \in File
      BY <1>1
    <3>4. Weight(M[i].ctr) \in Nat
      BY <1>1 DEF Weight, FILESEM, WriteMode
    <3>5. /\ Count(G, D, k) <= Weight(M[i].ctr)
          /\ k \notin Y => Count(G, D, k) = Weight(M[i].ctr)
      BY <1>1, <2>2, <2>3, <3>1, <3>2, <3>4
    <3> QED
      BY <1>1, <2>3, <3>3, <3>5 DEF Counted
  <2>4. CASE j # i
    <3>1. M[j] = L[j] /\ M[j].key # k
      BY <1>0, <1>1, <2>4 DEF Distinct
    <3>2. Bit(f, M[j].key) = 0
      BY <3>1 DEF Bit, Holds
    <3>3. Count(G, D, M[j].key) = Count(F, D, L[j].key)
      <4>1. Count(F, D, M[j].key) \in Nat
        BY CountType
      <4> QED
        BY <2>2, <3>1, <3>2, <4>1
    <3> QED
      BY <3>1, <3>3 DEF Counted, Table
  <2> QED
    BY <2>3, <2>4
<1> QED
  BY <1>1, <1>2, <1>3, <1>4, <1>5 DEF Table, Typed, M, G

(* An object is given up, and its entry left. *)
LEMMA ForsakeKeeps ==
  ASSUME NEW F, NEW D, NEW L, NEW X, Table(F, D, L, X),
         NEW h \in Handle, NEW f \in FIL, f.st # "open",
         NEW Y \in SUBSET Key, X \subseteq Y, F[h].st = "open" => F[h].key \in Y
  PROVE  Table([F EXCEPT ![h] = f], D, L, Y)
<1> DEFINE G == [F EXCEPT ![h] = f]
<1>0. F \in [Handle -> FIL]
  BY DEF Table, Typed
<1>2. G \in [Handle -> FIL] /\ \A x \in Handle : G[x] = IF x = h THEN f ELSE F[x]
  BY <1>0
<1> HIDE DEF G
<1>3. \A x \in Handle : FileLocked(G[x], L)
  BY <1>2 DEF FileLocked, Table
<1>5. ASSUME NEW j \in Slot PROVE Counted(Count(G, D, L[j].key), L[j], Y)
  <2> DEFINE k == L[j].key
  <2>1. Count(G, D, k) = Count(F, D, k) - Bit(F[h], k) + Bit(f, k)
    BY <1>0, <1>2, CountChange
  <2>2. Bit(f, k) = 0 /\ Bit(F[h], k) \in 0 .. 1 /\ (k \notin Y => Bit(F[h], k) = 0)
    BY DEF Bit, Holds
  <2>3. Count(F, D, k) \in Nat /\ Count(G, D, k) \in Nat
    BY CountType
  <2>4. Counted(Count(F, D, k), L[j], X)
    BY DEF Table
  <2>5. Weight(L[j].ctr) \in Nat
    BY DEF Weight, Table, Typed, FILESEM, WriteMode
  <2>6. Count(G, D, k) <= Count(F, D, k) /\ (k \notin Y => Count(G, D, k) = Count(F, D, k))
    <3> HIDE DEF k
    <3> QED
      BY <2>1, <2>2, <2>3
  <2>7. k # None => /\ Count(G, D, k) <= Weight(L[j].ctr)
                    /\ k \notin Y => Count(G, D, k) = Weight(L[j].ctr)
    BY <2>3, <2>4, <2>5, <2>6 DEF Counted
  <2> QED
    BY <2>4, <2>7 DEF Counted
<1> QED
  BY <1>2, <1>3, <1>5 DEF Table, Typed, G

LEMMA RemountKeeps ==
  ASSUME NEW F, NEW D, NEW L, NEW X, Table(F, D, L, X)
  PROVE  Table([h \in Handle |-> Aged(F[h])], Aged(D), clear_lock, {})
<1> DEFINE G == [h \in Handle |-> Aged(F[h])]
<1> USE PosixAssumption
<1>1. \A f \in FIL : Aged(f) \in FIL /\ Aged(f).st # "open"
  BY DEF Aged, BlankFil, Closed, FIL
<1>2. G \in [Handle -> FIL] /\ \A h \in Handle : G[h].st # "open"
  BY <1>1 DEF Table, Typed
<1>3. Aged(D) \in FIL /\ DirLocked(Aged(D), clear_lock)
  BY <1>1 DEF Table, Typed, DirLocked, Aged, BlankFil, Closed
<1>4. clear_lock \in [Slot -> FILESEM] /\ \A i \in Slot : clear_lock[i].key = None
      /\ clear_lock[i].ctr = 0
  BY DEF clear_lock, NoEntry, FILESEM, Slot
<1> QED
  BY <1>2, <1>3, <1>4 DEF Table, Typed, FileLocked, Distinct, Counted

(* What a close does to entry s of the table *)
LEMMA DecLock ==
  ASSUME NEW F, NEW D, NEW L, NEW X, Table(F, D, L, X), NEW s \in Slot,
         NEW k \in Key, L[s].key = k, Count(F, D, k) >= 1,
         NEW M, M = dec_lock(L, s)
  PROVE  /\ M \in [Slot -> FILESEM] /\ Distinct(M)
         /\ \A j \in Slot : j # s => M[j] = L[j] /\ L[j].key # k
         /\ \/ M[s].key = None /\ Count(F, D, k) = 1
            \/ /\ M[s].key = k /\ M[s].ctr # 0
               /\ M[s].ctr # WriteMode /\ L[s].ctr # WriteMode
               /\ Count(F, D, k) - 1 <= Weight(M[s].ctr)
               /\ k \notin X => Count(F, D, k) - 1 = Weight(M[s].ctr)
<1> USE PosixAssumption
<1> DEFINE n == Count(F, D, k)
<1>0. L \in [Slot -> FILESEM] /\ k # None /\ n \in Nat
  BY CountType DEF Table, Typed, Key
<1>1. Counted(n, L[s], X)
  BY DEF Table
<1>2. /\ L[s].ctr # 0 /\ n <= Weight(L[s].ctr) /\ n >= 1
      /\ k \notin X => n = Weight(L[s].ctr)
  BY <1>0, <1>1 DEF Counted
<1>3. \A j \in Slot : j # s => L[j].key # k
  BY <1>0 DEF Table, Distinct
<1>4. L[s] \in FILESEM /\ L[s].ctr \in (0 .. MaxReaders) \cup {WriteMode}
  BY <1>0 DEF FILESEM
<1> HIDE DEF n
<1>5. CASE L[s].ctr \in {1, WriteMode}
  <2>1. M = [L EXCEPT ![s] = NoEntry]
    BY <1>5 DEF dec_lock
  <2>2. NoEntry \in FILESEM /\ NoEntry.key = None /\ NoEntry.ctr = 0
    BY DEF NoEntry, FILESEM
  <2>3. /\ M \in [Slot -> FILESEM] /\ M[s] = NoEntry
        /\ \A j \in Slot : j # s => M[j] = L[j]
    BY <1>0, <2>1, <2>2
  <2>4. Distinct(M)
    BY <2>2, <2>3 DEF Table, Distinct
  <2>5. n = 1
    BY <1>0, <1>2, <1>5 DEF Weight
  <2> QED
    BY <1>3, <2>2, <2>3, <2>4, <2>5 DEF n
<1>6. CASE L[s].ctr \notin {1, WriteMode}
  <2> DEFINE e == [key |-> L[s].key, ctr |-> L[s].ctr - 1]
  <2>1. M = [L EXCEPT ![s] = e]
    BY <1>6 DEF dec_lock
  <2>2. e.key = k /\ e.ctr = L[s].ctr - 1 /\ L[s].ctr \in 2 .. MaxReaders
    BY <1>2, <1>4, <1>6 DEF FILESEM
  <2>3. e \in FILESEM
    BY <1>4, <2>2 DEF FILESEM
  <2> HIDE DEF e
  <2>4. /\ M \in [Slot -> FILESEM] /\ M[s] = e
        /\ \A j \in Slot : j # s => M[j] = L[j]
    BY <1>0, <2>1, <2>3 DEF e
  <2>5. Distinct(M)
    BY <1>0, <1>3, <2>2, <2>4 DEF Table, Distinct
  <2>6. e.ctr # 0 /\ e.ctr # WriteMode /\ L[s].ctr # WriteMode
    BY <2>2 DEF WriteMode
  <2>7. n - 1 <= Weight(e.ctr) /\ (k \notin X => n - 1 = Weight(e.ctr))
    BY <1>0, <1>2, <2>2, <2>6 DEF Weight
  <2> QED
    BY <1>3, <2>2, <2>4, <2>5, <2>6, <2>7 DEF n
<1> QED
  BY <1>5, <1>6

LEMMA CloseKeeps ==
  ASSUME NEW F, NEW D, NEW L, NEW X, Table(F, D, L, X),
         NEW h \in Handle, F[h].st = "open", NEW f \in FIL, f.st # "open"
  PROVE  Table([F EXCEPT ![h] = f], D, dec_lock(L, F[h].lockid), X)
<1> DEFINE s == F[h].lockid
           k == F[h].key
           M == dec_lock(L, s)
           G == [F EXCEPT ![h] = f]
<1>0. /\ F \in [Handle -> FIL] /\ L \in [Slot -> FILESEM]
      /\ s \in Slot /\ k \in File /\ k \in Key /\ k # None /\ k \notin SubDir
      /\ L[s].key = k /\ Holds(F[h], k)
  BY PosixAssumption DEF Table, Typed, FileLocked, Key, Holds
<1>1. Count(F, D, k) >= 1 /\ Count(F, D, k) \in Nat
  BY <1>0, CountOne, CountType
<1> HIDE DEF s, k
<1>2. /\ M \in [Slot -> FILESEM] /\ Distinct(M)
      /\ \A j \in Slot : j # s => M[j] = L[j] /\ L[j].key # k
      /\ \/ M[s].key = None /\ Count(F, D, k) = 1
         \/ /\ M[s].key = k /\ M[s].ctr # 0
            /\ M[s].ctr # WriteMode /\ L[s].ctr # WriteMode
            /\ Count(F, D, k) - 1 <= Weight(M[s].ctr)
            /\ k \notin X => Count(F, D, k) - 1 = Weight(M[s].ctr)
  BY <1>0, <1>1, DecLock
<1>3. G \in [Handle -> FIL] /\ \A x \in Handle : G[x] = IF x = h THEN f ELSE F[x]
  BY <1>0
<1> HIDE DEF M, G
<1>4. ASSUME NEW x \in Handle PROVE FileLocked(G[x], M)
  <2>1. CASE x = h
    BY <1>3, <2>1 DEF FileLocked
  <2>2. CASE x # h /\ F[x].lockid # s
    BY <1>2, <1>3, <2>2 DEF FileLocked, Table
  <2>3. CASE x # h /\ F[x].lockid = s /\ F[x].st = "open"
    <3>1. Holds(F[x], k) /\ FileLocked(F[x], L)
      BY <1>0, <2>3 DEF FileLocked, Table, Holds
    <3>2. Count(F, D, k) >= 2
      BY <1>0, <2>3, <3>1, CountOne
    <3>3. M[s].key = k /\ M[s].ctr # WriteMode /\ L[s].ctr # WriteMode
      BY <1>1, <1>2, <3>2
    <3> QED
      BY <1>0, <1>3, <2>3, <3>1, <3>3 DEF FileLocked
  <2>4. CASE x # h /\ F[x].st # "open"
    BY <1>3, <2>4 DEF FileLocked
  <2> QED
    BY <2>1, <2>2, <2>3, <2>4
<1>5. DirLocked(D, M)
  BY <1>0, <1>2 DEF DirLocked, Table
<1>6. ASSUME NEW j \in Slot PROVE Counted(Count(G, D, M[j].key), M[j], X)
  <2>1. Count(G, D, M[j].key) = Count(F, D, M[j].key) - Bit(F[h], M[j].key) + Bit(f, M[j].key)
    BY <1>0, <1>3, CountChange
  <2>2. Bit(f, M[j].key) = 0
    BY DEF Bit, Holds
  <2>3. Count(F, D, M[j].key) \in Nat
    BY CountType
  <2>4. CASE j # s
    <3>1. M[j] = L[j] /\ Bit(F[h], M[j].key) = 0
      BY <1>0, <1>2, <2>4 DEF Bit, Holds, k
    <3>2. Count(G, D, M[j].key) = Count(F, D, L[j].key)
      BY <2>1, <2>2, <2>3, <3>1
    <3> QED
      BY <3>1, <3>2 DEF Table
  <2>5. CASE j = s /\ M[s].key = None
    BY <2>5 DEF Counted
  <2>6. CASE j = s /\ M[s].key # None
    <3>1. Bit(F[h], k) = 1
      BY <1>0 DEF Bit
    <3>2. Count(G, D, M[j].key) = Count(F, D, k) - 1 /\ M[j].key = k
      BY <1>1, <1>2, <2>1, <2>2, <2>6, <3>1
    <3> QED
      BY <1>0, <1>2, <2>6, <3>2 DEF Counted
  <2> QED
    BY <2>4, <2>5, <2>6
<1> QED
  BY <1>2, <1>3, <1>4, <1>5, <1>6 DEF Table, Typed, M, G, s

LEMMA CountDir ==
  ASSUME NEW F, NEW D, NEW E, NEW k
  PROVE  Count(F, E, k) = Count(F, D, k) - Bit(D, k) + Bit(E, k)
BY HoldersFinite DEF Count, Bit

(* The directory object is given up. *)
LEMMA ForsakeDirKeeps ==
  ASSUME NEW F, NEW D, NEW L, NEW X, Table(F, D, L, X),
         NEW E \in FIL, E.lockid = 0, E.st = "open" => E.key = None,
         NEW Y \in SUBSET Key, X \subseteq Y, D.lockid # 0 => D.key \in Y
  PROVE  Table(F, E, L, Y)
<1>1. DirLocked(E, L)
  BY DEF DirLocked
<1>2. ASSUME NEW j \in Slot PROVE Counted(Count(F, E, L[j].key), L[j], Y)
  <2> DEFINE k == L[j].key
  <2>1. CASE k = None
    BY <2>1 DEF Counted
  <2>2. CASE k # None
    <3>1. Bit(E, k) = 0 /\ Bit(D, k) \in 0 .. 1 /\ (k \notin Y => Bit(D, k) = 0)
      BY <2>2, PosixAssumption DEF Bit, Holds, Table, DirLocked, Slot
    <3>2. Count(F, E, k) = Count(F, D, k) - Bit(D, k) + Bit(E, k)
      BY CountDir
    <3>3. Count(F, D, k) \in Nat
      BY CountType
    <3>4. Counted(Count(F, D, k), L[j], X)
      BY DEF Table
    <3>5. Weight(L[j].ctr) \in Nat
      BY DEF Weight, Table, Typed, FILESEM, WriteMode
    <3>6. /\ Count(F, E, k) <= Count(F, D, k) /\ Count(F, E, k) \in Int
          /\ k \notin Y => Count(F, E, k) = Count(F, D, k)
      <4> HIDE DEF k
      <4> QED
        BY <3>1, <3>2, <3>3
    <3>7. /\ Count(F, E, k) <= Weight(L[j].ctr)
          /\ k \notin Y => Count(F, E, k) = Weight(L[j].ctr)
      BY <2>2, <3>3, <3>4, <3>5, <3>6 DEF Counted
    <3> QED
      BY <2>2, <3>4, <3>7 DEF Counted
  <2> QED
    BY <2>1, <2>2
<1> QED
  BY <1>1, <1>2 DEF Table, Typed

LEMMA OpenDirKeeps ==
  ASSUME NEW F, NEW D, NEW L, NEW X, Table(F, D, L, X), D.lockid = 0,
         NEW k \in SubDir, NEW w \in BOOLEAN, ~w,
         NEW i, i = LockFor(L, k, w), i # 0, Countable(L, k, w),
         NEW E \in FIL, E.st = "open", E.key = k, E.lockid = i
  PROVE  Table(F, E, inc_lock(L, k, w), X)
<1> DEFINE M == inc_lock(L, k, w)
<1>0. F \in [Handle -> FIL] /\ k \in Key /\ k # None /\ k \notin File
  BY PosixAssumption DEF Table, Typed, Key
<1>1. /\ M \in [Slot -> FILESEM] /\ Distinct(M)
      /\ i \in Slot /\ M[i].key = k /\ M[i].ctr # 0
      /\ M[i].ctr # WriteMode
      /\ \A j \in Slot : j # i => M[j] = L[j]
      /\ \A j \in Slot : L[j].key # None =>
           M[j].key = L[j].key /\ (M[j].ctr = WriteMode <=> L[j].ctr = WriteMode)
      /\ Count(F, D, k) + 1 <= Weight(M[i].ctr)
      /\ k \notin X => Count(F, D, k) + 1 = Weight(M[i].ctr)
  <2>1. /\ M \in [Slot -> FILESEM] /\ Distinct(M)
        /\ i \in Slot /\ M[i].key = k /\ M[i].ctr # 0
        /\ w <=> M[i].ctr = WriteMode
        /\ \A j \in Slot : j # i => M[j] = L[j]
        /\ \A j \in Slot : L[j].key # None =>
             M[j].key = L[j].key /\ (M[j].ctr = WriteMode <=> L[j].ctr = WriteMode)
        /\ Count(F, D, k) + 1 <= Weight(M[i].ctr)
        /\ k \notin X => Count(F, D, k) + 1 = Weight(M[i].ctr)
    BY <1>0, IncLock
  <2> QED
    BY <2>1
<1> HIDE DEF M
<1>2. ASSUME NEW x \in Handle PROVE FileLocked(F[x], M)
  BY <1>1, PosixAssumption DEF FileLocked, Table
<1>3. DirLocked(E, M)
  BY <1>1 DEF DirLocked
<1>4. ASSUME NEW j \in Slot, M[j].key # None
      PROVE  Counted(Count(F, E, M[j].key), M[j], X)
  <2> DEFINE m == M[j].key
  <2>1. Count(F, E, m) = Count(F, D, m) - Bit(D, m) + Bit(E, m)
    BY CountDir
  <2>2. Count(F, D, m) \in Nat
    BY CountType
  <2>3. Bit(D, m) = 0
    BY <1>4, PosixAssumption DEF Bit, Holds, Table, DirLocked, Slot
  <2>4. Bit(E, m) = IF m = k THEN 1 ELSE 0
    BY DEF Bit, Holds
  <2>5. CASE j = i
    <3>1. m = k
      BY <1>1, <2>5
    <3> HIDE DEF m
    <3>2. Count(F, E, m) = Count(F, D, k) + 1
      BY <2>1, <2>2, <2>3, <2>4, <3>1
    <3> QED
      BY <1>1, <2>5, <3>1, <3>2 DEF Counted, m
  <2>6. CASE j # i
    <3>1. m # k /\ M[j] = L[j]
      BY <1>0, <1>1, <2>6 DEF Distinct
    <3>2. Count(F, E, m) = Count(F, D, m)
      <4> HIDE DEF m
      <4> QED
        BY <2>1, <2>2, <2>3, <2>4, <3>1
    <3> QED
      BY <3>1, <3>2 DEF Table
  <2> QED
    BY <2>5, <2>6
<1>5. \A j \in Slot : Counted(Count(F, E, M[j].key), M[j], X)
  BY <1>4 DEF Counted
<1> QED
  BY <1>1, <1>2, <1>3, <1>5 DEF Table, Typed, M

LEMMA CloseDirKeeps ==
  ASSUME NEW F, NEW D, NEW L, NEW X, Table(F, D, L, X), D.st = "open", D.lockid # 0
  PROVE  Table(F, BlankFil, dec_lock(L, D.lockid), X)
<1> DEFINE s == D.lockid
           k == D.key
           M == dec_lock(L, s)
<1> USE PosixAssumption
<1>0. /\ F \in [Handle -> FIL] /\ L \in [Slot -> FILESEM]
      /\ s \in Slot /\ k \in SubDir /\ k \in Key /\ k # None /\ k \notin File
      /\ L[s].key = k /\ Holds(D, k)
  BY DEF Table, Typed, DirLocked, Key, Holds
<1>1. Count(F, D, k) >= 1 /\ Count(F, D, k) \in Nat
  BY <1>0, CountOne, CountType
<1>a. BlankFil \in FIL /\ BlankFil.st = "blank" /\ BlankFil.lockid = 0
  BY DEF BlankFil, Closed, FIL
<1> HIDE DEF s, k
<1>2. /\ M \in [Slot -> FILESEM] /\ Distinct(M)
      /\ \A j \in Slot : j # s => M[j] = L[j] /\ L[j].key # k
      /\ \/ M[s].key = None /\ Count(F, D, k) = 1
         \/ /\ M[s].key = k /\ M[s].ctr # 0
            /\ M[s].ctr # WriteMode /\ L[s].ctr # WriteMode
            /\ Count(F, D, k) - 1 <= Weight(M[s].ctr)
            /\ k \notin X => Count(F, D, k) - 1 = Weight(M[s].ctr)
  BY <1>0, <1>1, DecLock
<1> HIDE DEF M
<1>3. ASSUME NEW x \in Handle PROVE FileLocked(F[x], M)
  BY <1>0, <1>2 DEF FileLocked, Table
<1>4. DirLocked(BlankFil, M)
  BY <1>a DEF DirLocked
<1>5. ASSUME NEW j \in Slot PROVE Counted(Count(F, BlankFil, M[j].key), M[j], X)
  <2>1. Count(F, BlankFil, M[j].key)
          = Count(F, D, M[j].key) - Bit(D, M[j].key) + Bit(BlankFil, M[j].key)
    BY CountDir
  <2>2. Bit(BlankFil, M[j].key) = 0
    BY <1>a DEF Bit, Holds
  <2>3. Count(F, D, M[j].key) \in Nat
    BY CountType
  <2>4. CASE j # s
    <3>1. M[j] = L[j] /\ Bit(D, M[j].key) = 0
      BY <1>0, <1>2, <2>4 DEF Bit, Holds, k
    <3>2. Count(F, BlankFil, M[j].key) = Count(F, D, L[j].key)
      BY <2>1, <2>2, <2>3, <3>1
    <3> QED
      BY <3>1, <3>2 DEF Table
  <2>5. CASE j = s /\ M[s].key = None
    BY <2>5 DEF Counted
  <2>6. CASE j = s /\ M[s].key # None
    <3>1. Bit(D, k) = 1
      BY <1>0 DEF Bit
    <3>2. Count(F, BlankFil, M[j].key) = Count(F, D, k) - 1 /\ M[j].key = k
      BY <1>1, <1>2, <2>1, <2>2, <2>6, <3>1
    <3> QED
      BY <1>0, <1>2, <2>6, <3>2 DEF Counted
  <2> QED
    BY <2>4, <2>5, <2>6
<1> QED
  BY <1>a, <1>2, <1>3, <1>4, <1>5 DEF Table, Typed, M, s

-----------------------------------------------------------------------------
(* The pieces of the actions *)

LEMMA Grows ==
  ASSUME NEW F, NEW D, NEW L, NEW X, Table(F, D, L, X),
         NEW Y \in SUBSET Key, X \subseteq Y
  PROVE  Table(F, D, L, Y)
<1>1. ASSUME NEW j \in Slot PROVE Counted(Count(F, D, L[j].key), L[j], Y)
  BY DEF Table, Counted
<1> QED
  BY <1>1 DEF Table, Typed

TableInv == Table(fil, dp, Files, leaked)

(* A mount ages every object or none. *)
LEMMA After ==
  ASSUME TableInv, NEW v
  PROVE  /\ Table(FilAfter(v), DirAfter(v), LocksAfter(v), LeakedAfter(v))
         /\ FilAfter(v) \in [Handle -> FIL]
         /\ \A h \in Handle :
              /\ FilAfter(v)[h].st = "null" <=> fil[h].st = "null"
              /\ fil[h].st = "blank" => FilAfter(v)[h].st = "blank"
              /\ FilAfter(v)[h].st = "open" =>
                   FilAfter(v)[h] = fil[h] /\ LeakedAfter(v) = leaked
<1>1. CASE v = "remount"
  <2>1. Table([h \in Handle |-> Aged(fil[h])], Aged(dp), clear_lock, {})
    BY RemountKeeps DEF TableInv
  <2>2. /\ FilAfter(v) = [h \in Handle |-> Aged(fil[h])] /\ DirAfter(v) = Aged(dp)
        /\ LocksAfter(v) = clear_lock /\ LeakedAfter(v) = {}
    BY <1>1 DEF FilAfter, DirAfter, LocksAfter, LeakedAfter
  <2>3. Table(FilAfter(v), DirAfter(v), LocksAfter(v), LeakedAfter(v))
    BY <2>1, <2>2
  <2>4. FilAfter(v) \in [Handle -> FIL]
    BY <2>3 DEF Table, Typed
  <2>5. \A h \in Handle : FilAfter(v)[h] = IF fil[h].st = "open" THEN BlankFil ELSE fil[h]
    BY <2>2 DEF Aged
  <2>6. BlankFil.st = "blank"
    BY DEF BlankFil, Closed
  <2> QED
    BY <2>3, <2>4, <2>5, <2>6
<1>2. CASE v # "remount"
  BY <1>2 DEF FilAfter, DirAfter, LocksAfter, LeakedAfter, TableInv, Table, Typed
<1> QED
  BY <1>1, <1>2

LEMMA ClosedIs ==
  /\ BlankFil \in FIL /\ BlankFil.st = "blank" /\ BlankFil.lockid = 0
  /\ NoFil \in FIL /\ NoFil.st = "null"
BY PosixAssumption DEF BlankFil, NoFil, Closed, FIL

LEMMA OpenedKeeps ==
  ASSUME TableInv, NEW v, NEW h \in Handle, fil[h].st # "open",
         NEW k \in File, NEW m \in Mode, Opened(v, h, k, m), dp' = DirAfter(v)
  PROVE  TableInv'
<1> DEFINE L == LocksAfter(v)
           w == Writes(m)
           i == LockFor(L, k, w)
           f == [st |-> "open", key |-> k, w |-> w, lockid |-> i]
<1>1. /\ i # 0 /\ Countable(L, k, w)
      /\ Files' = inc_lock(L, k, w)
      /\ fil' = [FilAfter(v) EXCEPT ![h] = f]
      /\ leaked' = LeakedAfter(v)
  BY DEF Opened
<1>2. w \in BOOLEAN /\ k \in Key
  BY DEF Writes, Key
<1>3. Table(FilAfter(v), DirAfter(v), L, LeakedAfter(v)) /\ FilAfter(v)[h].st # "open"
  BY After
<1>4. L \in [Slot -> FILESEM] /\ LeakedAfter(v) \in SUBSET Key
  BY <1>3 DEF Table, Typed
<1> HIDE DEF L, w
<1>5. i \in Slot
  BY <1>1, <1>2, <1>4, LockForIs
<1>6. f \in FIL /\ (f.st = "open" => f.key = k /\ f.w = w /\ f.lockid = i) /\ f.st = "open"
  BY <1>2, <1>5, PosixAssumption DEF FIL, Slot
<1> HIDE DEF f, i
<1>7. i = LockFor(L, k, w)
  BY DEF i
<1>8. Table([FilAfter(v) EXCEPT ![h] = f], DirAfter(v), inc_lock(L, k, w), LeakedAfter(v))
  BY <1>1, <1>2, <1>3, <1>4, <1>6, <1>7, OpenKeeps
<1> QED
  BY <1>1, <1>8 DEF TableInv

LEMMA OpenedInVainKeeps ==
  ASSUME TableInv, NEW v, NEW h \in Handle, fil[h].st # "open",
         NEW k \in File, NEW m \in Mode,
         OpenedInVain(v, h, k, m), dp' = DirAfter(v)
  PROVE  TableInv'
<1> DEFINE L == LocksAfter(v)
           w == Writes(m)
           i == LockFor(L, k, w)
           Y == LeakedAfter(v) \cup {k}
<1>1. /\ i # 0 /\ Countable(L, k, w)
      /\ Files' = inc_lock(L, k, w)
      /\ fil' = [FilAfter(v) EXCEPT ![h] = BlankFil]
      /\ leaked' = Y
  BY DEF OpenedInVain, Countable, Writes
<1>2. w \in BOOLEAN /\ k \in Key
  BY DEF Writes, Key
<1>3. Table(FilAfter(v), DirAfter(v), L, LeakedAfter(v)) /\ FilAfter(v)[h].st # "open"
  BY After
<1>4. Y \in SUBSET Key /\ LeakedAfter(v) \subseteq Y /\ k \in Y
  BY <1>2, <1>3 DEF Table, Typed
<1>5. i = LockFor(L, k, w)
  OBVIOUS
<1> HIDE DEF L, w, Y, i
<1>6. Table([FilAfter(v) EXCEPT ![h] = BlankFil], DirAfter(v), inc_lock(L, k, w), Y)
  BY <1>1, <1>2, <1>3, <1>4, <1>5, ClosedIs, OpenKeeps
<1> QED
  BY <1>1, <1>6 DEF TableInv

LEMMA NotOpenedKeeps ==
  ASSUME TableInv, NEW v, NEW h \in Handle, fil[h].st # "open", NEW k, NEW m,
         NEW f \in FIL, f.st # "open", NotOpened(v, h, k, m, f), dp' = DirAfter(v)
  PROVE  TableInv'
<1>1. Table(FilAfter(v), DirAfter(v), LocksAfter(v), LeakedAfter(v))
      /\ FilAfter(v)[h].st # "open"
  BY After
<1>2. LeakedAfter(v) \in SUBSET Key
  BY <1>1 DEF Table, Typed
<1>3. Table([FilAfter(v) EXCEPT ![h] = f], DirAfter(v), LocksAfter(v), LeakedAfter(v))
  BY <1>1, <1>2, ForsakeKeeps
<1> QED
  BY <1>3 DEF NotOpened, TableInv

-----------------------------------------------------------------------------
(* What a task in the middle of a call knows of its file object *)

Running == {"open", "append", "sync", "unlock", "free"}

Calls ==
  /\ owner \in [Fd -> Task \cup {None}]
  /\ pc \in [Task -> Running \cup {"idle", "truncate"}]
  /\ fileno \in [Task -> Fd \cup {None}]
  /\ req \in [Task -> [key : File \cup {None}, mode : Mode]]
  /\ \A t \in Task : fileno[t] \in Fd <=> pc[t] \in Running

Objects ==
  \A t \in Task :
    /\ pc[t] = "open" => fil[fileno[t]].st = "blank" /\ req[t].key \in File
    /\ pc[t] = "free" /\ fil[fileno[t]].st = "open" => fil[fileno[t]].key \in leaked
    /\ pc[t] # "truncate" => fil[t].st # "open"

Control == Calls /\ Objects /\ DescriptorsAccounted

(* Nothing happens to an object but that a mount may age it. *)
Still(h) ==
  /\ fil'[h].st = "null" <=> fil[h].st = "null"
  /\ fil[h].st = "blank" => fil'[h].st = "blank"
  /\ fil'[h].st = "open" => fil'[h] = fil[h] /\ leaked \subseteq leaked'

LEMMA NoneIsNoFd == None \notin Fd /\ None \notin Task /\ \A t \in Task : t \notin Fd
BY PosixAssumption

LEMMA StillKeeps ==
  ASSUME Control, \A h \in Handle : Still(h), UNCHANGED <<owner, pc, fileno, req>>
  PROVE  Control'
<1>1. Calls'
  BY DEF Control, Calls
<1>2. Objects'
  BY DEF Control, Calls, Objects, Still, Handle, Running
<1>3. DescriptorsAccounted'
  BY DEF Control, DescriptorsAccounted, Still, Handle
<1> QED
  BY <1>1, <1>2, <1>3 DEF Control

Inv == TableInv /\ Control

LEMMA AfterIsStill ==
  ASSUME TableInv, NEW v, NEW h \in Handle, fil'[h] = FilAfter(v)[h],
         LeakedAfter(v) \subseteq leaked'
  PROVE  Still(h)
BY After DEF Still

LEMMA InitEstablishes == Init => Inv
<1> SUFFICES ASSUME Init PROVE Inv
  OBVIOUS
<1> USE PosixAssumption
<1>1. /\ \A h \in Handle : fil[h] = NoFil
      /\ fil \in [Handle -> FIL]
  BY ClosedIs DEF Init
<1>2. Files \in [Slot -> FILESEM] /\ \A i \in Slot : Files[i].key = None /\ Files[i].ctr = 0
  BY DEF Init, clear_lock, NoEntry, FILESEM, Slot
<1>3. TableInv
  BY <1>1, <1>2, ClosedIs
     DEF Init, TableInv, Table, Typed, FileLocked, DirLocked, Distinct, Counted
<1>4. Calls
  BY DEF Init, Calls, Running, NoReq, Mode
<1>5. Objects
  BY <1>1, ClosedIs DEF Init, Objects, Handle
<1>6. DescriptorsAccounted
  BY <1>1, ClosedIs DEF Init, DescriptorsAccounted, Handle
<1> QED
  BY <1>3, <1>4, <1>5, <1>6 DEF Inv, Control

LEMMA ChangeEntryKeeps ==
  ASSUME Inv, NEW t \in Task, NEW k \in File, NEW names, ChangeEntry(t, k, names)
  PROVE  Inv' /\ \A h \in Handle : Still(h)
<1>1. PICK v : /\ dp' = DirAfter(v) /\ Files' = LocksAfter(v)
               /\ fil' = FilAfter(v) /\ leaked' = LeakedAfter(v)
               /\ UNCHANGED <<owner, pc, fileno, req>>
  BY DEF ChangeEntry
<1>2. TableInv'
  BY <1>1, After DEF Inv, TableInv
<1>3. \A h \in Handle : Still(h)
  BY <1>1, AfterIsStill DEF Inv
<1> QED
  BY <1>1, <1>2, <1>3, StillKeeps DEF Inv

LEMMA opendirKeeps ==
  ASSUME Inv, NEW t \in Task, NEW d \in SubDir \cup {None}, opendir(t, d)
  PROVE  Inv' /\ \A h \in Handle : Still(h)
<1> DEFINE w == FALSE
<1>1. PICK v \in Volume(t) :
       LET L == LocksAfter(v)
           i == IF d = None THEN 0 ELSE LockFor(L, d, w)
           dir == [st |-> "open", key |-> d, w |-> w, lockid |-> i]
       IN /\ fil' = FilAfter(v)
          /\ leaked' = LeakedAfter(v) \cup
                         (IF DirAfter(v).lockid # 0 THEN Forsaken(DirAfter(v)) ELSE {})
          /\ \/ /\ i # 0 /\ Countable(L, d, w)
                /\ Files' = inc_lock(L, d, w) /\ dp' = dir
             \/ d = None /\ Files' = L /\ dp' = dir
             \/ Files' = L /\ dp' = BlankFil
  BY DEF opendir
<1>2. UNCHANGED <<owner, pc, fileno, req>>
  BY DEF opendir
<1> DEFINE L == LocksAfter(v)
           i == IF d = None THEN 0 ELSE LockFor(L, d, w)
           dir == [st |-> "open", key |-> d, w |-> w, lockid |-> i]
           D == DirAfter(v)
<1>3. /\ fil' = FilAfter(v)
      /\ leaked' = LeakedAfter(v) \cup (IF D.lockid # 0 THEN Forsaken(D) ELSE {})
      /\ \/ /\ i # 0 /\ Countable(L, d, w)
            /\ Files' = inc_lock(L, d, w) /\ dp' = dir
         \/ d = None /\ Files' = L /\ dp' = dir
         \/ Files' = L /\ dp' = BlankFil
  BY <1>1
<1>w. w \in BOOLEAN /\ ~w
  OBVIOUS
<1> HIDE DEF w
<1>4. \A h \in Handle : Still(h)
  BY <1>3, AfterIsStill DEF Inv
<1>5. Table(FilAfter(v), D, L, LeakedAfter(v))
  BY After DEF Inv
<1>6. /\ D \in FIL /\ L \in [Slot -> FILESEM] /\ LeakedAfter(v) \in SUBSET Key
      /\ D.lockid # 0 => D.st = "open" /\ D.key \in SubDir
  BY <1>5, PosixAssumption DEF Table, Typed, DirLocked
<1>7. /\ leaked' \in SUBSET Key /\ LeakedAfter(v) \subseteq leaked'
      /\ D.lockid # 0 => D.key \in leaked'
  BY <1>3, <1>6 DEF Forsaken, Key
<1> HIDE DEF L, D
<1>8. Table(FilAfter(v), BlankFil, L, leaked')
  BY <1>5, <1>7, ClosedIs, ForsakeDirKeeps
<1>9. CASE d = None /\ Files' = L /\ dp' = dir
  <2>1. dir \in FIL /\ dir.lockid = 0 /\ dir.key = None
    BY <1>w, <1>9, PosixAssumption DEF FIL
  <2> HIDE DEF dir
  <2>2. Table(FilAfter(v), dir, L, leaked')
    BY <1>5, <1>7, <2>1, ForsakeDirKeeps
  <2> QED
    BY <1>2, <1>3, <1>4, <1>9, <2>2, StillKeeps DEF Inv, TableInv
<1>10. CASE i # 0 /\ Countable(L, d, w) /\ Files' = inc_lock(L, d, w) /\ dp' = dir
  <2>1. d \in SubDir /\ d \in Key /\ i = LockFor(L, d, w)
    BY <1>10 DEF Key
  <2>2. i \in Slot
    BY <1>w, <1>6, <1>10, <2>1, LockForIs
  <2> HIDE DEF i
  <2>3. dir \in FIL /\ dir.st = "open" /\ dir.key = d /\ dir.lockid = i
    BY <1>w, <2>1, <2>2, PosixAssumption DEF FIL, Slot
  <2> HIDE DEF dir
  <2>4. Table(FilAfter(v), dir, inc_lock(L, d, w), leaked')
    BY <1>w, <1>8, <1>10, <2>1, <2>3, ClosedIs, OpenDirKeeps
  <2> QED
    BY <1>2, <1>3, <1>4, <1>10, <2>4, StillKeeps DEF Inv, TableInv
<1>11. CASE Files' = L /\ dp' = BlankFil
  BY <1>2, <1>3, <1>4, <1>8, <1>11, StillKeeps DEF Inv, TableInv
<1> HIDE DEF i, dir
<1> QED
  BY <1>3, <1>9, <1>10, <1>11

LEMMA closedirKeeps ==
  ASSUME Inv, NEW t \in Task, closedir(t)
  PROVE  Inv' /\ \A h \in Handle : Still(h)
<1>1. /\ dp.st = "open" /\ dp' = BlankFil
      /\ Files' = IF dp.lockid = 0 THEN Files ELSE dec_lock(Files, dp.lockid)
      /\ UNCHANGED <<fil, owner, pc, fileno, req, leaked>>
  BY DEF closedir, Valid
<1>2. TableInv'
  <2>1. CASE dp.lockid = 0
    <3>1. leaked \in SUBSET Key
      BY DEF Inv, TableInv, Table, Typed
    <3>2. Table(fil, BlankFil, Files, leaked)
      BY <2>1, <3>1, ClosedIs, ForsakeDirKeeps DEF Inv, TableInv
    <3> QED
      BY <1>1, <2>1, <3>2 DEF TableInv
  <2>2. CASE dp.lockid # 0
    <3>1. Table(fil, BlankFil, dec_lock(Files, dp.lockid), leaked)
      BY <1>1, <2>2, CloseDirKeeps DEF Inv, TableInv
    <3> QED
      BY <1>1, <2>2, <3>1 DEF TableInv
  <2> QED
    BY <2>1, <2>2
<1>3. \A h \in Handle : Still(h)
  BY <1>1 DEF Still
<1> QED
  BY <1>1, <1>2, <1>3, StillKeeps DEF Inv

-----------------------------------------------------------------------------
(* The calls that have a file object of their own *)

LEMMA Object ==
  ASSUME Inv
  PROVE  /\ fil \in [Handle -> FIL] /\ leaked \in SUBSET Key
         /\ \A h \in Handle : Forsaken(fil[h]) \in SUBSET Key
                              /\ (fil[h].st = "open" => fil[h].key \in Forsaken(fil[h]))
         /\ \A t \in Task : pc[t] \in Running =>
              /\ fileno[t] \in Fd /\ fileno[t] \in Handle /\ fileno[t] \notin Task
              /\ fil[fileno[t]].st # "null" /\ owner[fileno[t]] = None
              /\ \A u \in Task : fileno[u] = fileno[t] => u = t
<1>1. fil \in [Handle -> FIL] /\ leaked \in SUBSET Key
  BY DEF Inv, TableInv, Table, Typed
<1>2. \A h \in Handle : FileLocked(fil[h], Files)
  BY DEF Inv, TableInv, Table
<1>3. \A h \in Handle : Forsaken(fil[h]) \in SUBSET Key
                        /\ (fil[h].st = "open" => fil[h].key \in Forsaken(fil[h]))
  BY <1>2 DEF FileLocked, Forsaken, Key
<1>4. ASSUME NEW t \in Task, pc[t] \in Running
      PROVE  /\ fileno[t] \in Fd /\ fileno[t] \in Handle /\ fileno[t] \notin Task
             /\ fil[fileno[t]].st # "null" /\ owner[fileno[t]] = None
             /\ \A u \in Task : fileno[u] = fileno[t] => u = t
  BY <1>4, PosixAssumption DEF Inv, Control, Calls, DescriptorsAccounted, Handle
<1> QED
  BY <1>1, <1>3, <1>4

LEMMA fat_openKeeps ==
  ASSUME Inv, NEW t \in Task, NEW k \in File, NEW m \in Mode, fat_open(t, k, m)
  PROVE  /\ Inv' /\ \A h \in Handle : fil'[h].st = "open" => fil'[h] = fil[h]
         /\ \A h \in Handle : fil[h].st = "open" => fil'[h] = fil[h]
<1> USE PosixAssumption
<1>1. PICK d \in Fd :
        /\ fil[d].st = "null" /\ fil' = [fil EXCEPT ![d] = BlankFil]
        /\ fileno' = [fileno EXCEPT ![t] = d]
  BY DEF fat_open
<1>2. /\ pc[t] = "idle" /\ pc' = [pc EXCEPT ![t] = "open"]
      /\ req' = [req EXCEPT ![t] = [key |-> k, mode |-> m]]
      /\ UNCHANGED <<owner, dp, Files, leaked>>
  BY DEF fat_open, Goto
<1>3. d \in Handle /\ fil \in [Handle -> FIL] /\ leaked \in SUBSET Key
  BY Object DEF Handle
<1>4. TableInv'
  <2>1. Table([fil EXCEPT ![d] = BlankFil], dp, Files, leaked)
    BY <1>1, <1>3, ClosedIs, ForsakeKeeps DEF Inv, TableInv
  <2> QED
    BY <1>1, <1>2, <2>1 DEF TableInv
<1>5. \A h \in Handle : fil'[h] = IF h = d THEN BlankFil ELSE fil[h]
  BY <1>1, <1>3
<1>6. Calls'
  <2>1. req' \in [Task -> [key : File \cup {None}, mode : Mode]]
    BY <1>2 DEF Inv, Control, Calls
  <2> QED
    BY <1>1, <1>2, <2>1 DEF Inv, Control, Calls, Running
<1>7. \A u \in Task : fileno[u] # d
  BY <1>1 DEF Inv, Control, DescriptorsAccounted
<1>8. Objects'
  <2>1. \A u \in Task : u # t =>
          /\ pc'[u] = pc[u] /\ fileno'[u] = fileno[u] /\ req'[u] = req[u]
    BY <1>1, <1>2 DEF Inv, Control, Calls
  <2>2. pc'[t] = "open" /\ fileno'[t] = d /\ req'[t].key = k
    BY <1>1, <1>2 DEF Inv, Control, Calls
  <2>3. \A u \in Task : fil'[u] = fil[u]
    BY <1>5, NoneIsNoFd DEF Handle
  <2>4. ASSUME NEW u \in Task, u # t, pc[u] \in {"open", "free"} PROVE fil'[fileno[u]] = fil[fileno[u]]
    BY <1>5, <1>7, <2>4, Object DEF Running
  <2>5. fil'[d] = BlankFil
    BY <1>3, <1>5
  <2> QED
    BY <1>2, <2>1, <2>2, <2>3, <2>4, <2>5, ClosedIs DEF Inv, Control, Objects
<1>9. DescriptorsAccounted'
  <2>1. \A x \in Fd : fil'[x].st # "null" <=> x = d \/ fil[x].st # "null"
    BY <1>5, ClosedIs DEF Handle
  <2>2. \A u \in Task : fileno'[u] = IF u = t THEN d ELSE fileno[u]
    BY <1>1 DEF Inv, Control, Calls
  <2>3. fileno[t] \notin Fd /\ owner' = owner
    BY <1>2 DEF Inv, Control, Calls, Running
  <2>4. owner[d] = None
    BY <1>1 DEF Inv, Control, DescriptorsAccounted
  <2> QED
    BY <1>7, <2>1, <2>2, <2>3, <2>4 DEF Inv, Control, DescriptorsAccounted
<1> QED
  BY <1>1, <1>4, <1>5, <1>6, <1>8, <1>9, ClosedIs DEF Inv, Control

(* A task goes on with its call: whatever becomes of its own object. *)
LEMMA MoveKeeps ==
  ASSUME Inv, NEW t \in Task, pc[t] \in Running,
         NEW p \in Running \ {"open"}, pc' = [pc EXCEPT ![t] = p],
         \A x \in Handle : x # fileno[t] => Still(x),
         fil'[fileno[t]].st # "null",
         p = "free" /\ fil'[fileno[t]].st = "open" => fil'[fileno[t]].key \in leaked',
         UNCHANGED <<owner, fileno, req>>
  PROVE  Control'
<1> DEFINE h == fileno[t]
<1>1. /\ h \in Fd /\ h \in Handle /\ fil[h].st # "null" /\ owner[h] = None
      /\ \A u \in Task : u # h /\ (fileno[u] = h => u = t)
  BY Object
<1>2. \A u \in Task : u # t => pc'[u] = pc[u]
  BY DEF Inv, Control, Calls
<1>3. pc'[t] = p
  BY DEF Inv, Control, Calls
<1>4. Calls'
  BY <1>2, <1>3 DEF Inv, Control, Calls, Running
<1>5. Objects'
  <2>1. \A u \in Task : pc[u] # "truncate" => fil'[u].st # "open"
    BY <1>1 DEF Inv, Control, Objects, Still, Handle
  <2>2. ASSUME NEW u \in Task, u # t, pc[u] \in {"open", "free"}
        PROVE  Still(fileno[u])
    BY <1>1, <2>2, Object DEF Running
  <2>3. ASSUME NEW u \in Task, u # t
        PROVE  /\ pc[u] = "open" => fil'[fileno[u]].st = "blank" /\ req[u].key \in File
               /\ pc[u] = "free" /\ fil'[fileno[u]].st = "open"
                    => fil'[fileno[u]].key \in leaked'
    BY <2>2, <2>3 DEF Inv, Control, Objects, Still
  <2>4. pc[t] # "truncate" /\ p # "truncate"
    BY DEF Running
  <2> QED
    BY <1>2, <1>3, <2>1, <2>3, <2>4 DEF Objects
<1>6. DescriptorsAccounted'
  <2>1. \A x \in Fd : fil'[x].st # "null" <=> fil[x].st # "null"
    BY <1>1 DEF Still, Handle
  <2> QED
    BY <2>1 DEF Inv, Control, DescriptorsAccounted
<1> QED
  BY <1>4, <1>5, <1>6 DEF Control

LEMMA ReturnKeeps ==
  ASSUME Inv, NEW t \in Task, pc[t] \in Running, Return(t),
         \A x \in Handle : x # fileno[t] => Still(x),
         fil'[fileno[t]].st # "null"
  PROVE  Control'
<1> DEFINE h == fileno[t]
<1> USE PosixAssumption
<1>1. /\ h \in Fd /\ h \in Handle /\ fil[h].st # "null" /\ owner[h] = None
      /\ \A u \in Task : u # h /\ (fileno[u] = h => u = t)
  BY Object
<1>2. /\ pc' = [pc EXCEPT ![t] = "idle"] /\ fileno' = [fileno EXCEPT ![t] = None]
      /\ req' = [req EXCEPT ![t] = NoReq] /\ owner' = [owner EXCEPT ![h] = t]
  BY DEF Return, Done, Goto
<1> HIDE DEF h
<1>3. \A u \in Task : u # t => pc'[u] = pc[u] /\ fileno'[u] = fileno[u] /\ req'[u] = req[u]
  BY <1>2 DEF Inv, Control, Calls
<1>4. pc'[t] = "idle" /\ fileno'[t] = None
  BY <1>2 DEF Inv, Control, Calls
<1>5. Calls'
  <2>1. req' \in [Task -> [key : File \cup {None}, mode : Mode]]
    BY <1>2 DEF Inv, Control, Calls, NoReq, Mode
  <2>2. owner' \in [Fd -> Task \cup {None}] /\ fileno' \in [Task -> Fd \cup {None}]
        /\ pc' \in [Task -> Running \cup {"idle", "truncate"}]
    BY <1>2 DEF Inv, Control, Calls
  <2> QED
    BY <1>3, <1>4, <2>1, <2>2 DEF Inv, Control, Calls, Running
<1>6. Objects'
  <2>1. \A u \in Task : pc[u] # "truncate" => fil'[u].st # "open"
    BY <1>1 DEF Inv, Control, Objects, Still, Handle, h
  <2>2. ASSUME NEW u \in Task, u # t, pc[u] \in {"open", "free"}
        PROVE  Still(fileno[u])
    BY <1>1, <2>2, Object DEF Running, h
  <2>3. ASSUME NEW u \in Task, u # t
        PROVE  /\ pc[u] = "open" => fil'[fileno[u]].st = "blank" /\ req[u].key \in File
               /\ pc[u] = "free" /\ fil'[fileno[u]].st = "open"
                    => fil'[fileno[u]].key \in leaked'
    BY <2>2, <2>3 DEF Inv, Control, Objects, Still
  <2>4. pc[t] # "truncate"
    BY DEF Running
  <2> QED
    BY <1>3, <1>4, <2>1, <2>3, <2>4 DEF Objects
<1>7. DescriptorsAccounted'
  <2>1. \A x \in Fd : fil'[x].st # "null" <=> fil[x].st # "null"
    BY <1>1 DEF Still, Handle, h
  <2>2. \A x \in Fd : owner'[x] = IF x = h THEN t ELSE owner[x]
    BY <1>1, <1>2 DEF Inv, Control, Calls
  <2>3. \A u \in Task : fileno'[u] = IF u = t THEN None ELSE fileno[u]
    BY <1>3, <1>4
  <2>4. fileno[t] = h
    BY DEF h
  <2>5. ASSUME NEW x \in Fd
        PROVE  fil'[x].st # "null" <=> owner'[x] # None \/ \E u \in Task : fileno'[u] = x
    <3>1. fil[x].st # "null" <=> owner[x] # None \/ \E u \in Task : fileno[u] = x
      BY DEF Inv, Control, DescriptorsAccounted
    <3> QED
      BY <1>1, <2>1, <2>2, <2>3, <2>4, <3>1
  <2>6. ASSUME NEW x \in Fd, owner'[x] # None, NEW u \in Task PROVE fileno'[u] # x
    BY <1>1, <2>2, <2>3, <2>4, <2>6 DEF Inv, Control, DescriptorsAccounted
  <2>7. \A u, w \in Task : fileno'[u] # None /\ fileno'[u] = fileno'[w] => u = w
    BY <2>3 DEF Inv, Control, DescriptorsAccounted
  <2> QED
    BY <2>5, <2>6, <2>7 DEF DescriptorsAccounted
<1> QED
  BY <1>5, <1>6, <1>7 DEF Control

(* What f_open does to the objects: it opens its own or leaves it blank. *)
LEMMA f_openKeeps ==
  ASSUME Inv, NEW t \in Task, f_open(t)
  PROVE  /\ Inv' /\ \A h \in Handle : h # fileno[t] => Still(h)
<1> DEFINE h == fileno[t]
           k == req[t].key
           m == req[t].mode
<1>1. /\ pc[t] = "open" /\ pc[t] \in Running
      /\ h \in Fd /\ h \in Handle /\ fil[h].st = "blank" /\ k \in File /\ m \in Mode
  BY Object DEF f_open, Running, Inv, Control, Objects, Calls
<1>2. PICK v :
        /\ dp' = DirAfter(v)
        /\ \/ /\ Opened(v, h, k, m)
              /\ IF m = "append" THEN Goto(t, "append") /\ UNCHANGED <<owner, fileno, req>>
                                 ELSE Return(t)
           \/ /\ NotOpened(v, h, k, m, BlankFil) \/ OpenedInVain(v, h, k, m)
              /\ Goto(t, "free") /\ UNCHANGED <<owner, fileno, req>>
  BY DEF f_open
<1> HIDE DEF h, k, m
<1>3. FilAfter(v) \in [Handle -> FIL]
  BY After DEF Inv
<1>4. CASE Opened(v, h, k, m)
  <2>1. TableInv'
    BY <1>1, <1>2, <1>4, OpenedKeeps DEF Inv
  <2>2. /\ fil'[h].st = "open" /\ leaked' = LeakedAfter(v)
        /\ \A x \in Handle : x # h => fil'[x] = FilAfter(v)[x]
    BY <1>1, <1>3, <1>4 DEF Opened
  <2>3. \A x \in Handle : x # h => Still(x)
    BY <2>2, AfterIsStill DEF Inv
  <2>4. CASE Goto(t, "append") /\ UNCHANGED <<owner, fileno, req>>
    <3>1. Control'
      BY <1>1, <2>2, <2>3, <2>4, MoveKeeps DEF Goto, Running, h
    <3> QED
      BY <2>1, <2>3, <3>1 DEF Inv, h
  <2>5. CASE Return(t)
    <3>1. Control'
      BY <1>1, <2>2, <2>3, <2>5, ReturnKeeps DEF h
    <3> QED
      BY <2>1, <2>3, <3>1 DEF Inv, h
  <2>6. CASE Goto(t, "free") /\ UNCHANGED <<owner, fileno, req>>
             /\ (NotOpened(v, h, k, m, BlankFil) \/ OpenedInVain(v, h, k, m))
    <3>1. fil'[h] = BlankFil
      BY <1>1, <1>3, <2>6 DEF NotOpened, OpenedInVain
    <3> QED
      BY <2>2, <3>1, ClosedIs
  <2> QED
    BY <1>2, <2>4, <2>5, <2>6
<1>5. CASE /\ NotOpened(v, h, k, m, BlankFil) \/ OpenedInVain(v, h, k, m)
           /\ Goto(t, "free") /\ UNCHANGED <<owner, fileno, req>>
  <2>1. TableInv'
    BY <1>1, <1>2, <1>5, ClosedIs, NotOpenedKeeps, OpenedInVainKeeps DEF Inv
  <2>2. /\ fil'[h] = BlankFil /\ LeakedAfter(v) \subseteq leaked'
        /\ \A x \in Handle : x # h => fil'[x] = FilAfter(v)[x]
    BY <1>1, <1>3, <1>5 DEF NotOpened, OpenedInVain
  <2>3. \A x \in Handle : x # h => Still(x)
    BY <2>2, AfterIsStill DEF Inv
  <2>4. Control'
    BY <1>1, <1>5, <2>2, <2>3, MoveKeeps, ClosedIs DEF Goto, Running, h
  <2> QED
    BY <2>1, <2>3, <2>4 DEF Inv, h
<1> QED
  BY <1>2, <1>4, <1>5

LEMMA AppendSeekKeeps ==
  ASSUME Inv, NEW t \in Task, AppendSeek(t)
  PROVE  Inv' /\ UNCHANGED fil
<1>1. /\ pc[t] = "append" /\ pc[t] \in Running
      /\ \/ Return(t)
         \/ Goto(t, "sync") /\ UNCHANGED <<owner, fileno, req>>
      /\ UNCHANGED <<fil, dp, Files, leaked>>
  BY DEF AppendSeek, Running
<1>2. TableInv'
  BY <1>1 DEF Inv, TableInv
<1>3. (\A h \in Handle : Still(h)) /\ fil'[fileno[t]].st # "null"
  BY <1>1, Object DEF Still
<1>4. Control'
  <2>1. CASE Return(t)
    BY <1>1, <1>3, <2>1, ReturnKeeps
  <2>2. CASE Goto(t, "sync") /\ UNCHANGED <<owner, fileno, req>>
    BY <1>1, <1>3, <2>2, MoveKeeps DEF Goto, Running
  <2> QED
    BY <1>1, <2>1, <2>2
<1> QED
  BY <1>1, <1>2, <1>4 DEF Inv

LEMMA fat_closeKeeps ==
  ASSUME Inv, NEW t \in Task, NEW d \in Fd, fat_close(t, d)
  PROVE  Inv' /\ UNCHANGED fil
<1> USE PosixAssumption
<1>1. /\ pc[t] = "idle" /\ owner[d] = t
      /\ owner' = [owner EXCEPT ![d] = None] /\ fileno' = [fileno EXCEPT ![t] = d]
      /\ pc' = [pc EXCEPT ![t] = "sync"]
      /\ UNCHANGED <<fil, dp, Files, req, leaked>>
  BY DEF fat_close, Goto
<1>2. TableInv'
  BY <1>1 DEF Inv, TableInv
<1>3. Calls'
  BY <1>1 DEF Inv, Control, Calls, Running
<1>4. Objects'
  <2>1. \A u \in Task : u # t => pc'[u] = pc[u] /\ fileno'[u] = fileno[u]
    BY <1>1 DEF Inv, Control, Calls
  <2>2. pc'[t] = "sync"
    BY <1>1 DEF Inv, Control, Calls
  <2> QED
    BY <1>1, <2>1, <2>2 DEF Inv, Control, Objects
<1>5. DescriptorsAccounted'
  <2>1. \A x \in Fd : owner'[x] = IF x = d THEN None ELSE owner[x]
    BY <1>1 DEF Inv, Control, Calls
  <2>2. \A u \in Task : fileno'[u] = IF u = t THEN d ELSE fileno[u]
    BY <1>1 DEF Inv, Control, Calls
  <2>3. fileno[t] \notin Fd /\ fil[d].st # "null" /\ \A u \in Task : fileno[u] # d
    BY <1>1 DEF Inv, Control, Calls, DescriptorsAccounted, Running
  <2> QED
    BY <1>1, <2>1, <2>2, <2>3 DEF Inv, Control, DescriptorsAccounted
<1> QED
  BY <1>1, <1>2, <1>3, <1>4, <1>5 DEF Inv, Control

LEMMA CloseSyncKeeps ==
  ASSUME Inv, NEW t \in Task, CloseSync(t)
  PROVE  Inv' /\ UNCHANGED fil
<1> DEFINE h == fileno[t]
<1>1. /\ pc[t] = "sync" /\ pc[t] \in Running
      /\ \/ Goto(t, "unlock") /\ leaked' = leaked
         \/ Goto(t, "free") /\ leaked' = leaked \cup Forsaken(fil[h])
      /\ UNCHANGED <<fil, owner, dp, Files, fileno, req>>
  BY DEF CloseSync, Running
<1>2. h \in Handle /\ fil[h].st # "null"
  BY <1>1, Object
<1>3. leaked \subseteq leaked' /\ leaked' \in SUBSET Key
  BY <1>1, <1>2, Object
<1>4. TableInv'
  <2>1. Table(fil, dp, Files, leaked')
    BY <1>3, Grows DEF Inv, TableInv
  <2> QED
    BY <1>1, <2>1 DEF TableInv
<1>5. \A x \in Handle : Still(x)
  BY <1>1, <1>3 DEF Still
<1>6. Control'
  <2>1. CASE Goto(t, "unlock")
    BY <1>1, <1>2, <1>5, <2>1, MoveKeeps DEF Goto, Running
  <2>2. CASE Goto(t, "free") /\ leaked' = leaked \cup Forsaken(fil[h])
    <3>1. fil'[h].st = "open" => fil'[h].key \in leaked'
      BY <1>1, <1>2, <2>2, Object
    <3> QED
      BY <1>1, <1>2, <1>5, <2>2, <3>1, MoveKeeps DEF Goto, Running
  <2> QED
    BY <1>1, <2>1, <2>2
<1> QED
  BY <1>1, <1>4, <1>6 DEF Inv

LEMMA CloseUnlockKeeps ==
  ASSUME Inv, NEW t \in Task, CloseUnlock(t)
  PROVE  /\ Inv' /\ \A x \in Handle : x # fileno[t] => fil'[x] = fil[x]
         /\ fileno[t] \in Handle /\ (fil'[fileno[t]].st # "open" \/ UNCHANGED fil)
<1> DEFINE h == fileno[t]
<1>1. /\ pc[t] = "unlock" /\ pc[t] \in Running /\ Goto(t, "free")
      /\ \/ /\ fil[h].st = "open"
            /\ Files' = dec_lock(Files, fil[h].lockid)
            /\ fil' = [fil EXCEPT ![h] = BlankFil]
            /\ leaked' = leaked
         \/ /\ leaked' = leaked \cup Forsaken(fil[h])
            /\ UNCHANGED <<Files, fil>>
      /\ UNCHANGED <<owner, dp, fileno, req>>
  BY DEF CloseUnlock, Running, Valid
<1>2. h \in Handle /\ fil[h].st # "null" /\ fil \in [Handle -> FIL]
  BY <1>1, Object
<1> HIDE DEF h
<1>3. CASE /\ fil[h].st = "open"
           /\ Files' = dec_lock(Files, fil[h].lockid)
           /\ fil' = [fil EXCEPT ![h] = BlankFil]
           /\ leaked' = leaked
  <2>1. Table([fil EXCEPT ![h] = BlankFil], dp, dec_lock(Files, fil[h].lockid), leaked)
    BY <1>2, <1>3, ClosedIs, CloseKeeps DEF Inv, TableInv
  <2>2. TableInv'
    BY <1>1, <1>3, <2>1 DEF TableInv
  <2>3. fil'[h] = BlankFil /\ \A x \in Handle : x # h => fil'[x] = fil[x]
    BY <1>2, <1>3
  <2>4. \A x \in Handle : x # h => Still(x)
    BY <1>3, <2>3 DEF Still
  <2>5. Control'
    BY <1>1, <2>3, <2>4, ClosedIs, MoveKeeps DEF Goto, Running, h
  <2> QED
    BY <1>2, <2>2, <2>3, <2>5, ClosedIs DEF Inv, h
<1>4. CASE leaked' = leaked \cup Forsaken(fil[h]) /\ UNCHANGED <<Files, fil>>
  <2>1. /\ leaked \subseteq leaked' /\ leaked' \in SUBSET Key
        /\ fil[h].st = "open" => fil[h].key \in leaked'
    BY <1>2, <1>4, Object
  <2>2. Table(fil, dp, Files, leaked')
    BY <2>1, Grows DEF Inv, TableInv
  <2>3. TableInv'
    BY <1>1, <1>4, <2>2 DEF TableInv
  <2>4. \A x \in Handle : Still(x)
    BY <1>4, <2>1 DEF Still
  <2>5. Control'
    BY <1>1, <1>2, <1>4, <2>1, <2>4, MoveKeeps DEF Goto, Running, h
  <2> QED
    BY <1>2, <1>4, <2>3, <2>5 DEF Inv, h
<1> QED
  BY <1>1, <1>3, <1>4

LEMMA free_file_descriptorKeeps ==
  ASSUME Inv, NEW t \in Task, free_file_descriptor(t)
  PROVE  /\ Inv' /\ \A x \in Handle : x # fileno[t] => fil'[x] = fil[x]
         /\ fileno[t] \in Handle /\ fil'[fileno[t]].st # "open"
<1> DEFINE h == fileno[t]
<1> USE PosixAssumption
<1>1. /\ pc[t] = "free" /\ pc[t] \in Running
      /\ pc' = [pc EXCEPT ![t] = "idle"] /\ fileno' = [fileno EXCEPT ![t] = None]
      /\ req' = [req EXCEPT ![t] = NoReq]
      /\ fil' = [fil EXCEPT ![h] = NoFil]
      /\ UNCHANGED <<owner, dp, Files, leaked>>
  BY DEF free_file_descriptor, Running, Done, Goto
<1>2. /\ h \in Fd /\ h \in Handle /\ owner[h] = None
      /\ \A u \in Task : u # h /\ (fileno[u] = h => u = t)
      /\ fil \in [Handle -> FIL] /\ leaked \in SUBSET Key
  BY <1>1, Object
<1>3. fil[h].st = "open" => fil[h].key \in leaked
  BY <1>1 DEF Inv, Control, Objects
<1> HIDE DEF h
<1>4. TableInv'
  <2>1. Table([fil EXCEPT ![h] = NoFil], dp, Files, leaked)
    BY <1>2, <1>3, ClosedIs, ForsakeKeeps DEF Inv, TableInv
  <2> QED
    BY <1>1, <2>1 DEF TableInv
<1>5. /\ \A u \in Task : u # t => pc'[u] = pc[u] /\ fileno'[u] = fileno[u] /\ req'[u] = req[u]
      /\ pc'[t] = "idle" /\ fileno'[t] = None /\ fileno[t] = h
  BY <1>1 DEF Inv, Control, Calls, h
<1>6. \A x \in Handle : fil'[x] = IF x = h THEN NoFil ELSE fil[x]
  BY <1>1, <1>2
<1>7. Calls'
  <2>1. req' \in [Task -> [key : File \cup {None}, mode : Mode]]
    BY <1>1 DEF Inv, Control, Calls, NoReq, Mode
  <2>2. /\ fileno' \in [Task -> Fd \cup {None}]
        /\ pc' \in [Task -> Running \cup {"idle", "truncate"}]
    BY <1>1 DEF Inv, Control, Calls
  <2> QED
    BY <1>1, <1>5, <2>1, <2>2 DEF Inv, Control, Calls, Running
<1>8. Objects'
  <2>1. \A u \in Task : u \in Handle /\ fil'[u] = fil[u]
    BY <1>2, <1>6 DEF Handle
  <2>2. ASSUME NEW u \in Task, u # t, pc[u] \in {"open", "free"}
        PROVE  fil'[fileno[u]] = fil[fileno[u]]
    BY <1>2, <1>6, <2>2, Object DEF Running
  <2> QED
    BY <1>1, <1>5, <2>1, <2>2 DEF Inv, Control, Objects
<1>9. DescriptorsAccounted'
  <2>1. \A x \in Fd : fil'[x].st # "null" <=> x # h /\ fil[x].st # "null"
    BY <1>2, <1>6, ClosedIs DEF Handle
  <2>2. \A u \in Task : fileno'[u] = IF u = t THEN None ELSE fileno[u]
    BY <1>5
  <2>3. ASSUME NEW x \in Fd
        PROVE  fil'[x].st # "null" <=> owner[x] # None \/ \E u \in Task : fileno'[u] = x
    <3>1. fil[x].st # "null" <=> owner[x] # None \/ \E u \in Task : fileno[u] = x
      BY DEF Inv, Control, DescriptorsAccounted
    <3> QED
      BY <1>2, <1>5, <2>1, <2>2, <3>1
  <2> QED
    BY <1>1, <2>2, <2>3 DEF Inv, Control, DescriptorsAccounted
<1> QED
  BY <1>2, <1>4, <1>6, <1>7, <1>8, <1>9, ClosedIs DEF Inv, Control, h

(* A step with the object on the stack of t *)
LEMMA StackKeeps ==
  ASSUME Inv, NEW t \in Task, NEW p \in {"idle", "truncate"},
         pc[t] \in {"idle", "truncate"}, pc' = [pc EXCEPT ![t] = p],
         \A x \in Handle : x # t => Still(x),
         fil'[t].st = "open" => p = "truncate",
         UNCHANGED <<owner, fileno, req>>
  PROVE  Control'
<1>1. /\ \A u \in Task : u # t => pc'[u] = pc[u]
      /\ pc'[t] = p /\ p \notin Running /\ pc[t] \notin Running
  BY DEF Inv, Control, Calls, Running
<1>2. Calls'
  BY <1>1 DEF Inv, Control, Calls
<1>3. Objects'
  <2>1. ASSUME NEW u \in Task, u # t, pc[u] \in {"open", "free"}
        PROVE  Still(fileno[u])
    BY <2>1, Object DEF Running
  <2>2. ASSUME NEW u \in Task, u # t
        PROVE  /\ pc[u] = "open" => fil'[fileno[u]].st = "blank" /\ req[u].key \in File
               /\ pc[u] = "free" /\ fil'[fileno[u]].st = "open"
                    => fil'[fileno[u]].key \in leaked'
    BY <2>1, <2>2 DEF Inv, Control, Objects, Still
  <2>3. \A u \in Task : u # t => (pc[u] # "truncate" => fil'[u].st # "open")
    BY DEF Inv, Control, Objects, Still, Handle
  <2> QED
    BY <1>1, <2>2, <2>3 DEF Objects, Running
<1>4. DescriptorsAccounted'
  <2>1. \A x \in Fd : fil'[x].st # "null" <=> fil[x].st # "null"
    BY NoneIsNoFd DEF Still, Handle
  <2> QED
    BY <2>1 DEF Inv, Control, DescriptorsAccounted
<1> QED
  BY <1>2, <1>3, <1>4 DEF Control

LEMMA truncateKeeps ==
  ASSUME Inv, NEW t \in Task, NEW k \in File, truncate(t, k)
  PROVE  Inv' /\ \A x \in Handle : x # t => Still(x)
<1>1. /\ pc[t] = "idle" /\ t \in Handle /\ fil[t].st # "open"
      /\ UNCHANGED <<owner, fileno, req>>
  BY DEF truncate, Handle, Inv, Control, Objects
<1>2. PICK v :
        /\ dp' = DirAfter(v)
        /\ \/ Opened(v, t, k, "update") /\ Goto(t, "truncate")
           \/ NotOpened(v, t, k, "update", NoFil) /\ UNCHANGED pc
  BY DEF truncate
<1>3. FilAfter(v) \in [Handle -> FIL] /\ "update" \in Mode /\ pc \in [Task -> Running \cup {"idle", "truncate"}]
  BY After DEF Inv, Mode, Control, Calls
<1>4. CASE Opened(v, t, k, "update") /\ Goto(t, "truncate")
  <2>1. TableInv'
    BY <1>1, <1>2, <1>3, <1>4, OpenedKeeps DEF Inv
  <2>2. /\ leaked' = LeakedAfter(v)
        /\ \A x \in Handle : x # t => fil'[x] = FilAfter(v)[x]
    BY <1>1, <1>3, <1>4 DEF Opened
  <2>3. \A x \in Handle : x # t => Still(x)
    BY <2>2, AfterIsStill DEF Inv
  <2>4. Control'
    BY <1>1, <1>4, <2>3, StackKeeps DEF Goto
  <2> QED
    BY <2>1, <2>3, <2>4 DEF Inv
<1>5. CASE NotOpened(v, t, k, "update", NoFil) /\ UNCHANGED pc
  <2>1. TableInv'
    BY <1>1, <1>2, <1>5, ClosedIs, NotOpenedKeeps DEF Inv
  <2>2. /\ leaked' = LeakedAfter(v) /\ fil'[t] = NoFil
        /\ \A x \in Handle : x # t => fil'[x] = FilAfter(v)[x]
    BY <1>1, <1>3, <1>5 DEF NotOpened
  <2>3. \A x \in Handle : x # t => Still(x)
    BY <2>2, AfterIsStill DEF Inv
  <2>4. pc' = [pc EXCEPT ![t] = "idle"]
    BY <1>1, <1>3, <1>5
  <2>5. Control'
    BY <1>1, <2>2, <2>3, <2>4, ClosedIs, StackKeeps
  <2> QED
    BY <2>1, <2>3, <2>5 DEF Inv
<1> QED
  BY <1>2, <1>4, <1>5

LEMMA TruncateReturnKeeps ==
  ASSUME Inv, NEW t \in Task, TruncateReturn(t)
  PROVE  /\ Inv' /\ \A x \in Handle : x # t => fil'[x] = fil[x]
         /\ t \in Handle /\ fil'[t].st # "open"
<1>1. /\ pc[t] = "truncate" /\ pc' = [pc EXCEPT ![t] = "idle"]
      /\ fil' = [fil EXCEPT ![t] = NoFil] /\ leaked' = leaked \cup Forsaken(fil[t])
      /\ UNCHANGED <<owner, dp, Files, fileno, req>>
  BY DEF TruncateReturn, Goto
<1>2. t \in Handle /\ fil \in [Handle -> FIL]
  BY Object DEF Handle
<1>3. /\ leaked \subseteq leaked' /\ leaked' \in SUBSET Key
      /\ fil[t].st = "open" => fil[t].key \in leaked'
  BY <1>1, <1>2, Object
<1>4. fil'[t] = NoFil /\ \A x \in Handle : x # t => fil'[x] = fil[x]
  BY <1>1, <1>2
<1>5. TableInv'
  <2>1. Table([fil EXCEPT ![t] = NoFil], dp, Files, leaked')
    BY <1>2, <1>3, ClosedIs, ForsakeKeeps DEF Inv, TableInv
  <2> QED
    BY <1>1, <2>1 DEF TableInv
<1>6. \A x \in Handle : x # t => Still(x)
  BY <1>3, <1>4 DEF Still
<1>7. Control'
  BY <1>1, <1>4, <1>6, ClosedIs, StackKeeps
<1> QED
  BY <1>2, <1>4, <1>5, <1>7, ClosedIs DEF Inv

-----------------------------------------------------------------------------
(* The invariant and what follows from it *)

LEMMA Inductive == Inv /\ [Next]_vars => Inv'
<1> SUFFICES ASSUME Inv, [Next]_vars PROVE Inv'
  OBVIOUS
<1>1. ASSUME NEW t \in Task, NEW k \in File, truncate(t, k) PROVE Inv'
  BY <1>1, truncateKeeps
<1>2. ASSUME NEW t \in Task, NEW k \in File, unlink(t, k) PROVE Inv'
  BY <1>2, ChangeEntryKeeps DEF unlink
<1>3. ASSUME NEW t \in Task, NEW k \in File, NEW m \in Mode, fat_open(t, k, m) PROVE Inv'
  BY <1>3, fat_openKeeps
<1>4. ASSUME NEW t \in Task, NEW k \in File, NEW new \in File, rename(t, k, new) PROVE Inv'
  BY <1>4, ChangeEntryKeeps DEF rename
<1>5. ASSUME NEW t \in Task, NEW d \in Fd, fat_close(t, d) PROVE Inv'
  BY <1>5, fat_closeKeeps
<1>6. ASSUME NEW t \in Task, NEW d \in SubDir \cup {None}, opendir(t, d) PROVE Inv'
  BY <1>6, opendirKeeps
<1>7. ASSUME NEW t \in Task, f_open(t) \/ AppendSeek(t) \/ CloseSync(t) \/ CloseUnlock(t)
      PROVE Inv'
  BY <1>7, f_openKeeps, AppendSeekKeeps, CloseSyncKeeps, CloseUnlockKeeps
<1>8. ASSUME NEW t \in Task, free_file_descriptor(t) \/ TruncateReturn(t) \/ closedir(t)
      PROVE Inv'
  BY <1>8, free_file_descriptorKeeps, TruncateReturnKeeps, closedirKeeps
<1>9. CASE UNCHANGED vars
  <2>1. TableInv'
    BY <1>9 DEF vars, Inv, TableInv
  <2>2. Control'
    BY <1>9, StillKeeps DEF vars, Inv, Still
  <2> QED
    BY <2>1, <2>2 DEF Inv
<1> QED
  BY <1>1, <1>2, <1>3, <1>4, <1>5, <1>6, <1>7, <1>8, <1>9 DEF Next

LEMMA InvHolds == Spec => []Inv
BY InitEstablishes, Inductive, PTL DEF Spec

Directory == mounted \in BOOLEAN /\ exists \in SUBSET File

LEMMA OpenChanges ==
  ASSUME Directory, NEW v, NEW h, NEW k \in File, NEW m, NEW f, find_volume(v),
         Opened(v, h, k, m) \/ NotOpened(v, h, k, m, f) \/ OpenedInVain(v, h, k, m)
  PROVE  Directory'
<1>1. mounted' \in BOOLEAN
  BY DEF find_volume
<1>2. exists' = exists \/ exists' = exists \cup {k}
  BY DEF Opened, NotOpened, OpenedInVain
<1> QED
  BY <1>1, <1>2 DEF Directory

LEMMA DirectoryStep == Inv /\ Directory /\ [Next]_vars => Directory'
<1> SUFFICES ASSUME Inv, Directory, [Next]_vars PROVE Directory'
  OBVIOUS
<1>1. ASSUME NEW t \in Task, NEW k \in File, truncate(t, k) PROVE Directory'
  BY <1>1, OpenChanges DEF truncate
<1>2. ASSUME NEW t \in Task, NEW k \in File, NEW names, ChangeEntry(t, k, names),
             \A n \in names : n \in SUBSET File
      PROVE  Directory'
  <2>1. mounted' \in BOOLEAN
    BY <1>2 DEF ChangeEntry, find_volume
  <2>2. exists' = exists \/ exists' \in names
    BY <1>2 DEF ChangeEntry
  <2> QED
    BY <1>2, <2>1, <2>2 DEF Directory
<1>3. ASSUME NEW t \in Task, NEW k \in File, unlink(t, k) PROVE Directory'
  <2> DEFINE names == {exists \ {k}}
  <2>1. ChangeEntry(t, k, names) /\ \A n \in names : n \in SUBSET File
    BY <1>3 DEF unlink, Directory
  <2> QED
    BY <1>2, <2>1
<1>4. ASSUME NEW t \in Task, NEW k \in File, NEW new \in File, rename(t, k, new)
      PROVE  Directory'
  <2> DEFINE names == {exists \cup {new}, (exists \ {k}) \cup {new}}
  <2>1. ChangeEntry(t, k, names) /\ \A n \in names : n \in SUBSET File
    BY <1>4 DEF rename, Directory
  <2> HIDE DEF names
  <2> QED
    BY <1>2, <2>1
<1>5. ASSUME NEW t \in Task, f_open(t) PROVE Directory'
  <2>1. req[t].key \in File
    BY <1>5 DEF f_open, Inv, Control, Objects
  <2> QED
    BY <1>5, <2>1, OpenChanges DEF f_open
<1>6. ASSUME NEW t \in Task, NEW d \in SubDir \cup {None}, opendir(t, d) PROVE Directory'
  BY <1>6 DEF opendir, find_volume, Directory
<1>7. ASSUME NEW t \in Task,
             \/ \E k \in File, m \in Mode : fat_open(t, k, m)
             \/ \E d \in Fd : fat_close(t, d)
             \/ AppendSeek(t) \/ CloseSync(t) \/ CloseUnlock(t)
             \/ free_file_descriptor(t) \/ TruncateReturn(t) \/ closedir(t)
      PROVE  Directory'
  BY <1>7 DEF fat_open, fat_close, AppendSeek, CloseSync, CloseUnlock, free_file_descriptor,
     TruncateReturn, closedir, Directory
<1>8. CASE UNCHANGED vars
  BY <1>8 DEF vars, Directory
<1> QED
  BY <1>1, <1>3, <1>4, <1>5, <1>6, <1>7, <1>8 DEF Next

(* Objects, table, directory and calls keep their type, for any number of tasks
   and descriptors and every size of the table, whatever calls and mounts fail. *)
THEOREM PosixTypes == Spec => []TypeOK
<1>1. Init => Directory
  BY DEF Init, Directory
<1>2. Inv /\ Directory => TypeOK
  BY DEF Inv, TableInv, Table, Typed, Slot, Control, Calls, Running, Directory, TypeOK
<1> QED
  BY <1>1, <1>2, InvHolds, DirectoryStep, PTL DEF Spec

(* A file object has exactly one user, whichever calls fail and wherever: no
   descriptor of new_file_descriptor is lost, and none is given out twice, for
   any number of tasks and descriptors. *)
THEOREM DescriptorsKept == Spec => []DescriptorsAccounted
<1>1. Inv => DescriptorsAccounted
  BY DEF Inv, Control
<1> QED
  BY <1>1, InvHolds, PTL

LEMMA OpensCounted ==
  ASSUME TableInv, NEW i \in Slot, Files[i].key # None
  PROVE  Opens(Files[i].key) = Count(fil, dp, Files[i].key)
BY DEF Opens, OpenHandles, DirOpen, Count, Holders, Holds, Bit

(* The entry of an open object stays its own in FatFs's table of open files,
   with a counter that no close of another object can take below what is open:
   inc_lock, dec_lock and clear_lock, for every size of the table. *)
THEOREM LocksAreHeld == Spec => []LocksHeld
<1>1. ASSUME Inv PROVE LocksHeld
  <2> USE <1>1
  <2>1. \A h \in Handle : fil[h].st = "open" =>
          /\ fil[h].lockid # 0 /\ Files[fil[h].lockid].key = fil[h].key
          /\ fil[h].w <=> Files[fil[h].lockid].ctr = WriteMode
    BY PosixAssumption DEF Inv, TableInv, Table, FileLocked, Slot
  <2>2. dp.st = "open" /\ dp.key # None => dp.lockid # 0 /\ Files[dp.lockid].key = dp.key
    BY PosixAssumption DEF Inv, TableInv, Table, DirLocked, Slot
  <2>3. ASSUME NEW i \in Slot, Files[i].key # None
        PROVE  Files[i].ctr = WriteMode \/ Files[i].ctr >= Opens(Files[i].key)
    <3>1. Count(fil, dp, Files[i].key) <= Weight(Files[i].ctr)
      BY <2>3 DEF Inv, TableInv, Table, Counted
    <3>2. Opens(Files[i].key) \in Nat /\ Files[i].ctr \in Nat
      BY <2>3, OpensCounted, CountType DEF Inv, TableInv, Table, Typed, FILESEM, WriteMode
    <3> QED
      BY <2>3, <3>1, <3>2, OpensCounted DEF Inv, Weight
  <2> QED
    BY <2>1, <2>2, <2>3 DEF LocksHeld, Slot
<1> QED
  BY <1>1, InvHolds, PTL

(* No entry of the table outlives the objects that are open, except those of
   calls that ended without unlocking: a failed f_close, a truncate, a second
   opendir. *)
THEOREM LocksAreReleased == Spec => []LocksReleased
<1>1. ASSUME Inv PROVE LocksReleased
  <2>1. ASSUME NEW i \in Slot, Files[i].key # None, Files[i].key \notin leaked
        PROVE  Opens(Files[i].key) = Weight(Files[i].ctr)
    BY <1>1, <2>1, OpensCounted DEF Inv, TableInv, Table, Counted
  <2> QED
    BY <2>1 DEF LocksReleased, Slot, Weight
<1> QED
  BY <1>1, InvHolds, PTL

-----------------------------------------------------------------------------
(* The table of open files implements FileSharing. *)

OpenSet(F) == {[h |-> h, key |-> F[h].key, w |-> F[h].w] :
                 h \in {h \in Handle : F[h].st = "open"}}

opens == OpenSet(fil)

(* Whatever a handle has open has its entry in a directory. *)
Named == exists \subseteq File /\ \A o \in opens : o.key \in exists

LEMMA OpenSetIs ==
  ASSUME NEW F, NEW o
  PROVE  o \in OpenSet(F) <=>
           \E h \in Handle : F[h].st = "open" /\ o = [h |-> h, key |-> F[h].key, w |-> F[h].w]
BY DEF OpenSet

(* The actions of FileSharing, said of opens *)
LEMMA Grants ==
  ASSUME NEW left \in {opens, {}}, NEW h \in Handle, NEW k \in File, NEW w \in BOOLEAN,
         \A o \in left : o.h # h, \A o \in left : o.key = k => ~w /\ ~o.w,
         opens' = left \cup {[h |-> h, key |-> k, w |-> w]},
         exists' = exists \cup {k}
  PROVE  Sharing!Next
<1>1. Sharing!Grant(h, k, w)
  BY DEF Sharing!Grant, Sharing!Left, Sharing!Permitted, opens, OpenSet
<1> QED
  BY <1>1 DEF Sharing!Next

LEMMA GivesUp ==
  ASSUME NEW h \in Handle, opens' = {o \in opens : o.h # h}, exists' = exists
  PROVE  Sharing!Next
<1>1. Sharing!GiveUp(h)
  BY DEF Sharing!GiveUp, opens, OpenSet
<1> QED
  BY <1>1 DEF Sharing!Next

LEMMA ChangesDirectory ==
  ASSUME NEW left \in {opens, {}}, NEW names \in SUBSET File,
         opens' = left, exists' = names, \A o \in left : o.key \in names
  PROVE  Sharing!Next
<1>1. Sharing!ChangeDirectory
  BY DEF Sharing!ChangeDirectory, Sharing!Left, opens, OpenSet
<1> QED
  BY <1>1 DEF Sharing!Next

LEMMA SharingKeepsNamed ==
  ASSUME Named, Sharing!Next \/ UNCHANGED <<opens, exists>>
  PROVE  Named'
<1>1. CASE UNCHANGED <<opens, exists>>
  BY <1>1 DEF Named
<1>2. ASSUME NEW h \in Handle, Sharing!GiveUp(h) PROVE Named'
  <2>1. opens' = {o \in opens : o.h # h} /\ exists' = exists
    BY <1>2 DEF Sharing!GiveUp, opens, OpenSet
  <2> QED
    BY <2>1 DEF Named
<1>3. ASSUME NEW h \in Handle, NEW k \in File, NEW w \in BOOLEAN, Sharing!Grant(h, k, w)
      PROVE  Named'
  <2>1. \E left \in {opens, {}} :
          /\ opens' = left \cup {[h |-> h, key |-> k, w |-> w]}
          /\ exists' = exists \cup {k}
    BY <1>3 DEF Sharing!Grant, Sharing!Left, opens, OpenSet
  <2> QED
    BY <2>1 DEF Named
<1>4. ASSUME Sharing!ChangeDirectory PROVE Named'
  <2>1. \E left \in {opens, {}}, names \in SUBSET File :
          opens' = left /\ exists' = names /\ \A o \in left : o.key \in names
    BY <1>4 DEF Sharing!ChangeDirectory, Sharing!Left, opens, OpenSet
  <2> QED
    BY <2>1 DEF Named
<1> QED
  BY <1>1, <1>2, <1>3, <1>4 DEF Sharing!Next

(* Closing or giving up one object *)
LEMMA OneGivenUp ==
  ASSUME NEW h \in Handle, \A x \in Handle : x # h => fil'[x] = fil[x],
         fil'[h].st # "open", exists' = exists
  PROVE  Sharing!Next
<1>1. ASSUME NEW o PROVE o \in opens' <=> o \in opens /\ o.h # h
  <2>1. o \in opens' <=>
          \E x \in Handle : fil'[x].st = "open" /\ o = [h |-> x, key |-> fil'[x].key, w |-> fil'[x].w]
    BY OpenSetIs DEF opens
  <2>2. o \in opens <=>
          \E x \in Handle : fil[x].st = "open" /\ o = [h |-> x, key |-> fil[x].key, w |-> fil[x].w]
    BY OpenSetIs DEF opens
  <2> QED
    BY <2>1, <2>2
<1>2. opens' = {o \in opens : o.h # h}
  BY <1>1
<1> QED
  BY <1>2, GivesUp

LEMMA OpensAlike ==
  ASSUME NEW F, NEW G,
         \A h \in Handle : (F[h].st = "open" \/ G[h].st = "open") => F[h] = G[h]
  PROVE  OpenSet(F) = OpenSet(G)
<1>1. \A o : o \in OpenSet(F) <=> o \in OpenSet(G)
  BY OpenSetIs
<1> QED
  BY <1>1

(* The opens that find_volume leaves *)
LEMMA OpensLeft ==
  ASSUME TableInv, NEW v
  PROVE  OpenSet(FilAfter(v)) \in {opens, {}}
<1>1. CASE v = "remount"
  <2>1. \A h \in Handle : FilAfter(v)[h].st # "open"
    BY <1>1, ClosedIs DEF FilAfter, Aged
  <2>2. OpenSet(FilAfter(v)) = {}
    BY <2>1, OpenSetIs
  <2> QED
    BY <2>2
<1>2. CASE v # "remount"
  BY <1>2 DEF FilAfter, opens
<1> QED
  BY <1>1, <1>2

(* A file of which an object is open has an entry in the table of open files,
   one that tells whether it may be written. *)
LEMMA OpenHasEntry ==
  ASSUME NEW F, NEW D, NEW L, NEW X, Table(F, D, L, X), NEW o \in OpenSet(F)
  PROVE  /\ Entries(L, o.key) # {}
         /\ o.w \in BOOLEAN
         /\ o.w <=> L[EntryOf(L, o.key)].ctr = WriteMode
<1>1. PICK h \in Handle : F[h].st = "open" /\ o = [h |-> h, key |-> F[h].key, w |-> F[h].w]
  BY OpenSetIs
<1>2. L \in [Slot -> FILESEM] /\ F[h] \in FIL /\ FileLocked(F[h], L)
  BY DEF Table, Typed
<1>3. /\ F[h].lockid \in Slot /\ L[F[h].lockid].key = o.key /\ o.key # None
      /\ o.w <=> L[F[h].lockid].ctr = WriteMode
      /\ o.w \in BOOLEAN
  BY <1>1, <1>2, PosixAssumption DEF FileLocked, FIL
<1>4. Entries(L, o.key) # {}
  BY <1>2, <1>3 DEF Entries
<1>5. EntryOf(L, o.key) = F[h].lockid
  BY <1>2, <1>3, <1>4, EntryIs DEF Table, Distinct
<1> QED
  BY <1>3, <1>4, <1>5

LEMMA OpenedGrants ==
  ASSUME TableInv, Named, NEW v, NEW h \in Handle, fil[h].st # "open",
         NEW k \in File, NEW m \in Mode, Opened(v, h, k, m)
  PROVE  Sharing!Next
<1> DEFINE L == LocksAfter(v)
           F == FilAfter(v)
           w == Writes(m)
           i == LockFor(L, k, w)
           left == OpenSet(F)
<1>1. /\ Accessible(L, k, m) /\ i # 0
      /\ fil' = [F EXCEPT ![h] = [st |-> "open", key |-> k, w |-> w, lockid |-> i]]
      /\ exists' = exists \cup {k}
  BY DEF Opened
<1>2. /\ Table(F, DirAfter(v), L, LeakedAfter(v)) /\ F \in [Handle -> FIL]
      /\ F[h].st # "open" /\ left \in {opens, {}}
  BY After, OpensLeft
<1>3. w \in BOOLEAN /\ k \in Key
  BY DEF Writes, Key
<1>4. L \in [Slot -> FILESEM]
  BY <1>2 DEF Table, Typed
<1>5. \A x \in Handle :
        /\ x # h => fil'[x] = F[x]
        /\ x = h => fil'[x].st = "open" /\ fil'[x].key = k /\ fil'[x].w = w
  BY <1>1, <1>2
<1>6. ASSUME NEW o \in left, o.key = k PROVE ~w /\ ~o.w
  <2>1. /\ Entries(L, k) # {} /\ o.w \in BOOLEAN
        /\ o.w <=> L[EntryOf(L, k)].ctr = WriteMode
    BY <1>2, <1>6, OpenHasEntry
  <2>2. k \in exists
    BY <1>2, <1>6 DEF Named
  <2>3. chk_lock(L, k, IF w THEN 1 ELSE 0) = "OK"
    BY <1>1, <2>2 DEF Accessible
  <2>4. (IF w THEN 1 ELSE 0) = 0 /\ L[EntryOf(L, k)].ctr # WriteMode
    BY <2>1, <2>3 DEF chk_lock
  <2> QED
    BY <1>3, <2>1, <2>4
<1> HIDE DEF F, w, i, L
<1>7. ASSUME NEW o
      PROVE  o \in opens' <=> o \in left \/ o = [h |-> h, key |-> k, w |-> w]
  <2>1. o \in opens' <=>
          \E x \in Handle : fil'[x].st = "open" /\ o = [h |-> x, key |-> fil'[x].key, w |-> fil'[x].w]
    BY OpenSetIs DEF opens
  <2>2. o \in left <=>
          \E x \in Handle : F[x].st = "open" /\ o = [h |-> x, key |-> F[x].key, w |-> F[x].w]
    BY OpenSetIs
  <2> QED
    BY <1>2, <1>5, <2>1, <2>2
<1>8. opens' = left \cup {[h |-> h, key |-> k, w |-> w]}
  BY <1>7
<1>9. \A o \in left : o.h # h
  BY <1>2, OpenSetIs
<1> HIDE DEF left
<1> QED
  BY <1>1, <1>2, <1>3, <1>6, <1>8, <1>9, Grants

(* An open that failed, whether the file got its entry in the directory or not *)
LEMMA FailedChanges ==
  ASSUME TableInv, Named, NEW v, NEW h \in Handle, fil[h].st # "open",
         NEW k \in File, NEW f, f.st # "open",
         fil' = [FilAfter(v) EXCEPT ![h] = f],
         exists' \in {exists, exists \cup {k}}
  PROVE  Sharing!Next
<1>1. /\ FilAfter(v) \in [Handle -> FIL] /\ FilAfter(v)[h].st # "open"
      /\ OpenSet(FilAfter(v)) \in {opens, {}}
  BY After, OpensLeft
<1>2. opens' = OpenSet(FilAfter(v))
  <2>1. \A x \in Handle :
          (fil'[x].st = "open" \/ FilAfter(v)[x].st = "open") => fil'[x] = FilAfter(v)[x]
    BY <1>1
  <2>2. OpenSet(fil') = OpenSet(FilAfter(v))
    BY <2>1, OpensAlike
  <2>3. opens' = OpenSet(fil')
    BY DEF opens, OpenSet
  <2> QED
    BY <2>2, <2>3
<1>3. exists' \in SUBSET File /\ \A o \in opens' : o.key \in exists'
  BY <1>1, <1>2 DEF Named
<1> QED
  BY <1>1, <1>2, <1>3, ChangesDirectory

LEMMA EntryChanges ==
  ASSUME TableInv, Named, NEW v, NEW k \in File, fil' = FilAfter(v),
         exists' \subseteq File,
         \/ exists \subseteq exists'
         \/ Entries(LocksAfter(v), k) = {} /\ exists \ {k} \subseteq exists'
  PROVE  Sharing!Next
<1>1. /\ Table(FilAfter(v), DirAfter(v), LocksAfter(v), LeakedAfter(v))
      /\ OpenSet(FilAfter(v)) \in {opens, {}}
  BY After, OpensLeft
<1>2. opens' = OpenSet(FilAfter(v))
  BY DEF opens, OpenSet
<1>3. \A o \in OpenSet(FilAfter(v)) : Entries(LocksAfter(v), o.key) # {}
  BY <1>1, OpenHasEntry
<1>4. \A o \in opens' : o.key \in exists'
  BY <1>1, <1>2, <1>3 DEF Named
<1> QED
  BY <1>1, <1>2, <1>4, ChangesDirectory

LEMMA ChangeEntryShares ==
  ASSUME Inv, Named, NEW t \in Task, NEW k \in File, NEW names,
         ChangeEntry(t, k, names),
         \A n \in names : n \subseteq File /\ exists \ {k} \subseteq n
  PROVE  Sharing!Next
<1>1. PICK v : /\ fil' = FilAfter(v)
               /\ exists' \in {exists} \cup
                    (IF Entered(v) /\ k \in exists /\ chk_lock(LocksAfter(v), k, 2) = "OK"
                     THEN names ELSE {})
  BY DEF ChangeEntry
<1>2. exists' = exists \/ (chk_lock(LocksAfter(v), k, 2) = "OK" /\ exists' \in names)
  <2>1. CASE Entered(v) /\ k \in exists /\ chk_lock(LocksAfter(v), k, 2) = "OK"
    BY <1>1, <2>1
  <2>2. CASE ~(Entered(v) /\ k \in exists /\ chk_lock(LocksAfter(v), k, 2) = "OK")
    BY <1>1, <2>2
  <2> QED
    BY <2>1, <2>2
<1>3. chk_lock(LocksAfter(v), k, 2) = "OK" => Entries(LocksAfter(v), k) = {}
  BY DEF chk_lock
<1> QED
  BY <1>1, <1>2, <1>3, EntryChanges DEF Inv, Named

LEMMA f_openShares ==
  ASSUME Inv, Named, NEW t \in Task, f_open(t)
  PROVE  Sharing!Next
<1> DEFINE h == fileno[t]
           k == req[t].key
           m == req[t].mode
<1>1. h \in Handle /\ fil[h].st = "blank" /\ k \in File /\ m \in Mode
  BY Object DEF f_open, Running, Inv, Control, Objects, Calls
<1>2. PICK v :
        \/ Opened(v, h, k, m)
        \/ NotOpened(v, h, k, m, BlankFil) \/ OpenedInVain(v, h, k, m)
  BY DEF f_open
<1> HIDE DEF h, k, m
<1>3. CASE Opened(v, h, k, m)
  BY <1>1, <1>3, OpenedGrants DEF Inv
<1>4. CASE NotOpened(v, h, k, m, BlankFil) \/ OpenedInVain(v, h, k, m)
  <2>1. /\ fil' = [FilAfter(v) EXCEPT ![h] = BlankFil]
        /\ exists' \in {exists, exists \cup {k}}
    BY <1>4 DEF NotOpened, OpenedInVain
  <2> QED
    BY <1>1, <2>1, ClosedIs, FailedChanges DEF Inv
<1> QED
  BY <1>2, <1>3, <1>4

LEMMA truncateShares ==
  ASSUME Inv, Named, NEW t \in Task, NEW k \in File, truncate(t, k)
  PROVE  Sharing!Next
<1>1. /\ t \in Handle /\ fil[t].st # "open" /\ "update" \in Mode
  BY DEF truncate, Handle, Inv, Control, Objects, Mode
<1>2. PICK v :
        Opened(v, t, k, "update") \/ NotOpened(v, t, k, "update", NoFil)
  BY DEF truncate
<1>3. CASE Opened(v, t, k, "update")
  BY <1>1, <1>3, OpenedGrants DEF Inv
<1>4. CASE NotOpened(v, t, k, "update", NoFil)
  <2>1. /\ fil' = [FilAfter(v) EXCEPT ![t] = NoFil]
        /\ exists' \in {exists, exists \cup {k}}
    BY <1>4 DEF NotOpened
  <2> QED
    BY <1>1, <2>1, ClosedIs, FailedChanges DEF Inv
<1> QED
  BY <1>2, <1>3, <1>4

LEMMA opendirShares ==
  ASSUME Inv, Named, NEW t \in Task, NEW d \in SubDir \cup {None}, opendir(t, d)
  PROVE  Sharing!Next
<1>1. PICK v \in Volume(t) : fil' = FilAfter(v)
  BY DEF opendir
<1>2. exists' = exists
  BY DEF opendir
<1>3. OpenSet(FilAfter(v)) \in {opens, {}} /\ opens' = OpenSet(FilAfter(v))
  BY <1>1, OpensLeft DEF Inv, opens, OpenSet
<1> QED
  BY <1>2, <1>3, ChangesDirectory DEF Named

(* A step that neither opens nor gives up *)
LEMMA SharesNothing ==
  ASSUME \A h \in Handle : (fil[h].st = "open" \/ fil'[h].st = "open") => fil'[h] = fil[h],
         exists' = exists
  PROVE  UNCHANGED <<opens, exists>>
<1>1. OpenSet(fil') = OpenSet(fil)
  BY OpensAlike
<1> QED
  BY <1>1 DEF opens, OpenSet

SharingStep == Sharing!Next \/ UNCHANGED <<opens, exists>>

LEMMA StepShares ==
  ASSUME Inv, Named, [Next]_vars
  PROVE  SharingStep
<1>1. ASSUME NEW t \in Task, NEW k \in File, truncate(t, k) PROVE SharingStep
  BY <1>1, truncateShares DEF SharingStep
<1>2. ASSUME NEW t \in Task, NEW k \in File, unlink(t, k) PROVE SharingStep
  <2>1. ChangeEntry(t, k, {exists \ {k}})
    BY <1>2 DEF unlink
  <2>2. \A n \in {exists \ {k}} : n \subseteq File /\ exists \ {k} \subseteq n
    BY DEF Named
  <2> QED
    BY <2>1, <2>2, ChangeEntryShares DEF SharingStep
<1>3. ASSUME NEW t \in Task, NEW k \in File, NEW m \in Mode, fat_open(t, k, m) PROVE SharingStep
  <2>1. exists' = exists
    BY <1>3 DEF fat_open
  <2> QED
    BY <1>3, <2>1, fat_openKeeps, SharesNothing DEF SharingStep
<1>4. ASSUME NEW t \in Task, NEW k \in File, NEW new \in File, rename(t, k, new) PROVE SharingStep
  <2> DEFINE names == {exists \cup {new}, (exists \ {k}) \cup {new}}
  <2>1. ChangeEntry(t, k, names)
    BY <1>4 DEF rename
  <2>2. \A n \in names : n \subseteq File /\ exists \ {k} \subseteq n
    BY DEF Named
  <2> HIDE DEF names
  <2> QED
    BY <2>1, <2>2, ChangeEntryShares DEF SharingStep
<1>5. ASSUME NEW t \in Task, NEW d \in Fd, fat_close(t, d) PROVE SharingStep
  BY <1>5, SharesNothing DEF SharingStep, fat_close
<1>6. ASSUME NEW t \in Task, NEW d \in SubDir \cup {None}, opendir(t, d) PROVE SharingStep
  BY <1>6, opendirShares DEF SharingStep
<1>7. ASSUME NEW t \in Task, f_open(t) PROVE SharingStep
  BY <1>7, f_openShares DEF SharingStep
<1>8. ASSUME NEW t \in Task, AppendSeek(t) \/ CloseSync(t) \/ closedir(t) PROVE SharingStep
  BY <1>8, SharesNothing DEF SharingStep, AppendSeek, CloseSync, closedir
<1>9. ASSUME NEW t \in Task, CloseUnlock(t) PROVE SharingStep
  <2>1. exists' = exists
    BY <1>9 DEF CloseUnlock
  <2>2. CASE UNCHANGED fil
    BY <2>1, <2>2, SharesNothing DEF SharingStep
  <2>3. CASE fil'[fileno[t]].st # "open"
    BY <1>9, <2>1, <2>3, CloseUnlockKeeps, OneGivenUp DEF SharingStep
  <2> QED
    BY <1>9, <2>2, <2>3, CloseUnlockKeeps
<1>10. ASSUME NEW t \in Task, free_file_descriptor(t) PROVE SharingStep
  <2>1. exists' = exists
    BY <1>10 DEF free_file_descriptor
  <2> QED
    BY <1>10, <2>1, free_file_descriptorKeeps, OneGivenUp DEF SharingStep
<1>11. ASSUME NEW t \in Task, TruncateReturn(t) PROVE SharingStep
  <2>1. exists' = exists
    BY <1>11 DEF TruncateReturn
  <2> QED
    BY <1>11, <2>1, TruncateReturnKeeps, OneGivenUp DEF SharingStep
<1>12. CASE UNCHANGED vars
  BY <1>12, SharesNothing DEF SharingStep, vars
<1> QED
  BY <1>1, <1>2, <1>3, <1>4, <1>5, <1>6, <1>7, <1>8, <1>9, <1>10, <1>11, <1>12 DEF Next

(* The table of open files does what it is for, FileSharing: whatever fails, is
   forsaken or mounted again in between, no file is open twice if one of the
   opens may write, and no file that is open is deleted or renamed; for any
   number of tasks, descriptors, files and entries. *)
THEOREM SharingImplemented == Spec => KeepsSharing
<1>1. Init => Sharing!Init
  <2> SUFFICES ASSUME Init PROVE Sharing!Init
    OBVIOUS
  <2>1. \A h \in Handle : fil[h].st # "open"
    BY ClosedIs DEF Init
  <2> QED
    BY <2>1 DEF Init, Sharing!Init
<1>2. Init => Named
  <2> SUFFICES ASSUME Init PROVE Named
    OBVIOUS
  <2>1. \A h \in Handle : fil[h].st # "open"
    BY ClosedIs DEF Init
  <2>2. opens = {}
    BY <2>1, OpenSetIs DEF opens
  <2> QED
    BY <2>2 DEF Init, Named
<1>3. Inv /\ Named /\ [Next]_vars => [Sharing!Next]_<<opens, exists>> /\ Named'
  BY StepShares, SharingKeepsNamed DEF SharingStep
<1>4. Inv /\ Named /\ [Next]_vars => [Sharing!Next]_<<{[h |-> h, key |-> fil[h].key, w |-> fil[h].w] :
              h \in {h \in Handle : fil[h].st = "open"}}, exists>>
  BY <1>3 DEF opens, OpenSet
<1> QED
  BY <1>1, <1>2, <1>3, <1>4, InvHolds, PTL DEF Spec, KeepsSharing, Sharing!Spec
===============================================================================
