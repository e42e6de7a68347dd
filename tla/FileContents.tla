---------------------------- MODULE FileContents ----------------------------
(***************************************************************************)
(* The contents of one file as a function from positions to bytes, Absent   *)
(* where nothing was ever written: beyond the end, or in a hole left by a   *)
(* write that started beyond it.  Used by VfsFile and SqliteVfs.            *)
(***************************************************************************)
EXTENDS Naturals, Sequences

CONSTANTS
  MaxSize,   (* bound on the size of the file *)
  Byte,      (* what a byte may be *)
  Zero,      (* the byte a short read is filled with *)
  Absent

ASSUME SizeAssumption == MaxSize \in Nat
ASSUME ByteAssumption == Zero \in Byte /\ Absent \notin Byte

Pos == 0 .. MaxSize - 1
Contents == [Pos -> Byte \cup {Absent}]

Empty == [p \in Pos |-> Absent]

(* ds is written at offset o. *)
Covers(o, ds, p) == o <= p /\ p < o + Len(ds)
Overlay(f, o, ds) ==
  [p \in Pos |-> IF Covers(o, ds, p) THEN ds[p - o + 1] ELSE f[p]]

(* The end of the file. *)
Size(f) ==
  CHOOSE n \in 0 .. MaxSize :
    /\ \A p \in Pos : p >= n => f[p] = Absent
    /\ n > 0 => f[n - 1] # Absent

(* The bytes of f from o on, as far as data claims to have read them; a hole
   reads as anything. *)
Agrees(f, o, data, m) ==
  \A k \in 1 .. m : f[o + k - 1] \in {data[k], Absent}

(* Where a byte may be missing, a file that is made longer has any byte. *)
OrJunk(bytes) == IF Absent \in bytes THEN bytes \cup Byte ELSE bytes
===============================================================================
