-------------------------- MODULE MCSqliteVfsComments --------------------------
(***************************************************************************)
(* What the comments of sqlite_os_freertos.c say of its methods and the code *)
(* does otherwise: the four departures of SqliteVfs, each of which            *)
(* goes against a sentence there, gathered along one behaviour.              *)
(***************************************************************************)
EXTENDS MCSqliteVfs

VARIABLE against   (* history: the sentences that a call has gone against *)

CInit == MCInit /\ against = {}

CNext ==
  /\ MCNext
  /\ against' = against
       \cup {s \in {"Truncate to a size"} : TruncateIgnored}
       \cup {s \in {"current size"} : SizeStale}
       \cup {s \in {"IOERR if anything goes wrong"} : ReadCutShort}
       \cup {s \in {"Read from a file"} : ReadExtends}

CSpec == CInit /\ [][CNext]_<<vars, calls, against>>

(* "Truncate an open file to a specified size" (sqlite_os_freertos.c:456);
   "Determine the current size of a file in bytes" (499); "Read data from a file
   into a buffer. Return SQLITE_OK if all bytes were read successfully and
   SQLITE_IOERR if anything goes wrong" (334): of one of these, at least, it may be
   said that no call goes against it.  A counterexample is a behaviour in which
   calls that return no error have gone against them all: a Truncate that left the
   file longer, a FileSize that did not count what was written, a read answered as
   short of bytes that are in the file, and a read that made the file longer. *)
SomeSentenceHolds ==
  against # {"Truncate to a size", "current size", "IOERR if anything goes wrong",
             "Read from a file"}
===============================================================================
