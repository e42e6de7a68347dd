---------------------------- MODULE MCPosixFiles ----------------------------
(* PosixFiles with the symmetries of its sets, for TLC. *)
EXTENDS PosixFiles, TLC

Symmetry == Permutations(Task) \cup Permutations(Fd) \cup Permutations(File)
===============================================================================
