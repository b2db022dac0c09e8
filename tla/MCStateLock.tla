---------------------------- MODULE MCStateLock ----------------------------
(* An instance of StateLock for TLC. *)
EXTENDS StateLock

(* Two processes, and an inode more than one of them can hold or watch. *)
CONSTANTS p1, p2, i1, i2

=============================================================================
