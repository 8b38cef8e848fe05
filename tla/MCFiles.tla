------------------------------ MODULE MCFiles -------------------------------
(* Two processes, one file, two entries of the file table, two descriptors. *)
EXTENDS Files
=============================================================================
