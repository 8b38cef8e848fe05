------------------------------ MODULE MCMemory ------------------------------
(* init and a child that comes and goes; pages of three bytes. *)
EXTENDS Memory

CONSTANTS init_pcb, p1

MCProcs == {init_pcb, p1}

MCblock_size == <<1, 2>>

MCSizes == {0, 1, 2, 3, 100}
=============================================================================
