------------------------------ MODULE MCSched -------------------------------
(* Boot threads plus two processes' PCBs, time slices of one tick. *)
EXTENDS Sched

CONSTANTS idle_pcb, main_pcb, init_pcb, p1, p2

MCThreads == {idle_pcb, main_pcb, init_pcb, p1, p2}

MCpriority == [t \in MCThreads |-> IF t = main_pcb THEN 1 ELSE 0]
=============================================================================
