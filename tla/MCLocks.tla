------------------------------ MODULE MCLocks -------------------------------
(* A kernel thread and two processes contend, each nesting twice. *)
EXTENDS Locks

CONSTANTS idle_pcb, main_pcb, p1, p2

MCThreads == {idle_pcb, main_pcb, p1, p2}

MCpriority == [t \in MCThreads |-> IF t = p1 THEN 1 ELSE 0]

MCPreemptible == {main_pcb}

MCothers == <<p1, p2, idle_pcb>>
=============================================================================
