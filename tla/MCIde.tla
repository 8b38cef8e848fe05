------------------------------- MODULE MCIde --------------------------------
(* The boot thread, a process and idle. *)
EXTENDS Ide

CONSTANTS idle_pcb, main_pcb, p1

MCThreads == {idle_pcb, main_pcb, p1}

MCpriority == [t \in MCThreads |-> 0]

MCothers == <<p1, idle_pcb>>

MCPreemptible == {main_pcb}
=============================================================================
