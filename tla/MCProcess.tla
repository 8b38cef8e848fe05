----------------------------- MODULE MCProcess ------------------------------
(* The boot threads and three more PCBs: the shell, a program, its child. *)
EXTENDS Process

CONSTANTS idle_pcb, main_pcb, init_pcb, p1, p2, p3

MCThreads == {idle_pcb, main_pcb, init_pcb, p1, p2, p3}

MCpriority == [t \in MCThreads |-> 0]
=============================================================================
