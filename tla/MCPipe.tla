------------------------------- MODULE MCPipe -------------------------------
(* Three processes and idle; a ring of three places, so it wraps round. *)
EXTENDS Pipe

CONSTANTS idle_pcb, p1, p2, p3

MCThreads == {idle_pcb, p1, p2, p3}

MCpriority == [t \in MCThreads |-> 0]

MCothers == <<p2, p3, idle_pcb>>

TwoWriters == {p1, p2}

OneReader == {p3}
=============================================================================
