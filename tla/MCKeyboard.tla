----------------------------- MODULE MCKeyboard -----------------------------
(* Two processes and idle; a ring of three places, so it wraps round. *)
EXTENDS Keyboard

CONSTANTS idle_pcb, p1, p2

MCThreads == {idle_pcb, p1, p2}

MCpriority == [t \in MCThreads |-> 0]

MCothers == <<p2, idle_pcb>>

Both == {p1, p2}
=============================================================================
