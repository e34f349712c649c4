----------------------------- MODULE MCHerosTask -----------------------------
(* An instance of HerosTask for TLC: one parent p1 creates every task.      *)
EXTENDS HerosTask

CONSTANTS p1, p2, c1, c2, c3, rbit

MCTasks  == {p1, p2} \cup Children
MCOneParent == [c \in Children |-> p1]
(* The state is of its type, and a task that has been started has its id    *)
(* and its context when the others rely on them (HerosTask).                *)
StartSound == TaskTypeOK /\ RendezvousIdWritten /\ ContextFirst
=============================================================================
