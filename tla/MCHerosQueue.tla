----------------------------- MODULE MCHerosQueue -----------------------------
(* Instances of HerosQueue for TLC: the queue "Rts" of a process and the    *)
(* queue "Client" of its softkey thread, which d dispatches.                *)
EXTENDS HerosQueue

CONSTANTS d, Rts, Client, rbit, t1, t2

MCInputOf  == [t \in Dispatchers |-> Client]
MCClientOf == [n \in Names |-> IF n = Rts THEN Client ELSE None]
MCModes    == {[timeout |-> "forever", short |-> FALSE],
               [timeout |-> "finite", short |-> TRUE]}
MCKinds    == {[softkey |-> TRUE, long |-> TRUE]}
MCOutputs  == [t \in {t1, t2} |-> IF t = t1 THEN {Rts, Client} ELSE {Client}]
MCMasks    == {{}, {NBit}}
(* The state is of its type, and no reader with notify bits sleeps on a     *)
(* queue that holds messages (HerosQueue).                                  *)
BacklogSound == QueueTypeOK /\ NoSleepOnBacklog
=============================================================================
