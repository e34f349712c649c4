---------------------------- MODULE MCEventBridge ----------------------------
(* One process with two GUI threads, of which g1 opens /dev/events and g2   *)
(* polls the same pipe, and a task r of another process that sends.         *)
EXTENDS EventBridge

CONSTANTS g1, g2, r, bit

MCDevice == [g \in {g1, g2} |-> g1]
MCBits == {bit}
MCSet == {{bit}}
MCMasks == {{}, {bit}}
(* Every GUI thread is served, from outside its process and from inside     *)
(* (EventBridge).                                                           *)
EveryoneServed == GuiServed /\ ServedFromInside
=============================================================================
