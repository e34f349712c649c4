------------------------------- MODULE MCTables -------------------------------
(* Instances for TLC of the tables in the shared segment and of what is     *)
(* found through them: tasks, queue names, processes, memory regions; and   *)
(* of the small table of the stand-alone emulator, and of the calls that    *)
(* answer events nobody sent.  A behaviour is one of a single part.         *)
EXTENDS HerosTaskId, HerosQueueTable, HerosNames, HerosRegions, HerosEvOptions

CONSTANTS Parts, t1, t2, t3, t4, shell, server, viewer, Proc, Queue, Hws, NotifyBit
VARIABLE part

\* t1 and t2 are threads of one process whose thread ids are equal modulo 128,
\* t3 and t4 threads of two others.
MCProcess == [t \in Threads |-> CASE t = t3 -> shell [] t = t4 -> viewer [] OTHER -> server]
MCHash    == [t \in Threads |-> 1]

\* "Nc/startup", "Nc/startup.QStartUp", ".EditThreadNotify", a probed
\* mailslot, and the host frame of the main MMI.
HostFrame    == [base |-> Hws, rest |-> Queue]
MCAddresses  == [base : {Proc, Hws}, rest : {None}]
                \cup [base : {Proc, Empty}, rest : {Queue}] \cup {HostFrame}
MCHostFrames == {HostFrame}
MCMasks      == {{}, {NotifyBit}}

\* A name, one with a subsystem prefix, one that is longer, and a third.
MCNames == {<<"w">>, <<"s", ":", "w">>, <<"s", ":", "w", "v">>, <<"x">>}

MCOwnProcess(t) == t    \* the attaching threads are of two processes
MCEmLen == [n \in {"a", "b", "long"} |-> CASE n = "a" -> 3 [] n = "b" -> 19 [] OTHER -> 20]
MCEmValue == [n \in {"SYS", "no"} |-> IF n = "SYS" THEN 8 ELSE Unset]

MCInit ==
    /\ part \in Parts
    /\ Init /\ TableInit /\ NmInit /\ RgInit /\ EmInit /\ EwInit

TaskPart   == /\ part = "tasks" /\ Next
              /\ UNCHANGED <<part, tableVars, nmVars, rgVars, emVars, ewVars>>
QueuePart  == /\ part = "queues" /\ TableNext
              /\ UNCHANGED <<part, vars, nmVars, rgVars, emVars, ewVars>>
NamePart   == /\ part = "names" /\ NmNext
              /\ UNCHANGED <<part, vars, tableVars, rgVars, emVars, ewVars>>
RegionPart == /\ part = "regions" /\ RgNext
              /\ UNCHANGED <<part, vars, tableVars, nmVars, emVars, ewVars>>
EmuPart    == /\ part = "emu" /\ EmNext
              /\ UNCHANGED <<part, vars, tableVars, nmVars, rgVars, ewVars>>
OptionPart == /\ part = "options" /\ EwNext
              /\ UNCHANGED <<part, vars, tableVars, nmVars, rgVars, emVars>>

MCNext == TaskPart \/ QueuePart \/ NamePart \/ RegionPart \/ EmuPart \/ OptionPart

MCSpec == MCInit /\ [][MCNext]_<<part, vars, tableVars, nmVars, rgVars, emVars, ewVars>>
(* The tables are of their types, names are told apart by what is kept of   *)
(* them, a region is mapped once in a process and apart from the others,    *)
(* and no call answers with an event that was not asked for (HerosTaskId,   *)
(* HerosQueueTable, HerosNames, HerosRegions, HerosEvOptions).              *)
TablesSound == /\ TypeOK /\ TableTypeOK
               /\ NamesAgree
               /\ OwnMemory /\ MappedOnce /\ RegionsApart
               /\ StandInsHonest
=============================================================================
