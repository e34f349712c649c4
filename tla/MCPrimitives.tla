----------------------------- MODULE MCPrimitives -----------------------------
(* Instances for TLC of what every other part of the runtime rests on: the  *)
(* global lock, the process's own set-up, semaphores, events, the async     *)
(* signals, the timer threads and the fault handlers.  They share no state, *)
(* so a behaviour is one of a single part and the others keep still.        *)
EXTENDS HerosLock, HerosSem, HerosEvent, HerosProcess, HerosAsync, HerosTimers

CONSTANTS Parts, a, b
VARIABLE part

MCWants == {{a}, {a, b}}
MCPosts == {{a}, {b}}
MCProcess == [t \in IiThreads |-> IF t = "i4" THEN HwServer ELSE "guest"]

MCInit ==
    /\ part \in Parts
    /\ LockInit /\ SemInit /\ Init /\ IiInit /\ AsInit /\ TmInit /\ SgInit
    /\ part # "signals" => sgLayer = "rtos" /\ sgReadable

LockPart  == /\ part = "lock" /\ LockNext
             /\ UNCHANGED <<part, semVars, evVars, iiVars, asVars, tmVars, sgVars>>
SemPart   == /\ part = "sem" /\ SemNext
             /\ UNCHANGED <<part, lockVars, evVars, iiVars, asVars, tmVars, sgVars>>
EventPart == /\ part = "event" /\ EvNext
             /\ UNCHANGED <<part, lockVars, semVars, iiVars, asVars, tmVars, sgVars>>
SetUpPart == /\ part = "set up" /\ IiNext
             /\ UNCHANGED <<part, lockVars, semVars, evVars, asVars, tmVars, sgVars>>
AsyncPart == /\ part = "async" /\ AsNext
             /\ UNCHANGED <<part, lockVars, semVars, evVars, iiVars, tmVars, sgVars>>
TimerPart == /\ part = "timers" /\ TmNext
             /\ UNCHANGED <<part, lockVars, semVars, evVars, iiVars, asVars, sgVars>>
FaultPart == /\ part = "signals" /\ SgNext
             /\ UNCHANGED <<part, lockVars, semVars, evVars, iiVars, asVars, tmVars>>

\* A thread killed in ctl_init() leaves the others spinning; the set-up ends;
\* the calls of the timers are bounded; a process that faulted is gone.
Ended == /\ part \in {"lock", "set up", "timers", "signals"}
         /\ UNCHANGED <<part, lockVars, semVars, evVars, iiVars, asVars, tmVars, sgVars>>

MCNext == LockPart \/ SemPart \/ EventPart \/ SetUpPart \/ AsyncPart \/ TimerPart
          \/ FaultPart \/ Ended

MCSpec == MCInit /\ [][MCNext]_<<part, lockVars, semVars, evVars, iiVars, asVars, tmVars, sgVars>>

\* The fairness of each part, for the part that moves.
MCFairSpec ==
    /\ MCSpec
    /\ \A p \in Procs : WF_lockVars(part = "lock" /\ LockStep(p))
    /\ \A t \in Threads : WF_semVars(part = "sem" /\ SemStep(t))
    /\ \A t \in Tasks : WF_evVars(part = "event" /\ EvStep(t))
    /\ \A t \in IiThreads : WF_iiVars(part = "set up" /\ IiStep(t))
    /\ \A t \in TmTasks : WF_tmVars(part = "timers" /\ TmGoes(t))
    /\ \A t \in TmTasks, bit \in TmBits : WF_tmVars(part = "timers" /\ PtimerTick(t, bit))
    /\ WF_sgVars(part = "signals" /\ SgStep)

(* The states of the lock, of semaphores and of events are of their types,  *)
(* a process is set up once, and no timer beyond the cap starts (HerosLock, *)
(* HerosSem, HerosEvent, HerosProcess, HerosTimers).                        *)
PrimitivesSound == LockTypeOK /\ SemTypeOK /\ TypeOK /\ SetUpOnce /\ TimersCounted

(* Neither an unlock() nor a signal for an async routine is lost            *)
(* (HerosLock, HerosAsync).                                                 *)
NothingLost == NoLostWakeup /\ NoLostAsync

(* Every process that opens the control segment gets past ctl_init() and    *)
(* every thread past the set-up of its process, a timer that is armed       *)
(* fires, and a fault that is not to be survived ends the process           *)
(* (HerosLock, HerosProcess, HerosTimers).                                  *)
EveryoneGoesOn == /\ part = "lock" => AllBoot
                  /\ part = "set up" => AllSetUp
                  /\ TimersTick
                  /\ FaultEnds
=============================================================================
