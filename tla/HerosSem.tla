------------------------------- MODULE HerosSem -------------------------------
(***************************************************************************)
(* Counting semaphores of the runtime (heros_rtos.c, sem_make(),           *)
(* sem_ident(), sem_request(), sem_release()).                             *)
(*                                                                         *)
(* A semaphore is a name and a count in a table of the shared segment; the *)
(* table changes only under the global lock, the count by atomic           *)
(* operations, and it is the futex word waiters sleep on.  Semaphores are  *)
(* never deleted, so table slot and id stand for each other here.          *)
(*                                                                         *)
(* The counts are int32; the model keeps them far from overflow (MaxCount).*)
(***************************************************************************)
EXTENDS Integers, FiniteSets, FiniteSetsExt

CONSTANTS
    Threads,
    Names,      \* the names semaphores are created and looked up by
    Free,       \* marks a table slot that is not used
    MAXSEM,
    Counts,     \* the counts Sm_create is called with
    AutoCount,  \* sem_autocount: the count of a semaphore made by Sm_ident
    Units,      \* the numbers of units requested and released
    Forced,     \* threads of processes that run with HEROSCALL_SEM_FORCE_OK
    MaxCount    \* bound: no count exceeds it in the model

ASSUME SemAssumption ==
    /\ MAXSEM \in Nat \ {0}
    /\ Free \notin Names
    /\ Counts \subseteq 0..MaxCount
    /\ AutoCount \in 0..MaxCount
    /\ Units \subseteq Nat \ {0}
    /\ MaxCount \in Nat

VARIABLES
    name,       \* sems[i].name
    count,      \* sems[i].count, -1 while the slot is free
    sem,        \* the semaphore each thread works with, 0 if it has none yet
    arg,        \* the name Sm_ident looks for
    units,      \* the units of the call in progress
    mayWait,    \* is its timeout not 0 ?
    seen,       \* the count sem_request loaded
    waited,     \* has it slept already ?
    semPc

tabVars  == <<name, count>>
callVars == <<arg, units, mayWait, seen, waited>>
semVars  == <<tabVars, sem, callVars, semPc>>

Slots   == 1..MAXSEM
Waiting == {"load", "cas", "block", "asleep"}

SemInit ==
    /\ name = [i \in Slots |-> Free]
    /\ count = [i \in Slots |-> -1]
    /\ sem = [t \in Threads |-> 0]
    /\ arg = [t \in Threads |-> Free]
    /\ units = [t \in Threads |-> 0]
    /\ mayWait = [t \in Threads |-> FALSE]
    /\ seen = [t \in Threads |-> 0]
    /\ waited = [t \in Threads |-> FALSE]
    /\ semPc = [t \in Threads |-> "idle"]

SemGoto(t, l) == semPc' = [semPc EXCEPT ![t] = l]

-----------------------------------------------------------------------------
(* The table                                                               *)

Named(n)  == {i \in Slots : name[i] = n}
FreeSlots == Named(Free)

\* sem_make(), one critical section: find the name, else take the first free
\* slot.  An existing semaphore keeps its count.  0 means the table is full.
SemMake(t, n, c) ==
    IF Named(n) # {}
    THEN sem' = [sem EXCEPT ![t] = Min(Named(n))] /\ UNCHANGED tabVars
    ELSE IF FreeSlots = {}
    THEN sem' = [sem EXCEPT ![t] = 0] /\ UNCHANGED tabVars
    ELSE LET i == Min(FreeSlots)
         IN  /\ name' = [name EXCEPT ![i] = n]
             /\ count' = [count EXCEPT ![i] = c]
             /\ sem' = [sem EXCEPT ![t] = i]

Sm_create(t) ==
    /\ semPc[t] = "idle"
    /\ \E n \in Names, c \in Counts : SemMake(t, n, c)
    /\ UNCHANGED <<callVars, semPc>>

\* sem_ident() looks the name up in a critical section of its own ...
Sm_ident(t) ==
    /\ semPc[t] = "idle"
    /\ \E n \in Names :
         IF Named(n) # {}
         THEN /\ sem' = [sem EXCEPT ![t] = Min(Named(n))]
              /\ UNCHANGED <<arg, semPc>>
         ELSE /\ arg' = [arg EXCEPT ![t] = n]
              /\ SemGoto(t, "make")
              /\ UNCHANGED sem
    /\ UNCHANGED <<tabVars, units, mayWait, seen, waited>>

\* Mutant of MakeMissing: it takes a slot without looking for the name again.
MakeBlindly(t) ==
    /\ semPc[t] = "make"
    /\ FreeSlots # {}
    /\ name' = [name EXCEPT ![Min(FreeSlots)] = arg[t]]
    /\ count' = [count EXCEPT ![Min(FreeSlots)] = AutoCount]
    /\ sem' = [sem EXCEPT ![t] = Min(FreeSlots)]
    /\ arg' = [arg EXCEPT ![t] = Free]
    /\ SemGoto(t, "idle")
    /\ UNCHANGED <<units, mayWait, seen, waited>>

\* ... and makes a missing one, available, in a second.
MakeMissing(t) ==
    /\ semPc[t] = "make"
    /\ SemMake(t, arg[t], AutoCount)
    /\ arg' = [arg EXCEPT ![t] = Free]
    /\ SemGoto(t, "idle")
    /\ UNCHANGED <<units, mayWait, seen, waited>>

-----------------------------------------------------------------------------
(* sem_request()                                                           *)

Sm_request(t) ==
    /\ semPc[t] = "idle"
    /\ sem[t] # 0                       \* an unknown id is answered -7
    /\ \E u \in Units, w \in BOOLEAN :
         /\ units' = [units EXCEPT ![t] = u]
         /\ mayWait' = [mayWait EXCEPT ![t] = w]
    /\ SemGoto(t, "load")
    /\ UNCHANGED <<tabVars, sem, arg, seen, waited>>

\* Leave sem_request, granted or refused.
Leave(t) ==
    /\ SemGoto(t, "idle")
    /\ units' = [units EXCEPT ![t] = 0]
    /\ mayWait' = [mayWait EXCEPT ![t] = FALSE]
    /\ seen' = [seen EXCEPT ![t] = 0]
    /\ waited' = [waited EXCEPT ![t] = FALSE]
    /\ UNCHANGED <<tabVars, sem, arg>>

\* Mutant of LoadCount: the comparison is off by one.
LoadTooEager(t) ==
    /\ semPc[t] = "load"
    /\ IF count[sem[t]] >= units[t] - 1
       THEN /\ seen' = [seen EXCEPT ![t] = count[sem[t]]]
            /\ SemGoto(t, "cas")
            /\ UNCHANGED <<tabVars, sem, arg, units, mayWait, waited>>
       ELSE Leave(t)

\* Load the count and decide; HEROSCALL_SEM_FORCE_OK ends a wait that has
\* slept once with success.
LoadCount(t) ==
    /\ semPc[t] = "load"
    /\ IF count[sem[t]] >= units[t]
       THEN /\ seen' = [seen EXCEPT ![t] = count[sem[t]]]
            /\ SemGoto(t, "cas")
            /\ UNCHANGED <<tabVars, sem, arg, units, mayWait, waited>>
       ELSE IF ~ mayWait[t] \/ (t \in Forced /\ waited[t])
       THEN Leave(t)
       ELSE /\ seen' = [seen EXCEPT ![t] = count[sem[t]]]
            /\ SemGoto(t, "block")
            /\ UNCHANGED <<tabVars, sem, arg, units, mayWait, waited>>

\* Mutant of TakeUnits: a store of the loaded count instead of the compare-and-swap.
TakeStale(t) ==
    /\ semPc[t] = "cas"
    /\ count' = [count EXCEPT ![sem[t]] = seen[t] - units[t]]
    /\ SemGoto(t, "idle")
    /\ units' = [units EXCEPT ![t] = 0]
    /\ mayWait' = [mayWait EXCEPT ![t] = FALSE]
    /\ seen' = [seen EXCEPT ![t] = 0]
    /\ waited' = [waited EXCEPT ![t] = FALSE]
    /\ UNCHANGED <<name, sem, arg>>

\* The compare-and-swap takes the units, or finds the count changed.
TakeUnits(t) ==
    /\ semPc[t] = "cas"
    /\ IF count[sem[t]] = seen[t]
       THEN /\ count' = [count EXCEPT ![sem[t]] = @ - units[t]]
            /\ SemGoto(t, "idle")
            /\ units' = [units EXCEPT ![t] = 0]
            /\ mayWait' = [mayWait EXCEPT ![t] = FALSE]
            /\ waited' = [waited EXCEPT ![t] = FALSE]
       ELSE /\ SemGoto(t, "load")
            /\ UNCHANGED <<count, units, mayWait, waited>>
    /\ seen' = [seen EXCEPT ![t] = 0]
    /\ UNCHANGED <<name, sem, arg>>

SemFutexWait(t) ==
    /\ semPc[t] = "block"
    /\ SemGoto(t, IF count[sem[t]] = seen[t] THEN "asleep" ELSE "load")
    /\ seen' = [seen EXCEPT ![t] = 0]
    /\ waited' = [waited EXCEPT ![t] = TRUE]
    /\ UNCHANGED <<tabVars, sem, arg, units, mayWait>>

\* The wait's own timeout, which is not reported, or EINTR.
SemDisturbed(t) ==
    /\ semPc[t] = "asleep"
    /\ SemGoto(t, "load")
    /\ UNCHANGED <<tabVars, sem, callVars>>

-----------------------------------------------------------------------------
(* sem_release()                                                           *)

Sm_release(t) ==
    /\ semPc[t] = "idle"
    /\ sem[t] # 0
    /\ \E u \in Units :
         /\ count[sem[t]] + u <= MaxCount
         /\ count' = [count EXCEPT ![sem[t]] = @ + u]
    /\ SemGoto(t, "wake")
    /\ UNCHANGED <<name, sem, callVars>>

SemSleepers(i) == {u \in Threads : semPc[u] = "asleep" /\ sem[u] = i}

\* Mutant of WakeAll: FUTEX_WAKE with the number 1.
WakeOneOnly(t) ==
    /\ semPc[t] = "wake"
    /\ IF SemSleepers(sem[t]) = {}
       THEN SemGoto(t, "idle")
       ELSE \E u \in SemSleepers(sem[t]) : semPc' = [semPc EXCEPT ![t] = "idle", ![u] = "load"]
    /\ UNCHANGED <<tabVars, sem, callVars>>

WakeAll(t) ==
    /\ semPc[t] = "wake"
    /\ semPc' = [u \in Threads |-> IF u = t THEN "idle"
                                   ELSE IF u \in SemSleepers(sem[t]) THEN "load"
                                   ELSE semPc[u]]
    /\ UNCHANGED <<tabVars, sem, callVars>>

-----------------------------------------------------------------------------
SemStep(t) ==
    MakeMissing(t) \/ LoadCount(t) \/ TakeUnits(t) \/ SemFutexWait(t) \/ WakeAll(t)

SemNext ==
    \E t \in Threads :
        \/ Sm_create(t) \/ Sm_ident(t) \/ Sm_request(t) \/ Sm_release(t)
        \/ SemStep(t) \/ SemDisturbed(t)

SemSpec == SemInit /\ [][SemNext]_semVars

\* A thread inside a call keeps running.
SemFairSpec == SemSpec /\ \A t \in Threads : WF_semVars(SemStep(t))

-----------------------------------------------------------------------------
SemTypeOK ==
    /\ name \in [Slots -> Names \cup {Free}]
    /\ count \in [Slots -> -1..MaxCount]
    /\ \A i \in Slots : count[i] = -1 <=> name[i] = Free
    /\ sem \in [Threads -> 0..MAXSEM]
    /\ arg \in [Threads -> Names \cup {Free}]
    /\ units \in [Threads -> Units \cup {0}]
    /\ mayWait \in [Threads -> BOOLEAN]
    /\ seen \in [Threads -> -1..MaxCount]
    /\ waited \in [Threads -> BOOLEAN]
    /\ semPc \in [Threads -> {"idle", "make", "wake"} \cup Waiting]

(* All who create or look up one name get one semaphore, although the       *)
(* lookup and the automatic creation are separate critical sections: no two *)
(* processes of a subsystem park on different semaphores of its name.       *)
OneSemPerName ==
    \A i, j \in Slots : name[i] # Free /\ name[i] = name[j] => i = j

(* Nobody sleeps in sem_request() on a semaphore that has the units it      *)
(* wants, unless a release is just about to wake everybody.                 *)
NoMissedRelease ==
    \A t \in Threads :
        semPc[t] = "asleep" /\ count[sem[t]] >= units[t]
            => \E u \in Threads : semPc[u] = "wake" /\ sem[u] = sem[t]

\* The units wanted by all requests that are waiting for semaphore i.
Demand(i) ==
    MapThenSumSet(LAMBDA t : units[t], {t \in Threads : semPc[t] \in Waiting /\ sem[t] = i})

\* Semaphore sem[t] has units for t and for all who wait with it.
Served(t) == semPc[t] \in Waiting /\ count[sem[t]] >= Demand(sem[t])

\* From some moment on nobody enters sem_request() or sem_release().
Quiet == <>[][\A t \in Threads : semPc[t] = "idle" => semPc'[t] \in {"idle", "make"}]_semVars

(* AppStart's subsystem barrier: once a release has made units for all who  *)
(* wait ("AS MANY UNITS AS THE SUBSYSTEM HAS PROCESSES"), all of them get    *)
(* through.  It takes an end of the calls: under a stream of others that     *)
(* release and take, one thread's compare-and-swap may fail for ever.        *)
BarrierOpens == Quiet => \A t \in Threads : Served(t) ~> ~ Served(t)

(* The four functions implement counting semaphores.                        *)
Counting == INSTANCE CountingSemaphore
    WITH Sems <- Slots, Impatient <- Forced, value <- count,
         ask <- [t \in Threads |->
                   IF semPc[t] \in Waiting
                   THEN [sem |-> sem[t], units |-> units[t], mayWait |-> mayWait[t]]
                   ELSE [sem |-> 0, units |-> 0, mayWait |-> FALSE]]

ImplementsCounting == Counting!SSpec
=============================================================================
