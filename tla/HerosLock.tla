------------------------------ MODULE HerosLock ------------------------------
(***************************************************************************)
(* The global lock of the shared control segment (heros_rtos.c, lock(),    *)
(* unlock()) and the first-opener initialisation of that segment           *)
(* (ctl_init()).  Every other module treats a lock()/unlock() pair as one  *)
(* atomic step; this module is the reason it may.                          *)
(*                                                                         *)
(* The lock is one futex word.  lock() exchanges 1 into it and, when it    *)
(* was already 1, sleeps in FUTEX_WAIT for as long as the word still reads *)
(* 1.  unlock() stores 0 and then, as a second step, wakes one sleeper.    *)
(* The carrier of As_send is SIGUSR1, whose handler may itself make a      *)
(* heroscall, so one thread can be inside lock() twice.                    *)
(***************************************************************************)
EXTENDS Naturals

CONSTANTS
    Procs,      \* the threads of all processes that map the segment
    Mortal,     \* those of them that may be killed at any point
    Asr         \* those whose async-signal routine calls As_read

ASSUME ThreadsAssumption == Mortal \subseteq Procs /\ Asr \subseteq Procs

VARIABLES
    magic,      \* C->magic: 0 empty, 1 being initialised, 2 ready
    word,       \* C->lock, the futex word
    lockPc,     \* where each thread is
    outer       \* where a thread in its signal handler was interrupted

lockVars == <<magic, word, lockPc, outer>>

Booting == {"boot", "init", "publish", "spin"}
Running == {"idle", "try", "wait", "asleep", "cs", "wake"}
Labels  == Booting \cup Running \cup {"dead"}

At(l)    == {p \in Procs : lockPc[p] = l}
Sleepers == At("asleep")

\* The threads that took the lock and have not released it, in whatever frame.
Holders  == {p \in Procs : lockPc[p] = "cs" \/ outer[p] = "cs"}

LockInit ==
    /\ magic = 0
    /\ word = 0                          \* a fresh /dev/shm file is zeroed
    /\ lockPc = [p \in Procs |-> "boot"]
    /\ outer = [p \in Procs |-> "none"]

LockGoto(p, l) == lockPc' = [lockPc EXCEPT ![p] = l]

-----------------------------------------------------------------------------
(* ctl_init(): a compare-and-swap on magic elects the initialiser; the     *)
(* others spin until it has published magic = 2.                           *)

\* Mutant of Elect: a load and a store instead of the compare-and-swap.
ElectNoCas(p) ==
    /\ lockPc[p] = "boot"
    /\ LockGoto(p, IF magic = 2 THEN "idle" ELSE "init")
    /\ magic' = IF magic = 2 THEN 2 ELSE 1
    /\ UNCHANGED <<word, outer>>

Elect(p) ==
    /\ lockPc[p] = "boot"
    /\ IF magic = 0 THEN magic' = 1 /\ LockGoto(p, "init")
                    ELSE magic' = magic /\ LockGoto(p, "spin")
    /\ UNCHANGED <<word, outer>>

InitSegment(p) ==
    /\ lockPc[p] = "init"
    /\ word' = 0
    /\ LockGoto(p, "publish")
    /\ UNCHANGED <<magic, outer>>

\* Mutant of Publish: the segment is never declared ready.
PublishNothing(p) ==
    /\ lockPc[p] = "publish"
    /\ LockGoto(p, "idle")
    /\ UNCHANGED <<magic, word, outer>>

Publish(p) ==
    /\ lockPc[p] = "publish"
    /\ magic' = 2
    /\ LockGoto(p, "idle")
    /\ UNCHANGED <<word, outer>>

SpinDone(p) ==
    /\ lockPc[p] = "spin"
    /\ magic = 2
    /\ LockGoto(p, "idle")
    /\ UNCHANGED <<magic, word, outer>>

-----------------------------------------------------------------------------
(* lock() and unlock()                                                     *)

Call(p) ==
    /\ lockPc[p] = "idle"
    /\ LockGoto(p, "try")
    /\ UNCHANGED <<magic, word, outer>>

Exchange(p) ==
    /\ lockPc[p] = "try"
    /\ word' = 1
    /\ LockGoto(p, IF word = 0 THEN "cs" ELSE "wait")
    /\ UNCHANGED <<magic, outer>>

\* Mutant of LockFutexWait: the caller sleeps whatever the word says.
SleepUnchecked(p) ==
    /\ lockPc[p] = "wait"
    /\ LockGoto(p, "asleep")
    /\ UNCHANGED <<magic, word, outer>>

\* The kernel compares the word and queues the caller in one step.
LockFutexWait(p) ==
    /\ lockPc[p] = "wait"
    /\ LockGoto(p, IF word = 1 THEN "asleep" ELSE "try")
    /\ UNCHANGED <<magic, word, outer>>

Release(p) ==
    /\ lockPc[p] = "cs"
    /\ word' = 0
    /\ LockGoto(p, "wake")
    /\ UNCHANGED <<magic, outer>>

\* Where unlock() returns to: the interrupted code, or the guest.
Return(p) == IF outer[p] = "none" THEN "idle" ELSE outer[p]

\* Mutant of WakeOne: unlock() returns without FUTEX_WAKE.
WakeNobody(p) ==
    /\ lockPc[p] = "wake"
    /\ LockGoto(p, Return(p))
    /\ outer' = [outer EXCEPT ![p] = "none"]
    /\ UNCHANGED <<magic, word>>

WakeOne(p) ==
    /\ lockPc[p] = "wake"
    /\ IF Sleepers = {}
       THEN LockGoto(p, Return(p))
       ELSE \E q \in Sleepers : lockPc' = [lockPc EXCEPT ![p] = Return(p), ![q] = "try"]
    /\ outer' = [outer EXCEPT ![p] = "none"]
    /\ UNCHANGED <<magic, word>>

-----------------------------------------------------------------------------
(* What happens to a thread from outside                                   *)

\* A signal whose handler makes no heroscall only ends FUTEX_WAIT with EINTR.
Interrupted(p) ==
    /\ lockPc[p] = "asleep"
    /\ LockGoto(p, "try")
    /\ UNCHANGED <<magic, word, outer>>

\* as_kick()'s SIGUSR1 runs the target's async-signal routine, whose As_read
\* calls lock().  SIGUSR1 is blocked until the routine returns.
Signal(p) ==
    /\ p \in Asr
    /\ lockPc[p] \in Running
    /\ outer[p] = "none"
    /\ outer' = [outer EXCEPT ![p] = IF lockPc[p] = "asleep" THEN "try" ELSE lockPc[p]]
    /\ LockGoto(p, "try")
    /\ UNCHANGED <<magic, word>>

\* A thread killed while it holds the lock holds it for ever.
Die(p) ==
    /\ p \in Mortal
    /\ lockPc[p] # "dead"
    /\ LockGoto(p, "dead")
    /\ outer' = [outer EXCEPT ![p] = IF lockPc[p] = "cs" THEN "cs" ELSE @]
    /\ UNCHANGED <<magic, word>>

LockStep(p) ==
    \/ Elect(p) \/ InitSegment(p) \/ Publish(p) \/ SpinDone(p)
    \/ Exchange(p) \/ LockFutexWait(p) \/ Release(p) \/ WakeOne(p)

LockNext == \E p \in Procs : LockStep(p) \/ Call(p) \/ Interrupted(p) \/ Signal(p) \/ Die(p)

LockSpec == LockInit /\ [][LockNext]_lockVars

\* A thread that is inside lock(), unlock() or ctl_init() keeps running; when
\* it calls lock() again, and whether a signal arrives, is up to the guest.
LockFairSpec == LockSpec /\ \A p \in Procs : WF_lockVars(LockStep(p))

-----------------------------------------------------------------------------
LockTypeOK ==
    /\ magic \in 0..2
    /\ word \in 0..1
    /\ lockPc \in [Procs -> Labels]
    /\ outer \in [Procs -> Running \cup {"none"}]

(* At most one thread is between lock() and unlock()'s store, counting a   *)
(* thread that was killed there and one whose signal handler runs there:   *)
(* the tables of the segment are never changed, or seen half changed, by a *)
(* second thread.                                                          *)
MutualExclusion == \A p, q \in Holders : p = q

(* No thread uses the segment before ctl_init() of its initialiser has     *)
(* published it, so the initialiser's C->lock = 0 and id counters cannot   *)
(* be stored over a table that is in use.                                  *)
ReadyBeforeUse == (\E p \in Procs : lockPc[p] \in Running) => magic = 2

\* What the code has no answer to: a thread killed at any point, or a signal
\* handler waiting for the lock its own thread holds.
SelfBlocked(p) == outer[p] = "cs" /\ lockPc[p] \in {"try", "wait", "asleep"}
Disaster       == \E p \in Procs : lockPc[p] = "dead" \/ SelfBlocked(p)

(* While somebody sleeps on the lock word, some other thread is running    *)
(* that will wake a sleeper or hold the lock first: lock() and the         *)
(* two-step unlock() lose no wakeup unless a thread dies.                  *)
NoLostWakeup ==
    Sleepers # {} => At("try") \cup At("cs") \cup At("wake") # {} \/ Disaster

(* A sleeper in lock() is always followed by somebody being sent to try    *)
(* again: the constellation never stands still on the global lock.         *)
Handover == (Sleepers # {}) ~> (At("try") # {} \/ Disaster)

(* Every process that opens the segment gets past ctl_init().              *)
AllBoot == \A p \in Procs : <>(lockPc[p] \notin Booting \/ Disaster)

(* An async-signal routine gets to run its As_read: it is never waiting    *)
(* for a lock that the code it interrupted holds.  (as_send() promises     *)
(* that the routine "runs and calls As_read to drain".)                    *)
AsrDrains == \A p \in Procs : ~ SelfBlocked(p)
=============================================================================
