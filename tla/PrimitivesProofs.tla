--------------------------- MODULE PrimitivesProofs ---------------------------
(***************************************************************************)
(* Proofs about what every other part of the runtime rests on: the global  *)
(* lock, for every set of threads, whichever of them may be killed or      *)
(* interrupted by a signal; the semaphores, for every set of threads and   *)
(* of names, every size of the table, and every set of counts and of       *)
(* units; the set-up of a process, for every set of threads; the async    *)
(* signals, for every set of senders and of bits; the timers, for every    *)
(* finite set of tasks, every set of bits and every cap; and the creation  *)
(* of tasks, for every set of parents and of children.                     *)
(***************************************************************************)
EXTENDS MCPrimitives, MCHerosTask, HerosEventProofs, FiniteSetTheorems, WellFoundedInduction

-----------------------------------------------------------------------------
(* The lock                                                                *)

\* Exactly the states in which somebody initialises the segment have magic = 1
\* and nobody past ctl_init().
Election ==
    /\ \A p \in Procs : lockPc[p] \in {"init", "publish"} => magic = 1
    /\ \A p, q \in At("init") \cup At("publish") : p = q
    /\ \A p \in Procs : lockPc[p] \in Running \/ outer[p] # "none" => magic = 2

\* A free word has no holder, and no thread holds the lock in both its frames.
Locking ==
    /\ word = 0 => Holders = {}
    /\ \A p \in Procs : lockPc[p] = "cs" => outer[p] # "cs"

LockIInv == LockTypeOK /\ Election /\ Locking /\ MutualExclusion

LEMMA LockInitInv == LockInit => LockIInv
  BY DEF LockInit, LockIInv, LockTypeOK, Election, Locking, MutualExclusion, At, Holders,
         Labels, Booting, Running

(* Every step preserves the type invariant.                                *)
LEMMA LockTypeStep == LockTypeOK /\ [LockNext]_lockVars => LockTypeOK'
  <1> SUFFICES ASSUME LockTypeOK, [LockNext]_lockVars PROVE LockTypeOK'
    OBVIOUS
  <1> USE DEF LockTypeOK, LockGoto, Labels, Booting, Running
  <1>1. CASE UNCHANGED lockVars
    BY <1>1 DEF lockVars
  <1>2. ASSUME NEW p \in Procs, LockStep(p) PROVE LockTypeOK'
    <2>1. CASE Elect(p) \/ InitSegment(p) \/ Publish(p) \/ SpinDone(p)
      BY <2>1 DEF Elect, InitSegment, Publish, SpinDone
    <2>2. CASE Exchange(p) \/ LockFutexWait(p) \/ Release(p)
      BY <2>2 DEF Exchange, LockFutexWait, Release
    <2>3. CASE WakeOne(p)
      BY <2>3 DEF WakeOne, Return, Sleepers, At
    <2> QED BY <1>2, <2>1, <2>2, <2>3 DEF LockStep
  <1>3. ASSUME NEW p \in Procs, Call(p) \/ Interrupted(p) PROVE LockTypeOK'
    BY <1>3 DEF Call, Interrupted
  <1>4. ASSUME NEW p \in Procs, Signal(p) \/ Die(p) PROVE LockTypeOK'
    BY <1>4 DEF Signal, Die
  <1> QED BY <1>1, <1>2, <1>3, <1>4 DEF LockNext

(* No step initialises a segment that is in use.                           *)
LEMMA ElectionStep == LockTypeOK /\ Election /\ [LockNext]_lockVars => Election'
  <1> SUFFICES ASSUME LockTypeOK, Election, [LockNext]_lockVars PROVE Election'
    OBVIOUS
  <1> USE DEF LockTypeOK, Election, At, LockGoto, Labels, Booting, Running
  <1>1. CASE UNCHANGED lockVars
    BY <1>1 DEF lockVars
  <1>2. ASSUME NEW p \in Procs, LockStep(p) PROVE Election'
    <2>1. CASE Elect(p)           BY <2>1 DEF Elect
    <2>2. CASE InitSegment(p)     BY <2>2 DEF InitSegment
    <2>3. CASE Publish(p)         BY <2>3 DEF Publish
    <2>4. CASE SpinDone(p)        BY <2>4 DEF SpinDone
    <2>5. CASE Exchange(p)        BY <2>5 DEF Exchange
    <2>6. CASE LockFutexWait(p)       BY <2>6 DEF LockFutexWait
    <2>7. CASE Release(p)         BY <2>7 DEF Release
    <2>8. CASE WakeOne(p)         BY <2>8 DEF WakeOne, Return, Sleepers
    <2> QED BY <1>2, <2>1, <2>2, <2>3, <2>4, <2>5, <2>6, <2>7, <2>8 DEF LockStep
  <1>3. ASSUME NEW p \in Procs, Call(p) \/ Interrupted(p) PROVE Election'
    BY <1>3 DEF Call, Interrupted
  <1>4. ASSUME NEW p \in Procs, Signal(p) \/ Die(p) PROVE Election'
    BY <1>4 DEF Signal, Die
  <1> QED BY <1>1, <1>2, <1>3, <1>4 DEF LockNext

(* Only a thread that finds the word 0 becomes a holder, and the word is    *)
(* stored 0 only by the one holder or while there is none.                 *)
LEMMA LockingStep ==
    LockIInv /\ [LockNext]_lockVars => Locking' /\ MutualExclusion'
  <1> SUFFICES ASSUME LockIInv, [LockNext]_lockVars PROVE Locking' /\ MutualExclusion'
    OBVIOUS
  <1> USE DEF LockIInv, LockTypeOK, Locking, MutualExclusion, Holders, LockGoto,
              Labels, Booting, Running
  <1>1. CASE UNCHANGED lockVars
    BY <1>1 DEF lockVars
  <1>2. ASSUME NEW p \in Procs, LockStep(p) PROVE Locking' /\ MutualExclusion'
    <2>1. CASE Elect(p)           BY <2>1 DEF Elect
    <2>2. CASE InitSegment(p)
      <3>1. Holders = {}          BY <2>2 DEF InitSegment, Election
      <3> QED BY <2>2, <3>1 DEF InitSegment
    <2>3. CASE Publish(p)         BY <2>3 DEF Publish
    <2>4. CASE SpinDone(p)        BY <2>4 DEF SpinDone
    <2>5. CASE Exchange(p)        BY <2>5 DEF Exchange
    <2>6. CASE LockFutexWait(p)       BY <2>6 DEF LockFutexWait
    <2>7. CASE Release(p)         BY <2>7 DEF Release
    <2>8. CASE WakeOne(p)         BY <2>8 DEF WakeOne, Return, Sleepers, At
    <2> QED BY <1>2, <2>1, <2>2, <2>3, <2>4, <2>5, <2>6, <2>7, <2>8 DEF LockStep
  <1>3. ASSUME NEW p \in Procs, Call(p) \/ Interrupted(p)
        PROVE  Locking' /\ MutualExclusion'
    BY <1>3 DEF Call, Interrupted
  <1>4. ASSUME NEW p \in Procs, Signal(p) \/ Die(p)
        PROVE  Locking' /\ MutualExclusion'
    BY <1>4 DEF Signal, Die
  <1> QED BY <1>1, <1>2, <1>3, <1>4 DEF LockNext

LEMMA LockIInvStep == LockIInv /\ [LockNext]_lockVars => LockIInv'
  BY LockTypeStep, ElectionStep, LockingStep DEF LockIInv

(* The inductive invariant holds in every reachable state.                 *)
THEOREM LockInvariance == LockSpec => []LockIInv
  BY LockInitInv, LockIInvStep, PTL DEF LockSpec

(* The lock's variables keep their types.                                  *)
THEOREM LockTyped == LockSpec => []LockTypeOK
  <1>1. LockIInv => LockTypeOK
    BY DEF LockIInv
  <1> QED BY <1>1, LockInvariance, PTL

(* lock()/unlock() exclude each other across all processes, kills and      *)
(* signal handlers included.                                               *)
THEOREM Exclusive == LockSpec => []MutualExclusion
  <1>1. LockIInv => MutualExclusion
    BY DEF LockIInv
  <1> QED BY <1>1, LockInvariance, PTL

(* ctl_init() lets nobody use a segment that is not initialised.           *)
THEOREM Initialised == LockSpec => []ReadyBeforeUse
  <1>1. LockIInv => ReadyBeforeUse
    BY DEF LockIInv, Election, ReadyBeforeUse
  <1> QED BY <1>1, LockInvariance, PTL

-----------------------------------------------------------------------------
(* Semaphores                                                              *)

(* What a thread inside a call has found out before: the name it is about  *)
(* to create, the semaphore it works with, and how the count it loaded     *)
(* compares with the units it wants.                                       *)
Working ==
    \A t \in Threads :
        /\ semPc[t] = "make" => arg[t] \in Names
        /\ semPc[t] \in Waiting \cup {"wake"} => sem[t] # 0
        /\ semPc[t] \in Waiting => units[t] \in Units
        /\ semPc[t] = "cas" => seen[t] >= units[t]
        /\ semPc[t] = "block" => seen[t] < units[t]

(* Semaphores are never deleted: an id that was handed out stays good.     *)
Known == \A t \in Threads : sem[t] # 0 => name[sem[t]] # Free

SemIInv == SemTypeOK /\ Working /\ Known /\ OneSemPerName /\ NoMissedRelease

LEMMA SemBounds ==
    MaxCount \in Nat /\ MAXSEM \in Nat /\ (\A u \in Units : u \in Nat /\ u > 0)
  BY SemAssumption

LEMMA SemInitInv == SemInit => SemIInv
  <1> SUFFICES ASSUME SemInit PROVE SemIInv
    OBVIOUS
  <1>1. SemTypeOK
    BY SemBounds DEF SemInit, SemTypeOK
  <1>2. Working /\ Known /\ OneSemPerName /\ NoMissedRelease
    BY DEF SemInit, Working, Known, OneSemPerName, NoMissedRelease, Waiting
  <1> QED BY <1>1, <1>2 DEF SemIInv

-----------------------------------------------------------------------------
\* The order by which the table is searched.
Below == {pair \in Nat \X Nat : pair[1] < pair[2]}

(* A search from slot 0 upwards in which some slot qualifies finds the first *)
(* one that does.                                                            *)
LEMMA FirstSlot ==
    ASSUME NEW S, S \subseteq Nat, S # {}
    PROVE  Min(S) \in S /\ \A j \in S : Min(S) <= j
  <1>1. OpToRel(<, Nat) = Below
    BY DEF OpToRel, Below
  <1>2. IsWellFoundedOn(Below, Nat)
    BY <1>1, NatLessThanWellFounded, Zenon
  <1>3. PICK i \in S : \A j \in S : ~ (<<j, i>> \in Below)
    BY <1>2, WFMin
  <1>4. ASSUME NEW j \in S PROVE i <= j
    <2>1. <<j, i>> \in Nat \X Nat /\ ~ (<<j, i>> \in Below)
      BY <1>3
    <2>2. ~ (j < i)
      BY <2>1 DEF Below
    <2> QED BY <2>1, <2>2
  <1> QED BY <1>4 DEF Min

(* The first slot of a search is one of those searched for.                *)
LEMMA FoundSem ==
    ASSUME NEW n, Named(n) # {}
    PROVE  Min(Named(n)) \in Slots /\ name[Min(Named(n))] = n
  <1>1. Named(n) \subseteq Nat
    BY SemAssumption DEF Named, Slots
  <1>2. Min(Named(n)) \in Named(n)
    BY <1>1, FirstSlot
  <1> QED BY <1>2 DEF Named

(* sem_make() finds the name, or takes a free slot while no slot has the   *)
(* name, or finds the table full.                                          *)
LEMMA MakeCases ==
    ASSUME NEW t, NEW n, NEW c, SemMake(t, n, c)
    PROVE  \/ /\ \E i \in Slots : name[i] = n /\ sem' = [sem EXCEPT ![t] = i]
              /\ UNCHANGED tabVars
           \/ sem' = [sem EXCEPT ![t] = 0] /\ UNCHANGED tabVars
           \/ /\ \A j \in Slots : name[j] # n
              /\ \E i \in Slots : /\ name[i] = Free
                                  /\ name' = [name EXCEPT ![i] = n]
                                  /\ count' = [count EXCEPT ![i] = c]
                                  /\ sem' = [sem EXCEPT ![t] = i]
  <1>1. CASE Named(n) # {}
    BY <1>1, FoundSem DEF SemMake
  <1>2. CASE Named(n) = {} /\ FreeSlots = {}
    BY <1>2 DEF SemMake
  <1>3. CASE Named(n) = {} /\ FreeSlots # {}
    <2>1. \A j \in Slots : name[j] # n
      BY <1>3 DEF Named
    <2>2. Min(FreeSlots) \in Slots /\ name[Min(FreeSlots)] = Free
      BY <1>3, FoundSem DEF FreeSlots
    <2> QED BY <1>3, <2>1, <2>2 DEF SemMake
  <1> QED BY <1>1, <1>2, <1>3

(* What an idle or a creating thread does to the table and to its handle.  *)
LEMMA MakeStep ==
    ASSUME SemIInv, NEW t \in Threads, NEW n \in Names, NEW c \in 0..MaxCount,
           SemMake(t, n, c)
    PROVE  /\ name' \in [Slots -> Names \cup {Free}]
           /\ count' \in [Slots -> -1..MaxCount]
           /\ \A i \in Slots : (count'[i] = -1 <=> name'[i] = Free)
           /\ sem' \in [Threads -> 0..MAXSEM]
           /\ OneSemPerName'
           /\ Known'
           /\ \A u \in Threads : u # t => sem'[u] = sem[u]
           /\ \A u \in Threads : sem[u] # 0 => count'[sem[u]] = count[sem[u]]
  <1> USE DEF SemIInv, SemTypeOK
  <1>0. n # Free /\ MAXSEM \in Nat /\ MaxCount \in Nat
    BY SemAssumption
  <1>1. CASE UNCHANGED tabVars /\ \E i \in 0..MAXSEM : /\ sem' = [sem EXCEPT ![t] = i]
                                                       /\ i # 0 => name[i] # Free
    BY <1>1 DEF tabVars, OneSemPerName, Known
  <1>2. ASSUME NEW i \in Slots, \A j \in Slots : name[j] # n, name[i] = Free,
               name' = [name EXCEPT ![i] = n], count' = [count EXCEPT ![i] = c],
               sem' = [sem EXCEPT ![t] = i]
        PROVE  /\ name' \in [Slots -> Names \cup {Free}]
               /\ count' \in [Slots -> -1..MaxCount]
               /\ \A j \in Slots : (count'[j] = -1 <=> name'[j] = Free)
               /\ sem' \in [Threads -> 0..MAXSEM]
               /\ OneSemPerName'
               /\ Known'
               /\ \A u \in Threads : u # t => sem'[u] = sem[u]
               /\ \A u \in Threads : sem[u] # 0 => count'[sem[u]] = count[sem[u]]
    <2>1. i \in 0..MAXSEM /\ i # 0
      BY <1>0 DEF Slots
    <2>2. c \in -1..MaxCount /\ c # -1
      BY <1>0
    <2>3. \A u \in Threads : sem[u] # 0 => sem[u] \in Slots /\ sem[u] # i
      BY <1>0, <1>2 DEF Known, Slots
    <2>4. /\ name' \in [Slots -> Names \cup {Free}]
          /\ count' \in [Slots -> -1..MaxCount]
          /\ \A j \in Slots : (count'[j] = -1 <=> name'[j] = Free)
          /\ sem' \in [Threads -> 0..MAXSEM]
      BY <1>0, <1>2, <2>1, <2>2
    <2>5. OneSemPerName'
      BY <1>2 DEF OneSemPerName
    <2>6. Known'
      BY <1>0, <1>2, <2>1, <2>3 DEF Known
    <2> QED BY <1>2, <2>3, <2>4, <2>5, <2>6
  <1>3. Slots \subseteq 0..MAXSEM
    BY <1>0 DEF Slots
  <1> QED BY <1>0, <1>1, <1>2, <1>3, MakeCases

-----------------------------------------------------------------------------
(* Steps that leave the table and the handles alone.                       *)
LEMMA SameTable ==
    SemIInv /\ UNCHANGED <<name, sem>> => OneSemPerName' /\ Known'
  BY DEF SemIInv, OneSemPerName, Known

(* Every step preserves the types, and what the threads have found out.    *)
LEMMA WorkStep ==
    ASSUME SemIInv, [SemNext]_semVars
    PROVE  SemTypeOK' /\ Working' /\ Known' /\ OneSemPerName'
  <1> USE SemBounds DEF SemIInv, callVars, tabVars
  <1>1. CASE UNCHANGED semVars
    BY <1>1 DEF semVars, SemTypeOK, Working, Known, OneSemPerName
  <1>2. ASSUME NEW t \in Threads, Sm_create(t)
        PROVE  SemTypeOK' /\ Working' /\ Known' /\ OneSemPerName'
    <2>1. PICK n \in Names, c \in 0..MaxCount : SemMake(t, n, c)
      BY <1>2, SemAssumption DEF Sm_create
    <2> HIDE DEF SemIInv
    <2>2. /\ name' \in [Slots -> Names \cup {Free}]
          /\ count' \in [Slots -> -1..MaxCount]
          /\ \A i \in Slots : (count'[i] = -1 <=> name'[i] = Free)
          /\ sem' \in [Threads -> 0..MAXSEM]
          /\ OneSemPerName' /\ Known'
          /\ \A u \in Threads : u # t => sem'[u] = sem[u]
      BY <2>1, MakeStep
    <2>3. semPc[t] = "idle" /\ UNCHANGED <<callVars, semPc>>
      BY <1>2 DEF Sm_create
    <2>4. SemTypeOK'
      BY <2>2, <2>3 DEF SemIInv, SemTypeOK
    <2>5. Working'
      BY <2>2, <2>3 DEF SemIInv, Working, Waiting
    <2> QED BY <2>2, <2>4, <2>5
  <1>3. ASSUME NEW t \in Threads, MakeMissing(t)
        PROVE  SemTypeOK' /\ Working' /\ Known' /\ OneSemPerName'
    <2>1. arg[t] \in Names /\ AutoCount \in 0..MaxCount
      BY <1>3, SemAssumption DEF MakeMissing, Working
    <2> HIDE DEF SemIInv
    <2>2. /\ name' \in [Slots -> Names \cup {Free}]
          /\ count' \in [Slots -> -1..MaxCount]
          /\ \A i \in Slots : (count'[i] = -1 <=> name'[i] = Free)
          /\ sem' \in [Threads -> 0..MAXSEM]
          /\ OneSemPerName' /\ Known'
          /\ \A u \in Threads : u # t => sem'[u] = sem[u]
      BY <1>3, <2>1, MakeStep DEF MakeMissing
    <2>4. SemTypeOK'
      BY <1>3, <2>2 DEF MakeMissing, SemGoto, SemIInv, SemTypeOK
    <2>5. Working'
      BY <1>3, <2>2 DEF MakeMissing, SemGoto, SemIInv, SemTypeOK, Working, Waiting
    <2> QED BY <2>2, <2>4, <2>5
  <1>4. ASSUME NEW t \in Threads, Sm_ident(t)
        PROVE  SemTypeOK' /\ Working' /\ Known' /\ OneSemPerName'
    <2>1. PICK n \in Names :
            IF Named(n) # {}
            THEN sem' = [sem EXCEPT ![t] = Min(Named(n))] /\ UNCHANGED <<arg, semPc>>
            ELSE /\ arg' = [arg EXCEPT ![t] = n]
                 /\ SemGoto(t, "make")
                 /\ UNCHANGED sem
      BY <1>4 DEF Sm_ident
    <2>2. semPc[t] = "idle" /\ UNCHANGED <<tabVars, units, mayWait, seen, waited>>
      BY <1>4 DEF Sm_ident
    <2>3. CASE Named(n) # {}
      <3> DEFINE i == Min(Named(n))
      <3>1. i \in Slots /\ name[i] # Free
        BY <2>3, FoundSem, SemAssumption
      <3>2. i \in 1..MAXSEM /\ sem' = [sem EXCEPT ![t] = i] /\ UNCHANGED <<arg, semPc>>
        BY <2>1, <2>3, <3>1 DEF Slots
      <3> HIDE DEF i
      <3>3. SemTypeOK'
        BY <2>2, <3>2 DEF SemTypeOK
      <3>4. Working'
        BY <2>2, <3>2 DEF Working, SemTypeOK, Waiting
      <3>5. Known' /\ OneSemPerName'
        BY <2>2, <3>1, <3>2 DEF Known, OneSemPerName, SemTypeOK
      <3> QED BY <3>3, <3>4, <3>5
    <2>4. CASE Named(n) = {}
      <3>1. SemTypeOK'
        BY <2>1, <2>2, <2>4 DEF SemTypeOK, SemGoto
      <3>2. Working'
        BY <2>1, <2>2, <2>4 DEF Working, SemTypeOK, SemGoto, Waiting
      <3> QED BY <2>1, <2>2, <2>4, <3>1, <3>2, SameTable
    <2> QED BY <2>3, <2>4
  <1>5. ASSUME NEW t \in Threads, Sm_request(t)
        PROVE  SemTypeOK' /\ Working' /\ Known' /\ OneSemPerName'
    <2>1. SemTypeOK'    BY <1>5 DEF Sm_request, SemGoto, SemTypeOK, Waiting
    <2>2. Working'   BY <1>5 DEF Sm_request, SemGoto, SemTypeOK, Working, Waiting
    <2> QED BY <1>5, <2>1, <2>2, SameTable DEF Sm_request
  <1>6. ASSUME NEW t \in Threads, LoadCount(t)
        PROVE  SemTypeOK' /\ Working' /\ Known' /\ OneSemPerName'
    <2>1. sem[t] \in Slots /\ count[sem[t]] \in -1..MaxCount /\ units[t] \in Units
      BY <1>6 DEF LoadCount, SemTypeOK, Working, Waiting, Slots
    <2>2. SemTypeOK'
      <3>1. CASE Leave(t)
        BY <3>1 DEF Leave, SemGoto, SemTypeOK, Waiting
      <3>2. CASE /\ seen' = [seen EXCEPT ![t] = count[sem[t]]]
                 /\ SemGoto(t, "cas") \/ SemGoto(t, "block")
                 /\ UNCHANGED <<tabVars, sem, arg, units, mayWait, waited>>
        BY <2>1, <3>2 DEF SemGoto, SemTypeOK, Waiting
      <3> QED BY <1>6, <3>1, <3>2 DEF LoadCount
    <2>3. Working'   BY <1>6, <2>1 DEF LoadCount, Leave, SemGoto, SemTypeOK, Working, Waiting
    <2> QED BY <1>6, <2>2, <2>3, SameTable DEF LoadCount, Leave
  <1>7. ASSUME NEW t \in Threads, TakeUnits(t)
        PROVE  SemTypeOK' /\ Working' /\ Known' /\ OneSemPerName'
    <2>1. /\ sem[t] \in Slots /\ units[t] \in Nat
          /\ seen[t] \in -1..MaxCount /\ seen[t] >= units[t]
      BY <1>7 DEF TakeUnits, SemTypeOK, Working, Waiting, Slots
    <2>2. name[sem[t]] # Free /\ count[sem[t]] # -1
      BY <1>7, <2>1 DEF SemTypeOK, Known, Slots
    <2>3. seen[t] - units[t] \in 0..MaxCount
      BY <2>1
    <2>4. SemTypeOK'
      <3>1. CASE count[sem[t]] = seen[t]
        <4>1. count' = [count EXCEPT ![sem[t]] = seen[t] - units[t]]
          BY <1>7, <3>1 DEF TakeUnits
        <4>2. /\ count' \in [Slots -> -1..MaxCount]
              /\ \A i \in Slots : (count'[i] = -1 <=> name'[i] = Free)
          BY <1>7, <2>1, <2>2, <2>3, <4>1 DEF TakeUnits, SemTypeOK
        <4>3. /\ semPc' = [semPc EXCEPT ![t] = "idle"]
              /\ units' = [units EXCEPT ![t] = 0]
              /\ mayWait' = [mayWait EXCEPT ![t] = FALSE]
              /\ waited' = [waited EXCEPT ![t] = FALSE]
              /\ seen' = [seen EXCEPT ![t] = 0]
              /\ UNCHANGED <<name, sem, arg>>
          BY <1>7, <3>1 DEF TakeUnits, SemGoto
        <4> QED BY <4>2, <4>3 DEF SemTypeOK
      <3>2. CASE count[sem[t]] # seen[t]
        BY <1>7, <3>2 DEF TakeUnits, SemGoto, SemTypeOK, Waiting
      <3> QED BY <3>1, <3>2
    <2>5. Working'   BY <1>7 DEF TakeUnits, SemGoto, SemTypeOK, Working, Waiting
    <2> QED BY <1>7, <2>4, <2>5, SameTable DEF TakeUnits
  <1>8. ASSUME NEW t \in Threads, SemFutexWait(t)
        PROVE  SemTypeOK' /\ Working' /\ Known' /\ OneSemPerName'
    <2>1. SemTypeOK'    BY <1>8 DEF SemFutexWait, SemGoto, SemTypeOK, Waiting
    <2>2. Working'   BY <1>8 DEF SemFutexWait, SemGoto, SemTypeOK, Working, Waiting
    <2> QED BY <1>8, <2>1, <2>2, SameTable DEF SemFutexWait
  <1>9. ASSUME NEW t \in Threads, SemDisturbed(t)
        PROVE  SemTypeOK' /\ Working' /\ Known' /\ OneSemPerName'
    <2>1. SemTypeOK'    BY <1>9 DEF SemDisturbed, SemGoto, SemTypeOK, Waiting
    <2>2. Working'   BY <1>9 DEF SemDisturbed, SemGoto, SemTypeOK, Working, Waiting
    <2> QED BY <1>9, <2>1, <2>2, SameTable DEF SemDisturbed
  <1>10. ASSUME NEW t \in Threads, Sm_release(t)
         PROVE  SemTypeOK' /\ Working' /\ Known' /\ OneSemPerName'
    <2>1. PICK u \in Units : /\ count[sem[t]] + u <= MaxCount
                             /\ count' = [count EXCEPT ![sem[t]] = count[sem[t]] + u]
      BY <1>10 DEF Sm_release
    <2>2. sem[t] \in Slots /\ sem[t] # 0 /\ name[sem[t]] # Free
      BY <1>10 DEF Sm_release, SemTypeOK, Known, Slots
    <2>3. count[sem[t]] + u \in 0..MaxCount /\ count[sem[t]] # -1
      BY <2>1, <2>2 DEF SemTypeOK
    <2>4. SemTypeOK'    BY <1>10, <2>1, <2>2, <2>3 DEF Sm_release, SemGoto, SemTypeOK, Waiting
    <2>5. Working'   BY <1>10 DEF Sm_release, SemGoto, SemTypeOK, Working, Waiting
    <2> QED BY <1>10, <2>4, <2>5, SameTable DEF Sm_release
  <1>11. ASSUME NEW t \in Threads, WakeAll(t)
         PROVE  SemTypeOK' /\ Working' /\ Known' /\ OneSemPerName'
    <2>1. SemTypeOK'    BY <1>11 DEF WakeAll, SemTypeOK, Waiting
    <2>2. Working'   BY <1>11 DEF WakeAll, SemSleepers, SemTypeOK, Working, Waiting
    <2> QED BY <1>11, <2>1, <2>2, SameTable DEF WakeAll
  <1> QED BY <1>1, <1>2, <1>3, <1>4, <1>5, <1>6, <1>7, <1>8, <1>9, <1>10, <1>11
          DEF SemNext, SemStep

-----------------------------------------------------------------------------
\* Somebody is about to wake the sleepers of r's semaphore.
AboutToWake(r) == \E u \in Threads : semPc[u] = "wake" /\ sem[u] = sem[r]

\* A step of t that changes neither who sleeps or wakes nor on what, and
\* gives r nothing.
Bystander(t, r) ==
    /\ semPc[t] \notin {"asleep", "wake"} /\ semPc'[t] \notin {"asleep", "wake"}
    /\ \A u \in Threads : u # t => semPc'[u] = semPc[u] /\ sem'[u] = sem[u]
    /\ units'[r] = units[r]
    /\ count'[sem[r]] >= units[r] => count[sem[r]] >= units[r]

(* A count comes to satisfy a sleeper only by a release, which leaves its  *)
(* thread about to wake all; and a thread falls asleep only on a count     *)
(* that does not.                                                          *)
LEMMA SemMissStep ==
    ASSUME SemIInv, [SemNext]_semVars
    PROVE  NoMissedRelease'
  <1> SUFFICES ASSUME NEW r \in Threads, semPc'[r] = "asleep", count'[sem'[r]] >= units'[r]
               PROVE  AboutToWake(r)'
    BY DEF NoMissedRelease, AboutToWake
  <1> USE SemBounds DEF callVars, tabVars
  <1>1. semPc[r] = "asleep" /\ count[sem[r]] >= units[r] => AboutToWake(r)
    BY DEF SemIInv, NoMissedRelease, AboutToWake
  <1>2. /\ semPc \in [Threads -> {"idle", "make", "wake"} \cup Waiting]
        /\ sem \in [Threads -> 0..MAXSEM]
        /\ semPc[r] = "asleep" => /\ sem[r] # 0 /\ sem[r] \in Slots
                                  /\ units[r] \in Nat /\ count[sem[r]] \in Int
    BY DEF SemIInv, SemTypeOK, Working, Waiting, Slots
  <1>3. ASSUME NEW t \in Threads, semPc[r] = "asleep" => Bystander(t, r),
               semPc'[t] # "asleep", \A u \in Threads : u # t => semPc'[u] = semPc[u]
        PROVE  AboutToWake(r)'
    <2>1. r # t /\ semPc[r] = "asleep" /\ Bystander(t, r)
      BY <1>3
    <2>2. sem'[r] = sem[r] /\ count[sem[r]] >= units[r]
      BY <2>1 DEF Bystander
    <2>3. PICK u \in Threads : semPc[u] = "wake" /\ sem[u] = sem[r]
      BY <1>1, <2>1, <2>2 DEF AboutToWake
    <2> QED BY <2>1, <2>2, <2>3 DEF Bystander, AboutToWake
  <1>4. CASE UNCHANGED semVars
    BY <1>1, <1>4 DEF semVars, AboutToWake
  <1>5. ASSUME NEW t \in Threads, Sm_create(t) PROVE AboutToWake(r)'
    <2>1. PICK n \in Names, c \in 0..MaxCount : SemMake(t, n, c)
      BY <1>5, SemAssumption DEF Sm_create
    <2>2. /\ \A u \in Threads : u # t => sem'[u] = sem[u]
          /\ \A u \in Threads : sem[u] # 0 => count'[sem[u]] = count[sem[u]]
      BY <2>1, MakeStep
    <2>3. semPc[t] = "idle" /\ UNCHANGED <<semPc, units>>
      BY <1>5 DEF Sm_create
    <2> QED BY <1>2, <1>3, <2>2, <2>3 DEF Bystander
  <1>6. ASSUME NEW t \in Threads, MakeMissing(t) PROVE AboutToWake(r)'
    <2>1. arg[t] \in Names /\ AutoCount \in 0..MaxCount
      BY <1>6, SemAssumption DEF MakeMissing, SemIInv, Working
    <2>2. /\ \A u \in Threads : u # t => sem'[u] = sem[u]
          /\ \A u \in Threads : sem[u] # 0 => count'[sem[u]] = count[sem[u]]
      BY <1>6, <2>1, MakeStep DEF MakeMissing
    <2>3. semPc[t] = "make" /\ semPc' = [semPc EXCEPT ![t] = "idle"] /\ UNCHANGED units
      BY <1>6 DEF MakeMissing, SemGoto
    <2> QED BY <1>2, <1>3, <2>2, <2>3 DEF Bystander
  <1>7. ASSUME NEW t \in Threads, Sm_ident(t) \/ Sm_request(t) \/ LoadCount(t)
        PROVE  AboutToWake(r)'
    <2>1. /\ semPc[t] \in {"idle", "load"} /\ count' = count
          /\ semPc' = semPc \/ \E l \in {"make", "load", "cas", "block", "idle"} : SemGoto(t, l)
          /\ \A u \in Threads : u # t => sem'[u] = sem[u] /\ units'[u] = units[u]
      BY <1>2, <1>7 DEF Sm_ident, Sm_request, LoadCount, Leave, SemIInv, SemTypeOK
    <2> QED BY <1>2, <1>3, <2>1 DEF Bystander, SemGoto
  <1>8. ASSUME NEW t \in Threads, TakeUnits(t) PROVE AboutToWake(r)'
    <2>1. sem[t] \in Slots /\ units[t] \in Nat /\ count[sem[t]] \in Int
      BY <1>8 DEF TakeUnits, SemIInv, SemTypeOK, Working, Waiting, Slots
    <2>2. /\ semPc[t] = "cas" /\ UNCHANGED sem
          /\ SemGoto(t, "idle") \/ SemGoto(t, "load")
          /\ \A u \in Threads : u # t => units'[u] = units[u]
          /\ count' = count \/ count' = [count EXCEPT ![sem[t]] = count[sem[t]] - units[t]]
      BY <1>8 DEF TakeUnits, SemIInv, SemTypeOK
    <2>3. semPc[r] = "asleep" /\ count'[sem[r]] >= units[r] => count[sem[r]] >= units[r]
      <3>1. count \in [Slots -> -1..MaxCount]
        BY DEF SemIInv, SemTypeOK
      <3>2. CASE sem[r] = sem[t]
        BY <1>2, <2>1, <2>2, <3>1, <3>2
      <3>3. CASE sem[r] # sem[t]
        BY <1>2, <2>1, <2>2, <3>1, <3>3
      <3> QED BY <3>2, <3>3
    <2> QED BY <1>2, <1>3, <2>2, <2>3 DEF Bystander, SemGoto
  <1>9. ASSUME NEW t \in Threads, SemFutexWait(t) PROVE AboutToWake(r)'
    <2>1. /\ semPc[t] = "block" /\ semPc'[t] \in {"asleep", "load"}
          /\ \A u \in Threads : u # t => semPc'[u] = semPc[u]
          /\ UNCHANGED <<count, sem, units>>
      BY <1>2, <1>9 DEF SemFutexWait, SemGoto
    <2>2. CASE r = t
      <3>1. count[sem[t]] = seen[t] /\ seen[t] < units[t]
        BY <1>2, <1>9, <2>2 DEF SemFutexWait, SemGoto, SemIInv, Working
      <3>2. seen[t] \in Int /\ units[t] \in Nat
        BY <2>1 DEF SemIInv, SemTypeOK, Working, Waiting
      <3> QED BY <2>1, <2>2, <3>1, <3>2
    <2>3. CASE r # t
      BY <1>1, <2>1, <2>3 DEF AboutToWake
    <2> QED BY <2>2, <2>3
  <1>10. ASSUME NEW t \in Threads, SemDisturbed(t) PROVE AboutToWake(r)'
    BY <1>1, <1>2, <1>10 DEF SemDisturbed, SemGoto, AboutToWake
  <1>11. ASSUME NEW t \in Threads, Sm_release(t) PROVE AboutToWake(r)'
    <2>1. /\ semPc' = [semPc EXCEPT ![t] = "wake"] /\ semPc[t] = "idle" /\ UNCHANGED <<sem, units>>
          /\ \A i \in Slots : i # sem[t] => count'[i] = count[i]
      BY <1>11 DEF Sm_release, SemGoto, SemIInv, SemTypeOK
    <2>2. CASE sem[r] = sem[t]
      BY <1>2, <2>1, <2>2 DEF AboutToWake
    <2>3. CASE sem[r] # sem[t]
      BY <1>1, <1>2, <2>1, <2>3 DEF AboutToWake
    <2> QED BY <2>2, <2>3
  <1>12. ASSUME NEW t \in Threads, WakeAll(t) PROVE AboutToWake(r)'
    <2>1. /\ semPc[r] = "asleep" /\ r # t /\ sem[r] # sem[t]
          /\ UNCHANGED <<count, sem, units>>
      BY <1>12 DEF WakeAll, SemSleepers
    <2>2. PICK u \in Threads : semPc[u] = "wake" /\ sem[u] = sem[r]
      BY <1>1, <2>1 DEF AboutToWake
    <2>3. semPc'[u] = "wake"
      BY <1>12, <2>1, <2>2 DEF WakeAll, SemSleepers
    <2> QED BY <2>1, <2>2, <2>3 DEF AboutToWake
  <1> QED BY <1>4, <1>5, <1>6, <1>7, <1>8, <1>9, <1>10, <1>11, <1>12 DEF SemNext, SemStep

LEMMA SemIInvStep == SemIInv /\ [SemNext]_semVars => SemIInv'
  BY WorkStep, SemMissStep DEF SemIInv

-----------------------------------------------------------------------------
(* The inductive invariant holds in every reachable state.                 *)
THEOREM SemInvariance == SemSpec => []SemIInv
  BY SemInitInv, SemIInvStep, PTL DEF SemSpec

(* The semaphores and the calls keep their types; no count goes below 0.   *)
THEOREM SemTyped == SemSpec => []SemTypeOK
  <1>1. SemIInv => SemTypeOK
    BY DEF SemIInv
  <1> QED BY <1>1, SemInvariance, PTL

(* All who ask for one name get one semaphore.                             *)
THEOREM OneSem == SemSpec => []OneSemPerName
  <1>1. SemIInv => OneSemPerName
    BY DEF SemIInv
  <1> QED BY <1>1, SemInvariance, PTL

(* No release is slept through, however many threads wait for how many     *)
(* units.                                                                  *)
THEOREM NoReleaseMissed == SemSpec => []NoMissedRelease
  <1>1. SemIInv => NoMissedRelease
    BY DEF SemIInv
  <1> QED BY <1>1, SemInvariance, PTL

-----------------------------------------------------------------------------
(* The refinement.                                                         *)

\* The request that thread t is in, as CountingSemaphore sees it.
Ask ==
    [t \in Threads |->
       IF semPc[t] \in Waiting
       THEN [sem |-> sem[t], units |-> units[t], mayWait |-> mayWait[t]]
       ELSE [sem |-> 0, units |-> 0, mayWait |-> FALSE]]

LEMMA AskIs ==
    \A t \in Threads :
       Ask[t] = IF semPc[t] \in Waiting
                THEN [sem |-> sem[t], units |-> units[t], mayWait |-> mayWait[t]]
                ELSE Counting!NoAsk
  BY DEF Ask, Counting!NoAsk

(* A step of t alone leaves what the others ask.                           *)
LEMMA OthersAsk ==
    ASSUME NEW t \in Threads,
           \A u \in Threads : u # t => /\ semPc'[u] \in Waiting <=> semPc[u] \in Waiting
                                       /\ sem'[u] = sem[u]
                                       /\ units'[u] = units[u]
                                       /\ mayWait'[u] = mayWait[u]
    PROVE  Ask' = [Ask EXCEPT ![t] = Ask'[t]] /\ \A u \in Threads \ {t} : Ask'[u] = Ask[u]
  BY DEF Ask

LEMMA CountInit == SemInit => Counting!SInit
  BY DEF SemInit, Counting!SInit, Counting!NoAsk, Waiting

(* A call that is granted, refused or let through leaves its request; the  *)
(* units are taken by the compare-and-swap, and given by the atomic add.   *)
LEMMA CountStep ==
    ASSUME SemIInv, SemIInv', [SemNext]_semVars
    PROVE  [Counting!SNext]_(Counting!svars)
  <1> DEFINE Stutter == count' = count /\ Ask' = Ask
  <1> USE SemBounds DEF tabVars, callVars
  <1>0. Stutter => UNCHANGED Counting!svars
    BY DEF Ask, Counting!svars
  <1>a. ASSUME NEW t \in Threads, semPc[t] \notin Waiting, semPc'[t] \notin Waiting,
               \A u \in Threads : u # t => /\ semPc'[u] \in Waiting <=> semPc[u] \in Waiting
                                           /\ sem'[u] = sem[u]
                                           /\ units'[u] = units[u]
                                           /\ mayWait'[u] = mayWait[u]
        PROVE  Ask' = Ask
    BY <1>a DEF Ask
  <1>b. /\ semPc \in [Threads -> {"idle", "make", "wake"} \cup Waiting]
        /\ sem \in [Threads -> 0..MAXSEM] /\ units \in [Threads -> Units \cup {0}]
        /\ mayWait \in [Threads -> BOOLEAN] /\ count \in [Slots -> -1..MaxCount]
        /\ \A i \in Slots : (count[i] = -1 <=> name[i] = Free)
    BY DEF SemIInv, SemTypeOK
  <1>c. ASSUME NEW t \in Threads, sem[t] # 0
        PROVE  sem[t] \in Slots /\ count[sem[t]] \in Int /\ count[sem[t]] >= 0
    <2>1. sem[t] \in Slots /\ name[sem[t]] # Free
      BY <1>b, <1>c DEF SemIInv, Known, Slots
    <2> QED BY <1>b, <2>1
  <1>1. CASE UNCHANGED semVars
    BY <1>0, <1>1 DEF semVars, Ask
  <1>2. ASSUME NEW t \in Threads, NEW n \in Names, NEW c \in 0..MaxCount,
               SemMake(t, n, c), Ask' = Ask
        PROVE  [Counting!SNext]_(Counting!svars)
    <2>1. CASE UNCHANGED tabVars
      BY <1>0, <1>2, <2>1
    <2>2. ASSUME NEW i \in Slots, name[i] = Free, count' = [count EXCEPT ![i] = c]
          PROVE  Counting!Make(i)
      <3>1. count[i] = -1 /\ count'[i] = c /\ c \in Nat
        BY <1>b, <2>2
      <3>2. count' = [count EXCEPT ![i] = count'[i]]
        BY <2>2, <3>1
      <3>3. ~ Counting!Exists(i) /\ Counting!Exists(i)'
        BY <3>1 DEF Counting!Exists
      <3> QED BY <1>2, <3>2, <3>3 DEF Counting!Make, Ask
    <2> QED BY <1>2, <2>1, <2>2, MakeCases DEF Counting!SNext
  <1>3. ASSUME NEW t \in Threads, Sm_create(t) PROVE [Counting!SNext]_(Counting!svars)
    <2>1. PICK n \in Names, c \in 0..MaxCount : SemMake(t, n, c)
      BY <1>3, SemAssumption DEF Sm_create
    <2>2. \A u \in Threads : u # t => sem'[u] = sem[u]
      BY <2>1, MakeStep
    <2>3. semPc[t] = "idle" /\ UNCHANGED <<callVars, semPc>>
      BY <1>3 DEF Sm_create
    <2>4. Ask' = Ask
      BY <1>a, <2>2, <2>3 DEF Waiting
    <2> QED BY <1>2, <2>1, <2>4
  <1>4. ASSUME NEW t \in Threads, MakeMissing(t) PROVE [Counting!SNext]_(Counting!svars)
    <2>1. arg[t] \in Names /\ AutoCount \in 0..MaxCount
      BY <1>4, SemAssumption DEF MakeMissing, SemIInv, Working
    <2>2. \A u \in Threads : u # t => sem'[u] = sem[u]
      BY <1>4, <2>1, MakeStep DEF MakeMissing
    <2>3. /\ semPc[t] = "make" /\ semPc' = [semPc EXCEPT ![t] = "idle"]
          /\ UNCHANGED <<units, mayWait>>
      BY <1>4 DEF MakeMissing, SemGoto
    <2>4. Ask' = Ask
      BY <1>a, <1>b, <2>2, <2>3 DEF Waiting
    <2> QED BY <1>2, <1>4, <2>1, <2>4 DEF MakeMissing
  <1>5. ASSUME NEW t \in Threads, Sm_ident(t) PROVE [Counting!SNext]_(Counting!svars)
    <2>1. /\ semPc[t] = "idle"
          /\ semPc' = semPc \/ SemGoto(t, "make")
          /\ UNCHANGED <<count, units, mayWait>>
          /\ \A u \in Threads : u # t => sem'[u] = sem[u]
      BY <1>5, <1>b DEF Sm_ident
    <2>2. Ask' = Ask
      <3>1. /\ semPc[t] \notin Waiting /\ semPc'[t] \notin Waiting
            /\ \A u \in Threads : u # t => semPc'[u] = semPc[u]
        BY <1>b, <2>1 DEF SemGoto, Waiting
      <3> QED BY <1>a, <2>1, <3>1
    <2> QED BY <1>0, <2>1, <2>2
  <1>6. ASSUME NEW t \in Threads, Sm_request(t) PROVE [Counting!SNext]_(Counting!svars)
    <2>1. PICK u \in Units, w \in BOOLEAN :
             /\ units' = [units EXCEPT ![t] = u]
             /\ mayWait' = [mayWait EXCEPT ![t] = w]
      BY <1>6 DEF Sm_request
    <2>2. /\ semPc[t] = "idle" /\ semPc' = [semPc EXCEPT ![t] = "load"] /\ sem[t] # 0
          /\ UNCHANGED <<count, sem>>
      BY <1>6 DEF Sm_request, SemGoto
    <2>3. Ask[t] = Counting!NoAsk /\ Ask'[t] = [sem |-> sem[t], units |-> u, mayWait |-> w]
      BY <1>b, <2>1, <2>2 DEF Ask, Counting!NoAsk, Waiting
    <2>4. \A v \in Threads \ {t} : Ask'[v] = Ask[v]
      BY <1>b, <2>1, <2>2, OthersAsk
    <2>5. Counting!Request(t)
      <3>1. Ask'[t].sem = sem[t] /\ Ask'[t].units > 0
        BY <2>3
      <3>2. Ask' # Ask
        BY <2>2, <2>3 DEF Counting!NoAsk
      <3> QED BY <1>c, <2>2, <2>3, <2>4, <3>1, <3>2
              DEF Ask, Counting!Request, Counting!Exists
    <2> QED BY <2>5 DEF Counting!SNext
  <1>7. ASSUME NEW t \in Threads, LoadCount(t) PROVE [Counting!SNext]_(Counting!svars)
    <2>1. semPc[t] = "load" /\ sem[t] # 0 /\ units[t] \in Nat /\ sem' = sem /\ count' = count
      BY <1>7, <1>b DEF LoadCount, Leave, SemIInv, Working, Waiting
    <2>2. CASE /\ semPc' \in {[semPc EXCEPT ![t] = l] : l \in Waiting}
               /\ UNCHANGED <<units, mayWait>>
      <3>1. semPc'[t] \in Waiting /\ \A u \in Threads : u # t => semPc'[u] = semPc[u]
        BY <1>b, <2>2
      <3>2. Ask' = Ask
        BY <2>1, <2>2, <3>1 DEF Ask, Waiting
      <3> QED BY <1>0, <2>1, <3>2
    <2>3. CASE Leave(t) /\ count[sem[t]] < units[t] /\ (~ mayWait[t] \/ t \in Forced)
      <3>1. /\ Ask[t] = [sem |-> sem[t], units |-> units[t], mayWait |-> mayWait[t]]
            /\ Ask'[t] = Counting!NoAsk
        BY <1>b, <2>1, <2>3 DEF Leave, SemGoto, Ask, Counting!NoAsk, Waiting
      <3>2. Ask' = [Ask EXCEPT ![t] = Counting!NoAsk]
        BY <1>b, <2>3, <3>1, OthersAsk DEF Leave, SemGoto
      <3>3. Ask[t] # Counting!NoAsk
        BY <2>1, <3>1 DEF Counting!NoAsk
      <3>4. Counting!Refuse(t) \/ Counting!LetThrough(t)
        BY <2>1, <2>3, <3>1, <3>2, <3>3 DEF Counting!Refuse, Counting!LetThrough, Ask
      <3> QED BY <3>4 DEF Counting!SNext
    <2>4. count[sem[t]] \in Int
      BY <1>c, <2>1
    <2> QED BY <1>7, <2>1, <2>2, <2>3, <2>4 DEF LoadCount, SemGoto, Waiting
  <1>8. ASSUME NEW t \in Threads, TakeUnits(t) PROVE [Counting!SNext]_(Counting!svars)
    <2>1. /\ semPc[t] = "cas" /\ sem[t] # 0 /\ units[t] \in Nat /\ sem' = sem
          /\ seen[t] >= units[t]
      BY <1>8, <1>b DEF TakeUnits, SemIInv, Working, Waiting
    <2>2. CASE count[sem[t]] = seen[t]
      <3>1. /\ semPc' = [semPc EXCEPT ![t] = "idle"]
            /\ units' = [units EXCEPT ![t] = 0] /\ mayWait' = [mayWait EXCEPT ![t] = FALSE]
            /\ count' = [count EXCEPT ![sem[t]] = @ - units[t]]
        BY <1>8, <2>2 DEF TakeUnits, SemGoto
      <3>2. /\ Ask[t] = [sem |-> sem[t], units |-> units[t], mayWait |-> mayWait[t]]
            /\ Ask'[t] = Counting!NoAsk
        BY <1>b, <2>1, <3>1 DEF Ask, Counting!NoAsk, Waiting
      <3>3. Ask' = [Ask EXCEPT ![t] = Counting!NoAsk]
        BY <1>b, <2>1, <3>1, <3>2, OthersAsk
      <3>4. Ask[t] # Counting!NoAsk
        BY <2>1, <3>2 DEF Counting!NoAsk
      <3>5. Counting!Grant(t)
        BY <2>1, <2>2, <3>1, <3>2, <3>3, <3>4 DEF Counting!Grant, Ask
      <3> QED BY <3>5 DEF Counting!SNext
    <2>3. CASE count[sem[t]] # seen[t]
      <3>1. semPc' = [semPc EXCEPT ![t] = "load"] /\ UNCHANGED <<count, units, mayWait>>
        BY <1>8, <2>3 DEF TakeUnits, SemGoto
      <3>2. Ask' = Ask
        BY <1>b, <2>1, <3>1 DEF Ask, Waiting
      <3> QED BY <1>0, <3>1, <3>2
    <2> QED BY <2>2, <2>3
  <1>9. ASSUME NEW t \in Threads, SemFutexWait(t) \/ SemDisturbed(t)
        PROVE  [Counting!SNext]_(Counting!svars)
    <2>1. /\ semPc[t] \in Waiting /\ semPc'[t] \in Waiting
          /\ \A u \in Threads : u # t => semPc'[u] = semPc[u]
          /\ UNCHANGED <<count, sem, units, mayWait>>
      BY <1>9, <1>b DEF SemFutexWait, SemDisturbed, SemGoto, Waiting
    <2>2. Ask' = Ask
      BY <2>1 DEF Ask
    <2> QED BY <1>0, <2>1, <2>2
  <1>10. ASSUME NEW t \in Threads, Sm_release(t) PROVE [Counting!SNext]_(Counting!svars)
    <2>1. PICK u \in Units : count' = [count EXCEPT ![sem[t]] = count[sem[t]] + u]
      BY <1>10 DEF Sm_release
    <2>2. /\ semPc[t] = "idle" /\ semPc' = [semPc EXCEPT ![t] = "wake"] /\ sem[t] # 0
          /\ UNCHANGED <<sem, units, mayWait>>
      BY <1>10 DEF Sm_release, SemGoto
    <2>3. Ask' = Ask
      BY <1>a, <1>b, <2>2 DEF Waiting
    <2>4. /\ sem[t] \in Slots /\ count[sem[t]] \in Int /\ count[sem[t]] >= 0
          /\ u \in Nat /\ u > 0
      BY <1>c, <2>2
    <2>5. count'[sem[t]] = count[sem[t]] + u
      BY <1>b, <2>1, <2>4
    <2>6. /\ count'[sem[t]] > count[sem[t]]
          /\ count' = [count EXCEPT ![sem[t]] = count'[sem[t]]]
      <3>1. count'[sem[t]] > count[sem[t]]
        BY <2>4, <2>5
      <3>2. count' = [count EXCEPT ![sem[t]] = count'[sem[t]]]
        BY <2>1, <2>5
      <3> QED BY <3>1, <3>2
    <2>7. Counting!Release(sem[t])
      BY <2>3, <2>4, <2>6 DEF Counting!Release, Counting!Exists, Ask
    <2> QED BY <2>4, <2>7 DEF Counting!SNext
  <1>11. ASSUME NEW t \in Threads, WakeAll(t) PROVE [Counting!SNext]_(Counting!svars)
    <2>1. /\ \A u \in Threads : semPc'[u] \in Waiting <=> semPc[u] \in Waiting
          /\ UNCHANGED <<count, sem, units, mayWait>>
      BY <1>11, <1>b DEF WakeAll, SemSleepers, Waiting
    <2>2. Ask' = Ask
      BY <2>1 DEF Ask
    <2> QED BY <1>0, <2>1, <2>2
  <1> QED BY <1>1, <1>3, <1>4, <1>5, <1>6, <1>7, <1>8, <1>9, <1>10, <1>11 DEF SemNext, SemStep

(* The runtime's semaphores are counting semaphores, as far as safety goes. *)
THEOREM SemImplements == SemSpec => ImplementsCounting
  <1>1. SemInit => Counting!SInit
    BY CountInit
  <1>2. SemIInv /\ SemIInv' /\ [SemNext]_semVars => [Counting!SNext]_(Counting!svars)
    BY CountStep
  <1> QED BY <1>1, <1>2, SemInvariance, PTL DEF SemSpec, ImplementsCounting, Counting!SSpec

-----------------------------------------------------------------------------
(* The two steps of unlock()                                               *)

(* A word that is 1 has a holder.                                          *)
Taken == word = 1 => Holders # {}

(* A signal routine runs inside lock() or unlock(), and on top of a frame  *)
(* that is not asleep any more.                                            *)
Framed ==
    \A p \in Procs :
        /\ outer[p] # "asleep"
        /\ outer[p] # "none" => lockPc[p] \in {"try", "wait", "asleep", "cs", "wake", "dead"}

WakeInv == LockIInv /\ Taken /\ Framed /\ NoLostWakeup

LEMMA WakeInit == LockInit => WakeInv
  BY LockInitInv DEF LockInit, WakeInv, Taken, Framed, NoLostWakeup, Sleepers, At

LEMMA FramedStep == LockTypeOK /\ Framed /\ [LockNext]_lockVars => Framed'
  <1> SUFFICES ASSUME LockTypeOK, Framed, [LockNext]_lockVars PROVE Framed'
    OBVIOUS
  <1> USE DEF LockTypeOK, Framed, LockGoto
  <1>1. CASE UNCHANGED lockVars
    BY <1>1 DEF lockVars
  <1>2. ASSUME NEW p \in Procs, LockStep(p) PROVE Framed'
    <2>1. CASE Elect(p) \/ InitSegment(p) \/ Publish(p) \/ SpinDone(p)
      BY <2>1 DEF Elect, InitSegment, Publish, SpinDone
    <2>2. CASE Exchange(p) \/ LockFutexWait(p) \/ Release(p)
      BY <2>2 DEF Exchange, LockFutexWait, Release
    <2>3. CASE WakeOne(p)
      BY <2>3 DEF WakeOne, Return, Sleepers, At
    <2> QED BY <1>2, <2>1, <2>2, <2>3 DEF LockStep
  <1>3. ASSUME NEW p \in Procs, Call(p) \/ Interrupted(p) \/ Signal(p) \/ Die(p) PROVE Framed'
    BY <1>3 DEF Call, Interrupted, Signal, Die, Running
  <1> QED BY <1>1, <1>2, <1>3 DEF LockNext

(* The word is stored 1 by a thread that gets the lock, or while another   *)
(* has it; a holder that is interrupted or killed stays one.               *)
LEMMA TakenStep == LockIInv /\ Taken /\ [LockNext]_lockVars => Taken'
  <1> SUFFICES ASSUME LockIInv, Taken, [LockNext]_lockVars, word' = 1
               PROVE  \E q \in Procs : lockPc'[q] = "cs" \/ outer'[q] = "cs"
    BY DEF Taken, Holders
  <1> USE DEF LockIInv, LockTypeOK, LockGoto, Holders
  <1>1. CASE UNCHANGED lockVars
    BY <1>1 DEF lockVars, Taken
  <1>2. ASSUME NEW p \in Procs, Exchange(p), word = 0
        PROVE  \E q \in Procs : lockPc'[q] = "cs" \/ outer'[q] = "cs"
    BY <1>2 DEF Exchange
  <1>3. ASSUME NEW p \in Procs, InitSegment(p) \/ Release(p) PROVE FALSE
    BY <1>3 DEF InitSegment, Release
  <1>4. ASSUME word = 1, NEW p \in Procs,
               LockStep(p) \/ Call(p) \/ Interrupted(p) \/ Signal(p) \/ Die(p)
        PROVE  \E q \in Procs : lockPc'[q] = "cs" \/ outer'[q] = "cs"
    <2>1. PICK q \in Procs : lockPc[q] = "cs" \/ outer[q] = "cs"
      BY <1>4 DEF Taken
    <2>2. CASE Elect(p) \/ Publish(p) \/ SpinDone(p) \/ Exchange(p) \/ LockFutexWait(p)
      BY <2>1, <2>2 DEF Elect, Publish, SpinDone, Exchange, LockFutexWait
    <2>3. CASE WakeOne(p)
      <3>1. CASE q = p
        BY <2>1, <2>3, <3>1 DEF WakeOne, Return, Sleepers, At
      <3>2. CASE q # p
        BY <2>1, <2>3, <3>2 DEF WakeOne, Sleepers, At
      <3> QED BY <3>1, <3>2
    <2>4. CASE Call(p) \/ Interrupted(p) \/ Signal(p) \/ Die(p)
      BY <2>1, <2>4 DEF Call, Interrupted, Signal, Die
    <2> QED BY <1>3, <1>4, <2>2, <2>3, <2>4 DEF LockStep
  <1>5. word = 0 \/ word = 1
    OBVIOUS
  <1>6. ASSUME NEW p \in Procs, word = 0,
               \/ Elect(p) \/ Publish(p) \/ SpinDone(p) \/ LockFutexWait(p) \/ WakeOne(p)
               \/ Call(p) \/ Interrupted(p) \/ Signal(p) \/ Die(p)
        PROVE  FALSE
    BY <1>6 DEF Elect, Publish, SpinDone, LockFutexWait, WakeOne, Call, Interrupted, Signal, Die
  <1> QED BY <1>1, <1>2, <1>3, <1>4, <1>5, <1>6 DEF LockNext, LockStep

(* Somebody is there to wake the sleepers.                                 *)
Awaited == At("try") \cup At("cs") \cup At("wake") # {} \/ Disaster

(* Whoever stores 0 has yet to wake a sleeper, and a sleeper that is woken *)
(* tries again; the thread that makes the last of them sleep found the     *)
(* word 1.                                                                 *)
LEMMA WakeStep ==
    ASSUME WakeInv, LockIInv', Taken', Framed', [LockNext]_lockVars
    PROVE  NoLostWakeup'
  <1> SUFFICES ASSUME Sleepers' # {} PROVE Awaited'
    BY DEF NoLostWakeup, Awaited
  <1> USE DEF WakeInv, LockIInv, LockTypeOK, LockGoto
  <1>1. CASE word' = 1
    \* The holder is on its way to unlock(), or will never get there.
    <2>1. PICK p \in Procs : lockPc'[p] = "cs" \/ outer'[p] = "cs"
      BY <1>1 DEF Taken, Holders
    <2> QED BY <2>1 DEF Framed, Awaited, At, Disaster, SelfBlocked
  <1>2. CASE word' = 0
    <2>0. word = 0 => ~ \E p \in Procs : SelfBlocked(p)
      BY DEF Locking, Holders, SelfBlocked
    <2>1. CASE UNCHANGED lockVars
      BY <2>1 DEF lockVars, NoLostWakeup, Awaited, Sleepers, At, Disaster, SelfBlocked
    <2>2. ASSUME NEW p \in Procs, InitSegment(p) PROVE FALSE
      BY <2>2 DEF InitSegment, Election, Sleepers, At, Running
    <2>3. ASSUME NEW p \in Procs,
                 Call(p) \/ Interrupted(p) \/ Signal(p) \/ Release(p) \/ LockFutexWait(p)
          PROVE  Awaited'
      BY <1>2, <2>3 DEF Call, Interrupted, Signal, Release, LockFutexWait, Awaited, At
    <2>4. ASSUME NEW p \in Procs, Die(p) PROVE Awaited'
      BY <2>4 DEF Die, Awaited, Disaster
    <2>5. ASSUME NEW p \in Procs, Exchange(p) PROVE FALSE
      BY <1>2, <2>5 DEF Exchange
    <2>6. ASSUME NEW p \in Procs, WakeOne(p) PROVE Awaited'
      <3>1. CASE Sleepers = {}
        <4>1. lockPc' = [lockPc EXCEPT ![p] = Return(p)] /\ Return(p) # "asleep"
          BY <2>6, <3>1 DEF WakeOne, Return, Framed
        <4>2. Sleepers' = {}
          BY <3>1, <4>1 DEF Sleepers, At
        <4> QED BY <4>2
      <3>2. CASE Sleepers # {}
        <4>1. PICK q \in Sleepers : lockPc' = [lockPc EXCEPT ![p] = Return(p), ![q] = "try"]
          BY <2>6, <3>2 DEF WakeOne
        <4>2. q \in Procs /\ lockPc'[q] = "try"
          BY <4>1 DEF Sleepers, At
        <4> QED BY <4>2 DEF Awaited, At
      <3> QED BY <3>1, <3>2
    <2>7. ASSUME NEW p \in Procs, Elect(p) \/ Publish(p) \/ SpinDone(p) PROVE Awaited'
      <3>1. /\ word = 0
            /\ \A q \in Procs : /\ lockPc[q] = "asleep" <=> lockPc'[q] = "asleep"
                                /\ lockPc[q] \in {"try", "cs", "wake", "dead"}
                                     => lockPc'[q] = lockPc[q]
        BY <1>2, <2>7 DEF Elect, Publish, SpinDone
      <3>2. Awaited
        BY <3>1 DEF NoLostWakeup, Awaited, Sleepers, At
      <3> QED BY <2>0, <3>1, <3>2 DEF Awaited, At, Disaster
    <2> QED BY <2>1, <2>2, <2>3, <2>4, <2>5, <2>6, <2>7 DEF LockNext, LockStep
  <1> QED BY <1>1, <1>2

LEMMA WakeInvStep == WakeInv /\ [LockNext]_lockVars => WakeInv'
  <1> SUFFICES ASSUME WakeInv, [LockNext]_lockVars PROVE WakeInv'
    OBVIOUS
  <1>1. LockIInv' /\ Taken' /\ Framed'
    BY LockIInvStep, TakenStep, FramedStep DEF WakeInv, LockIInv
  <1> QED BY <1>1, WakeStep DEF WakeInv

(* lock() and the two-step unlock() lose no wakeup: while somebody sleeps  *)
(* on the word, somebody else will wake a sleeper or hold the lock first.  *)
THEOREM WakeupKept == LockSpec => []NoLostWakeup
  <1>1. WakeInv => NoLostWakeup
    BY DEF WakeInv
  <1> QED BY <1>1, WakeInit, WakeInvStep, PTL DEF LockSpec

-----------------------------------------------------------------------------
(* Async signals                                                           *)

(* A bit that becomes enabled and pending has its signal raised, and the   *)
(* handler takes all that are.                                             *)
LEMMA AsyncStep == NoLostAsync /\ [AsNext]_asVars => NoLostAsync'
  <1> SUFFICES ASSUME NoLostAsync, [AsNext]_asVars, (asMask' \cup AsForced) \cap asPending' # {}
               PROVE  asKick' # {} \/ asCarrier' \/ asHandling'
    BY DEF NoLostAsync
  <1> DEFINE Enabled == (asMask \cup AsForced) \cap asPending
  <1>1. CASE UNCHANGED asVars
    BY <1>1 DEF asVars, NoLostAsync
  <1>2. ASSUME Enabled # {}, asKick \subseteq asKick', UNCHANGED <<asCarrier, asHandling>>
        PROVE  asKick' # {} \/ asCarrier' \/ asHandling'
    BY <1>2 DEF NoLostAsync
  <1>3. ASSUME NEW t, NEW bits, As_send(t, bits) PROVE asKick' # {} \/ asCarrier' \/ asHandling'
    <2>1. CASE AsTrig(bits) # {}
      BY <1>3, <2>1 DEF As_send
    <2>2. CASE AsTrig(bits) = {}
      <3>1. Enabled # {}
        BY <1>3, <2>2 DEF As_send, AsTrig
      <3> QED BY <1>2, <1>3, <2>2, <3>1 DEF As_send
    <2> QED BY <2>1, <2>2
  <1>4. ASSUME NEW op \in {"add", "set", "clear"}, NEW in, As_mask(op, in)
        PROVE  asKick' # {} \/ asCarrier' \/ asHandling'
    <2>1. CASE MaskTrig(op, in) # {}
      BY <1>4, <2>1 DEF As_mask
    <2>2. CASE MaskTrig(op, in) = {}
      <3>1. Enabled # {}
        <4>1. asPending' = asPending
          BY <1>4 DEF As_mask
        <4>2. CASE op = "add"
          <5>1. asMask' = asMask \cup in
            BY <1>4, <4>2 DEF As_mask
          <5>2. in \subseteq asMask \/ (in \ asMask) \cap asPending = {}
            BY <2>2, <4>2 DEF MaskTrig
          <5> QED BY <4>1, <5>1, <5>2
        <4>3. CASE op = "set"
          <5>1. asMask' = in
            BY <1>4, <4>3 DEF As_mask
          <5>2. in \cap asPending = {}
            BY <2>2, <4>3 DEF MaskTrig
          <5> QED BY <4>1, <5>1, <5>2
        <4>4. CASE op = "clear"
          <5>1. asMask' = asMask \ in
            BY <1>4, <4>4 DEF As_mask
          <5> QED BY <4>1, <5>1
        <4> QED BY <4>2, <4>3, <4>4
      <3> QED BY <1>2, <1>4, <2>2, <3>1 DEF As_mask
    <2> QED BY <2>1, <2>2
  <1>5. ASSUME NEW req, As_read(req) PROVE asKick' # {} \/ asCarrier' \/ asHandling'
    <2>1. Enabled # {}
      BY <1>5 DEF As_read
    <2> QED BY <1>2, <1>5, <2>1 DEF As_read
  <1>6. ASSUME NEW t, AsKick(t) PROVE asCarrier'
    BY <1>6 DEF AsKick
  <1>7. AsDeliver => asHandling'
    BY DEF AsDeliver
  <1>8. ~ AsCatch
    BY DEF AsCatch, AsCaught
  <1> QED BY <1>1, <1>3, <1>4, <1>5, <1>6, <1>7, <1>8 DEF AsNext

(* No signal of an enabled bit is lost, the forced bits included, however  *)
(* sending, masking and reading are interleaved with the carrier.          *)
THEOREM AsyncKept == AsSpec => []NoLostAsync
  <1>1. AsInit => NoLostAsync
    BY DEF AsInit, NoLostAsync
  <1> QED BY <1>1, AsyncStep, PTL DEF AsSpec

-----------------------------------------------------------------------------
(* The set-up of a process                                                 *)

\* The threads between taking and giving back the guard of their process.
Guarded == {"again", "read", "map", "set", "leave"}

(* One thread of a process at a time is under its guard; a process is set  *)
(* up when its flag is TRUE or that thread has set it up.                  *)
IiInv ==
    /\ iiPc \in [IiThreads -> {"call", "spin", "done"} \cup Guarded]
    /\ g_inited \in [IiProcesses -> BOOLEAN] /\ g_guard \in [IiProcesses -> {0, 1}]
    /\ settings \in [IiProcesses -> BOOLEAN] /\ control \in [IiProcesses -> BOOLEAN]
    /\ alive \in BOOLEAN /\ runs \in [IiProcesses -> {0, 1}]
    /\ \A t \in IiThreads : iiPc[t] \in Guarded => g_guard[iiProcess[t]] = 1
    /\ \A t, u \in IiThreads :
         iiPc[t] \in Guarded /\ iiPc[u] \in Guarded /\ iiProcess[t] = iiProcess[u] => t = u
    /\ \A t \in IiThreads :
         /\ iiPc[t] = "read" => runs[iiProcess[t]] = 0
         /\ iiPc[t] \in {"map", "set"} => settings[iiProcess[t]]
         /\ iiPc[t] = "set" => control[iiProcess[t]] /\ (iiProcess[t] = HwServer => alive)
         /\ iiPc[t] \in {"leave", "done"} => g_inited[iiProcess[t]]
    /\ \A p \in IiProcesses :
         /\ g_inited[p] => settings[p] /\ control[p] /\ (p = HwServer => alive)
         /\ runs[p] = 1 /\ ~ g_inited[p]
              => \E t \in IiThreads : iiProcess[t] = p /\ iiPc[t] \in {"map", "set"}

LEMMA IiInvInit == IiInit => IiInv
  <1> SUFFICES ASSUME IiInit PROVE IiInv
    OBVIOUS
  <1>1. \A t \in IiThreads : iiPc[t] = "call"
    BY DEF IiInit
  <1>2. \A p \in IiProcesses : ~ g_inited[p] /\ runs[p] = 0
    BY DEF IiInit
  <1>3. /\ iiPc \in [IiThreads -> {"call", "spin", "done"} \cup Guarded]
        /\ g_inited \in [IiProcesses -> BOOLEAN] /\ g_guard \in [IiProcesses -> {0, 1}]
        /\ settings \in [IiProcesses -> BOOLEAN] /\ control \in [IiProcesses -> BOOLEAN]
        /\ alive \in BOOLEAN /\ runs \in [IiProcesses -> {0, 1}]
    BY DEF IiInit
  <1> QED BY <1>1, <1>2, <1>3 DEF IiInv, Guarded

LEMMA IiInvStep == IiInv /\ [IiNext]_iiVars => IiInv'
  <1> SUFFICES ASSUME IiInv, [IiNext]_iiVars PROVE IiInv'
    OBVIOUS
  <1> USE DEF IiInv, IiGo, Guarded
  <1>1. CASE UNCHANGED iiVars
    BY <1>1 DEF iiVars
  <1>2. ASSUME NEW t \in IiThreads, IiStep(t) PROVE IiInv'
    <2>0. iiProcess[t] \in IiProcesses
      BY DEF IiProcesses
    <2>1. CASE IiLook(t)
      BY <2>0, <2>1 DEF IiLook
    <2>2. CASE IiSpin(t)
      BY <2>0, <2>2 DEF IiSpin
    <2>3. CASE IiAgain(t)
      BY <2>0, <2>3 DEF IiAgain
    <2>4. CASE IiRead(t)
      BY <2>0, <2>4 DEF IiRead
    <2>5. CASE IiMap(t)
      BY <2>0, <2>5 DEF IiMap
    <2>6. CASE IiSet(t)
      BY <2>0, <2>6 DEF IiSet
    <2>7. CASE IiLeave(t)
      BY <2>0, <2>7 DEF IiLeave
    <2> QED BY <1>2, <2>1, <2>2, <2>3, <2>4, <2>5, <2>6, <2>7 DEF IiStep
  <1> QED BY <1>1, <1>2 DEF IiNext

LEMMA IiInvSound == IiInv => SetUpOnce
  <1> SUFFICES ASSUME IiInv PROVE SetUpOnce
    OBVIOUS
  <1>1. \A t \in IiThreads : iiProcess[t] \in IiProcesses
    BY DEF IiProcesses
  <1>2. \A p \in IiProcesses : runs[p] <= 1
    <2>1. \A p \in IiProcesses : runs[p] \in {0, 1}
      BY DEF IiInv
    <2> QED BY <2>1
  <1> QED BY <1>1, <1>2 DEF IiInv, SetUpOnce

(* A process is set up once, whichever of its threads calls first, and no  *)
(* call of it goes on before it is.                                        *)
THEOREM SetUp == IiInit /\ [][IiNext]_iiVars => []SetUpOnce
  BY IiInvInit, IiInvStep, IiInvSound, PTL

-----------------------------------------------------------------------------
(* The timer threads                                                       *)

\* The tasks between the check of the cap and the count.
InStart == {t \in TmTasks : TmAt(t, "create") \/ TmAt(t, "count")}

TmTypeOK ==
    /\ tmPc \in [TmTasks -> [at : {"idle", "sleep"}]
                            \cup [at : {"check", "create", "count"}, bit : TmBits]]
    /\ tmThreads \in [TmTasks -> [TmBits -> Nat]]
    /\ n_ptimer \in Nat

(* A task that has passed the check is over the cap by itself at most: the *)
(* count it read was below.                                                *)
TmInv ==
    /\ TmTypeOK
    /\ IsFiniteSet(TmLive)
    /\ Cardinality(TmLive) = n_ptimer + Cardinality(InCount)
    /\ n_ptimer + Cardinality(InStart) <= TmCap + Cardinality(TmTasks) - 1

(* A task enters a set of tasks, or leaves it.                             *)
LEMMA Enters ==
    ASSUME NEW S, S \subseteq TmTasks, NEW t \in TmTasks \ S
    PROVE  Cardinality(S \cup {t}) = Cardinality(S) + 1 /\ Cardinality(S) \in Nat
  <1>1. IsFiniteSet(S)
    BY TimersAssumption, FS_Subset
  <1> QED BY <1>1, FS_AddElement, FS_CardinalityType

LEMMA Leaves ==
    ASSUME NEW S, S \subseteq TmTasks, NEW t \in S
    PROVE  /\ Cardinality(S \ {t}) = Cardinality(S) - 1
           /\ Cardinality(S) \in Nat /\ Cardinality(S \ {t}) \in Nat
  <1>1. IsFiniteSet(S) /\ IsFiniteSet(S \ {t})
    BY TimersAssumption, FS_Subset
  <1> QED BY <1>1, FS_RemoveElement, FS_CardinalityType

LEMMA Within ==
    ASSUME NEW S, S \subseteq TmTasks
    PROVE  /\ Cardinality(S) \in Nat /\ Cardinality(TmTasks) \in Nat
           /\ Cardinality(S) <= Cardinality(TmTasks)
  <1>1. IsFiniteSet(S)
    BY TimersAssumption, FS_Subset
  <1> QED BY <1>1, TimersAssumption, FS_Subset, FS_CardinalityType

LEMMA TmInvInit == TmInit => TmInv
  <1> SUFFICES ASSUME TmInit PROVE TmInv
    OBVIOUS
  <1>1. TmTypeOK
    BY DEF TmInit, TmTypeOK, Idle
  <1>2. TmLive = {} /\ InCount = {} /\ InStart = {}
    BY DEF TmInit, TmLive, InCount, InStart, TmAt, Idle
  <1>3. IsFiniteSet({}) /\ Cardinality({}) = 0
    BY FS_EmptySet
  <1>4. Cardinality(TmTasks) \in Nat
    BY TimersAssumption, FS_CardinalityType
  <1> QED BY <1>1, <1>2, <1>3, <1>4, TimersAssumption DEF TmInv, TmInit

\* The places of a task in its call.
Resting  == [at : {"idle", "sleep"}]
Starting == [at : {"check", "create", "count"}, bit : TmBits]

LEMMA Places ==
    ASSUME TmTypeOK, NEW t \in TmTasks
    PROVE  /\ tmPc[t] \in Resting \cup Starting
           /\ tmPc[t].at \in {"check", "create", "count"}
                => tmPc[t].bit \in TmBits /\ tmPc[t] = [at |-> tmPc[t].at, bit |-> tmPc[t].bit]
  <1>1. tmPc[t] \in Resting \cup Starting
    BY DEF TmTypeOK, Resting, Starting
  <1>2. CASE tmPc[t] \in Resting
    BY <1>1, <1>2 DEF Resting
  <1>3. CASE tmPc[t] \in Starting
    BY <1>1, <1>3 DEF Starting
  <1> QED BY <1>1, <1>2, <1>3

\* t goes on to the place q; the timers are left alone.
Goes(t, q) == tmPc' = [tmPc EXCEPT ![t] = q]

LEMMA TmCases ==
    ASSUME TmTypeOK, NEW t \in TmTasks,
           \/ TmGoes(t) \/ TmTake(t)
           \/ \E bit \in TmBits : \/ Tm_evafter(t, bit) \/ Tm_evevery(t, bit)
                                  \/ PtimerTick(t, bit) \/ Tm_cancel(t, bit)
           \/ \E time \in TmSleeps : Tm_wkafter(t, time)
    PROVE  \/ /\ UNCHANGED <<tmThreads, n_ptimer>>
              /\ \/ UNCHANGED tmPc
                 \/ /\ tmPc[t].at \in {"idle", "sleep", "check"}
                    /\ \E q \in Resting : Goes(t, q)
                 \/ /\ tmPc[t].at = "idle"
                    /\ \E bit \in TmBits : Goes(t, [at |-> "check", bit |-> bit])
           \/ /\ UNCHANGED <<tmThreads, n_ptimer>>
              /\ tmPc[t].at = "check" /\ n_ptimer < TmCap
              /\ \E bit \in TmBits : Goes(t, [at |-> "create", bit |-> bit])
           \/ /\ UNCHANGED n_ptimer
              /\ tmPc[t].at = "create"
              /\ \E bit \in TmBits :
                   /\ tmThreads' = [tmThreads EXCEPT ![t][bit] = @ + 1]
                   /\ Goes(t, [at |-> "count", bit |-> bit])
           \/ /\ UNCHANGED tmThreads
              /\ tmPc[t].at = "count" /\ n_ptimer' = n_ptimer + 1 /\ Goes(t, Idle)
  <1> USE DEF Goes, TmAt
  <1>0. Idle \in Resting /\ [at |-> "sleep"] \in Resting
    BY DEF Idle, Resting
  <1>1. ASSUME PtimerCheck(t)
        PROVE  /\ UNCHANGED <<tmThreads, n_ptimer>> /\ tmPc[t].at = "check"
               /\ \/ Goes(t, Idle)
                  \/ /\ n_ptimer < TmCap
                     /\ \E bit \in TmBits : Goes(t, [at |-> "create", bit |-> bit])
    <2>1. UNCHANGED <<tmThreads, n_ptimer>> /\ tmPc[t].at = "check"
      BY <1>1 DEF PtimerCheck
    <2>2. CASE n_ptimer >= TmCap
      BY <1>1, <2>1, <2>2 DEF PtimerCheck, TmReturn
    <2>3. CASE ~ (n_ptimer >= TmCap)
      <3>1. tmPc' = [tmPc EXCEPT ![t].at = "create"]
        BY <1>1, <2>3 DEF PtimerCheck
      <3>2. tmPc[t].bit \in TmBits /\ tmPc[t] = [at |-> "check", bit |-> tmPc[t].bit]
        BY <2>1, Places
      <3>3. [tmPc[t] EXCEPT !.at = "create"] = [at |-> "create", bit |-> tmPc[t].bit]
        BY <3>2
      <3>4. Goes(t, [at |-> "create", bit |-> tmPc[t].bit])
        BY <3>1, <3>3
      <3>5. n_ptimer < TmCap
        BY <2>3, TimersAssumption DEF TmTypeOK
      <3> QED BY <2>1, <3>2, <3>4, <3>5
    <2> QED BY <2>2, <2>3
  <1>2. ASSUME PtimerCreate(t)
        PROVE  /\ UNCHANGED n_ptimer /\ tmPc[t].at = "create"
               /\ \E bit \in TmBits :
                    /\ tmThreads' = [tmThreads EXCEPT ![t][bit] = @ + 1]
                    /\ Goes(t, [at |-> "count", bit |-> bit])
    <2>1. /\ UNCHANGED n_ptimer /\ tmPc[t].at = "create"
          /\ tmThreads' = [tmThreads EXCEPT ![t][tmPc[t].bit] = @ + 1]
          /\ tmPc' = [tmPc EXCEPT ![t] = [@ EXCEPT !.at = "count"]]
      BY <1>2 DEF PtimerCreate
    <2>2. tmPc[t].bit \in TmBits /\ tmPc[t] = [at |-> "create", bit |-> tmPc[t].bit]
      BY <2>1, Places
    <2>3. [tmPc[t] EXCEPT !.at = "count"] = [at |-> "count", bit |-> tmPc[t].bit]
      BY <2>2
    <2>4. Goes(t, [at |-> "count", bit |-> tmPc[t].bit])
      BY <2>1, <2>3
    <2> QED BY <2>1, <2>2, <2>4
  <1>3. ASSUME PtimerCount(t)
        PROVE  /\ UNCHANGED tmThreads /\ tmPc[t].at = "count" /\ n_ptimer' = n_ptimer + 1
               /\ Goes(t, Idle)
    BY <1>3 DEF PtimerCount, TmReturn
  <1>4. ASSUME TmPass(t)
        PROVE  /\ UNCHANGED <<tmThreads, n_ptimer>> /\ tmPc[t].at = "sleep"
               /\ UNCHANGED tmPc \/ Goes(t, Idle)
    BY <1>4 DEF TmPass
  <1>5. ASSUME NEW bit \in TmBits, NEW every \in BOOLEAN, TmFire(t, bit, every)
        PROVE  /\ UNCHANGED <<tmThreads, n_ptimer>> /\ tmPc[t].at = "idle"
               /\ Goes(t, Idle) \/ Goes(t, [at |-> "check", bit |-> bit])
    BY <1>5 DEF TmFire, TmCall
  <1>6. ASSUME NEW time, Tm_wkafter(t, time)
        PROVE  /\ UNCHANGED <<tmThreads, n_ptimer>> /\ tmPc[t].at = "idle"
               /\ Goes(t, [at |-> "sleep"])
    BY <1>6 DEF Tm_wkafter, TmCall
  <1>7. ASSUME NEW bit, TmTake(t) \/ PtimerTick(t, bit) \/ Tm_cancel(t, bit)
        PROVE  UNCHANGED <<tmThreads, n_ptimer, tmPc>>
    BY <1>7 DEF TmTake, PtimerTick, Tm_cancel
  <1>8. CASE TmGoes(t)
    BY <1>0, <1>1, <1>2, <1>3, <1>4, <1>8 DEF TmGoes
  <1>9. CASE TmTake(t)
    BY <1>7, <1>9
  <1>10. ASSUME NEW bit \in TmBits,
                Tm_evafter(t, bit) \/ Tm_evevery(t, bit) \/ PtimerTick(t, bit) \/ Tm_cancel(t, bit)
         PROVE  /\ UNCHANGED <<tmThreads, n_ptimer>>
                /\ \/ UNCHANGED tmPc
                   \/ /\ tmPc[t].at \in {"idle", "sleep", "check"}
                      /\ \E q \in Resting : Goes(t, q)
                   \/ /\ tmPc[t].at = "idle"
                      /\ \E c \in TmBits : Goes(t, [at |-> "check", bit |-> c])
    <2>1. CASE PtimerTick(t, bit) \/ Tm_cancel(t, bit)
      BY <1>7, <2>1
    <2>2. CASE Tm_evafter(t, bit) \/ Tm_evevery(t, bit)
      BY <1>0, <1>5, <2>2 DEF Tm_evafter, Tm_evevery
    <2> QED BY <1>10, <2>1, <2>2
  <1> QED BY <1>0, <1>6, <1>8, <1>9, <1>10

LEMMA Ticking ==
    ASSUME NEW x
    PROVE  x \in TmLive <=> \E c \in TmTasks \X TmBits :
                              \E k \in 1..tmThreads[c[1]][c[2]] : x = <<c, k>>
  <1>1. x \in TmLive <=> \E c \in TmTasks \X TmBits :
                           x \in {<<c, k>> : k \in 1..tmThreads[c[1]][c[2]]}
    BY SMT DEF TmLive
  <1> QED BY <1>1

LEMMA TmInvStep ==
    ASSUME TmInv, [TmNext]_tmVars
    PROVE  TmInv'
  <1> USE TimersAssumption
  <1>0. /\ TmTypeOK /\ IsFiniteSet(TmLive) /\ n_ptimer \in Nat
        /\ Cardinality(TmLive) = n_ptimer + Cardinality(InCount)
        /\ n_ptimer + Cardinality(InStart) <= TmCap + Cardinality(TmTasks) - 1
        /\ tmThreads \in [TmTasks -> [TmBits -> Nat]] /\ DOMAIN tmPc = TmTasks
    BY DEF TmInv, TmTypeOK
  <1>a. InCount \subseteq TmTasks /\ InStart \subseteq TmTasks
    BY DEF InCount, InStart
  <1>b. /\ Cardinality(InCount) \in Nat /\ Cardinality(InStart) \in Nat
        /\ Cardinality(TmTasks) \in Nat
    BY <1>a, Within
  <1>c. ASSUME UNCHANGED tmThreads PROVE TmLive' = TmLive
    BY <1>c DEF TmLive
  <1>1. ASSUME UNCHANGED <<tmThreads, n_ptimer, tmPc>> PROVE TmInv'
    <2>1. InCount' = InCount /\ InStart' = InStart
      BY <1>1 DEF InCount, InStart, TmAt
    <2>2. TmTypeOK'
      BY <1>0, <1>1 DEF TmTypeOK
    <2> QED BY <1>0, <1>1, <1>c, <2>1, <2>2 DEF TmInv
  <1>2. ASSUME NEW t \in TmTasks, NEW q \in Resting \cup Starting, Goes(t, q),
               tmThreads' \in [TmTasks -> [TmBits -> Nat]], n_ptimer' \in Nat
        PROVE  /\ TmTypeOK'
               /\ \A u \in TmTasks : tmPc'[u] = IF u = t THEN q ELSE tmPc[u]
    BY <1>0, <1>2 DEF TmTypeOK, Resting, Starting, Goes
  <1>3. ASSUME NEW t \in TmTasks, NEW q, UNCHANGED <<tmThreads, n_ptimer>>, Goes(t, q),
               \/ tmPc[t].at \in {"idle", "sleep", "check"} /\ q \in Resting
               \/ tmPc[t].at = "idle" /\ \E bit \in TmBits : q = [at |-> "check", bit |-> bit]
        PROVE  TmInv'
    <2>1. q \in Resting \cup Starting /\ q.at \notin {"create", "count"}
      BY <1>3 DEF Resting, Starting
    <2>2. TmTypeOK' /\ \A u \in TmTasks : tmPc'[u] = IF u = t THEN q ELSE tmPc[u]
      BY <1>0, <1>2, <1>3, <2>1
    <2>3. InCount' = InCount /\ InStart' = InStart
      BY <1>3, <2>1, <2>2 DEF InCount, InStart, TmAt
    <2> QED BY <1>0, <1>3, <1>c, <2>2, <2>3 DEF TmInv
  <1>4. ASSUME NEW t \in TmTasks, NEW bit \in TmBits, UNCHANGED <<tmThreads, n_ptimer>>,
               tmPc[t].at = "check", n_ptimer < TmCap, Goes(t, [at |-> "create", bit |-> bit])
        PROVE  TmInv'
    <2>1. [at |-> "create", bit |-> bit] \in Starting
      BY DEF Starting
    <2>2. TmTypeOK' /\ \A u \in TmTasks :
                         tmPc'[u] = IF u = t THEN [at |-> "create", bit |-> bit] ELSE tmPc[u]
      BY <1>0, <1>2, <1>4, <2>1
    <2>3. InCount' = InCount /\ InStart' \subseteq TmTasks
      BY <1>4, <2>2 DEF InCount, InStart, TmAt
    <2>4. Cardinality(InStart') \in Nat /\ Cardinality(InStart') <= Cardinality(TmTasks)
      BY <2>3, Within
    <2>5. n_ptimer + Cardinality(InStart') <= TmCap + Cardinality(TmTasks) - 1
      BY <1>0, <1>4, <1>b, <2>4
    <2> QED BY <1>0, <1>4, <1>c, <2>2, <2>3, <2>5 DEF TmInv
  <1>5. ASSUME NEW t \in TmTasks, NEW bit \in TmBits, UNCHANGED n_ptimer, tmPc[t].at = "create",
               tmThreads' = [tmThreads EXCEPT ![t][bit] = @ + 1],
               Goes(t, [at |-> "count", bit |-> bit])
        PROVE  TmInv'
    <2>1. [at |-> "count", bit |-> bit] \in Starting
      BY DEF Starting
    <2>2. tmThreads' \in [TmTasks -> [TmBits -> Nat]]
      BY <1>0, <1>5
    <2>3. TmTypeOK' /\ \A u \in TmTasks :
                         tmPc'[u] = IF u = t THEN [at |-> "count", bit |-> bit] ELSE tmPc[u]
      BY <1>0, <1>2, <1>5, <2>1, <2>2
    <2>4. InCount' = InCount \cup {t} /\ t \notin InCount /\ InStart' = InStart
      BY <1>5, <2>3 DEF InCount, InStart, TmAt
    <2>5. Cardinality(InCount') = Cardinality(InCount) + 1
      BY <1>a, <2>4, Enters
    <2> DEFINE n == tmThreads[t][bit] + 1
               it == <<<<t, bit>>, n>>
    <2>6. it \notin TmLive /\ TmLive' = TmLive \cup {it}
      <3>1. n \in Nat /\ tmThreads[t][bit] \in Nat /\ tmThreads'[t][bit] = n
        BY <1>0, <1>5
      <3>2. 1..n = (1..tmThreads[t][bit]) \cup {n} /\ n \notin 1..tmThreads[t][bit]
        BY <3>1
      <3>3. \A c \in TmTasks \X TmBits :
              c # <<t, bit>> => tmThreads'[c[1]][c[2]] = tmThreads[c[1]][c[2]]
        BY <1>0, <1>5
      <3>c. \A x : x \in TmLive' <=> \E c \in TmTasks \X TmBits :
                                       x \in {<<c, k>> : k \in 1..tmThreads'[c[1]][c[2]]}
        BY SMT DEF TmLive
      <3>d. \A x : x \in TmLive' <=> \E c \in TmTasks \X TmBits :
                                       \E k \in 1..tmThreads'[c[1]][c[2]] : x = <<c, k>>
        BY <3>c
      <3> HIDE DEF n
      <3>4. ASSUME NEW x \in TmLive' PROVE x \in TmLive \cup {it}
        <4>1. PICK c \in TmTasks \X TmBits : \E k \in 1..tmThreads'[c[1]][c[2]] : x = <<c, k>>
          BY <3>d
        <4>2. PICK k \in 1..tmThreads'[c[1]][c[2]] : x = <<c, k>>
          BY <4>1
        <4>3. k \in 1..tmThreads[c[1]][c[2]] \/ x = it
          BY <3>1, <3>2, <3>3, <4>2
        <4> QED BY <4>2, <4>3, Ticking
      <3>5. ASSUME NEW x \in TmLive \cup {it} PROVE x \in TmLive'
        <4>1. CASE x = it
          <5>1. n \in 1..tmThreads'[t][bit]
            BY <3>1, <3>2
          <5> QED BY <3>d, <4>1, <5>1
        <4>2. CASE x \in TmLive
          <5>1. PICK c \in TmTasks \X TmBits : \E k \in 1..tmThreads[c[1]][c[2]] : x = <<c, k>>
            BY <4>2, Ticking
          <5>2. PICK k \in 1..tmThreads[c[1]][c[2]] : x = <<c, k>>
            BY <5>1
          <5>3. k \in 1..tmThreads'[c[1]][c[2]]
            BY <3>1, <3>2, <3>3, <5>2
          <5> QED BY <3>d, <5>2, <5>3
        <4> QED BY <4>1, <4>2
      <3>6. it \notin TmLive
        <4> SUFFICES ASSUME it \in TmLive PROVE FALSE
          OBVIOUS
        <4>1. PICK c \in TmTasks \X TmBits : \E k \in 1..tmThreads[c[1]][c[2]] : it = <<c, k>>
          BY Ticking
        <4>2. n \in 1..tmThreads[t][bit]
          BY <4>1
        <4> QED BY <3>2, <4>2
      <3> QED BY <3>4, <3>5, <3>6
    <2> HIDE DEF n, it
    <2>7. IsFiniteSet(TmLive') /\ Cardinality(TmLive') = Cardinality(TmLive) + 1
      BY <1>0, <2>6, FS_AddElement
    <2> QED BY <1>0, <1>5, <1>b, <2>3, <2>4, <2>5, <2>7 DEF TmInv
  <1>6. ASSUME NEW t \in TmTasks, UNCHANGED tmThreads, tmPc[t].at = "count",
               n_ptimer' = n_ptimer + 1, Goes(t, Idle)
        PROVE  TmInv'
    <2>1. Idle \in Resting /\ Idle.at = "idle"
      BY DEF Idle, Resting
    <2>2. TmTypeOK' /\ \A u \in TmTasks : tmPc'[u] = IF u = t THEN Idle ELSE tmPc[u]
      BY <1>0, <1>2, <1>6, <2>1
    <2>3. /\ InCount' = InCount \ {t} /\ t \in InCount
          /\ InStart' = InStart \ {t} /\ t \in InStart
      BY <1>6, <2>1, <2>2 DEF InCount, InStart, TmAt
    <2>4. /\ Cardinality(InCount') = Cardinality(InCount) - 1
          /\ Cardinality(InStart') = Cardinality(InStart) - 1
      BY <1>a, <2>3, Leaves
    <2>5. /\ n_ptimer + Cardinality(InCount) = n_ptimer' + Cardinality(InCount')
          /\ n_ptimer + Cardinality(InStart) = n_ptimer' + Cardinality(InStart')
      BY <1>0, <1>6, <1>b, <2>4
    <2> QED BY <1>0, <1>6, <1>c, <2>2, <2>5 DEF TmInv
  <1>7. CASE UNCHANGED tmVars
    BY <1>1, <1>7 DEF tmVars
  <1> QED BY <1>0, <1>1, <1>3, <1>4, <1>5, <1>6, <1>7, TmCases DEF TmNext

LEMMA TmInvSound == TmInv => TimersCounted
  <1> SUFFICES ASSUME TmInv PROVE TimersCounted
    OBVIOUS
  <1>1. InCount \subseteq InStart /\ InStart \subseteq TmTasks
    BY DEF InCount, InStart
  <1>2. IsFiniteSet(InStart)
    BY <1>1, TimersAssumption, FS_Subset
  <1>3. Cardinality(InCount) <= Cardinality(InStart) /\ Cardinality(InCount) \in Nat
        /\ Cardinality(InStart) \in Nat /\ Cardinality(TmTasks) \in Nat
    BY <1>1, <1>2, FS_Subset, Within
  <1> QED BY <1>3, TimersAssumption DEF TmInv, TmTypeOK, TimersCounted

(* The timer threads that run are the counted ones and those about to be,  *)
(* and there are no more than the cap and the other tasks allow.           *)
THEOREM TimersStay == TmSpec => []TimersCounted
  <1>1. TmInv /\ [TmNext]_tmVars => TmInv'
    BY TmInvStep
  <1> QED BY <1>1, TmInvInit, TmInvSound, PTL DEF TmSpec

-----------------------------------------------------------------------------
(* All of them together: a step is one of a single part                    *)

AllInv == WakeInv /\ SemIInv /\ EvIInv /\ IiInv /\ TmInv /\ NoLostAsync

allVars == <<part, lockVars, semVars, evVars, iiVars, asVars, tmVars, sgVars>>

LEMMA AllInit == MCInit => AllInv
  <1>1. AsInit => NoLostAsync
    BY DEF AsInit, NoLostAsync
  <1> QED BY <1>1, WakeInit, SemInitInv, EvInitInv, IiInvInit, TmInvInit DEF MCInit, AllInv

LEMMA PartsStep ==
    MCNext \/ UNCHANGED allVars
      => /\ [LockNext]_lockVars /\ [SemNext]_semVars /\ [EvNext]_evVars
         /\ [IiNext]_iiVars /\ [TmNext]_tmVars /\ [AsNext]_asVars
  BY Zenon DEF MCNext, allVars, LockPart, SemPart, EventPart, SetUpPart, AsyncPart, TimerPart,
               FaultPart, Ended

LEMMA AllInvStep == AllInv /\ [MCNext]_allVars => AllInv'
  <1> SUFFICES ASSUME AllInv, [MCNext]_allVars PROVE AllInv'
    OBVIOUS
  <1>0. /\ [LockNext]_lockVars /\ [SemNext]_semVars /\ [EvNext]_evVars
        /\ [IiNext]_iiVars /\ [TmNext]_tmVars /\ [AsNext]_asVars
    BY PartsStep
  <1>1. WakeInv' /\ SemIInv' /\ EvIInv'
    BY <1>0, WakeInvStep, SemIInvStep, EvIInvStep DEF AllInv
  <1>2. IiInv' /\ TmInv' /\ NoLostAsync'
    BY <1>0, IiInvStep, TmInvStep, AsyncStep DEF AllInv
  <1> QED BY <1>1, <1>2 DEF AllInv

LEMMA AllInvariance == MCSpec => []AllInv
  BY AllInit, AllInvStep, PTL DEF MCSpec, allVars

(* Whichever parts of the runtime a process uses: its states are of their  *)
(* types, it is set up once, and no timer beyond the cap starts.           *)
THEOREM PartsSound == MCSpec => []PrimitivesSound
  <1>1. AllInv => PrimitivesSound
    BY IiInvSound, TmInvSound
       DEF AllInv, WakeInv, LockIInv, SemIInv, EvIInv, PrimitivesSound
  <1> QED BY <1>1, AllInvariance, PTL

(* No unlock() and no signal of an async routine is lost.                  *)
THEOREM PartsKeep == MCSpec => []NothingLost
  <1>1. AllInv => NothingLost
    BY DEF AllInv, WakeInv, NothingLost
  <1> QED BY <1>1, AllInvariance, PTL

-----------------------------------------------------------------------------
(* Task creation: for every set of children, whichever of them are told no *)
(* parent                                                                  *)

Phases == {"free", "creating", "failed", "start", "store", "wake"}
Stages == {"unborn", "reset", "id", "notify", "scan", "test", "block", "asleep", "run"}

LEMMA TaskTypeStep == TaskTypeOK /\ [Next]_vars => TaskTypeOK'
  <1> SUFFICES ASSUME TaskTypeOK, [Next]_vars PROVE TaskTypeOK'
    OBVIOUS
  <1> USE EventAssumption, TaskAssumption
  <1>t. /\ TypeOK
        /\ started \in [Children -> 0..1] /\ ctx \in [Children -> BOOLEAN]
        /\ idOut \in [Receivers -> Children \cup {None}]
        /\ creating \in [Receivers -> Children \cup {None}]
        /\ phase \in [Receivers -> Phases] /\ stage \in [Children -> Stages]
    BY DEF TaskTypeOK, Phases, Stages
  <1>u. ASSUME TypeOK', started' \in [Children -> 0..1], ctx' \in [Children -> BOOLEAN],
               idOut' \in [Receivers -> Children \cup {None}],
               creating' \in [Receivers -> Children \cup {None}],
               phase' \in [Receivers -> Phases], stage' \in [Children -> Stages]
        PROVE  TaskTypeOK'
    BY <1>u DEF TaskTypeOK, Phases, Stages
  <1>1. ASSUME UNCHANGED taskVars, [EvNext]_evVars PROVE TaskTypeOK'
    <2>1. TypeOK'
      BY <1>t, <1>1, EvTypeStep
    <2> QED BY <1>t, <1>u, <1>1, <2>1 DEF taskVars, childVars, parentVars
  <1>2. ASSUME NEW c \in Children, Spawn(parent[c], c) PROVE TaskTypeOK'
    <2>1. TypeOK'
      BY <1>t, <1>2 DEF Spawn, CallEvReceive, Goto, TypeOK, Receiving, sendVars
    <2> QED BY <1>t, <1>u, <1>2, <2>1 DEF Spawn, Phase, Stage, Phases, Stages
  <1>3. ASSUME NEW c \in Children, ChildStep(c) PROVE TaskTypeOK'
    <2>1. TypeOK'
      <3>1. CASE Notify(c)
        BY <1>t, <3>1 DEF Notify, CallEvSend, Goto, TypeOK, Sending, recvVars
      <3>2. CASE PublishToken(c)
        BY <1>t, <3>2 DEF PublishToken, TypeOK, recvVars, sendVars
      <3>3. CASE WakeWaiters(c)
        BY <1>t, <3>3 DEF WakeWaiters, TypeOK, Receiving, recvVars, sendVars
      <3>4. CASE UNCHANGED evVars
        BY <1>t, <3>4, EvTypeStep
      <3> QED BY <1>3, <3>1, <3>2, <3>3, <3>4
              DEF ChildStep, ResetStarted, WriteId, TestStarted, WaitStarted
    <2>2. /\ started' \in [Children -> 0..1] /\ UNCHANGED <<ctx, creating, phase>>
          /\ idOut' \in [Receivers -> Children \cup {None}]
      BY <1>t, <1>3 DEF ChildStep, ResetStarted, WriteId, Notify, PublishToken, WakeWaiters,
                        TestStarted, WaitStarted, parentVars
    <2>3. \E s \in Stages : stage' = [stage EXCEPT ![c] = s]
      BY <1>3 DEF ChildStep, ResetStarted, WriteId, Notify, PublishToken, WakeWaiters,
                  TestStarted, WaitStarted, Stage, Stages
    <2>4. stage' \in [Children -> Stages]
      BY <1>t, <2>3
    <2> QED BY <1>t, <1>u, <2>1, <2>2, <2>4
  <1>4. ASSUME NEW p \in Receivers, ParentStep(p) PROVE TaskTypeOK'
    <2>1. UNCHANGED evVars
      BY <1>4 DEF ParentStep, Created, CopyContext, SetStarted, WakeStarted
    <2>2. TypeOK'
      BY <1>t, <2>1, EvTypeStep
    <2>3. /\ started' \in [Children -> 0..1] /\ ctx' \in [Children -> BOOLEAN]
          /\ UNCHANGED idOut /\ creating' \in [Receivers -> Children \cup {None}]
      <3>1. CASE Created(p)       BY <1>t, <3>1 DEF Created, childVars
      <3>2. CASE CopyContext(p)   BY <1>t, <3>2 DEF CopyContext
      <3>3. CASE SetStarted(p)    
        <4>1. started' = [started EXCEPT ![idOut[p]] = 1] /\ UNCHANGED <<ctx, idOut, creating>>
          BY <3>3 DEF SetStarted
        <4>2. 1 \in 0..1
          OBVIOUS
        <4>3. started' \in [Children -> 0..1]
          BY <1>t, <4>1, <4>2, Zenon
        <4> QED BY <1>t, <4>1, <4>3
      <3>4. CASE WakeStarted(p)   BY <1>t, <3>4 DEF WakeStarted
      <3> QED BY <1>4, <3>1, <3>2, <3>3, <3>4 DEF ParentStep
    <2>4. phase' \in [Receivers -> Phases]
      BY <1>t, <1>4 DEF ParentStep, Created, CopyContext, SetStarted, WakeStarted, Phase, Phases
    <2>5. stage' \in [Children -> Stages]
      BY <1>t, <1>4 DEF ParentStep, Created, CopyContext, SetStarted, WakeStarted, childVars,
                        Stages
    <2> QED BY <1>t, <1>u, <2>2, <2>3, <2>4, <2>5
  <1>5. CASE UNCHANGED vars
    BY <1>1, <1>5 DEF vars
  <1> QED BY <1>1, <1>2, <1>3, <1>4, <1>5 DEF Next, EvNext

LEMMA TaskTypeInit == TaskInit => TaskTypeOK
  <1> SUFFICES ASSUME TaskInit PROVE TaskTypeOK
    OBVIOUS
  <1>1. TypeOK
    BY EvInitInv DEF TaskInit, EvIInv
  <1> QED BY <1>1 DEF TaskInit, TaskTypeOK

-----------------------------------------------------------------------------
(* T_create and T_start                                                    *)

\* The child p's t_create waits for is p's, and past the writing of its id if
\* p has one; p starts the task whose id it was given.
Registering(p) ==
    /\ phase[p] = "free" <=> creating[p] = None
    /\ creating[p] # None => /\ parent[creating[p]] = p /\ stage[creating[p]] # "unborn"
                             /\ idOut[p] = None \/ idOut[p] = creating[p]
                             /\ idOut[p] = None <=> stage[creating[p]] \in {"reset", "id"}
    /\ phase[p] \in {"start", "store", "wake"} => idOut[p] # None
    /\ phase[p] \in {"store", "wake"} => ctx[creating[p]]

\* A child that has not left its id is the one its parent waits for; the context
\* is there before the word that says so.
Registered(c) ==
    /\ stage[c] \in {"reset", "id"} => creating[parent[c]] = c
    /\ started[c] = 1 \/ stage[c] = "run" => ctx[c]

StartInv ==
    /\ TaskTypeOK
    /\ \A p \in Receivers : Registering(p)
    /\ \A c \in Children : Registered(c)

LEMMA StartInit == TaskInit => StartInv
  <1> SUFFICES ASSUME TaskInit PROVE StartInv
    OBVIOUS
  <1>1. TaskTypeOK
    BY TaskTypeInit
  <1> QED BY <1>1, TaskAssumption DEF TaskInit, StartInv, Registering, Registered

LEMMA StartStep == StartInv /\ [Next]_vars => StartInv'
  <1> SUFFICES ASSUME StartInv, [Next]_vars PROVE StartInv'
    OBVIOUS
  <1> USE TaskAssumption
  <1>t. /\ TaskTypeOK' /\ None \notin Children
        /\ started \in [Children -> 0..1] /\ ctx \in [Children -> BOOLEAN]
        /\ idOut \in [Receivers -> Children \cup {None}]
        /\ creating \in [Receivers -> Children \cup {None}]
        /\ phase \in [Receivers -> Phases] /\ stage \in [Children -> Stages]
    BY TaskTypeStep DEF StartInv, TaskTypeOK, Phases, Stages
  <1>i. (\A p \in Receivers : Registering(p)) /\ (\A c \in Children : Registered(c))
    BY DEF StartInv
  <1> DEFINE Kept == (\A p \in Receivers : Registering(p)') /\ (\A c \in Children : Registered(c)')
  <1>g. SUFFICES Kept
    BY <1>t DEF StartInv
  <1>1. ASSUME UNCHANGED taskVars PROVE Kept
    BY <1>i, <1>1 DEF taskVars, childVars, parentVars, Registering, Registered
  <1>2. ASSUME NEW k \in Children, Spawn(parent[k], k)
        PROVE  Kept
    BY <1>t, <1>i, <1>2 DEF Spawn, Phase, Stage, Registering, Registered, Phases, Stages
  <1>3. ASSUME NEW k \in Children, ChildStep(k)
        PROVE  Kept
    <2>1. CASE ResetStarted(k)
      BY <1>t, <1>i, <2>1 DEF ResetStarted, parentVars, Stage, Registering, Registered, Stages
    <2>2. CASE WriteId(k)
      BY <1>t, <1>i, <2>2 DEF WriteId, Stage, Registering, Registered, Stages
    <2>3. CASE Notify(k) \/ PublishToken(k) \/ WakeWaiters(k)
      BY <1>t, <1>i, <2>3 DEF Notify, PublishToken, WakeWaiters, parentVars, Stage,
                              Registering, Registered, Stages
    <2>4. CASE TestStarted(k)
      BY <1>t, <1>i, <2>4 DEF TestStarted, parentVars, Stage, Registering, Registered, Stages
    <2>5. CASE WaitStarted(k)
      BY <1>t, <1>i, <2>5 DEF WaitStarted, parentVars, Stage, Registering, Registered, Stages
    <2> QED BY <1>3, <2>1, <2>2, <2>3, <2>4, <2>5 DEF ChildStep
  <1>4. ASSUME NEW q \in Receivers, ParentStep(q)
        PROVE  Kept
    <2>1. CASE Created(q)
      BY <1>t, <1>i, <2>1 DEF Created, childVars, Phase, Registering, Registered, Phases
    <2>2. CASE CopyContext(q)
      BY <1>t, <1>i, <2>2 DEF CopyContext, Phase, Registering, Registered, Phases
    <2>3. CASE SetStarted(q)
      BY <1>t, <1>i, <2>3 DEF SetStarted, Phase, Registering, Registered, Phases
    <2>4. CASE WakeStarted(q)
      BY <1>t, <1>i, <2>4 DEF WakeStarted, Phase, Registering, Registered, Phases, Stages
    <2> QED BY <1>4, <2>1, <2>2, <2>3, <2>4 DEF ParentStep
  <1> QED BY <1>1, <1>2, <1>3, <1>4 DEF Next, vars

(* A task leaves T_create only with the context T_start has copied, however *)
(* many parents create tasks and whatever else they wait for.               *)
THEOREM StartsWithContext == Spec => []ContextFirst
  <1>1. StartInv => ContextFirst
    BY DEF StartInv, Registered, ContextFirst
  <1> QED BY <1>1, StartInit, StartStep, PTL DEF Spec

-----------------------------------------------------------------------------
(* The rendezvous                                                          *)

(* The pool of tokens is one for all, and any t_create takes from it: what *)
(* follows is about one process that creates tasks one after the other.    *)
OneCreator == \A p, q \in Receivers : p = q

\* c's parent is inside the Ev_receive of the t_create that started c.
ParentWaits(c) ==
    /\ creating[parent[c]] = c /\ phase[parent[c]] = "creating"
    /\ pc[parent[c]] \in Receiving /\ want[parent[c]] = {RBit}
    /\ cond[parent[c]] = "any" /\ timeout[parent[c]] = "forever"

Before(c) == stage[c] \in {"reset", "id", "notify"}
Sent(t) == pc[t] = "or" /\ RBit \in post[t]

\* A caught word is still there: only its receiver clears it.
Caught(t) == pc[t] = "take" => Satisfies(t, cur[t]) /\ (RBit \in cur[t] => RBit \in events[t])
\* Only parents receive.
Receives(t) == pc[t] \in Receiving => t \in Receivers

\* The notice of a child is in one place: still to be sent, on its way, in the
\* event word of the parent, or a token in the pool.  Its parent waits.
ToCome(c) ==
    Before(c) => /\ ParentWaits(c) /\ orphan = 0 /\ RBit \notin events[parent[c]]
                 /\ \A t \in Tasks : ~ Sent(t)
OnWay(t) ==
    Sent(t) => /\ t \in Children /\ ParentWaits(t) /\ dest[t] = parent[t]
               /\ orphan = 0 /\ RBit \notin events[parent[t]]
InWord(t) ==
    RBit \in events[t] => /\ t \in Receivers /\ creating[t] \in Children
                          /\ parent[creating[t]] = t /\ ParentWaits(creating[t]) /\ orphan = 0
InPool == orphan = 0 \/ (orphan = 1 /\ \E c \in Orphans : ParentWaits(c))

Notices ==
    /\ \A t \in Tasks : Caught(t) /\ Receives(t) /\ OnWay(t) /\ InWord(t)
    /\ \A c \in Children : ToCome(c)
    /\ InPool

RendezvousInv == StartInv /\ Notices

LEMMA RendezvousInit == TaskInit => RendezvousInv
  <1> SUFFICES ASSUME TaskInit PROVE Notices
    BY StartInit DEF RendezvousInv
  <1> QED BY DEF TaskInit, Init, Notices, Caught, Receives, OnWay, InWord, ToCome, InPool,
                 Sent, Before, Receiving

\* With one creator, what t waits for, any child is that is waited for.
LEMMA OneAwaited ==
    ASSUME OneCreator, StartInv, NEW c \in Children, NEW k \in Children, ParentWaits(c), ParentWaits(k)
    PROVE  c = k
  BY TaskAssumption DEF OneCreator, ParentWaits

(* The steps of the event calls.                                           *)
LEMMA NoticesEv ==
    ASSUME OneCreator, RendezvousInv, UNCHANGED taskVars, NEW t \in Tasks,
           EvStep(t) \/ Disturbed(t)
    PROVE  Notices'
  <1> USE EventAssumption, TaskAssumption
  <1>t. /\ TypeOK /\ Notices
        /\ creating \in [Receivers -> Children \cup {None}]
    BY DEF RendezvousInv, StartInv, TaskTypeOK
  <1>0. UNCHANGED <<creating, phase, stage>>
    BY DEF taskVars, childVars, parentVars
  <1> DEFINE Kept == /\ \A u \in Tasks : Caught(u)' /\ Receives(u)' /\ OnWay(u)' /\ InWord(u)'
                     /\ \A c \in Children : ToCome(c)'
                     /\ InPool'
  <1> SUFFICES Kept
    BY DEF Notices
  <1> USE DEF Goto, recvVars, sendVars, TypeOK, Receiving, Notices, Caught, Receives, OnWay,
              InWord, ToCome, InPool, Sent, Before, ParentWaits, OneCreator, Satisfies
  <1>1. CASE EvOr(t)
    BY <1>t, <1>0, <1>1, SMTT(60) DEF EvOr
  <1>2. CASE EvWake(t)
    <2>1. /\ \A u \in Tasks : pc'[u] \in Receiving <=> pc[u] \in Receiving
          /\ \A u \in Tasks : pc'[u] = "take" => pc[u] = "take"
          /\ \A u \in Tasks : pc'[u] = "or" => pc[u] = "or" /\ u # t
          /\ \A u \in Tasks : u # t => post'[u] = post[u] /\ dest'[u] = dest[u]
          /\ UNCHANGED <<events, want, cond, timeout, cur, orphan>>
      BY <1>t, <1>2 DEF EvWake
    <2>2. \A c \in Children : ParentWaits(c) <=> ParentWaits(c)'
      BY <1>t, <1>0, <2>1
    <2>3. \A u \in Tasks : Sent(u)' => Sent(u) /\ dest'[u] = dest[u]
      BY <1>t, <2>1
    <2> USE <1>t, <1>0, <2>1, <2>2, <2>3
    <2>4. \A u \in Tasks : Caught(u)' /\ Receives(u)'
      OBVIOUS
    <2>5. \A u \in Tasks : OnWay(u)'
      OBVIOUS
    <2>6. \A u \in Tasks : InWord(u)'
      OBVIOUS
    <2>7. (\A c \in Children : ToCome(c)') /\ InPool'
      OBVIOUS
    <2> HIDE <1>t, <1>0, <2>1, <2>2, <2>3 DEF Caught, Receives, OnWay, InWord, ToCome, InPool
    <2> QED BY <2>4, <2>5, <2>6, <2>7, Zenon
  <1>3. CASE TakeToken(t)
    BY <1>t, <1>0, <1>3 DEF TakeToken, ReturnBits
  <1>4. CASE Load(t)
    BY <1>t, <1>0, <1>4 DEF Load, ReturnBits
  <1>5. CASE Take(t)
    BY <1>t, <1>0, <1>5 DEF Take, ReturnBits
  <1>6. CASE Expire(t)
    BY <1>t, <1>0, <1>6 DEF Expire, ReturnBits
  <1>7. CASE GoBlock(t)
    BY <1>t, <1>0, <1>7 DEF GoBlock
  <1>8. CASE FutexWait(t)
    BY <1>t, <1>0, <1>8 DEF FutexWait
  <1>9. CASE Disturbed(t)
    BY <1>t, <1>0, <1>9 DEF Disturbed
  <1> QED BY <1>1, <1>2, <1>3, <1>4, <1>5, <1>6, <1>7, <1>8, <1>9 DEF EvStep

(* The steps of t_create, T_create and T_start.                            *)
LEMMA NoticesTask ==
    ASSUME OneCreator, RendezvousInv,
           \/ \E c \in Children : Spawn(parent[c], c) \/ ChildStep(c)
           \/ \E p \in Receivers : ParentStep(p)
    PROVE  Notices'
  <1> USE EventAssumption, TaskAssumption
  <1>t. /\ TypeOK /\ Notices
        /\ creating \in [Receivers -> Children \cup {None}]
        /\ phase \in [Receivers -> Phases] /\ stage \in [Children -> Stages]
        /\ idOut \in [Receivers -> Children \cup {None}]
        /\ \A p \in Receivers : Registering(p)
    BY DEF RendezvousInv, StartInv, TaskTypeOK, Phases, Stages
  <1> DEFINE Kept == /\ \A u \in Tasks : Caught(u)' /\ Receives(u)' /\ OnWay(u)' /\ InWord(u)'
                     /\ \A c \in Children : ToCome(c)'
                     /\ InPool'
  <1> SUFFICES Kept
    BY DEF Notices
  <1> USE DEF evVars, recvVars, sendVars, childVars, parentVars, Goto, Stage, Phase, TypeOK,
              Receiving, Notices, Caught, Receives, OnWay, InWord, ToCome, InPool, Sent, Before,
              ParentWaits, OneCreator, Satisfies
  <1>q. ASSUME NEW p \in Receivers, phase[p] # "creating"
        PROVE  /\ \A c \in Children : parent[c] = p /\ ~ ParentWaits(c) /\ ~ Before(c)
               /\ \A u \in Tasks : ~ Sent(u) /\ RBit \notin events[u]
               /\ orphan = 0
    BY <1>t, <1>q
  <1>1. ASSUME NEW c \in Children, Spawn(parent[c], c) PROVE Kept
    <2> DEFINE p == parent[c]
    <2>1. p \in Receivers /\ p \in Tasks /\ phase[p] # "creating" /\ pc[p] = "idle"
      BY <1>1 DEF Spawn
    <2>2. /\ \A k \in Children : parent[k] = p /\ ~ Before(k)
          /\ \A u \in Tasks : ~ Sent(u) /\ RBit \notin events[u]
          /\ orphan = 0
      BY <1>q, <2>1
    <2>3. /\ UNCHANGED <<events, orphan, dest, post, cur>> /\ pc' = [pc EXCEPT ![p] = "token"]
          /\ stage' = [stage EXCEPT ![c] = "reset"]
      BY <1>1 DEF Spawn, CallEvReceive
    <2>4. ParentWaits(c)'
      BY <1>t, <1>1, <2>1, SMTT(60) DEF Spawn, CallEvReceive, Phases
    <2>5. \A k \in Children : Before(k)' => k = c
      BY <1>t, <2>2, <2>3
    <2>6. \A u \in Tasks : ~ Sent(u)' /\ RBit \notin events'[u]
      BY <1>t, <2>2, <2>3
    <2>7. ASSUME NEW u \in Tasks PROVE Caught(u)' /\ Receives(u)'
      <3>1. CASE u = p
        BY <1>t, <2>1, <2>3, <3>1
      <3>2. CASE u # p
        <4>1. pc'[u] = pc[u] /\ want'[u] = want[u] /\ cond'[u] = cond[u]
          BY <1>t, <1>1, <3>2 DEF Spawn, CallEvReceive
        <4>2. Caught(u) /\ Receives(u)
          BY <1>t
        <4> QED BY <2>3, <4>1, <4>2
      <3> QED BY <3>1, <3>2
    <2> QED BY <2>2, <2>3, <2>4, <2>5, <2>6, <2>7
  <1>2. ASSUME NEW c \in Children, Notify(c) PROVE Kept
    BY <1>t, <1>2 DEF Notify, CallEvSend, Stages
  <1>3. ASSUME NEW c \in Children, PublishToken(c) PROVE Kept
    BY <1>t, <1>3 DEF PublishToken, Stages
  <1>4. ASSUME NEW c \in Children, WakeWaiters(c) PROVE Kept
    BY <1>t, <1>4, SMTT(60) DEF WakeWaiters, Stages
  <1>5. ASSUME NEW c \in Children,
               ResetStarted(c) \/ WriteId(c) \/ TestStarted(c) \/ WaitStarted(c)
        PROVE  Kept
    <2>1. UNCHANGED <<evVars, creating, phase>>
      BY <1>5 DEF ResetStarted, WriteId, TestStarted, WaitStarted
    <2>2. \A k \in Children : Before(k)' => Before(k)
      BY <1>t, <1>5 DEF ResetStarted, WriteId, TestStarted, WaitStarted, Stages
    <2>3. \A k \in Children : ParentWaits(k)' <=> ParentWaits(k)
      BY <2>1
    <2> QED BY <1>t, <2>1, <2>2, <2>3
  <1>6. ASSUME NEW p \in Receivers, Created(p) PROVE Kept
    BY <1>t, <1>6 DEF Created, Phases
  <1>7. ASSUME NEW p \in Receivers, CopyContext(p) \/ SetStarted(p) PROVE Kept
    BY <1>t, <1>7 DEF CopyContext, SetStarted, Phases
  <1>8. ASSUME NEW p \in Receivers, WakeStarted(p) PROVE Kept
    <2>1. UNCHANGED evVars /\ phase[p] # "creating"
      BY <1>8 DEF WakeStarted
    <2>2. \A k \in Children : Before(k)' => Before(k)
      BY <1>t, <1>8 DEF WakeStarted, Stages
    <2> QED BY <1>t, <1>q, <2>1, <2>2
  <1> QED BY <1>1, <1>2, <1>3, <1>4, <1>5, <1>6, <1>7, <1>8 DEF ChildStep, ParentStep

LEMMA RendezvousStep == OneCreator /\ RendezvousInv /\ [Next]_vars => RendezvousInv'
  <1> SUFFICES ASSUME OneCreator, RendezvousInv, [Next]_vars PROVE RendezvousInv'
    OBVIOUS
  <1>1. StartInv'
    BY StartStep DEF RendezvousInv
  <1>2. CASE Next
    BY <1>1, <1>2, NoticesEv, NoticesTask DEF Next, RendezvousInv
  <1>3. CASE UNCHANGED vars
    <2>1. Notices'
      BY <1>3 DEF vars, evVars, recvVars, sendVars, taskVars, childVars, parentVars,
                  RendezvousInv, Notices, Caught, Receives, OnWay, InWord, ToCome, InPool,
                  Sent, Before, ParentWaits, Satisfies
    <2> QED BY <1>1, <2>1 DEF RendezvousInv
  <1> QED BY <1>2, <1>3

(* The parent that leaves Ev_receive has its child's notice: while the     *)
(* notice is on its way, it waits, and the id was written before.          *)
LEMMA NoticeFirst == OneCreator /\ RendezvousInv => RendezvousIdWritten
  <1> SUFFICES ASSUME RendezvousInv, NEW p \in Receivers, pc[p] = "idle", phase[p] = "creating"
               PROVE  idOut[p] = creating[p]
    BY DEF RendezvousIdWritten
  <1>1. Registering(p) /\ creating[p] \in Children \cup {None}
    BY DEF RendezvousInv, StartInv, TaskTypeOK
  <1>2. creating[p] \in Children /\ parent[creating[p]] = p
    BY <1>1 DEF Registering
  <1>3. ~ Before(creating[p])
    BY <1>2 DEF RendezvousInv, Notices, ToCome, ParentWaits, Receiving
  <1> QED BY <1>1, <1>2, <1>3 DEF Registering, Before

(* While the notice is a token, one orphan is created, and there is one.   *)
LEMMA TokenOwned == OneCreator /\ RendezvousInv => NoStrayToken
  <1> SUFFICES ASSUME OneCreator, RendezvousInv PROVE NoStrayToken
    OBVIOUS
  <1> USE TaskAssumption
  <1> DEFINE Made == {c \in Orphans : creating[parent[c]] = c}
  <1>1. \A c, k \in Made : c = k
    BY DEF OneCreator
  <1>2. Made = {} \/ \E c \in Orphans : Made = {c}
    BY <1>1
  <1>3. Cardinality(Made) = IF Made = {} THEN 0 ELSE 1
    BY <1>2, FS_EmptySet, FS_Singleton
  <1>4. orphan = 0 \/ (orphan = 1 /\ Made # {})
    BY DEF RendezvousInv, Notices, InPool, ParentWaits
  <1> QED BY <1>3, <1>4 DEF NoStrayToken

(* With one process that creates tasks, whichever of them are told no      *)
(* parent: a t_create that returns has the id of its own child, and the    *)
(* child starts with its context.                                          *)
THEOREM StartsSound == OneCreator => (Spec => []StartSound)
  <1> SUFFICES ASSUME OneCreator PROVE Spec => []StartSound
    OBVIOUS
  <1>1. RendezvousInv => StartSound
    BY NoticeFirst DEF RendezvousInv, StartInv, Registered, ContextFirst, StartSound
  <1>2. RendezvousInv /\ [Next]_vars => RendezvousInv'
    BY RendezvousStep
  <1> QED BY <1>1, <1>2, RendezvousInit, PTL DEF Spec

(* With one process that creates tasks, no rendezvous token is left over   *)
(* from one t_create to the next.                                          *)
THEOREM NoTokenStrays == OneCreator => (Spec => []NoStrayToken)
  <1> SUFFICES ASSUME OneCreator PROVE Spec => []NoStrayToken
    OBVIOUS
  <1>1. RendezvousInv => NoStrayToken
    BY TokenOwned
  <1>2. RendezvousInv /\ [Next]_vars => RendezvousInv'
    BY RendezvousStep
  <1> QED BY <1>1, <1>2, RendezvousInit, PTL DEF Spec
=============================================================================
