------------------------------ MODULE TablesProofs ------------------------------
(***************************************************************************)
(* Proofs about the tables of the shared segment and what is found through *)
(* them: how a thread learns its task, for every set of threads, however   *)
(* they share processes and cache lines, and every size of the table; the  *)
(* names of processes; memory regions; the options of ev_receive().        *)
(***************************************************************************)
EXTENDS MCTables, HerosQueueTableProofs, FiniteSetTheorems, SequenceTheorems

-----------------------------------------------------------------------------
(* Task identity                                                           *)

\* No other thread of its process uses t's cache line.
Alone(t) == \A u \in Threads \ {t} : process[u] = process[t] => hash[u] # hash[t]

\* Entry i of the table is t's.
Owns(t, i) == i \in Entries /\ tasks[i] = t

(* What a thread that is alone on its cache line finds there is its own or *)
(* nothing, and so is what it carries through task_self().                 *)
Honest(t) ==
    /\ Cached(t).tid \in {NoThread, t}
    /\ Cached(t).id = 0 \/ Owns(t, Cached(t).id)
    /\ pc[t] \in {"testTid", "hit"} => Owns(t, Cached(t).id) /\ Owns(t, hit[t])
    /\ pc[t] \in {"store", "storeId", "storeTid"} => Owns(t, hit[t])
    /\ self[t] = 0 \/ Own(t) \/ Overflown(t)

IdInv == TypeOK /\ OneEntryPerThread /\ \A t \in Threads : Alone(t) => Honest(t)

LEMMA IdInitInv == Init => IdInv
  <1> SUFFICES ASSUME Init PROVE IdInv
    OBVIOUS
  <1>1. TypeOK /\ OneEntryPerThread
    BY DEF Init, TypeOK, OneEntryPerThread
  <1>2. ASSUME NEW t \in Threads PROVE Honest(t)
    BY DEF Init, Honest, Cached, Processes, Hashes
  <1> QED BY <1>1, <1>2 DEF IdInv

(* A thread has a line in the cache of its process.                        *)
LEMMA Line ==
    \A t \in Threads : process[t] \in Processes /\ hash[t] \in Hashes
  BY DEF Processes, Hashes

(* The search for the thread's entry finds it, the one for a free entry    *)
(* finds a free one.                                                       *)
LEMMA EntryFound ==
    ASSUME NEW t, Registered(t)
    PROVE  Owns(t, EntryOf(t))
  BY DEF Registered, EntryOf, Owns

LEMMA FreeFound ==
    ASSUME FreeEntries # {}
    PROVE  Min(FreeEntries) \in Entries /\ tasks[Min(FreeEntries)] = NoThread
  <1>1. FreeEntries \subseteq Nat
    BY TaskIdAssumption DEF FreeEntries, Entries
  <1>2. Min(FreeEntries) \in FreeEntries
    BY <1>1, FirstSlot
  <1> QED BY <1>2 DEF FreeEntries

\* What Register does: find t's entry, or give it a free one, or none.
LEMMA RegisterCases ==
    ASSUME NEW t, Register(t)
    PROVE  \/ /\ \E i \in Entries : tasks[i] = t /\ hit' = [hit EXCEPT ![t] = i]
              /\ Goto(t, "store")
              /\ UNCHANGED <<tasks, self>>
           \/ /\ ~ Registered(t) /\ FreeEntries = {}
              /\ ReturnId(t, FullId)
              /\ UNCHANGED <<tasks, hit>>
           \/ /\ ~ Registered(t)
              /\ \E i \in Entries : /\ tasks[i] = NoThread
                                    /\ tasks' = [tasks EXCEPT ![i] = t]
                                    /\ hit' = [hit EXCEPT ![t] = i]
              /\ Goto(t, "store")
              /\ UNCHANGED self
  <1>1. CASE Registered(t)
    BY <1>1, EntryFound DEF Register, Owns
  <1>2. CASE ~ Registered(t) /\ FreeEntries = {}
    BY <1>2 DEF Register
  <1>3. CASE ~ Registered(t) /\ FreeEntries # {}
    BY <1>3, FreeFound DEF Register
  <1> QED BY <1>1, <1>2, <1>3

LEMMA EntryStep ==
    ASSUME TypeOK, OneEntryPerThread, NEW t \in Threads, Register(t)
    PROVE  TypeOK' /\ OneEntryPerThread'
  <1> USE TaskIdAssumption DEF TypeOK, Goto, ReturnId, FullId
  <1>0. UNCHANGED tcache /\ Entries \subseteq Nat
    BY DEF Register, Entries
  <1>1. CASE /\ \E i \in Entries : tasks[i] = t /\ hit' = [hit EXCEPT ![t] = i]
             /\ Goto(t, "store")
             /\ UNCHANGED <<tasks, self>>
    BY <1>0, <1>1 DEF OneEntryPerThread
  <1>2. CASE ReturnId(t, FullId) /\ UNCHANGED <<tasks, hit>>
    BY <1>0, <1>2 DEF OneEntryPerThread
  <1>3. ASSUME NEW i \in Entries, ~ Registered(t), tasks[i] = NoThread,
               tasks' = [tasks EXCEPT ![i] = t], hit' = [hit EXCEPT ![t] = i],
               Goto(t, "store"), UNCHANGED self
        PROVE  TypeOK' /\ OneEntryPerThread'
    <2>1. TypeOK'
      BY <1>0, <1>3
    <2>2. OneEntryPerThread'
      BY <1>3 DEF OneEntryPerThread, Registered
    <2> QED BY <2>1, <2>2
  <1> QED BY <1>1, <1>2, <1>3, RegisterCases

(* A store into t's cache line changes one field of it and nothing else.   *)
LineType == [tid : Threads \cup {NoThread}, id : Nat]

LEMMA Write ==
    ASSUME TypeOK, NEW t \in Threads, NEW l \in LineType,
           tcache' = [tcache EXCEPT ![process[t]] = [@ EXCEPT ![hash[t]] = l]]
    PROVE  /\ tcache' \in [Processes -> [Hashes -> LineType]]
           /\ Cached(t)' = l
           /\ \A r \in Threads :
                process[r] # process[t] \/ hash[r] # hash[t] => Cached(r)' = Cached(r)
  <1>1. tcache \in [Processes -> [Hashes -> LineType]]
    BY DEF TypeOK, LineType
  <1>2. [tcache[process[t]] EXCEPT ![hash[t]] = l] \in [Hashes -> LineType]
    BY <1>1, Line
  <1> QED BY <1>1, <1>2, Line DEF Cached

LEMMA WriteTid ==
    ASSUME TypeOK, NEW t \in Threads, NEW v \in Threads,
           tcache' = [tcache EXCEPT ![process[t]][hash[t]].tid = v]
    PROVE  /\ tcache' \in [Processes -> [Hashes -> LineType]]
           /\ Cached(t)'.tid = v /\ Cached(t)'.id = Cached(t).id
           /\ \A r \in Threads :
                process[r] # process[t] \/ hash[r] # hash[t] => Cached(r)' = Cached(r)
  <1> DEFINE l == [Cached(t) EXCEPT !.tid = v]
  <1>1. Cached(t) \in LineType
    BY Line DEF TypeOK, Cached, LineType
  <1>2. l \in LineType /\ l.tid = v /\ l.id = Cached(t).id
    BY <1>1 DEF LineType
  <1>3. tcache' = [tcache EXCEPT ![process[t]] = [@ EXCEPT ![hash[t]] = l]]
    BY DEF Cached
  <1> HIDE DEF l
  <1> QED BY <1>2, <1>3, Write

LEMMA WriteId ==
    ASSUME TypeOK, NEW t \in Threads, NEW v \in Nat,
           tcache' = [tcache EXCEPT ![process[t]][hash[t]].id = v]
    PROVE  /\ tcache' \in [Processes -> [Hashes -> LineType]]
           /\ Cached(t)'.id = v /\ Cached(t)'.tid = Cached(t).tid
           /\ \A r \in Threads :
                process[r] # process[t] \/ hash[r] # hash[t] => Cached(r)' = Cached(r)
  <1> DEFINE l == [Cached(t) EXCEPT !.id = v]
  <1>1. Cached(t) \in LineType
    BY Line DEF TypeOK, Cached, LineType
  <1>2. l \in LineType /\ l.id = v /\ l.tid = Cached(t).tid
    BY <1>1 DEF LineType
  <1>3. tcache' = [tcache EXCEPT ![process[t]] = [@ EXCEPT ![hash[t]] = l]]
    BY DEF Cached
  <1> HIDE DEF l
  <1> QED BY <1>2, <1>3, Write

\* What the two kinds of stores do to t's cache line, and to the others.
Recorded(t) ==
    /\ tcache' \in [Processes -> [Hashes -> LineType]]
    /\ Cached(t)'.tid \in {Cached(t).tid, t} /\ Cached(t)'.id \in {Cached(t).id, hit[t]}
    /\ \A r \in Threads :
         process[r] # process[t] \/ hash[r] # hash[t] => Cached(r)' = Cached(r)

LEMMA StoreIs ==
    ASSUME TypeOK, NEW t \in Threads, Store(t) \/ StoreSecond(t)
    PROVE  Recorded(t)
  <1>1. hit[t] \in Nat
    BY DEF TypeOK
  <1> QED BY <1>1, WriteTid, WriteId DEF Store, StoreSecond, Recorded

LEMMA IdTypeStep ==
    ASSUME TypeOK, OneEntryPerThread, [Next]_vars
    PROVE  TypeOK' /\ OneEntryPerThread'
  <1> USE Line DEF TypeOK, Goto, ReturnId, Cached
  <1>1. CASE UNCHANGED vars
    BY <1>1 DEF vars, OneEntryPerThread
  <1>2. ASSUME NEW t \in Threads, Register(t) PROVE TypeOK' /\ OneEntryPerThread'
    BY <1>2, EntryStep
  <1>3. ASSUME NEW t \in Threads, Call(t) \/ TestId(t) \/ TestTid(t) \/ Hit(t)
        PROVE  TypeOK' /\ OneEntryPerThread'
    <2>1. TypeOK'
      <3>1. CASE Call(t)         BY <3>1 DEF Call
      <3>2. CASE TestId(t)       BY <3>2 DEF TestId
      <3>3. CASE TestTid(t)      BY <3>3 DEF TestTid
      <3>4. CASE Hit(t)          BY <3>4 DEF Hit
      <3> QED BY <1>3, <3>1, <3>2, <3>3, <3>4
    <2> QED BY <1>3, <2>1 DEF Call, TestId, TestTid, Hit, OneEntryPerThread
  <1>4. ASSUME NEW t \in Threads, Store(t) \/ StoreSecond(t)
        PROVE  TypeOK' /\ OneEntryPerThread'
    <2>1. TypeOK'
      <3>1. CASE Store(t)        BY <3>1, StoreIs DEF Store, Recorded, LineType
      <3>2. CASE StoreSecond(t)  BY <3>2, StoreIs DEF StoreSecond, Recorded, LineType
      <3> QED BY <1>4, <3>1, <3>2
    <2> QED BY <1>4, <2>1 DEF Store, StoreSecond, OneEntryPerThread
  <1> QED BY <1>1, <1>2, <1>3, <1>4 DEF Next

-----------------------------------------------------------------------------
(* What a step of another thread leaves of r's: its entries, for entries   *)
(* are never freed, and its cache line.                                    *)
LEMMA Undisturbed ==
    ASSUME TypeOK, NEW r \in Threads, Honest(r),
           \A i \in Entries : tasks[i] # NoThread => tasks'[i] = tasks[i],
           FreeEntries = {} => tasks' = tasks,
           Cached(r)' = Cached(r), hit'[r] = hit[r], self'[r] = self[r], pc'[r] = pc[r]
    PROVE  Honest(r)'
  <1>1. ASSUME NEW i, Owns(r, i) PROVE Owns(r, i)'
    BY <1>1, TaskIdAssumption DEF Owns
  <1>2. Own(r) => Own(r)'
    BY <1>1 DEF Own, Owns
  <1>3. Overflown(r) => Overflown(r)'
    BY DEF Overflown, FreeEntries, Registered
  <1> QED BY <1>1, <1>2, <1>3 DEF Honest

(* A thread that is alone is not disturbed by the steps of the others ...  *)
LEMMA OtherStep ==
    ASSUME TypeOK, NEW r \in Threads, Alone(r), Honest(r), NEW t \in Threads, t # r,
           Call(t) \/ TestId(t) \/ TestTid(t) \/ Hit(t) \/ Register(t) \/ Store(t)
             \/ StoreSecond(t)
    PROVE  Honest(r)'
  <1> USE Line DEF TypeOK, Goto, ReturnId
  <1>1. process[t] # process[r] \/ hash[t] # hash[r]
    BY DEF Alone
  <1>2. CASE Call(t) \/ TestId(t) \/ TestTid(t) \/ Hit(t)
    BY <1>2, Undisturbed DEF Call, TestId, TestTid, Hit, Cached
  <1>3. CASE Register(t)
    <2>1. /\ \A i \in Entries : tasks[i] # NoThread => tasks'[i] = tasks[i]
          /\ FreeEntries = {} => tasks' = tasks
      BY <1>3, RegisterCases DEF FreeEntries
    <2>2. hit'[r] = hit[r] /\ self'[r] = self[r] /\ pc'[r] = pc[r]
      BY <1>3, RegisterCases
    <2>3. Cached(r)' = Cached(r)
      BY <1>3 DEF Register, Cached
    <2> QED BY <2>1, <2>2, <2>3, Undisturbed
  <1>4. CASE Store(t) \/ StoreSecond(t)
    <2>1. /\ hit'[r] = hit[r] /\ self'[r] = self[r] /\ pc'[r] = pc[r]
          /\ tasks' = tasks
      BY <1>4 DEF Store, StoreSecond
    <2>2. Cached(r)' = Cached(r)
      BY <1>1, <1>4, StoreIs DEF Recorded
    <2> QED BY <2>1, <2>2, Undisturbed
  <1> QED BY <1>2, <1>3, <1>4

(* ... and its own steps find and leave it honest.                         *)
LEMMA OwnStep ==
    ASSUME TypeOK, NEW t \in Threads, Honest(t),
           Call(t) \/ TestId(t) \/ TestTid(t) \/ Hit(t) \/ Register(t) \/ Store(t)
             \/ StoreSecond(t)
    PROVE  Honest(t)'
  <1> USE Line, TaskIdAssumption DEF TypeOK, Goto, ReturnId, Honest
  <1>1. CASE Call(t)
    BY <1>1 DEF Call, Cached, Owns, Own, Overflown, Registered, FreeEntries
  <1>2. CASE TestId(t)
    BY <1>2 DEF TestId, Cached, Owns, Own, Overflown, Registered, FreeEntries
  <1>3. CASE TestTid(t)
    BY <1>3 DEF TestTid, Cached, Owns, Own, Overflown, Registered, FreeEntries
  <1>4. CASE Hit(t)
    BY <1>4 DEF Hit, Cached, Owns, Own
  <1>5. CASE Register(t)
    <2>0. Cached(t)' = Cached(t)
      BY <1>5 DEF Register, Cached
    <2>1. CASE /\ \E i \in Entries : tasks[i] = t /\ hit' = [hit EXCEPT ![t] = i]
               /\ Goto(t, "store")
               /\ UNCHANGED <<tasks, self>>
      BY <2>0, <2>1 DEF Owns, Own, Overflown, Registered, FreeEntries
    <2>2. CASE /\ ~ Registered(t) /\ FreeEntries = {}
               /\ ReturnId(t, FullId)
               /\ UNCHANGED <<tasks, hit>>
      BY <2>0, <2>2 DEF Owns, Own, Overflown, Registered, FreeEntries
    <2>3. ASSUME ~ Registered(t), NEW i \in Entries, tasks[i] = NoThread,
                 tasks' = [tasks EXCEPT ![i] = t], hit' = [hit EXCEPT ![t] = i],
                 Goto(t, "store"), UNCHANGED self
          PROVE  Honest(t)'
      <3>1. \A j : Owns(t, j) => Owns(t, j)'
        BY <2>3 DEF Owns
      <3>2. Owns(t, i)' /\ hit'[t] = i /\ pc'[t] = "store"
        BY <2>3 DEF Owns
      <3>3. Own(t) => Own(t)'
        BY <2>3 DEF Own
      <3>4. ~ Overflown(t)
        BY <2>3 DEF Overflown, FreeEntries
      <3> QED BY <2>0, <2>3, <3>1, <3>2, <3>3, <3>4
    <2> QED BY <1>5, <2>1, <2>2, <2>3, RegisterCases
  <1>6. CASE Store(t)
    <2>1. /\ Cached(t)'.tid \in {Cached(t).tid, t}
          /\ Cached(t)'.id \in {Cached(t).id, hit[t]}
          /\ pc[t] = "store" /\ pc'[t] \in {"storeId", "storeTid"}
          /\ UNCHANGED <<tasks, hit, self>>
      BY <1>6, StoreIs DEF Store, Recorded
    <2> QED BY <2>1 DEF Owns, Own, Overflown, Registered, FreeEntries
  <1>7. CASE StoreSecond(t)
    <2>1. /\ Cached(t)'.tid \in {Cached(t).tid, t}
          /\ Cached(t)'.id \in {Cached(t).id, hit[t]}
          /\ pc[t] \in {"storeId", "storeTid"} /\ pc'[t] = "idle"
          /\ self'[t] = hit[t] /\ UNCHANGED <<tasks, hit>>
      BY <1>7, StoreIs DEF StoreSecond, Recorded
    <2> QED BY <2>1 DEF Owns, Own
  <1> QED BY <1>1, <1>2, <1>3, <1>4, <1>5, <1>6, <1>7

LEMMA IdInvStep == IdInv /\ [Next]_vars => IdInv'
  <1> SUFFICES ASSUME IdInv, [Next]_vars PROVE IdInv'
    OBVIOUS
  <1> USE DEF IdInv
  <1>1. TypeOK' /\ OneEntryPerThread'
    BY IdTypeStep
  <1>2. ASSUME NEW r \in Threads, Alone(r) PROVE Honest(r)'
    <2>1. CASE UNCHANGED vars
      BY <1>2, <2>1 DEF vars, Honest, Cached, Owns, Own, Overflown, Registered, FreeEntries
    <2>2. ASSUME NEW t \in Threads,
                 Call(t) \/ TestId(t) \/ TestTid(t) \/ Hit(t) \/ Register(t) \/ Store(t)
                   \/ StoreSecond(t)
          PROVE  Honest(r)'
      <3>1. CASE t = r       BY <1>2, <2>2, <3>1, OwnStep
      <3>2. CASE t # r       BY <1>2, <2>2, <3>2, OtherStep
      <3> QED BY <3>1, <3>2
    <2> QED BY <2>1, <2>2 DEF Next
  <1>3. \A r \in Threads : Alone(r)' <=> Alone(r)
    BY DEF Alone
  <1> QED BY <1>1, <1>2, <1>3

-----------------------------------------------------------------------------
(* The inductive invariant holds in every reachable state.                 *)
THEOREM IdInvariance == Spec => []IdInv
  BY IdInitInv, IdInvStep, PTL DEF Spec

(* The table and the caches keep their types.                              *)
THEOREM IdTyped == Spec => []TypeOK
  <1>1. IdInv => TypeOK
    BY DEF IdInv
  <1> QED BY <1>1, IdInvariance, PTL

(* A thread is never registered twice.                                     *)
THEOREM OneEntry == Spec => []OneEntryPerThread
  <1>1. IdInv => OneEntryPerThread
    BY DEF IdInv
  <1> QED BY <1>1, IdInvariance, PTL

(* A thread that shares its cache line with no other is always told its    *)
(* own identity, although the cache is read and written without a lock.    *)
THEOREM AloneIsRight == Spec => []OwnIdentityAlone
  <1>1. IdInv => OwnIdentityAlone
    BY DEF IdInv, OwnIdentityAlone, Alone, Honest
  <1> QED BY <1>1, IdInvariance, PTL

-----------------------------------------------------------------------------
(* The options of ev_receive()                                             *)

(* A wait that EV_UNBLOCK_MS ends is answered with the bit that is named   *)
(* for it; without one it is answered with every bit it asked for, sent or *)
(* not, the rendezvous bit among them.                                     *)
UnblockNamed == Unblock => InjectBit # {}

EwInv ==
    /\ StandInsHonest
    /\ Rendezvous \in ewEvents => Rendezvous \in ewSent
    /\ ewSynthetic => Unblock

LEMMA EwInvInit == EwInit => EwInv
  BY DEF EwInit, EwInv, StandInsHonest

LEMMA EwInvStep == UnblockNamed /\ EwInv /\ [EwNext]_ewVars => EwInv'
  <1> SUFFICES ASSUME UnblockNamed, EwInv, [EwNext]_ewVars PROVE EwInv'
    OBVIOUS
  <1> USE DEF EwInv, StandInsHonest, UnblockNamed, ewVars, ewCall, EwReturn, EwNoCall
  <1>1. ASSUME NEW B, EwSend(B) PROVE EwInv'
    BY <1>1 DEF EwSend
  <1>2. ASSUME NEW W, NEW all, NEW time, EwReceive(W, all, time) PROVE EwInv'
    BY <1>2 DEF EwReceive
  <1>3. CASE EwInject
    BY <1>3 DEF EwInject
  <1>4. CASE EwCatch
    BY <1>4 DEF EwCatch
  <1>5. CASE EwPoll
    BY <1>5 DEF EwPoll
  <1>6. CASE EwFire
    BY <1>6 DEF EwFire, FireBits
  <1>7. CASE EwSleep \/ EwElapse
    BY <1>7 DEF EwSleep, EwElapse
  <1>8. CASE EwExpire
    BY <1>8 DEF EwExpire
  <1>9. CASE UNCHANGED ewVars
    BY <1>9
  <1> QED BY <1>1, <1>2, <1>3, <1>4, <1>5, <1>6, <1>7, <1>8, <1>9 DEF EwNext

(* Whatever stands in for an event, none that was sent is lost, and no     *)
(* task is told that the one it made is there unless it was.               *)
THEOREM OptionsHonest == UnblockNamed => (EwSpec => []StandInsHonest)
  <1> SUFFICES ASSUME UnblockNamed PROVE EwSpec => []StandInsHonest
    OBVIOUS
  <1>1. EwInv => StandInsHonest
    BY DEF EwInv
  <1>2. EwInv /\ [EwNext]_ewVars => EwInv'
    BY EwInvStep
  <1> QED BY <1>1, <1>2, EwInvInit, PTL DEF EwSpec

-----------------------------------------------------------------------------
(* Regions of the first emulator                                           *)

(* Its table has no lock: calls of two threads that overlap can both make  *)
(* the region of a name, or both map it.                                   *)
OneCaller == \A t, u \in EmThreads : t = u

Region == [name : EmNames \cup {"cut"}, id : Int, addr : Nat]

EmTypeOK ==
    /\ regs \in Seq(Region) /\ Len(regs) <= MAXREG /\ nextMap \in Nat \ {0}
    /\ \A x \in emSeen : x[1] \in EmNames
    /\ DOMAIN emPc = EmThreads
    /\ emText \in [EmThreads -> [len : Nat, size : Nat]]

\* An entry has the id of its place, an address of its own, and a name of its
\* own unless that was cut.
Entered ==
    /\ \A i \in DOMAIN regs : /\ regs[i].id = RegionId(i) /\ regs[i].addr < nextMap
                              /\ regs[i].name = "cut" \/ EmLen[regs[i].name] <= NAMEKEEP
    /\ \A i, j \in DOMAIN regs :
         i # j => /\ regs[i].addr # regs[j].addr \/ regs[i].addr = 0
                  /\ regs[i].name # regs[j].name \/ regs[i].name = "cut"

\* A name was given the ids of entries that keep it, no id was given two names.
Given ==
    /\ \A x \in emSeen : \E k \in DOMAIN regs : x[2] = RegionId(k) /\ regs[k].name = Stored(x[1])
    /\ \A x, y \in emSeen : x[2] = y[2] => x[1] = y[1]

\* What a call has found is still so when it goes on.
Calling(t) ==
    \/ emPc[t] = Ready
    \/ \E n \in EmNames : /\ emPc[t] = [at |-> "store", name |-> n]
                          /\ Found(n) = {} /\ Len(regs) < MAXREG
    \/ \E i \in DOMAIN regs : emPc[t] = [at |-> "map", place |-> i] /\ regs[i].addr = 0

Fits == \A t \in EmThreads :
          emText[t].len < emText[t].size \/ emText[t] = [len |-> 0, size |-> 0]

EmInv == EmTypeOK /\ Entered /\ Given /\ (\A t \in EmThreads : Calling(t)) /\ Fits

LEMMA EmInvInit == EmInit => EmInv
  BY EmAssumption
     DEF EmInit, EmInv, EmTypeOK, Entered, Given, Calling, Fits, Region, Ready

LEMMA EmInvSound == EmInv => RegionsApart
  <1> SUFFICES ASSUME EmInv PROVE RegionsApart
    OBVIOUS
  <1> USE DEF EmInv, EmTypeOK, Entered, Given
  <1>1. ASSUME NEW x \in emSeen, NEW y \in emSeen, x[1] = y[1], EmLen[x[1]] <= NAMEKEEP
        PROVE  x[2] = y[2]
    <2>1. PICK k \in DOMAIN regs : x[2] = RegionId(k) /\ regs[k].name = Stored(x[1])
      OBVIOUS
    <2>2. PICK l \in DOMAIN regs : y[2] = RegionId(l) /\ regs[l].name = Stored(y[1])
      OBVIOUS
    <2>3. Stored(x[1]) = x[1] /\ x[1] # "cut"
      BY <1>1, EmAssumption DEF Stored
    <2> QED BY <1>1, <2>1, <2>2, <2>3
  <1>2. ASSUME NEW i \in DOMAIN regs, NEW j \in DOMAIN regs, i # j
        PROVE  regs[i].id # regs[j].id
    BY <1>2 DEF RegionId
  <1> QED BY <1>1, <1>2 DEF RegionsApart, Fits

\* The entry a search finds is one of those that qualify.
LEMMA SomeFirst ==
    ASSUME NEW n, regs \in Seq(Region), Found(n) # {}
    PROVE  LET i == CHOOSE j \in Found(n) : \A k \in Found(n) : j <= k
           IN  i \in DOMAIN regs /\ regs[i].name = n
  <1>1. Found(n) \subseteq Nat
    BY DEF Found
  <1>2. Min(Found(n)) \in Found(n) /\ \A k \in Found(n) : Min(Found(n)) <= k
    BY <1>1, FirstSlot
  <1> QED BY <1>2 DEF Found

LEMMA EmInvStep == OneCaller /\ EmInv /\ [EmNext]_emVars => EmInv'
  <1> SUFFICES ASSUME OneCaller, EmInv, [EmNext]_emVars PROVE EmInv'
    OBVIOUS
  <1> USE EmAssumption
  <1>0. /\ EmTypeOK /\ Entered /\ Given /\ Fits /\ \A t \in EmThreads : Calling(t)
    BY DEF EmInv
  \* What returns, or only notes where it goes on.
  <1>1. ASSUME NEW t \in EmThreads, UNCHANGED <<regs, nextMap, emText>>,
               NEW v, emPc' = [emPc EXCEPT ![t] = v],
               \/ v = Ready
               \/ \E n \in EmNames : /\ v = [at |-> "store", name |-> n]
                                     /\ Found(n) = {} /\ Len(regs) < MAXREG
               \/ \E i \in DOMAIN regs : v = [at |-> "map", place |-> i] /\ regs[i].addr = 0,
               \/ UNCHANGED emSeen
               \/ \E n \in EmNames, i \in DOMAIN regs :
                    regs[i].name = n /\ emSeen' = emSeen \cup {<<n, regs[i].id>>}
        PROVE  EmInv'
    <2>1. \A u \in EmThreads : Calling(u)'
      BY <1>0, <1>1 DEF EmTypeOK, Calling, Found, OneCaller
    <2>2. Entered' /\ Fits'
      BY <1>0, <1>1 DEF Entered, Fits
    <2>3. EmTypeOK'
      BY <1>0, <1>1 DEF EmTypeOK
    <2>4. Given'
      <3>1. CASE UNCHANGED emSeen
        BY <1>0, <1>1, <3>1 DEF Given
      <3>2. ASSUME NEW n \in EmNames, NEW i \in DOMAIN regs, regs[i].name = n,
                   emSeen' = emSeen \cup {<<n, regs[i].id>>}
            PROVE  Given'
        <4>1. regs[i].id = RegionId(i) /\ i \in Int /\ n # "cut"
          BY <1>0 DEF Entered, EmTypeOK
        <4>2. \A k \in DOMAIN regs : RegionId(k) = RegionId(i) => k = i
          BY <1>0, <4>1 DEF RegionId, EmTypeOK
        <4>3. \A x \in emSeen : x[2] = RegionId(i) => x[1] = n
          <5> SUFFICES ASSUME NEW x \in emSeen, x[2] = RegionId(i) PROVE x[1] = n
            OBVIOUS
          <5>1. PICK k \in DOMAIN regs : x[2] = RegionId(k) /\ regs[k].name = Stored(x[1])
            BY <1>0 DEF Given
          <5>2. Stored(x[1]) = n
            BY <3>2, <4>2, <5>1
          <5> QED BY <4>1, <5>2 DEF Stored
        <4>4. \E k \in DOMAIN regs : RegionId(i) = RegionId(k) /\ regs[k].name = Stored(n)
          <5>1. n = Stored(n)
            BY <1>0, <3>2, <4>1 DEF Stored, Entered
          <5> QED BY <3>2, <5>1
        <4> QED BY <1>0, <1>1, <3>2, <4>1, <4>3, <4>4 DEF Given
      <3> QED BY <1>1, <3>1, <3>2
    <2> QED BY <2>1, <2>2, <2>3, <2>4 DEF EmInv
  <1>2. ASSUME NEW t \in EmThreads, NEW n \in EmNames, EmIdent(t, n) PROVE EmInv'
    <2>1. UNCHANGED <<regs, nextMap, emText>> /\ emPc[t] = Ready
      BY <1>2 DEF EmIdent, EmCall
    <2>2. CASE Found(n) # {}
      <3> DEFINE i == CHOOSE j \in Found(n) : \A k \in Found(n) : j <= k
      <3>1. i \in DOMAIN regs /\ regs[i].name = n
        BY <1>0, <2>2, SomeFirst DEF EmTypeOK
      <3>2. /\ emPc' = [emPc EXCEPT ![t] = Ready]
            /\ emSeen' = emSeen \cup {<<n, regs[i].id>>}
        BY <1>2, <2>2 DEF EmIdent, EmReturn
      <3> HIDE DEF i
      <3> QED BY <1>1, <2>1, <3>1, <3>2
    <2>3. CASE Found(n) = {} /\ Len(regs) >= MAXREG
      BY <1>1, <1>2, <2>1, <2>3 DEF EmIdent, EmReturn
    <2>4. CASE Found(n) = {} /\ ~ (Len(regs) >= MAXREG)
      <3>1. Len(regs) < MAXREG
        BY <1>0, <2>4 DEF EmTypeOK
      <3>2. emPc' = [emPc EXCEPT ![t] = [at |-> "store", name |-> n]] /\ UNCHANGED emSeen
        BY <1>2, <2>4 DEF EmIdent
      <3> QED BY <1>1, <2>1, <2>4, <3>1, <3>2
    <2> QED BY <2>2, <2>3, <2>4
  <1>3. ASSUME NEW t \in EmThreads, NEW id, EmAttach(t, id) PROVE EmInv'
    <2> DEFINE here == {i \in DOMAIN regs : regs[i].id = id}
               i == CHOOSE j \in here : TRUE
    <2>1. UNCHANGED <<regs, nextMap, emText, emSeen>> /\ emPc[t] = Ready
      BY <1>3 DEF EmAttach, EmCall
    <2>2. here # {} => i \in DOMAIN regs
      OBVIOUS
    <2>3. CASE emPc' = [emPc EXCEPT ![t] = Ready]
      BY <1>1, <2>1, <2>3
    <2>4. CASE /\ here # {} /\ regs[i].addr = 0
               /\ emPc' = [emPc EXCEPT ![t] = [at |-> "map", place |-> i]]
      <3> HIDE DEF i, here
      <3> QED BY <1>1, <2>1, <2>2, <2>4
    <2> QED BY <1>3, <2>3, <2>4 DEF EmAttach, EmReturn
  <1>4. ASSUME NEW t \in EmThreads, emPc[t] = Ready \/ emPc[t].at = "map",
               UNCHANGED <<regs, nextMap, emText, emSeen>>, emPc' = [emPc EXCEPT ![t] = Ready]
        PROVE  EmInv'
    BY <1>1, <1>4
  <1>5. ASSUME NEW t \in EmThreads, EmCreate(t) \/ (\E r : EmOther(t, r)) PROVE EmInv'
    BY <1>4, <1>5 DEF EmCreate, EmOther, EmReturn, EmCall
  <1>6. ASSUME NEW t \in EmThreads, NEW v \in DOMAIN EmValue, NEW size \in EmSizes,
               EmGetenv(t, v, size)
        PROVE  EmInv'
    <2>1. EnvGet(v, size) \in Nat /\ EnvGet(v, size) < size /\ size \in Nat
      BY DEF EnvGet
    <2>2. /\ UNCHANGED <<regs, nextMap, emSeen>> /\ emPc' = [emPc EXCEPT ![t] = Ready]
          /\ emText' = [emText EXCEPT ![t] = [len |-> EnvGet(v, size), size |-> size]]
      BY <1>6 DEF EmGetenv, EmReturn
    <2>3. Entered' /\ Given'
      BY <1>0, <2>2 DEF Entered, Given
    <2>4. EmTypeOK' /\ Fits'
      BY <1>0, <2>1, <2>2 DEF EmTypeOK, Fits
    <2>5. \A u \in EmThreads : Calling(u)'
      BY <1>0, <2>2 DEF Calling, EmTypeOK, Found, OneCaller
    <2> QED BY <2>3, <2>4, <2>5 DEF EmInv
  <1>7. ASSUME NEW t \in EmThreads, EmStore(t) PROVE EmInv'
    <2>1. PICK n \in EmNames : /\ emPc[t] = [at |-> "store", name |-> n]
                               /\ Found(n) = {} /\ Len(regs) < MAXREG
      <3>1. emPc[t].at = "store" /\ Calling(t) /\ Ready.at = "ready"
        BY <1>0, <1>7 DEF EmStore, Ready
      <3>2. \A i : [at |-> "map", place |-> i].at = "map"
        OBVIOUS
      <3> QED BY <3>1, <3>2 DEF Calling
    <2> DEFINE l == Len(regs) + 1
               new == [name |-> Stored(n), id |-> RegionId(l), addr |-> 0]
    <2>2. /\ regs' = Append(regs, new) /\ UNCHANGED <<nextMap, emText>>
          /\ emPc' = [emPc EXCEPT ![t] = Ready] /\ emSeen' = emSeen \cup {<<n, RegionId(l)>>}
      BY <1>7, <2>1 DEF EmStore, EmReturn
    <2>3. new \in Region /\ regs \in Seq(Region)
      BY <1>0 DEF Region, Stored, RegionId, EmTypeOK
    <2>4. /\ Len(regs') = l /\ regs' \in Seq(Region) /\ DOMAIN regs' = DOMAIN regs \cup {l}
          /\ regs'[l] = new /\ \A k \in DOMAIN regs : regs'[k] = regs[k] /\ k # l /\ k \in Int
      BY <2>2, <2>3
    <2>5. \A k \in DOMAIN regs : regs[k].name # n
      BY <2>1 DEF Found
    <2>6. l \in Int /\ \A k \in DOMAIN regs : RegionId(k) # RegionId(l)
      BY <2>3, <2>4 DEF RegionId
    <2> HIDE DEF l, new
    <2>a. new.id = RegionId(l) /\ new.name = Stored(n) /\ new.addr = 0
      BY DEF new
    <2>7. Entered'
      BY <1>0, <2>2, <2>4, <2>5, <2>6, <2>a DEF Entered, Stored, EmTypeOK
    <2>8. Given'
      <3>1. \A x \in emSeen : x[2] # RegionId(l)
        BY <1>0, <2>6 DEF Given
      <3>2. \A x \in emSeen : \E k \in DOMAIN regs' :
              x[2] = RegionId(k) /\ regs'[k].name = Stored(x[1])
        BY <1>0, <2>4 DEF Given
      <3>3. \E k \in DOMAIN regs' : RegionId(l) = RegionId(k) /\ regs'[k].name = Stored(n)
        BY <2>4, <2>a
      <3>4. \A x \in emSeen' : \E k \in DOMAIN regs' :
              x[2] = RegionId(k) /\ regs'[k].name = Stored(x[1])
        BY <2>2, <3>2, <3>3
      <3>5. \A x, y \in emSeen' : x[2] = y[2] => x[1] = y[1]
        BY <1>0, <2>2, <3>1 DEF Given
      <3> QED BY <3>4, <3>5 DEF Given
    <2>9. EmTypeOK' /\ Fits'
      BY <1>0, <2>1, <2>2, <2>4 DEF EmTypeOK, Fits, l
    <2>10. \A u \in EmThreads : Calling(u)'
      BY <1>0, <2>2 DEF Calling, EmTypeOK, OneCaller
    <2> QED BY <2>7, <2>8, <2>9, <2>10 DEF EmInv
  <1>8. ASSUME NEW t \in EmThreads, EmMap(t) PROVE EmInv'
    <2>1. PICK i \in DOMAIN regs : emPc[t] = [at |-> "map", place |-> i] /\ regs[i].addr = 0
      <3>1. emPc[t].at = "map" /\ Calling(t) /\ Ready.at = "ready"
        BY <1>0, <1>8 DEF EmMap, Ready
      <3>2. \A n : [at |-> "store", name |-> n].at = "store"
        OBVIOUS
      <3> QED BY <3>1, <3>2 DEF Calling
    <2>2. CASE EmReturn(t, 0) /\ UNCHANGED <<regs, nextMap>>
      BY <1>4, <1>8, <2>1, <2>2 DEF EmMap, EmReturn
    <2>3. CASE /\ regs' = [regs EXCEPT ![i].addr = nextMap]
               /\ nextMap' = nextMap + 1 /\ EmReturn(t, nextMap)
      <3>1. /\ UNCHANGED <<emText, emSeen>> /\ emPc' = [emPc EXCEPT ![t] = Ready]
            /\ nextMap \in Nat \ {0} /\ regs \in Seq(Region)
        BY <1>0, <1>8, <2>3 DEF EmMap, EmReturn, EmTypeOK
      <3>r. \A k \in DOMAIN regs : regs[k] \in Region
        BY <3>1
      <3>e. regs' = [regs EXCEPT ![i] = [regs[i] EXCEPT !.addr = nextMap]]
        BY <2>3
      <3> DEFINE new == [regs[i] EXCEPT !.addr = nextMap]
      <3>n. /\ new \in Region /\ new.addr = nextMap
            /\ new.name = regs[i].name /\ new.id = regs[i].id
        BY <3>1, <3>r DEF Region
      <3>l. \A k \in DOMAIN regs : regs[k].addr \in Nat
        BY <3>r DEF Region
      <3> HIDE DEF new
      <3>2. regs' \in Seq(Region) /\ Len(regs') = Len(regs) /\ DOMAIN regs' = DOMAIN regs
        BY <3>1, <3>e, <3>n DEF new
      <3>f. \A k \in DOMAIN regs : regs'[k] = IF k = i THEN new ELSE regs[k]
        BY <3>e, <3>1 DEF new
      <3>3. /\ \A k \in DOMAIN regs : /\ regs'[k].name = regs[k].name /\ regs'[k].id = regs[k].id
                                      /\ k # i => regs'[k].addr = regs[k].addr
                                      /\ regs[k].addr \in Nat
            /\ regs'[i].addr = nextMap
        BY <3>f, <3>n, <3>l
      <3>4. Entered'
        BY <1>0, <2>3, <3>1, <3>2, <3>3 DEF Entered
      <3>5. Given'
        BY <1>0, <3>1, <3>2, <3>3 DEF Given
      <3>6. EmTypeOK' /\ Fits'
        BY <1>0, <2>3, <3>1, <3>2 DEF EmTypeOK, Fits
      <3>7. \A u \in EmThreads : Calling(u)'
        BY <1>0, <3>1 DEF Calling, EmTypeOK, OneCaller
      <3> QED BY <3>4, <3>5, <3>6, <3>7 DEF EmInv
    <2> QED BY <1>8, <2>1, <2>2, <2>3 DEF EmMap
  <1>9. CASE UNCHANGED emVars
    BY <1>0, <1>9 DEF emVars, EmInv, EmTypeOK, Entered, Given, Calling, Fits, Found
  <1> QED BY <1>2, <1>3, <1>5, <1>6, <1>7, <1>8, <1>9 DEF EmNext, EmStep

(* Calls that do not overlap keep every region at one id and one address   *)
(* apart from the others', fill the table no further than its end, and     *)
(* leave room in a buffer for the 0 that ends a value.                     *)
THEOREM RegionsStayApart == OneCaller => (EmInit /\ [][EmNext]_emVars => []RegionsApart)
  <1> SUFFICES ASSUME OneCaller PROVE EmInit /\ [][EmNext]_emVars => []RegionsApart
    OBVIOUS
  <1>1. EmInv /\ [EmNext]_emVars => EmInv'
    BY EmInvStep
  <1> QED BY <1>1, EmInvInit, EmInvSound, PTL

-----------------------------------------------------------------------------
(* Shared-memory regions                                                   *)

(* The cache of a process has no lock: two of its threads that attach at   *)
(* once can take the same entry of it, and leave there the id of one       *)
(* region with the address of the other.                                   *)
OneAttacher == \A t, u \in RgThreads : RgProcess(t) = RgProcess(u) => t = u

RgTypeOK ==
    /\ rgTable \in Seq(RgNames) /\ Len(rgTable) <= MaxReg
    /\ rgMaps \in [RgProcs -> Seq(RgNames)]
    /\ rgCache \in [RgProcs -> [1..MaxReg -> [id : Nat, ptr : Nat]]]
    /\ DOMAIN rgTask = RgThreads

\* Address m of process p is memory of region id.
Backs(p, m, id) == id \in DOMAIN rgTable /\ m \in DOMAIN rgMaps[p] /\ rgMaps[p][m] = File(id)

\* What is cached is right and has one entry.
CacheRight(p) ==
    /\ \A i \in 1..MaxReg :
         rgCache[p][i].ptr # 0 => Backs(p, rgCache[p][i].ptr, rgCache[p][i].id)
    /\ \A i, j \in 1..MaxReg : /\ rgCache[p][i].ptr # 0 /\ rgCache[p][j].ptr # 0
                              /\ rgCache[p][i].id = rgCache[p][j].id
                              => i = j

\* What a thread that attaches carries, of a region that is not cached.
Attaching(t, id) ==
    LET p == RgProcess(t)
    IN  /\ CachedMaps(p, id) = {}
        /\ \/ rgTask[t] = [at |-> "map", id |-> id]
           \/ \E m \in DOMAIN rgMaps[p] :
                /\ Backs(p, m, id)
                /\ \/ rgTask[t] = [at |-> "slot", id |-> id, ptr |-> m]
                   \/ \E i \in 1..MaxReg :
                        /\ rgTask[t] = [at |-> "store", id |-> id, ptr |-> m, i |-> i]
                        /\ rgCache[p][i] = [id |-> id, ptr |-> 0]

\* A mapping is one that is cached or about to be.
Kept(p, m, id) ==
    \/ \E i \in CachedMaps(p, id) : rgCache[p][i].ptr = m
    \/ \E t \in RgThreads : /\ RgProcess(t) = p /\ rgTask[t].at \in {"slot", "store"}
                            /\ rgTask[t].id = id /\ rgTask[t].ptr = m

RgInv ==
    /\ RgTypeOK
    /\ \A p \in RgProcs :
         /\ CacheRight(p)
         /\ \A m \in DOMAIN rgMaps[p] : \E id \in DOMAIN rgTable : Kept(p, m, id)
    /\ \A t \in RgThreads : rgTask[t] = Resting \/ \E id \in DOMAIN rgTable : Attaching(t, id)
    /\ \A g \in rgGot : g[1] \in RgProcs /\ Backs(g[1], g[3], g[2])

LEMMA RgInvInit == RgInit => RgInv
  <1> SUFFICES ASSUME RgInit PROVE RgInv
    OBVIOUS
  <1>1. RgTypeOK
    BY RgAssumption DEF RgInit, RgTypeOK
  <1> QED BY <1>1 DEF RgInit, RgInv, CacheRight, CachedMaps, Resting

(* A thread that has mapped a region carries its id and its address.       *)
LEMMA AttachingIs ==
    ASSUME NEW t, NEW id, Attaching(t, id), rgTask[t].at \in {"slot", "store"}
    PROVE  rgTask[t].id = id /\ Backs(RgProcess(t), rgTask[t].ptr, id)
  <1>1. /\ \A m : [at |-> "slot", id |-> id, ptr |-> m].id = id
        /\ \A m : [at |-> "slot", id |-> id, ptr |-> m].ptr = m
        /\ \A m, i : [at |-> "store", id |-> id, ptr |-> m, i |-> i].id = id
        /\ \A m, i : [at |-> "store", id |-> id, ptr |-> m, i |-> i].ptr = m
        /\ [at |-> "map", id |-> id].at = "map"
    OBVIOUS
  <1>2. rgTask[t] # [at |-> "map", id |-> id]
    BY <1>1
  <1>3. PICK m \in DOMAIN rgMaps[RgProcess(t)] :
          /\ Backs(RgProcess(t), m, id)
          /\ \/ rgTask[t] = [at |-> "slot", id |-> id, ptr |-> m]
             \/ \E i \in 1..MaxReg : rgTask[t] = [at |-> "store", id |-> id, ptr |-> m, i |-> i]
    BY <1>2 DEF Attaching
  <1>4. CASE rgTask[t] = [at |-> "slot", id |-> id, ptr |-> m]
    BY <1>3, <1>4
  <1>5. CASE \E i \in 1..MaxReg : rgTask[t] = [at |-> "store", id |-> id, ptr |-> m, i |-> i]
    BY <1>3, <1>5
  <1> QED BY <1>3, <1>4, <1>5

LEMMA RgSound == OneAttacher /\ RgInv => OwnMemory /\ MappedOnce
  <1> SUFFICES ASSUME OneAttacher, RgInv PROVE OwnMemory /\ MappedOnce
    OBVIOUS
  <1>1. OwnMemory
    BY DEF RgInv, OwnMemory, Backs
  <1>2. ASSUME NEW p \in RgProcs, NEW m, NEW id \in DOMAIN rgTable, Kept(p, m, id)
        PROVE  Backs(p, m, id)
    <2>1. CASE \E i \in CachedMaps(p, id) : rgCache[p][i].ptr = m
      BY <2>1 DEF RgInv, CacheRight, CachedMaps
    <2>2. CASE \E t \in RgThreads : /\ RgProcess(t) = p /\ rgTask[t].at \in {"slot", "store"}
                                    /\ rgTask[t].id = id /\ rgTask[t].ptr = m
      <3>1. PICK t \in RgThreads : /\ RgProcess(t) = p /\ rgTask[t].at \in {"slot", "store"}
                                   /\ rgTask[t].id = id /\ rgTask[t].ptr = m
        BY <2>2
      <3>2. PICK k \in DOMAIN rgTable : Attaching(t, k)
        BY <3>1 DEF RgInv, Resting
      <3>3. k = id /\ Backs(p, m, id)
        BY <3>1, <3>2, AttachingIs
      <3> QED BY <3>3
    <2> QED BY <1>2, <2>1, <2>2 DEF Kept
  <1>3. ASSUME NEW p \in RgProcs, NEW id \in DOMAIN rgTable, NEW m, NEW k,
               Kept(p, m, id), Kept(p, k, id)
        PROVE  m = k
    <2>1. ASSUME NEW t \in RgThreads, RgProcess(t) = p, rgTask[t].at \in {"slot", "store"},
                 rgTask[t].id = id
          PROVE  CachedMaps(p, id) = {}
      <3>1. PICK j \in DOMAIN rgTable : Attaching(t, j)
        BY <2>1 DEF RgInv, Resting
      <3>2. j = id
        BY <2>1, <3>1, AttachingIs
      <3> QED BY <2>1, <3>1, <3>2 DEF Attaching
    <2>2. \A i, j \in CachedMaps(p, id) : i = j
      BY DEF RgInv, CacheRight, CachedMaps
    <2> QED BY <1>3, <2>1, <2>2 DEF Kept, OneAttacher
  <1>4. ASSUME NEW p \in RgProcs, NEW n \in RgNames
        PROVE  Cardinality({m \in DOMAIN rgMaps[p] : rgMaps[p][m] = n})
                 <= Cardinality({id \in DOMAIN rgTable : File(id) = n})
    <2> DEFINE S == {m \in DOMAIN rgMaps[p] : rgMaps[p][m] = n}
               T == {id \in DOMAIN rgTable : File(id) = n}
               f == [m \in S |-> CHOOSE id \in DOMAIN rgTable : Kept(p, m, id)]
    <2>1. \A m \in S : \E id \in DOMAIN rgTable : Kept(p, m, id)
      BY DEF RgInv
    <2>2. \A m \in S : f[m] \in DOMAIN rgTable /\ Kept(p, m, f[m])
      BY <2>1
    <2>3. \A m \in S : f[m] \in T
      BY <1>2, <2>2 DEF Backs
    <2>4. f \in Injection(S, T)
      <3>1. f \in [S -> T]
        BY <2>3
      <3>2. \A m, k \in S : f[m] = f[k] => m = k
        BY <1>3, <2>2
      <3> HIDE DEF f, S, T
      <3> QED BY <3>1, <3>2 DEF Injection, IsInjective
    <2>5. IsFiniteSet(T)
      <3>1. rgTable \in Seq(RgNames)
        BY DEF RgInv, RgTypeOK
      <3>2. DOMAIN rgTable = 1..Len(rgTable) /\ Len(rgTable) \in Int
        BY <3>1
      <3>3. IsFiniteSet(DOMAIN rgTable)
        BY <3>2, FS_Interval
      <3> QED BY <3>3, FS_Subset
    <2> HIDE DEF f, S, T
    <2>6. Cardinality(S) <= Cardinality(T)
      BY <2>4, <2>5, FS_Injection
    <2> QED BY <2>6 DEF S, T
  <1> QED BY <1>1, <1>4 DEF MappedOnce

LEMMA FirstIn ==
    ASSUME NEW S \in SUBSET Nat, S # {}
    PROVE  FirstOf(S) \in S
  <1>1. Min(S) \in S /\ \A k \in S : Min(S) <= k
    BY FirstSlot
  <1> QED BY <1>1 DEF FirstOf

(* There is room in the cache for a region that is not in it.              *)
LEMMA CacheRoom ==
    ASSUME NEW p \in RgProcs, NEW id \in DOMAIN rgTable,
           RgTypeOK, CacheRight(p), CachedMaps(p, id) = {}
    PROVE  \E i \in 1..MaxReg : rgCache[p][i].ptr = 0
  <1> SUFFICES ASSUME \A i \in 1..MaxReg : rgCache[p][i].ptr # 0 PROVE FALSE
    OBVIOUS
  <1> DEFINE D == DOMAIN rgTable
             g == [i \in 1..MaxReg |-> rgCache[p][i].id]
  <1>1. /\ rgTable \in Seq(RgNames) /\ Len(rgTable) <= MaxReg /\ Len(rgTable) \in Nat
        /\ D = 1..Len(rgTable) /\ id \in D
    BY DEF RgTypeOK
  <1>2. \A i \in 1..MaxReg : g[i] \in D \ {id}
    BY DEF CacheRight, CachedMaps, Backs
  <1>3. \A i, j \in 1..MaxReg : g[i] = g[j] => i = j
    BY DEF CacheRight
  <1>4. IsFiniteSet(D) /\ Cardinality(D) = Len(rgTable)
    <2>1. /\ IsFiniteSet(1..Len(rgTable))
          /\ Cardinality(1..Len(rgTable)) =
               IF 1 > Len(rgTable) THEN 0 ELSE Len(rgTable) - 1 + 1
      BY <1>1, FS_Interval
    <2> QED BY <1>1, <2>1
  <1>5. Cardinality(1..MaxReg) = MaxReg /\ MaxReg \in Nat
    <2>1. Cardinality(1..MaxReg) = IF 1 > MaxReg THEN 0 ELSE MaxReg - 1 + 1
      BY RgAssumption, FS_Interval
    <2> QED BY <2>1, RgAssumption
  <1>6. g \in [1..MaxReg -> D \ {id}] /\ DOMAIN g = 1..MaxReg
    BY <1>2
  <1> HIDE DEF g, D
  <1>7. g \in Injection(1..MaxReg, D \ {id})
    BY <1>3, <1>6 DEF Injection, IsInjective
  <1>8. /\ IsFiniteSet(D \ {id})
        /\ Cardinality(D \ {id}) = Len(rgTable) - 1
    BY <1>1, <1>4, FS_RemoveElement, ZenonT(60)
  <1>9. Cardinality(1..MaxReg) <= Cardinality(D \ {id})
    BY <1>7, <1>8, FS_Injection
  <1> QED BY <1>1, <1>5, <1>8, <1>9

(* A region that is named now was not mapped before.                       *)
LEMMA NamedStep == ASSUME RgInv, NEW n \in RgNames, M_ident(n) PROVE RgInv'
  <1>1. /\ rgTable \in Seq(RgNames) /\ Len(rgTable) < MaxReg /\ MaxReg \in Nat
        /\ rgTable' = Append(rgTable, n)
        /\ UNCHANGED <<rgCache, rgMaps, rgTask, rgGot>>
    BY RgAssumption DEF RgInv, RgTypeOK, M_ident
  <1>2. /\ rgTable' \in Seq(RgNames) /\ Len(rgTable') = Len(rgTable) + 1
        /\ \A id \in DOMAIN rgTable : id \in DOMAIN rgTable' /\ rgTable'[id] = rgTable[id]
    BY <1>1
  <1>3. RgTypeOK'
    BY <1>1, <1>2 DEF RgInv, RgTypeOK
  <1>4. \A p, m, id : Backs(p, m, id) => Backs(p, m, id)'
    BY <1>1, <1>2 DEF Backs, File
  <1>5. ASSUME NEW p \in RgProcs
        PROVE  /\ CacheRight(p)'
               /\ \A m \in DOMAIN rgMaps'[p] : \E id \in DOMAIN rgTable' : Kept(p, m, id)'
    <2>1. CacheRight(p)'
      BY <1>1, <1>4 DEF RgInv, CacheRight
    <2>2. \A m, id : Kept(p, m, id) => Kept(p, m, id)'
      BY <1>1 DEF Kept, CachedMaps
    <2> QED BY <1>1, <1>2, <2>1, <2>2 DEF RgInv
  <1>6. ASSUME NEW t \in RgThreads
        PROVE  rgTask'[t] = Resting \/ \E id \in DOMAIN rgTable' : Attaching(t, id)'
    <2>1. ASSUME NEW id, Attaching(t, id) PROVE Attaching(t, id)'
      BY <1>1, <1>4, <2>1 DEF Attaching, CachedMaps
    <2> QED BY <1>1, <1>2, <2>1 DEF RgInv
  <1>7. ASSUME NEW g \in rgGot' PROVE g[1] \in RgProcs /\ Backs(g[1], g[3], g[2])'
    BY <1>1, <1>4 DEF RgInv
  <1> QED BY <1>3, <1>5, <1>6, <1>7 DEF RgInv

(* A hit in the cache returns what is there, a miss goes on to map.        *)
LEMMA AttachStep ==
    ASSUME OneAttacher, RgInv, NEW t \in RgThreads, NEW id, M_attach(t, id) PROVE RgInv'
  <1> DEFINE p == RgProcess(t)
             C == CachedMaps(p, id)
  <1>1. /\ rgTask[t] = Resting /\ id \in DOMAIN rgTable /\ p \in RgProcs
        /\ UNCHANGED <<rgTable, rgCache, rgMaps>>
    BY DEF M_attach, RgProcs
  <1>2. \A q, m, k : Backs(q, m, k) <=> Backs(q, m, k)'
    BY <1>1 DEF Backs, File
  <1>3. \A q : (CacheRight(q) <=> CacheRight(q)') /\ (\A k : CachedMaps(q, k)' = CachedMaps(q, k))
    BY <1>1, <1>2 DEF CacheRight, CachedMaps
  <1>4. CASE C # {}
    <2>1. rgGot' = rgGot \cup {<<p, id, rgCache[p][FirstOf(C)].ptr>>} /\ rgTask' = rgTask
      BY <1>4 DEF M_attach
    <2>2. FirstOf(C) \in C
      BY <1>4, FirstIn DEF CachedMaps
    <2>3. Backs(p, rgCache[p][FirstOf(C)].ptr, id)
      BY <1>1, <2>2 DEF RgInv, CacheRight, CachedMaps
    <2>4. \A g \in rgGot' : g[1] \in RgProcs /\ Backs(g[1], g[3], g[2])'
      BY <1>1, <1>2, <2>1, <2>3 DEF RgInv
    <2>5. \A q, m, k : Kept(q, m, k) <=> Kept(q, m, k)'
      BY <1>1, <2>1 DEF Kept, CachedMaps
    <2>6. \A u, k : Attaching(u, k) => Attaching(u, k)'
      BY <1>1, <1>2, <1>3, <2>1 DEF Attaching
    <2>7. RgTypeOK'
      BY <1>1, <2>1 DEF RgInv, RgTypeOK
    <2> QED BY <1>1, <1>3, <2>1, <2>4, <2>5, <2>6, <2>7 DEF RgInv
  <1>5. CASE C = {}
    <2>1. /\ rgTask' = [rgTask EXCEPT ![t] = [at |-> "map", id |-> id]] /\ rgGot' = rgGot
          /\ DOMAIN rgTask = RgThreads
      BY <1>5 DEF M_attach, RgInv, RgTypeOK
    <2>2. \A g \in rgGot' : g[1] \in RgProcs /\ Backs(g[1], g[3], g[2])'
      BY <1>2, <2>1 DEF RgInv
    <2>3. \A q, m, k : Kept(q, m, k) => Kept(q, m, k)'
      <3>1. Resting.at = "idle"
        BY DEF Resting
      <3>2. \A u \in RgThreads : rgTask[u].at \in {"slot", "store"} => rgTask'[u] = rgTask[u]
        BY <1>1, <2>1, <3>1
      <3> QED BY <1>1, <1>3, <3>2 DEF Kept
    <2>4. Attaching(t, id)'
      BY <1>3, <1>5, <2>1 DEF Attaching
    <2>5. \A u \in RgThreads : \A k : u # t /\ Attaching(u, k) => Attaching(u, k)'
      BY <1>1, <1>2, <1>3, <2>1 DEF Attaching
    <2>6. RgTypeOK'
      BY <1>1, <2>1 DEF RgInv, RgTypeOK
    <2>7. \A u \in RgThreads : rgTask'[u] = Resting \/ \E k \in DOMAIN rgTable' : Attaching(u, k)'
      BY <1>1, <2>1, <2>4, <2>5 DEF RgInv
    <2>8. \A q \in RgProcs : /\ CacheRight(q)'
                             /\ \A m \in DOMAIN rgMaps'[q] : \E k \in DOMAIN rgTable' : Kept(q, m, k)'
      BY <1>1, <1>3, <2>3 DEF RgInv
    <2> QED BY <2>2, <2>6, <2>7, <2>8 DEF RgInv
  <1> QED BY <1>4, <1>5

(* Where a thread has got to tells what it carries.                        *)
LEMMA MapAs ==
    ASSUME NEW t, NEW id, Attaching(t, id), rgTask[t].at = "map"
    PROVE  rgTask[t] = [at |-> "map", id |-> id]
  <1>1. /\ \A m : [at |-> "slot", id |-> id, ptr |-> m].at = "slot"
        /\ \A m, i : [at |-> "store", id |-> id, ptr |-> m, i |-> i].at = "store"
    OBVIOUS
  <1> QED BY <1>1 DEF Attaching

LEMMA SlotAs ==
    ASSUME NEW t, NEW id, Attaching(t, id), rgTask[t].at = "slot"
    PROVE  \E m \in DOMAIN rgMaps[RgProcess(t)] :
             Backs(RgProcess(t), m, id) /\ rgTask[t] = [at |-> "slot", id |-> id, ptr |-> m]
  <1>1. rgTask[t] # [at |-> "map", id |-> id]
    OBVIOUS
  <1>2. ASSUME NEW m, NEW i PROVE rgTask[t] # [at |-> "store", id |-> id, ptr |-> m, i |-> i]
    OBVIOUS
  <1> QED BY <1>1, <1>2, Zenon DEF Attaching

LEMMA StoreAs ==
    ASSUME NEW t, NEW id, Attaching(t, id), rgTask[t].at = "store"
    PROVE  \E m \in DOMAIN rgMaps[RgProcess(t)] : \E i \in 1..MaxReg :
             /\ Backs(RgProcess(t), m, id)
             /\ rgTask[t] = [at |-> "store", id |-> id, ptr |-> m, i |-> i]
             /\ rgCache[RgProcess(t)][i] = [id |-> id, ptr |-> 0]
  <1>1. rgTask[t] # [at |-> "map", id |-> id]
    OBVIOUS
  <1>2. ASSUME NEW m PROVE rgTask[t] # [at |-> "slot", id |-> id, ptr |-> m]
    OBVIOUS
  <1> QED BY <1>1, <1>2, Zenon DEF Attaching

(* A thread keeps what it carries while its cache and its mappings stay.   *)
LEMMA AttachingStays ==
    ASSUME NEW u, NEW k, Attaching(u, k), rgTask'[u] = rgTask[u],
           rgCache'[RgProcess(u)] = rgCache[RgProcess(u)],
           \A n : Backs(RgProcess(u), n, k) => Backs(RgProcess(u), n, k)'
    PROVE  Attaching(u, k)'
  <1>1. CachedMaps(RgProcess(u), k)' = {}
    BY DEF Attaching, CachedMaps
  <1>2. CASE rgTask[u] = [at |-> "map", id |-> k]
    BY <1>1, <1>2 DEF Attaching
  <1>3. ASSUME NEW n, n \in DOMAIN rgMaps[RgProcess(u)], Backs(RgProcess(u), n, k),
               \/ rgTask[u] = [at |-> "slot", id |-> k, ptr |-> n]
               \/ \E i \in 1..MaxReg :
                    /\ rgTask[u] = [at |-> "store", id |-> k, ptr |-> n, i |-> i]
                    /\ rgCache[RgProcess(u)][i] = [id |-> k, ptr |-> 0]
        PROVE  Attaching(u, k)'
    <2>1. n \in DOMAIN rgMaps'[RgProcess(u)] /\ Backs(RgProcess(u), n, k)'
      BY <1>3 DEF Backs
    <2> HIDE DEF Backs
    <2> QED BY <1>1, <1>3, <2>1, Zenon DEF Attaching
  <1> QED BY <1>2, <1>3 DEF Attaching

(* The file that is mapped is the region's, and the thread keeps where.    *)
LEMMA MapStep == ASSUME OneAttacher, RgInv, NEW t \in RgThreads, RgMap(t) PROVE RgInv'
  <1> DEFINE p == RgProcess(t)
  <1>m. PICK m : m = Len(rgMaps[p]) + 1
    OBVIOUS
  <1>1. p \in RgProcs /\ rgTask[t].at = "map" /\ UNCHANGED <<rgTable, rgCache, rgGot>>
    BY DEF RgMap, RgProcs
  <1>2. PICK id \in DOMAIN rgTable : Attaching(t, id)
    BY <1>1 DEF RgInv, Resting
  <1>3. rgTask[t] = [at |-> "map", id |-> id] /\ rgTask[t].id = id
    <2>1. rgTask[t] = [at |-> "map", id |-> id]
      BY <1>1, <1>2, MapAs
    <2> QED BY <2>1
  <1>4. /\ DOMAIN rgTask = RgThreads /\ rgMaps \in [RgProcs -> Seq(RgNames)]
        /\ rgTable \in Seq(RgNames) /\ Resting.at = "idle"
    BY DEF RgInv, RgTypeOK, Resting
  <1>5. \A u \in RgThreads : u # t => RgProcess(u) # p
    BY DEF OneAttacher
  <1>6. \A q, k : CachedMaps(q, k)' = CachedMaps(q, k)
    BY <1>1 DEF CachedMaps
  <1>7. CASE rgTask' = [rgTask EXCEPT ![t] = Resting] /\ UNCHANGED rgMaps
    <2>1. \A q, n, k : Backs(q, n, k) <=> Backs(q, n, k)'
      BY <1>1, <1>7 DEF Backs, File
    <2>2. \A q, n, k : Kept(q, n, k) => Kept(q, n, k)'
      <3>1. \A u \in RgThreads : rgTask[u].at \in {"slot", "store"} => rgTask'[u] = rgTask[u]
        BY <1>1, <1>4, <1>7
      <3> QED BY <1>1, <1>6, <3>1 DEF Kept
    <2>3. \A u \in RgThreads : \A k : u # t /\ Attaching(u, k) => Attaching(u, k)'
      BY <1>1, <1>4, <1>7, <2>1, AttachingStays
    <2>4. \A u \in RgThreads : rgTask'[u] = Resting \/ \E k \in DOMAIN rgTable' : Attaching(u, k)'
      BY <1>1, <1>4, <1>7, <2>3 DEF RgInv
    <2>5. \A q \in RgProcs : CacheRight(q)'
      BY <1>1, <2>1 DEF RgInv, CacheRight
    <2>6. RgTypeOK'
      BY <1>1, <1>7 DEF RgInv, RgTypeOK
    <2> QED BY <1>1, <1>7, <2>1, <2>2, <2>4, <2>5, <2>6 DEF RgInv
  <1>8. CASE /\ rgMaps' = [rgMaps EXCEPT ![p] = Append(@, File(id))]
             /\ rgTask' = [rgTask EXCEPT ![t] = [at |-> "slot", id |-> id, ptr |-> m]]
    <2>1. /\ rgMaps[p] \in Seq(RgNames) /\ File(id) \in RgNames /\ m \in Nat
          /\ rgMaps'[p] = Append(rgMaps[p], File(id))
          /\ \A q \in RgProcs : q # p => rgMaps'[q] = rgMaps[q]
      BY <1>m, <1>1, <1>4, <1>8 DEF File
    <2>2. /\ rgMaps' \in [RgProcs -> Seq(RgNames)]
          /\ DOMAIN rgMaps'[p] = DOMAIN rgMaps[p] \cup {m} /\ rgMaps'[p][m] = File(id)
          /\ \A n \in DOMAIN rgMaps[p] : rgMaps'[p][n] = rgMaps[p][n]
      BY <1>m, <1>4, <1>8, <2>1
    <2>3. \A q \in RgProcs : \A n, k : Backs(q, n, k) => Backs(q, n, k)'
      BY <1>1, <2>1, <2>2 DEF Backs, File
    <2>4. rgTask'[t] = [at |-> "slot", id |-> id, ptr |-> m] /\ Backs(p, m, id)'
      BY <1>1, <1>4, <1>8, <2>2 DEF Backs, File
    <2>5. Attaching(t, id)'
      <3>1. CachedMaps(p, id)' = {}
        BY <1>2, <1>6 DEF Attaching
      <3>2. m \in DOMAIN rgMaps'[p]
        BY <2>2
      <3> QED BY <2>4, <3>1, <3>2 DEF Attaching
    <2>6. \A u \in RgThreads : \A k : u # t /\ Attaching(u, k) => Attaching(u, k)'
      <3>1. \A u \in RgThreads : u # t => /\ rgTask'[u] = rgTask[u] /\ RgProcess(u) \in RgProcs
                                          /\ rgMaps'[RgProcess(u)] = rgMaps[RgProcess(u)]
        BY <1>4, <1>5, <1>8, <2>1 DEF RgProcs
      <3> QED BY <1>1, <2>3, <3>1, AttachingStays
    <2>7. \A u \in RgThreads : rgTask'[u] = Resting \/ \E k \in DOMAIN rgTable' : Attaching(u, k)'
      BY <1>1, <1>4, <1>8, <2>5, <2>6 DEF RgInv
    <2>8. \A q, n, k : Kept(q, n, k) => Kept(q, n, k)'
      <3>1. \A u \in RgThreads : rgTask[u].at \in {"slot", "store"} => rgTask'[u] = rgTask[u]
        BY <1>1, <1>4, <1>8
      <3> QED BY <1>1, <1>6, <3>1 DEF Kept
    <2>9. Kept(p, m, id)'
      <3>1. rgTask'[t].at = "slot" /\ rgTask'[t].id = id /\ rgTask'[t].ptr = m
        BY <2>4
      <3> QED BY <1>1, <3>1 DEF Kept
    <2>10. ASSUME NEW q \in RgProcs, NEW n \in DOMAIN rgMaps'[q]
           PROVE  \E k \in DOMAIN rgTable' : Kept(q, n, k)'
      BY <1>1, <1>2, <2>1, <2>2, <2>8, <2>9 DEF RgInv
    <2>11. \A q \in RgProcs : CacheRight(q)'
      BY <1>1, <2>3 DEF RgInv, CacheRight
    <2>12. RgTypeOK'
      BY <1>1, <1>4, <1>8, <2>2 DEF RgInv, RgTypeOK
    <2>13. \A g \in rgGot' : g[1] \in RgProcs /\ Backs(g[1], g[3], g[2])'
      BY <1>1, <2>3 DEF RgInv
    <2> QED BY <2>7, <2>10, <2>11, <2>12, <2>13 DEF RgInv
  <1>9. rgTask' = [rgTask EXCEPT ![t] = [at |-> "slot", id |-> @.id, ptr |-> m]]
          => rgTask' = [rgTask EXCEPT ![t] = [at |-> "slot", id |-> id, ptr |-> m]]
    BY <1>3
  <1> QED BY <1>m, <1>3, <1>7, <1>8, <1>9 DEF RgMap

(* The entry taken is free: it gets the id, and counts for nothing yet.    *)
LEMMA SlotStep == ASSUME OneAttacher, RgInv, NEW t \in RgThreads, RgSlot(t) PROVE RgInv'
  <1> DEFINE p == RgProcess(t)
             E == {i \in 1..MaxReg : rgCache[p][i].ptr = 0}
  <1>1. p \in RgProcs /\ rgTask[t].at = "slot" /\ UNCHANGED <<rgTable, rgMaps>>
    BY DEF RgSlot, RgProcs
  <1>2. PICK id \in DOMAIN rgTable : Attaching(t, id)
    BY <1>1 DEF RgInv, Resting
  <1>3. PICK m \in DOMAIN rgMaps[p] :
          Backs(p, m, id) /\ rgTask[t] = [at |-> "slot", id |-> id, ptr |-> m]
    BY <1>1, <1>2, SlotAs, Zenon
  <1>4. /\ DOMAIN rgTask = RgThreads /\ rgMaps \in [RgProcs -> Seq(RgNames)]
        /\ rgTable \in Seq(RgNames) /\ CachedMaps(p, id) = {}
        /\ rgCache \in [RgProcs -> [1..MaxReg -> [id : Nat, ptr : Nat]]]
    BY <1>2 DEF RgInv, RgTypeOK, Attaching
  <1>5. \A u \in RgThreads : u # t => RgProcess(u) # p
    BY DEF OneAttacher
  <1>6. E # {}
    BY <1>1, <1>4, CacheRoom DEF RgInv
  <1>7. PICK i \in 1..MaxReg : i = FirstOf(E) /\ rgCache[p][i].ptr = 0
    <2>1. E \in SUBSET Nat
      OBVIOUS
    <2>2. FirstOf(E) \in E
      BY <1>6, <2>1, FirstIn
    <2> QED BY <2>2
  <1>8. rgTask[t].id = id /\ rgTask[t].ptr = m
    BY <1>3
  <1>9. /\ rgTask' = [rgTask EXCEPT ![t] = [at |-> "store", id |-> id, ptr |-> m, i |-> i]]
        /\ rgCache' = [rgCache EXCEPT ![p][i].id = id] /\ rgGot' = rgGot
    BY <1>6, <1>7, <1>8 DEF RgSlot
  <1> DEFINE row == [rgCache[p] EXCEPT ![i] = [id |-> id, ptr |-> 0]]
  <1>10. /\ rgCache' = [rgCache EXCEPT ![p] = row] /\ row \in [1..MaxReg -> [id : Nat, ptr : Nat]]
         /\ row[i] = [id |-> id, ptr |-> 0]
         /\ \A j \in 1..MaxReg : j # i => row[j] = rgCache[p][j]
    <2>0. id \in Nat
      BY <1>4
    <2>1. rgCache[p][i] \in [id : Nat, ptr : Nat]
      BY <1>1, <1>4
    <2>2. [rgCache[p][i] EXCEPT !.id = id] = [id |-> id, ptr |-> 0]
      <3> DEFINE old == rgCache[p][i]
      <3>1. old \in [id : Nat, ptr : Nat] /\ old.ptr = 0
        BY <1>7, <2>1
      <3> HIDE DEF old
      <3>2. [old EXCEPT !.id = id] = [id |-> id, ptr |-> 0]
        BY <3>1
      <3> QED BY <3>2 DEF old
    <2>3. rgCache' = [rgCache EXCEPT ![p] = [rgCache[p] EXCEPT ![i] = [rgCache[p][i] EXCEPT !.id = id]]]
      BY <1>9
    <2> QED BY <1>1, <1>4, <2>0, <2>1, <2>2, <2>3
  <1> HIDE DEF row
  <1>11. /\ rgCache' \in [RgProcs -> [1..MaxReg -> [id : Nat, ptr : Nat]]]
         /\ rgCache'[p] = row /\ \A q \in RgProcs : q # p => rgCache'[q] = rgCache[q]
    BY <1>1, <1>4, <1>10
  <1>12. \A j \in 1..MaxReg :
           row[j].ptr = rgCache[p][j].ptr /\ (row[j].ptr # 0 => row[j] = rgCache[p][j])
    BY <1>7, <1>10
  <1>13. \A q, n, k : Backs(q, n, k) <=> Backs(q, n, k)'
    BY <1>1 DEF Backs, File
  <1>14. ASSUME NEW q \in RgProcs
         PROVE  /\ CacheRight(q)' /\ \A k : CachedMaps(q, k)' = CachedMaps(q, k)
                /\ \A j \in 1..MaxReg : rgCache'[q][j].ptr = rgCache[q][j].ptr
    <2>1. \A j \in 1..MaxReg :
            /\ rgCache'[q][j].ptr = rgCache[q][j].ptr
            /\ rgCache[q][j].ptr # 0 => rgCache'[q][j] = rgCache[q][j]
      BY <1>11, <1>12
    <2>2. CacheRight(q)'
      BY <1>13, <2>1 DEF RgInv, CacheRight
    <2> QED BY <2>1, <2>2 DEF CachedMaps
  <1>15. Attaching(t, id)'
    <2>1. rgTask'[t] = [at |-> "store", id |-> id, ptr |-> m, i |-> i]
      BY <1>4, <1>9
    <2>2. CachedMaps(p, id)' = {} /\ m \in DOMAIN rgMaps'[p] /\ Backs(p, m, id)'
          /\ rgCache'[p][i] = [id |-> id, ptr |-> 0]
      BY <1>1, <1>3, <1>4, <1>10, <1>11, <1>13, <1>14
    <2> HIDE DEF Backs, CachedMaps
    <2> QED BY <2>1, <2>2 DEF Attaching
  <1>16. \A u \in RgThreads : \A k : u # t /\ Attaching(u, k) => Attaching(u, k)'
    <2>1. \A u \in RgThreads : u # t => /\ rgTask'[u] = rgTask[u] /\ RgProcess(u) \in RgProcs
                                        /\ rgCache'[RgProcess(u)] = rgCache[RgProcess(u)]
      BY <1>4, <1>5, <1>9, <1>11 DEF RgProcs
    <2> QED BY <1>13, <2>1, AttachingStays
  <1>17. \A u \in RgThreads : rgTask'[u] = Resting \/ \E k \in DOMAIN rgTable' : Attaching(u, k)'
    BY <1>1, <1>4, <1>9, <1>15, <1>16 DEF RgInv
  <1>18. \A q \in RgProcs : \A n, k : Kept(q, n, k) => Kept(q, n, k)'
    <2>1. /\ rgTask'[t].at = "store" /\ rgTask'[t].id = rgTask[t].id
          /\ rgTask'[t].ptr = rgTask[t].ptr
      BY <1>4, <1>8, <1>9
    <2>2. \A u \in RgThreads : u # t => rgTask'[u] = rgTask[u]
      BY <1>4, <1>9
    <2>3. \A u \in RgThreads : rgTask[u].at \in {"slot", "store"} =>
            /\ rgTask'[u].at \in {"slot", "store"} /\ rgTask'[u].id = rgTask[u].id
            /\ rgTask'[u].ptr = rgTask[u].ptr
      BY <2>1, <2>2
    <2>4. ASSUME NEW q \in RgProcs, NEW n, NEW k, Kept(q, n, k) PROVE Kept(q, n, k)'
      <3>1. CASE \E j \in CachedMaps(q, k) : rgCache[q][j].ptr = n
        <4>1. PICK j \in 1..MaxReg : j \in CachedMaps(q, k) /\ rgCache[q][j].ptr = n
          BY <3>1 DEF CachedMaps
        <4>2. j \in CachedMaps(q, k)' /\ rgCache'[q][j].ptr = n
          BY <1>14, <4>1
        <4> QED BY <4>2 DEF Kept
      <3>2. CASE \E u \in RgThreads : /\ RgProcess(u) = q /\ rgTask[u].at \in {"slot", "store"}
                                      /\ rgTask[u].id = k /\ rgTask[u].ptr = n
        BY <2>3, <3>2 DEF Kept
      <3> QED BY <2>4, <3>1, <3>2 DEF Kept
    <2> QED BY <2>4
  <1>19. RgTypeOK'
    BY <1>1, <1>4, <1>9, <1>11 DEF RgInv, RgTypeOK
  <1>20. ASSUME NEW q \in RgProcs, NEW n \in DOMAIN rgMaps'[q]
         PROVE  \E k \in DOMAIN rgTable' : Kept(q, n, k)'
    BY <1>1, <1>18 DEF RgInv
  <1>21. \A g \in rgGot' : g[1] \in RgProcs /\ Backs(g[1], g[3], g[2])'
    BY <1>9, <1>13 DEF RgInv
  <1> QED BY <1>14, <1>17, <1>19, <1>20, <1>21 DEF RgInv

(* The address makes the entry count, for a region that had none.          *)
LEMMA StoreStep == ASSUME OneAttacher, RgInv, NEW t \in RgThreads, RgStore(t) PROVE RgInv'
  <1> DEFINE p == RgProcess(t)
  <1>1. p \in RgProcs /\ rgTask[t].at = "store" /\ UNCHANGED <<rgTable, rgMaps>>
    BY DEF RgStore, RgProcs
  <1>2. PICK id \in DOMAIN rgTable : Attaching(t, id)
    BY <1>1 DEF RgInv, Resting
  <1>3. PICK m \in DOMAIN rgMaps[p] : \E i \in 1..MaxReg :
          /\ Backs(p, m, id)
          /\ rgTask[t] = [at |-> "store", id |-> id, ptr |-> m, i |-> i]
          /\ rgCache[p][i] = [id |-> id, ptr |-> 0]
    BY <1>1, <1>2, StoreAs, Zenon
  <1>4. PICK i \in 1..MaxReg :
          /\ Backs(p, m, id)
          /\ rgTask[t] = [at |-> "store", id |-> id, ptr |-> m, i |-> i]
          /\ rgCache[p][i] = [id |-> id, ptr |-> 0]
    BY <1>3, Zenon
  <1>5. /\ DOMAIN rgTask = RgThreads /\ rgMaps \in [RgProcs -> Seq(RgNames)]
        /\ rgTable \in Seq(RgNames) /\ CachedMaps(p, id) = {}
        /\ rgCache \in [RgProcs -> [1..MaxReg -> [id : Nat, ptr : Nat]]]
    BY <1>2 DEF RgInv, RgTypeOK, Attaching
  <1>6. \A u \in RgThreads : u # t => RgProcess(u) # p
    BY DEF OneAttacher
  <1>7. rgTask[t].id = id /\ rgTask[t].ptr = m /\ rgTask[t].i = i
    BY <1>4
  <1>8. /\ rgTask' = [rgTask EXCEPT ![t] = Resting]
        /\ rgCache' = [rgCache EXCEPT ![p][i].ptr = m] /\ rgGot' = rgGot \cup {<<p, id, m>>}
    BY <1>7 DEF RgStore
  <1> DEFINE row == [rgCache[p] EXCEPT ![i] = [id |-> id, ptr |-> m]]
  <1>9. id \in Nat /\ m \in Nat /\ m # 0
    BY <1>1, <1>5
  <1>10. /\ rgCache' = [rgCache EXCEPT ![p] = row] /\ row \in [1..MaxReg -> [id : Nat, ptr : Nat]]
         /\ row[i] = [id |-> id, ptr |-> m]
         /\ \A j \in 1..MaxReg : j # i => row[j] = rgCache[p][j]
    <2>1. [rgCache[p][i] EXCEPT !.ptr = m] = [id |-> id, ptr |-> m]
      <3> DEFINE old == rgCache[p][i]
      <3>1. old = [id |-> id, ptr |-> 0]
        BY <1>4
      <3> HIDE DEF old
      <3>2. [old EXCEPT !.ptr = m] = [id |-> id, ptr |-> m]
        BY <3>1
      <3> QED BY <3>2 DEF old
    <2>2. rgCache' = [rgCache EXCEPT ![p] = [rgCache[p] EXCEPT ![i] = [rgCache[p][i] EXCEPT !.ptr = m]]]
      BY <1>8
    <2> QED BY <1>1, <1>5, <1>9, <2>1, <2>2
  <1> HIDE DEF row
  <1>11. /\ rgCache' \in [RgProcs -> [1..MaxReg -> [id : Nat, ptr : Nat]]]
         /\ rgCache'[p] = row /\ \A q \in RgProcs : q # p => rgCache'[q] = rgCache[q]
    BY <1>1, <1>5, <1>10
  <1>12. \A q, n, k : Backs(q, n, k) <=> Backs(q, n, k)'
    BY <1>1 DEF Backs, File
  <1>13. \A q \in RgProcs, j \in 1..MaxReg :
           rgCache[q][j].ptr # 0 => rgCache'[q][j] = rgCache[q][j]
    <2>1. rgCache[p][i].ptr = 0
      BY <1>4
    <2> QED BY <1>10, <1>11, <2>1
  <1>14. row[i].id = id /\ row[i].ptr = m
    BY <1>10
  <1>15. ASSUME NEW q \in RgProcs PROVE CacheRight(q)'
    <2>1. CASE q # p
      BY <1>11, <1>12, <2>1, SMTT(60) DEF RgInv, CacheRight
    <2>2. CASE q = p
      <3>1. \A j \in 1..MaxReg : row[j].ptr # 0 => Backs(p, row[j].ptr, row[j].id)
        BY <1>1, <1>4, <1>10, <1>14 DEF RgInv, CacheRight
      <3>2. \A j \in 1..MaxReg : j # i /\ row[j].ptr # 0 => row[j].id # id
        BY <1>5, <1>10 DEF CachedMaps
      <3>3. \A j, k \in 1..MaxReg :
              row[j].ptr # 0 /\ row[k].ptr # 0 /\ row[j].id = row[k].id => j = k
        BY <1>1, <1>10, <1>14, <3>2 DEF RgInv, CacheRight
      <3> QED BY <1>11, <1>12, <2>2, <3>1, <3>3 DEF CacheRight
    <2> QED BY <2>1, <2>2
  <1>16. \A u \in RgThreads : \A k : u # t /\ Attaching(u, k) => Attaching(u, k)'
    <2>1. \A u \in RgThreads : u # t => /\ rgTask'[u] = rgTask[u] /\ RgProcess(u) \in RgProcs
                                        /\ rgCache'[RgProcess(u)] = rgCache[RgProcess(u)]
      BY <1>5, <1>6, <1>8, <1>11 DEF RgProcs
    <2> QED BY <1>12, <2>1, AttachingStays
  <1>17. \A u \in RgThreads : rgTask'[u] = Resting \/ \E k \in DOMAIN rgTable' : Attaching(u, k)'
    BY <1>1, <1>5, <1>8, <1>16 DEF RgInv
  <1>18. ASSUME NEW q \in RgProcs, NEW n, NEW k \in DOMAIN rgTable, Kept(q, n, k)
         PROVE  Kept(q, n, k)'
    <2>1. CASE \E j \in CachedMaps(q, k) : rgCache[q][j].ptr = n
      <3>1. PICK j \in 1..MaxReg : j \in CachedMaps(q, k) /\ rgCache[q][j].ptr = n
        BY <2>1 DEF CachedMaps
      <3>2. j \in CachedMaps(q, k)' /\ rgCache'[q][j].ptr = n
        BY <1>13, <3>1 DEF CachedMaps
      <3> QED BY <3>2 DEF Kept
    <2>2. ASSUME NEW u \in RgThreads, RgProcess(u) = q, rgTask[u].at \in {"slot", "store"},
                 rgTask[u].id = k, rgTask[u].ptr = n
          PROVE  Kept(q, n, k)'
      <3>1. CASE u = t
        <4>1. q = p /\ n = m /\ k = id
          BY <1>7, <2>2, <3>1
        <4>2. i \in CachedMaps(p, id)' /\ rgCache'[p][i].ptr = m
          BY <1>9, <1>11, <1>14 DEF CachedMaps
        <4> QED BY <4>1, <4>2 DEF Kept
      <3>2. CASE u # t
        <4>1. rgTask'[u] = rgTask[u]
          BY <1>5, <1>8, <3>2
        <4> QED BY <2>2, <4>1 DEF Kept
      <3> QED BY <3>1, <3>2
    <2> QED BY <1>18, <2>1, <2>2 DEF Kept
  <1>19. RgTypeOK'
    BY <1>1, <1>5, <1>8, <1>11 DEF RgInv, RgTypeOK
  <1>20. ASSUME NEW q \in RgProcs, NEW n \in DOMAIN rgMaps'[q]
         PROVE  \E k \in DOMAIN rgTable' : Kept(q, n, k)'
    BY <1>1, <1>18 DEF RgInv
  <1>21. \A g \in rgGot' : g[1] \in RgProcs /\ Backs(g[1], g[3], g[2])'
    BY <1>1, <1>4, <1>8, <1>12 DEF RgInv
  <1> QED BY <1>15, <1>17, <1>19, <1>20, <1>21 DEF RgInv

LEMMA RgInvStep == OneAttacher /\ RgInv /\ [RgNext]_rgVars => RgInv'
  <1> SUFFICES ASSUME OneAttacher, RgInv, [RgNext]_rgVars PROVE RgInv'
    OBVIOUS
  <1>1. CASE UNCHANGED rgVars
    <2>1. UNCHANGED <<rgTable, rgCache, rgMaps, rgTask, rgGot>>
      BY <1>1 DEF rgVars
    <2>2. RgTypeOK' /\ (\A q, n, k : Backs(q, n, k) <=> Backs(q, n, k)')
          /\ (\A q, k : CachedMaps(q, k)' = CachedMaps(q, k))
      BY <2>1 DEF RgInv, RgTypeOK, Backs, File, CachedMaps
    <2>3. /\ \A q : CacheRight(q) => CacheRight(q)'
          /\ \A q, n, k : Kept(q, n, k) => Kept(q, n, k)'
      BY <2>1, <2>2 DEF CacheRight, Kept
    <2>4. \A u, k : Attaching(u, k) => Attaching(u, k)'
      BY <2>1, <2>2, AttachingStays
    <2> QED BY <2>1, <2>2, <2>3, <2>4 DEF RgInv
  <1> QED BY <1>1, NamedStep, AttachStep, MapStep, SlotStep, StoreStep DEF RgNext

(* What M_attach returns is memory of the region that was asked for.       *)
THEOREM RegionsOwn == OneAttacher => (RgSpec => []OwnMemory)
  <1> SUFFICES ASSUME OneAttacher PROVE RgSpec => []OwnMemory
    OBVIOUS
  <1>1. RgInv /\ [RgNext]_rgVars => RgInv'
    BY RgInvStep
  <1>2. RgInv => OwnMemory
    BY RgSound
  <1> QED BY <1>1, <1>2, RgInvInit, PTL DEF RgSpec

(* A process maps a region once: its cache never runs out of room.         *)
THEOREM RegionsOnce == OneAttacher => (RgSpec => []MappedOnce)
  <1> SUFFICES ASSUME OneAttacher PROVE RgSpec => []MappedOnce
    OBVIOUS
  <1>1. RgInv /\ [RgNext]_rgVars => RgInv'
    BY RgInvStep
  <1>2. RgInv => MappedOnce
    BY RgSound
  <1> QED BY <1>1, <1>2, RgInvInit, PTL DEF RgSpec

-----------------------------------------------------------------------------
(* Process names                                                           *)

(* A prefix is cut off at the first colon, so a name with two of them has  *)
(* a canonical form that is not its own.                                   *)
OneColon == \A n \in NmNames : \A i, j \in DOMAIN n : n[i] = Colon /\ n[j] = Colon => i = j

NmChars == UNION {{n[k] : k \in DOMAIN n} : n \in NmNames}

NmInv ==
    /\ nmProcs \in Seq([name : NmNames, running : BOOLEAN])
    /\ nmTasks \in Seq([proc : Nat, main : BOOLEAN, pname : Seq(NmChars)])
    /\ \A i \in DOMAIN nmTasks :
         /\ nmTasks[i].proc \in DOMAIN nmProcs
         /\ nmTasks[i].pname = IF nmTasks[i].main THEN SelfPname(nmTasks[i].proc) ELSE <<>>

LEMMA NameChars == ASSUME NEW n \in NmNames PROVE n \in Seq(NmChars)
  <1>1. n \in Seq({n[k] : k \in DOMAIN n})
    BY NmAssumption
  <1>2. \A k \in 1..Len(n) : n[k] \in NmChars
    BY <1>1 DEF NmChars
  <1> QED BY <1>1, <1>2

LEMMA TruncIs ==
    ASSUME NEW S, NEW s \in Seq(S), NEW n \in Nat
    PROVE  /\ Trunc(s, n) \in Seq(S) /\ Len(Trunc(s, n)) <= n
           /\ \A k \in DOMAIN Trunc(s, n) : k \in DOMAIN s /\ Trunc(s, n)[k] = s[k]
           /\ Len(s) <= n => Trunc(s, n) = s
  <1> DEFINE m == IF Len(s) < n THEN Len(s) ELSE n
             r == SubSeq(s, 1, m)
  <1>1. m \in Int /\ 0 <= m /\ m <= Len(s) /\ m <= n /\ Len(s) \in Nat
    OBVIOUS
  <1>2. \A i \in 1..m : s[i] \in S
    BY <1>1
  <1> HIDE DEF m
  <1>3. /\ r \in Seq(S) /\ Len(r) = IF 1 <= m THEN m - 1 + 1 ELSE 0
        /\ \A i \in 1 .. m - 1 + 1 : r[i] = s[1 + i - 1]
    BY <1>1, <1>2, SubSeqProperties
  <1>4. Len(s) <= n => r = s
    <2>1. Len(s) <= n => m = Len(s)
      BY <1>1 DEF m
    <2> QED BY <2>1, SubSeqFull
  <1>5. Len(r) = m /\ \A k \in 1..m : k \in DOMAIN s /\ r[k] = s[k]
    BY <1>1, <1>3
  <1>6. Trunc(s, n) = r
    BY DEF Trunc, m
  <1> HIDE DEF r
  <1>7. DOMAIN r = 1..m
    BY <1>3, <1>5
  <1> QED BY <1>1, <1>3, <1>4, <1>5, <1>6, <1>7

(* What is left of a name, after its prefix, is a piece of it.             *)
LEMMA CanonIs ==
    ASSUME NEW S, NEW s \in Seq(S)
    PROVE  /\ Canon(s) \in Seq(S) /\ Len(Canon(s)) <= NmKeep
           /\ (\A i, j \in DOMAIN s : s[i] = Colon /\ s[j] = Colon => i = j)
                => \A k \in DOMAIN Canon(s) : Canon(s)[k] # Colon
  <1> DEFINE C == {k \in DOMAIN s : s[k] = Colon}
             i == CHOOSE k \in C : \A j \in C : k <= j
             r == SubSeq(s, i + 1, Len(s))
  <1>0. NmKeep \in Nat /\ Len(s) \in Nat /\ DOMAIN s = 1..Len(s)
    BY NmAssumption
  <1>1. CASE C = {}
    <2>1. Canon(s) = Trunc(s, NmKeep)
      BY <1>1 DEF Canon
    <2>2. /\ Trunc(s, NmKeep) \in Seq(S) /\ Len(Trunc(s, NmKeep)) <= NmKeep
          /\ \A k \in DOMAIN Trunc(s, NmKeep) : k \in DOMAIN s /\ Trunc(s, NmKeep)[k] = s[k]
      BY <1>0, TruncIs
    <2> QED BY <1>1, <2>1, <2>2
  <1>2. CASE C # {}
    <2>1. Canon(s) = Trunc(r, NmKeep)
      BY <1>2 DEF Canon
    <2>2. i \in C
      <3>1. C \in SUBSET Nat
        BY <1>0
      <3>2. Min(C) \in C /\ \A k \in C : Min(C) <= k
        BY <1>2, <3>1, FirstSlot
      <3> QED BY <3>2
    <2>3. i \in 1..Len(s) /\ s[i] = Colon
      BY <1>0, <2>2
    <2> HIDE DEF i, C
    <2>4. \A k \in i + 1 .. Len(s) : s[k] \in S
      BY <1>0, <2>3
    <2>5. /\ r \in Seq(S)
          /\ Len(r) = IF i + 1 <= Len(s) THEN Len(s) - (i + 1) + 1 ELSE 0
          /\ \A k \in 1 .. Len(s) - (i + 1) + 1 : r[k] = s[i + 1 + k - 1]
      <3>1. i + 1 \in Int /\ Len(s) \in Int
        BY <1>0, <2>3
      <3> QED BY <2>4, <3>1, SubSeqProperties
    <2>6. \A k \in 1..Len(r) : r[k] = s[i + k] /\ i + k \in DOMAIN s /\ i + k # i
      BY <1>0, <2>3, <2>5
    <2> HIDE DEF r
    <2>7. /\ Trunc(r, NmKeep) \in Seq(S) /\ Len(Trunc(r, NmKeep)) <= NmKeep
          /\ \A k \in DOMAIN Trunc(r, NmKeep) : k \in DOMAIN r /\ Trunc(r, NmKeep)[k] = r[k]
      BY <1>0, <2>5, TruncIs
    <2>8. ASSUME \A k, j \in DOMAIN s : s[k] = Colon /\ s[j] = Colon => k = j,
                 NEW k \in DOMAIN Canon(s)
          PROVE  Canon(s)[k] # Colon
      <3>1. k \in 1..Len(r) /\ Canon(s)[k] = r[k]
        BY <2>1, <2>5, <2>7, <2>8
      <3>2. r[k] = s[i + k] /\ i + k \in DOMAIN s /\ i + k # i
        BY <2>6, <3>1
      <3> QED BY <1>0, <2>3, <2>8, <3>1, <3>2
    <2> QED BY <2>1, <2>7, <2>8
  <1> QED BY <1>1, <1>2

(* The name without its prefix is found by itself.                         *)
LEMMA CanonTwice ==
    ASSUME OneColon, NEW n \in NmNames
    PROVE  Canon(Canon(n)) = Canon(n)
  <1>1. n \in Seq(NmChars)
    BY NameChars
  <1> DEFINE c == Canon(n)
  <1>2. c \in Seq(NmChars) /\ Len(c) <= NmKeep /\ \A k \in DOMAIN c : c[k] # Colon
    BY <1>1, CanonIs DEF OneColon
  <1> HIDE DEF c
  <1>3. Canon(c) = Trunc(c, NmKeep)
    BY <1>2 DEF Canon
  <1>4. Trunc(c, NmKeep) = c
    BY <1>2, NmAssumption, TruncIs
  <1> QED BY <1>3, <1>4 DEF c

LEMMA ElementIn == ASSUME NEW S, NEW s \in Seq(S), NEW k \in DOMAIN s PROVE s[k] \in S
  OBVIOUS

LEMMA SelfPnameIn ==
    ASSUME NmInv, NEW p \in DOMAIN nmProcs
    PROVE  /\ SelfPname(p) \in Seq(NmChars)
           /\ nmProcs[p].name \in NmNames
           /\ Len(nmProcs[p].name) <= NmKeep => SelfPname(p) = Canon(nmProcs[p].name)
  <1>1. nmProcs[p] \in [name : NmNames, running : BOOLEAN]
    BY ElementIn, Zenon DEF NmInv
  <1>2. nmProcs[p].name \in NmNames /\ nmProcs[p].name \in Seq(NmChars)
    BY <1>1, NameChars
  <1>3. /\ Trunc(nmProcs[p].name, NmKeep) \in Seq(NmChars)
        /\ Len(nmProcs[p].name) <= NmKeep => Trunc(nmProcs[p].name, NmKeep) = nmProcs[p].name
    BY <1>2, NmAssumption, TruncIs
  <1> QED BY <1>2, <1>3, CanonIs DEF SelfPname

LEMMA NmInvInit == NmInit => NmInv
  BY DEF NmInit, NmInv

LEMMA NmInvStep == NmInv /\ [NmNext]_nmVars => NmInv'
  <1> SUFFICES ASSUME NmInv, [NmNext]_nmVars PROVE NmInv'
    OBVIOUS
  <1>0. /\ nmProcs \in Seq([name : NmNames, running : BOOLEAN])
        /\ nmTasks \in Seq([proc : Nat, main : BOOLEAN, pname : Seq(NmChars)])
        /\ \A i \in DOMAIN nmTasks :
             /\ nmTasks[i].proc \in DOMAIN nmProcs
             /\ nmTasks[i].pname = IF nmTasks[i].main THEN SelfPname(nmTasks[i].proc) ELSE <<>>
    BY DEF NmInv
  \* What is kept when the processes get more or stop running.
  <1>1. ASSUME nmProcs' \in Seq([name : NmNames, running : BOOLEAN]), UNCHANGED nmTasks,
               \A p \in DOMAIN nmProcs : p \in DOMAIN nmProcs' /\ nmProcs'[p].name = nmProcs[p].name
        PROVE  NmInv'
    <2>1. \A p \in DOMAIN nmProcs : SelfPname(p)' = SelfPname(p)
      BY <1>1 DEF SelfPname
    <2> QED BY <1>0, <1>1, <2>1 DEF NmInv
  <1>2. ASSUME NEW n \in NmNames, NmStart(n) PROVE NmInv'
    <2>1. nmProcs' = Append(nmProcs, [name |-> n, running |-> TRUE]) /\ UNCHANGED nmTasks
      BY <1>2 DEF NmStart
    <2>2. [name |-> n, running |-> TRUE] \in [name : NmNames, running : BOOLEAN]
      OBVIOUS
    <2>3. \A p \in DOMAIN nmProcs : p \in DOMAIN nmProcs' /\ nmProcs'[p] = nmProcs[p]
      BY <1>0, <2>1, <2>2
    <2>4. nmProcs' \in Seq([name : NmNames, running : BOOLEAN])
      BY <1>0, <2>1, <2>2
    <2> QED BY <1>1, <2>1, <2>3, <2>4
  <1>3. ASSUME NEW p \in DOMAIN nmProcs, NmDie(p) PROVE NmInv'
    <2>1. nmProcs' = [nmProcs EXCEPT ![p] = [nmProcs[p] EXCEPT !.running = FALSE]]
          /\ UNCHANGED nmTasks
      BY <1>3 DEF NmDie
    <2>2. nmProcs[p] \in [name : NmNames, running : BOOLEAN]
      BY <1>0, ElementIn, Zenon
    <2> DEFINE new == [nmProcs[p] EXCEPT !.running = FALSE]
    <2>3. new \in [name : NmNames, running : BOOLEAN] /\ new.name = nmProcs[p].name
      BY <2>2
    <2> HIDE DEF new
    <2>4. nmProcs' = [nmProcs EXCEPT ![p] = new]
      BY <2>1 DEF new
    <2>5. nmProcs' \in Seq([name : NmNames, running : BOOLEAN])
      BY <1>0, <2>3, <2>4
    <2>6. \A q \in DOMAIN nmProcs : q \in DOMAIN nmProcs' /\ nmProcs'[q].name = nmProcs[q].name
      BY <1>0, <2>3, <2>4
    <2> QED BY <1>1, <2>1, <2>5, <2>6
  <1>4. ASSUME NEW p \in DOMAIN nmProcs, NEW main \in BOOLEAN, NmRegister(p, main) PROVE NmInv'
    <2> DEFINE new == [proc |-> p, main |-> main,
                       pname |-> IF main THEN SelfPname(p) ELSE <<>>]
    <2>1. nmTasks' = Append(nmTasks, new) /\ nmProcs' = nmProcs
      BY <1>4 DEF NmRegister
    <2>2. p \in Nat /\ SelfPname(p) \in Seq(NmChars)
      BY <1>0, SelfPnameIn
    <2>3. /\ new \in [proc : Nat, main : BOOLEAN, pname : Seq(NmChars)]
          /\ new.proc = p /\ new.main = main /\ new.pname = IF main THEN SelfPname(p) ELSE <<>>
      BY <2>2
    <2> HIDE DEF new
    <2>4. nmTasks' \in Seq([proc : Nat, main : BOOLEAN, pname : Seq(NmChars)])
      BY <1>0, <2>1, <2>3
    <2>5. \A i \in DOMAIN nmTasks' :
            \/ i \in DOMAIN nmTasks /\ nmTasks'[i] = nmTasks[i]
            \/ nmTasks'[i] = new
      BY <1>0, <2>1, <2>3
    <2>6. \A q : SelfPname(q)' = SelfPname(q)
      BY <2>1 DEF SelfPname
    <2> QED BY <1>0, <2>1, <2>3, <2>4, <2>5, <2>6 DEF NmInv
  <1>5. CASE UNCHANGED nmVars
    BY <1>0, <1>1, <1>5 DEF nmVars
  <1> QED BY <1>2, <1>3, <1>4, <1>5 DEF NmNext

LEMMA FirstTaskIn ==
    ASSUME NEW S \in SUBSET Nat, S # {}
    PROVE  FirstTask(S) \in S
  <1>1. Min(S) \in S /\ \A k \in S : Min(S) <= k
    BY FirstSlot
  <1> QED BY <1>1 DEF FirstTask

LEMMA NmSound == OneColon /\ NmInv => NamesAgree
  <1> SUFFICES ASSUME OneColon, NmInv, NEW i \in DOMAIN nmTasks,
                      nmTasks[i].main, Len(nmProcs[nmTasks[i].proc].name) <= NmKeep,
                      Canon(nmProcs[nmTasks[i].proc].name) # <<>>
               PROVE  LET n == nmProcs[nmTasks[i].proc].name
                          id == P_ident(n)
                      IN  /\ id # 0 /\ nmTasks[id].main /\ P_ident(Canon(n)) = id
                          /\ P_name(id) = Trunc(T_name(i, i), NmShow)
    BY DEF NamesAgree
  <1> DEFINE n == nmProcs[nmTasks[i].proc].name
             id == P_ident(n)
             S == {k \in DOMAIN nmTasks : nmTasks[k].pname # <<>> /\ nmTasks[k].pname = Canon(n)}
             P == {k \in DOMAIN nmTasks : /\ nmTasks[k].proc = nmTasks[id].proc
                                          /\ nmTasks[k].pname # <<>>}
  <1>0. /\ DOMAIN nmTasks \subseteq Nat \ {0}
        /\ \A k \in DOMAIN nmTasks :
             /\ nmTasks[k].proc \in DOMAIN nmProcs
             /\ nmTasks[k].pname = IF nmTasks[k].main THEN SelfPname(nmTasks[k].proc) ELSE <<>>
    BY DEF NmInv
  <1>1. n \in NmNames /\ SelfPname(nmTasks[i].proc) = Canon(n)
    BY <1>0, SelfPnameIn
  <1>2. i \in S
    BY <1>0, <1>1
  <1>3. id = FirstTask(S)
    BY DEF P_ident
  <1>4. id \in S
    <2>1. S \in SUBSET Nat
      BY <1>0
    <2> HIDE DEF S, id
    <2> QED BY <1>2, <1>3, <2>1, FirstTaskIn
  <1>5. /\ id # 0 /\ id \in DOMAIN nmTasks /\ nmTasks[id].main
        /\ SelfPname(nmTasks[id].proc) = Canon(n)
    <2> HIDE DEF id
    <2> QED BY <1>0, <1>4
  <1>6. P_ident(Canon(n)) = id
    <2>1. Canon(Canon(n)) = Canon(n)
      BY <1>1, CanonTwice
    <2> QED BY <2>1 DEF P_ident
  <1>7. P_name(id) = Trunc(nmTasks[FirstTask(P)].pname, NmShow) /\ FirstTask(P) \in P
    <2>1. id \in P /\ P \in SUBSET Nat
      <3> HIDE DEF id
      <3> QED BY <1>0, <1>4
    <2>2. P_name(id) = IF P = {} THEN <<>> ELSE Trunc(nmTasks[FirstTask(P)].pname, NmShow)
      BY DEF P_name
    <2>3. P # {} /\ P \in SUBSET Nat
      BY <2>1
    <2> HIDE DEF P, id
    <2> QED BY <2>2, <2>3, FirstTaskIn
  <1>8. nmTasks[FirstTask(P)].pname = Canon(n)
    <2> HIDE DEF id
    <2>1. FirstTask(P) \in DOMAIN nmTasks /\ nmTasks[FirstTask(P)].pname # <<>>
          /\ nmTasks[FirstTask(P)].proc = nmTasks[id].proc
      BY <1>7
    <2> HIDE DEF P
    <2> QED BY <1>0, <1>5, <2>1
  <1>9. T_name(i, i) = Canon(n)
    BY <1>1 DEF T_name
  <1> HIDE DEF n, id, P, S
  <1>10. P_name(id) = Trunc(T_name(i, i), NmShow)
    BY <1>7, <1>8, <1>9
  <1>11. id # 0 /\ nmTasks[id].main /\ P_ident(Canon(n)) = id
    BY <1>5, <1>6
  <1> QED BY <1>10, <1>11 DEF n, id

(* A process that is found by its name, with or without its prefix, is one *)
(* that P_name and T_name give that name.                                  *)
THEOREM NamesFind == OneColon => (NmSpec => []NamesAgree)
  <1> SUFFICES ASSUME OneColon PROVE NmSpec => []NamesAgree
    OBVIOUS
  <1>1. NmInv => NamesAgree
    BY NmSound
  <1> QED BY <1>1, NmInvInit, NmInvStep, PTL DEF NmSpec

-----------------------------------------------------------------------------
(* All of them together: a step is one of a single part                    *)

(* What the tables have to be used for, to be sound.                       *)
AsUsed == OneColon /\ OneAttacher /\ OneCaller /\ UnblockNamed

AllInv == IdInv /\ TableIInv /\ NmInv /\ RgInv /\ EmInv /\ EwInv

allVars == <<part, vars, tableVars, nmVars, rgVars, emVars, ewVars>>

LEMMA AllInit == MCInit => AllInv
  BY IdInitInv, TableInitInv, NmInvInit, RgInvInit, EmInvInit, EwInvInit DEF MCInit, AllInv

LEMMA PartsStep ==
    MCNext \/ UNCHANGED allVars
      => /\ [Next]_vars /\ [TableNext]_tableVars /\ [NmNext]_nmVars
         /\ [RgNext]_rgVars /\ [EmNext]_emVars /\ [EwNext]_ewVars
  BY Zenon DEF MCNext, allVars, TaskPart, QueuePart, NamePart, RegionPart, EmuPart, OptionPart

LEMMA AllInvStep == AsUsed /\ AllInv /\ [MCNext]_allVars => AllInv'
  <1> SUFFICES ASSUME AsUsed, AllInv, [MCNext]_allVars PROVE AllInv'
    OBVIOUS
  <1>0. /\ [Next]_vars /\ [TableNext]_tableVars /\ [NmNext]_nmVars
        /\ [RgNext]_rgVars /\ [EmNext]_emVars /\ [EwNext]_ewVars
    BY PartsStep
  <1>1. IdInv' /\ TableIInv' /\ NmInv'
    BY <1>0, IdInvStep, TableIInvStep, NmInvStep DEF AllInv
  <1>2. RgInv' /\ EmInv' /\ EwInv'
    BY <1>0, RgInvStep, EmInvStep, EwInvStep DEF AllInv, AsUsed
  <1> QED BY <1>1, <1>2 DEF AllInv

(* Whichever tables a process uses, one thread of it at a time where there *)
(* is no lock: what is found in them is what was put there.                *)
THEOREM TablesAreSound == AsUsed => (MCSpec => []TablesSound)
  <1> SUFFICES ASSUME AsUsed PROVE MCSpec => []TablesSound
    OBVIOUS
  <1>1. AllInv /\ [MCNext]_allVars => AllInv'
    BY AllInvStep
  <1>2. AllInv => TablesSound
    <2>1. EwInv => StandInsHonest
      BY DEF EwInv
    <2>2. IdInv => TypeOK
      BY DEF IdInv
    <2>3. TableIInv => TableTypeOK
      BY DEF TableIInv
    <2> QED BY <2>1, <2>2, <2>3, NmSound, RgSound, EmInvSound DEF AllInv, AsUsed, TablesSound
  <1> QED BY <1>1, <1>2, AllInit, PTL DEF MCSpec, allVars
=============================================================================
