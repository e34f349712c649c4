------------------------------ MODULE HerosTaskId ------------------------------
(***************************************************************************)
(* How a thread learns which task it is (heros_rtos.c, task_self()): a     *)
(* table of tasks shared by all processes, filled under the global lock,   *)
(* and in front of it a small cache per process that is read and written   *)
(* without any lock and indexed by the low bits of the thread id.          *)
(*                                                                         *)
(* Entries are never freed, so the n-th thread to register is entry n and  *)
(* has the n-th id: ids are written 1, 2, ... for 0x100, 0x101, ...        *)
(***************************************************************************)
EXTENDS Naturals, FiniteSetsExt

CONSTANTS
    Threads,    \* the threads of all processes
    process,    \* process[t]: the process t belongs to
    hash,       \* hash[t]: t's thread id modulo the size of the cache
    MAXTASK,
    NoThread

ASSUME TaskIdAssumption ==
    /\ MAXTASK \in Nat \ {0}
    /\ NoThread \notin Threads
    /\ process \in [Threads -> {process[t] : t \in Threads}]
    /\ hash \in [Threads -> {hash[t] : t \in Threads}]

VARIABLES
    tasks,      \* tasks[i]: the thread of table entry i, or NoThread
    tcache,     \* tcache[p][h]: the pair of a thread and an id
    hit,        \* hit[t]: the id t read in its test of the cache
    self,       \* self[t]: what t's last task_self() returned, 0 if none yet
    pc

vars == <<tasks, tcache, hit, self, pc>>

Processes == {process[t] : t \in Threads}
Hashes    == {hash[t] : t \in Threads}
Entries   == 1..MAXTASK

FullId == 2                 \* 0x101, the answer when the table is full

Registered(t) == \E i \in Entries : tasks[i] = t
EntryOf(t)       == CHOOSE i \in Entries : tasks[i] = t
FreeEntries   == {i \in Entries : tasks[i] = NoThread}

Init ==
    /\ tasks = [i \in Entries |-> NoThread]
    /\ tcache = [p \in Processes |-> [h \in Hashes |-> [tid |-> NoThread, id |-> 0]]]
    /\ hit = [t \in Threads |-> 0]
    /\ self = [t \in Threads |-> 0]
    /\ pc = [t \in Threads |-> "idle"]

Goto(t, l) == pc' = [pc EXCEPT ![t] = l]
Cached(t)  == tcache[process[t]][hash[t]]

ReturnId(t, i) ==
    /\ self' = [self EXCEPT ![t] = i]
    /\ Goto(t, "idle")

Call(t) ==
    /\ pc[t] = "idle"
    /\ Goto(t, "testId")
    /\ UNCHANGED <<tasks, tcache, hit, self>>

TestId(t) ==
    /\ pc[t] = "testId"
    /\ hit' = [hit EXCEPT ![t] = Cached(t).id]
    /\ Goto(t, IF Cached(t).id = 0 THEN "register" ELSE "testTid")
    /\ UNCHANGED <<tasks, tcache, self>>

TestTid(t) ==
    /\ pc[t] = "testTid"
    /\ Goto(t, IF Cached(t).tid = t THEN "hit" ELSE "register")
    /\ UNCHANGED <<tasks, tcache, hit, self>>

\* The compiler may return the id it tested or read it again.
Hit(t) ==
    /\ pc[t] = "hit"
    /\ \E i \in {hit[t], Cached(t).id} : ReturnId(t, i)
    /\ UNCHANGED <<tasks, tcache, hit>>

\* Mutant of Register: the search for an existing entry is left out.
RegisterAgain(t) ==
    /\ pc[t] = "register"
    /\ IF FreeEntries = {}
       THEN ReturnId(t, FullId) /\ UNCHANGED <<tasks, hit>>
       ELSE LET i == Min(FreeEntries)
            IN  /\ tasks' = [tasks EXCEPT ![i] = t]
                /\ hit' = [hit EXCEPT ![t] = i]
                /\ Goto(t, "store")
                /\ UNCHANGED self
    /\ UNCHANGED tcache

\* Mutant of Register: the table counts as full one entry too early.
RegisterShort(t) ==
    /\ pc[t] = "register"
    /\ IF Registered(t)
       THEN hit' = [hit EXCEPT ![t] = EntryOf(t)] /\ Goto(t, "store") /\ UNCHANGED <<tasks, self>>
       ELSE IF FreeEntries \subseteq {MAXTASK}
       THEN ReturnId(t, FullId) /\ UNCHANGED <<tasks, hit>>
       ELSE LET i == Min(FreeEntries)
            IN  /\ tasks' = [tasks EXCEPT ![i] = t]
                /\ hit' = [hit EXCEPT ![t] = i]
                /\ Goto(t, "store")
                /\ UNCHANGED self
    /\ UNCHANGED tcache

\* Under the global lock: find the thread's entry or take a free one.
Register(t) ==
    /\ pc[t] = "register"
    /\ IF Registered(t)
       THEN /\ hit' = [hit EXCEPT ![t] = EntryOf(t)]
            /\ Goto(t, "store")
            /\ UNCHANGED <<tasks, self>>
       ELSE IF FreeEntries = {}
       THEN ReturnId(t, FullId) /\ UNCHANGED <<tasks, hit>>
       ELSE LET i == Min(FreeEntries)
            IN  /\ tasks' = [tasks EXCEPT ![i] = t]
                /\ hit' = [hit EXCEPT ![t] = i]
                /\ Goto(t, "store")
                /\ UNCHANGED self
    /\ UNCHANGED tcache

\* Two plain stores, in the order of the source or the other one.
Store(t) ==
    /\ pc[t] = "store"
    /\ \/ /\ tcache' = [tcache EXCEPT ![process[t]][hash[t]].tid = t]
          /\ Goto(t, "storeId")
       \/ /\ tcache' = [tcache EXCEPT ![process[t]][hash[t]].id = hit[t]]
          /\ Goto(t, "storeTid")
    /\ UNCHANGED <<tasks, hit, self>>

StoreSecond(t) ==
    /\ \/ /\ pc[t] = "storeId"
          /\ tcache' = [tcache EXCEPT ![process[t]][hash[t]].id = hit[t]]
       \/ /\ pc[t] = "storeTid"
          /\ tcache' = [tcache EXCEPT ![process[t]][hash[t]].tid = t]
    /\ ReturnId(t, hit[t])
    /\ UNCHANGED <<tasks, hit>>

Next ==
    \E t \in Threads :
        Call(t) \/ TestId(t) \/ TestTid(t) \/ Hit(t) \/ Register(t) \/ Store(t) \/ StoreSecond(t)

Spec == Init /\ [][Next]_vars

-----------------------------------------------------------------------------
TypeOK ==
    /\ tasks \in [Entries -> Threads \cup {NoThread}]
    /\ tcache \in [Processes -> [Hashes -> [tid : Threads \cup {NoThread}, id : Nat]]]
    /\ hit \in [Threads -> Nat]
    /\ self \in [Threads -> Nat]
    /\ pc \in [Threads -> {"idle", "testId", "testTid", "hit", "register",
                           "store", "storeId", "storeTid"}]

(* A thread never has two entries, so that events, signals and queue        *)
(* notifications for it cannot be split between two tasks.                  *)
OneEntryPerThread ==
    \A i, j \in Entries : tasks[i] # NoThread /\ tasks[i] = tasks[j] => i = j

Own(t) == self[t] \in Entries /\ tasks[self[t]] = t

\* The answer a thread gets when the table has no entry for it.
Overflown(t) == self[t] = FullId /\ FreeEntries = {} /\ ~ Registered(t)

(* A thread whose cache line no other thread of its process uses is told    *)
(* its own task, unless the table was full when it first asked.             *)
OwnIdentityAlone ==
    \A t \in Threads :
        (\A u \in Threads \ {t} : process[u] = process[t] => hash[u] # hash[t])
            => self[t] = 0 \/ Own(t) \/ Overflown(t)

(* task_self() tells every thread its own task and never another's: the     *)
(* races on the cache are "benign", "a miss just rescans".                  *)
OwnIdentity == \A t \in Threads : self[t] = 0 \/ Own(t) \/ Overflown(t)
=============================================================================
