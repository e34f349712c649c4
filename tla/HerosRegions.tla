---------------------------- MODULE HerosRegions -----------------------------
(* Shared-memory regions: of heros_rtos.c, and the first emulator's table.  *)
EXTENDS Integers, Sequences, FiniteSets

------------------------------------------------------------------------------
(* Named shared memory (heros_rtos.c, reg_ident() and reg_attach()): the    *)
(* regions of the segment, a file of /dev/shm for each, and in every        *)
(* process a cache of what it has mapped, kept without a lock.              *)

CONSTANTS RgThreads,   \* threads that call M_ident and M_attach
          RgProcess(_),\* the process of a thread
          RgNames,     \* names of regions
          LongNames,   \* those longer than the table keeps of a name
          MaxReg,      \* MAXREG, of the table and of the cache
          MaxMaps      \* bound on the mappings of a process

ASSUME RgAssumption == LongNames \subseteq RgNames /\ MaxReg \in Nat \ {0} /\ MaxMaps \in Nat

VARIABLES rgTable,  \* the regions, by id: the name each was asked for by
          rgCache,  \* attach_cache of each process; id 0 and ptr 0 are free
          rgMaps,   \* the files a process has mapped, by address
          rgTask,   \* what each thread is doing
          rgGot     \* what M_attach has returned: process, id, address

rgVars == <<rgTable, rgCache, rgMaps, rgTask, rgGot>>

RgProcs == {RgProcess(t) : t \in RgThreads}
Resting == [at |-> "idle"]

RgInit == /\ rgTable = <<>>
          /\ rgCache = [p \in RgProcs |-> [i \in 1..MaxReg |-> [id |-> 0, ptr |-> 0]]]
          /\ rgMaps = [p \in RgProcs |-> <<>>]
          /\ rgTask = [t \in RgThreads |-> Resting]
          /\ rgGot = {}

\* The file of a region is named by what the table keeps of its name.  The
\* names of a run differ in that.
File(id) == rgTable[id]

\* A name is compared as a whole with what was kept of it: a long one is new
\* every time it is asked for, until the table is full.
M_ident(n) ==
    /\ n \in LongNames \/ \A id \in DOMAIN rgTable : rgTable[id] # n
    /\ Len(rgTable) < MaxReg
    /\ rgTable' = Append(rgTable, n)
    /\ UNCHANGED <<rgCache, rgMaps, rgTask, rgGot>>

CachedMaps(p, id) == {i \in 1..MaxReg : rgCache[p][i].ptr # 0 /\ rgCache[p][i].id = id}

FirstOf(S) == CHOOSE i \in S : \A j \in S : i <= j

\* Mutant of M_attach: no cache.
M_attachAfresh(t, id) ==
    /\ rgTask[t] = Resting /\ id \in DOMAIN rgTable
    /\ rgTask' = [rgTask EXCEPT ![t] = [at |-> "map", id |-> id]]
    /\ UNCHANGED <<rgTable, rgCache, rgMaps, rgGot>>

\* The cache is looked at first.
M_attach(t, id) ==
    /\ rgTask[t] = Resting /\ id \in DOMAIN rgTable
    /\ LET p == RgProcess(t)
           C == CachedMaps(p, id)
       IN IF C # {}
          THEN /\ rgGot' = rgGot \cup {<<p, id, rgCache[p][FirstOf(C)].ptr>>}
               /\ UNCHANGED rgTask
          ELSE /\ rgTask' = [rgTask EXCEPT ![t] = [at |-> "map", id |-> id]]
               /\ UNCHANGED rgGot
    /\ UNCHANGED <<rgTable, rgCache, rgMaps>>

\* The file is opened, made and mapped, or that fails and 0 is returned.
RgMap(t) ==
    /\ rgTask[t].at = "map"
    /\ LET p == RgProcess(t)
       IN \/ /\ Len(rgMaps[p]) < MaxMaps
             /\ rgMaps' = [rgMaps EXCEPT ![p] = Append(@, File(rgTask[t].id))]
             /\ rgTask' = [rgTask EXCEPT ![t] =
                            [at |-> "slot", id |-> @.id, ptr |-> Len(rgMaps[p]) + 1]]
          \/ /\ rgTask' = [rgTask EXCEPT ![t] = Resting] /\ UNCHANGED rgMaps
    /\ UNCHANGED <<rgTable, rgCache, rgGot>>

\* The first free entry, if any, takes the id ...
RgSlot(t) ==
    /\ rgTask[t].at = "slot"
    /\ LET p == RgProcess(t)
           w == rgTask[t]
           E == {i \in 1..MaxReg : rgCache[p][i].ptr = 0}
       IN IF E = {}
          THEN /\ rgTask' = [rgTask EXCEPT ![t] = Resting]
               /\ rgGot' = rgGot \cup {<<p, w.id, w.ptr>>}
               /\ UNCHANGED rgCache
          ELSE /\ rgTask' = [rgTask EXCEPT ![t] =
                              [at |-> "store", id |-> w.id, ptr |-> w.ptr, i |-> FirstOf(E)]]
               /\ rgCache' = [rgCache EXCEPT ![p][FirstOf(E)].id = w.id]
               /\ UNCHANGED rgGot
    /\ UNCHANGED <<rgTable, rgMaps>>

\* ... and then the address.
RgStore(t) ==
    /\ rgTask[t].at = "store"
    /\ LET p == RgProcess(t)
           w == rgTask[t]
       IN /\ rgCache' = [rgCache EXCEPT ![p][w.i].ptr = w.ptr]
          /\ rgGot' = rgGot \cup {<<p, w.id, w.ptr>>}
    /\ rgTask' = [rgTask EXCEPT ![t] = Resting]
    /\ UNCHANGED <<rgTable, rgMaps>>

RgNext == \/ \E n \in RgNames : M_ident(n)
          \/ \E t \in RgThreads : \/ \E id \in 1..MaxReg : M_attach(t, id)
                                  \/ RgMap(t) \/ RgSlot(t) \/ RgStore(t)

RgSpec == RgInit /\ [][RgNext]_rgVars

\* What M_attach returns is the memory of the region it was called with, in
\* every process the same file, whichever id the name was given.
OwnMemory == \A g \in rgGot : rgMaps[g[1]][g[3]] = File(g[2])

\* A process maps a region once, however often it attaches it: the mappings of
\* 64 MB do not fill its address space.
MappedOnce ==
    \A p \in RgProcs, n \in RgNames :
        Cardinality({m \in DOMAIN rgMaps[p] : rgMaps[p][m] = n})
            <= Cardinality({id \in DOMAIN rgTable : File(id) = n})

------------------------------------------------------------------------------
(* heroscall_emu.c, the first emulator: system call 222 served in one      *)
(* process.  Regions are kept by name in a table without a lock, mapped    *)
(* when they are first attached; handles come from a counter; the          *)
(* environment is read into the caller's buffer; the rest succeeds.        *)
(* A name is as many characters long as EmLen says; the table keeps        *)
(* NAMEKEEP of them.                                                       *)

CONSTANTS
    EmThreads,     \* the threads that call
    EmNames,       \* region names
    EmLen,         \* EmLen[n]: the length of name n
    NAMEKEEP,      \* 19: what strncpy() leaves of a name
    MAXREG,        \* 64: the places of the table
    EmValue,       \* EmValue[v]: the length of the value of variable v, or Unset
    Unset,
    EmSizes,       \* buffer sizes of Sys_getenv()
    GrantEvents,   \* HEROSCALL_GRANT_EVENTS
    EmBits,        \* the bits a task waits for
    MaxEmCalls     \* bound: calls of a thread

ASSUME EmAssumption ==
    /\ NAMEKEEP \in Nat /\ MAXREG \in Nat /\ EmSizes \subseteq Nat \ {0}
    /\ EmLen \in [EmNames -> Nat] /\ "cut" \notin EmNames
    /\ \A v \in DOMAIN EmValue : EmValue[v] = Unset \/ EmValue[v] \in Nat

VARIABLES
    regs,          \* the table: a sequence of [name, id, addr]
    nextMap,       \* the next address mmap() gives
    nextHandle,    \* the handle counter, from 0x101
    emPc,          \* what a thread is about to do, [at, arg...]
    emResult,      \* what its last call returned
    emText,        \* what its last Sys_getenv() left in the buffer: length and room
    emCalls,       \* calls made
    emSeen         \* history: the ids each name was given, as pairs

emVars == <<regs, nextMap, nextHandle, emPc, emResult, emText, emCalls, emSeen>>

Ready == [at |-> "ready"]
RegionId(i) == 16384 + i - 1
Stored(n) == IF EmLen[n] <= NAMEKEEP THEN n ELSE "cut"

EmInit ==
    /\ regs = <<>> /\ nextMap = 1 /\ nextHandle = 257
    /\ emPc = [t \in EmThreads |-> Ready] /\ emResult = [t \in EmThreads |-> 0]
    /\ emText = [t \in EmThreads |-> [len |-> 0, size |-> 0]]
    /\ emCalls = [t \in EmThreads |-> 0] /\ emSeen = {}

EmCall(t) ==
    /\ emPc[t] = Ready /\ emCalls[t] < MaxEmCalls
    /\ emCalls' = [emCalls EXCEPT ![t] = @ + 1]
EmReturn(t, r) ==
    /\ emResult' = [emResult EXCEPT ![t] = r]
    /\ emPc' = [emPc EXCEPT ![t] = Ready]

\* reg_ident(): the name is looked for, then stored in the next place.
Found(n) == {i \in DOMAIN regs : regs[i].name = n}

\* Mutant of EmIdent: a name that is there is stored again.
EmIdentAfresh(t, n) ==
    /\ EmCall(t)
    /\ IF Len(regs) >= MAXREG THEN EmReturn(t, -2) /\ UNCHANGED emSeen
       ELSE emPc' = [emPc EXCEPT ![t] = [at |-> "store", name |-> n]] /\ UNCHANGED <<emResult, emSeen>>
    /\ UNCHANGED <<regs, nextMap, nextHandle, emText>>

EmIdent(t, n) ==
    /\ EmCall(t)
    /\ IF Found(n) # {}
       THEN LET i == CHOOSE j \in Found(n) : \A k \in Found(n) : j <= k
            IN  EmReturn(t, regs[i].id) /\ emSeen' = emSeen \cup {<<n, regs[i].id>>}
       ELSE IF Len(regs) >= MAXREG THEN EmReturn(t, -2) /\ UNCHANGED emSeen
       ELSE emPc' = [emPc EXCEPT ![t] = [at |-> "store", name |-> n]] /\ UNCHANGED <<emResult, emSeen>>
    /\ UNCHANGED <<regs, nextMap, nextHandle, emText>>

EmStore(t) ==
    /\ emPc[t].at = "store"
    /\ LET id == RegionId(Len(regs) + 1) IN
       /\ regs' = Append(regs, [name |-> Stored(emPc[t].name), id |-> id, addr |-> 0])
       /\ EmReturn(t, id) /\ emSeen' = emSeen \cup {<<emPc[t].name, id>>}
    /\ UNCHANGED <<nextMap, nextHandle, emText, emCalls>>

\* reg_attach(): an address is mapped when there is none yet.
EmAttach(t, id) ==
    /\ EmCall(t)
    /\ LET here == {i \in DOMAIN regs : regs[i].id = id}
           i == CHOOSE j \in here : TRUE
       IN  IF here = {} THEN EmReturn(t, 0)
           ELSE IF regs[i].addr # 0 THEN EmReturn(t, regs[i].addr)
           ELSE emPc' = [emPc EXCEPT ![t] = [at |-> "map", place |-> i]] /\ UNCHANGED emResult
    /\ UNCHANGED <<regs, nextMap, nextHandle, emText, emSeen>>

\* mmap() gives an address, or fails: then the next call tries again.
EmMap(t) ==
    /\ emPc[t].at = "map"
    /\ \/ /\ regs' = [regs EXCEPT ![emPc[t].place].addr = nextMap]
          /\ nextMap' = nextMap + 1 /\ EmReturn(t, nextMap)
       \/ EmReturn(t, 0) /\ UNCHANGED <<regs, nextMap>>
    /\ UNCHANGED <<nextHandle, emText, emCalls, emSeen>>

\* Sm_create, Q_create, M_create.
EmCreate(t) ==
    /\ EmCall(t)
    /\ EmReturn(t, nextHandle) /\ nextHandle' = nextHandle + 1
    /\ UNCHANGED <<regs, nextMap, emText, emSeen>>

\* Mutant of EnvGet: the last byte is not kept for the final 0.
EnvGetWhole(v, size) ==
    IF EmValue[v] = Unset THEN 0 ELSE IF EmValue[v] >= size THEN size ELSE EmValue[v]

\* Sys_getenv(): the length of what the buffer then holds, its final 0 apart.
EnvGet(v, size) ==
    IF EmValue[v] = Unset THEN 0
    ELSE IF EmValue[v] >= size THEN size - 1 ELSE EmValue[v]
EmGetenv(t, v, size) ==
    /\ EmCall(t)
    /\ EmReturn(t, 0) /\ emText' = [emText EXCEPT ![t] = [len |-> EnvGet(v, size), size |-> size]]
    /\ UNCHANGED <<regs, nextMap, nextHandle, emSeen>>

\* T_ident, Ev_receive, and everything else.
EmOther(t, r) ==
    /\ EmCall(t)
    /\ r \in {257, 0, IF GrantEvents THEN EmBits ELSE 0}
    /\ EmReturn(t, r)
    /\ UNCHANGED <<regs, nextMap, nextHandle, emText, emSeen>>

EmStep(t) ==
    \/ \E n \in EmNames : EmIdent(t, n)
    \/ EmStore(t) \/ EmMap(t) \/ EmCreate(t)
    \/ \E i \in 0 .. MAXREG : EmAttach(t, RegionId(i))
    \/ \E v \in DOMAIN EmValue, size \in EmSizes : EmGetenv(t, v, size)
    \/ \E r \in {257, 0, EmBits} : EmOther(t, r)

EmNext == \E t \in EmThreads : EmStep(t)

(* A region has one id and two regions never share an address or an id,    *)
(* for names the table can keep and calls that do not overlap; the table   *)
(* is never overrun; a value that is cut still fits its buffer.            *)
RegionsApart ==
    /\ Len(regs) <= MAXREG
    /\ \A x, y \in emSeen : x[1] # y[1] => x[2] # y[2]
    /\ \A x, y \in emSeen : x[1] = y[1] /\ EmLen[x[1]] <= NAMEKEEP => x[2] = y[2]
    /\ \A i, j \in DOMAIN regs : i # j => regs[i].id # regs[j].id
         /\ (regs[i].addr # regs[j].addr \/ regs[i].addr = 0)
    /\ \A t \in EmThreads : emText[t].len < emText[t].size \/ emText[t] = [len |-> 0, size |-> 0]
==============================================================================
