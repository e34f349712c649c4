------------------------------ MODULE HerosNames ------------------------------
(* The names of processes (heros_rtos.c): parse_self_pname(), the pname of  *)
(* a main task in the task table, and the calls P_ident, P_name and T_name. *)
(* A process is started, registers its tasks, dies, and may be started once *)
(* more; its tasks stay in the table.                                       *)
EXTENDS Integers, Sequences, FiniteSets

CONSTANTS NmNames,  \* the names processes are started with, sequences
          Colon,    \* the character that ends a subsystem prefix
          NmKeep,   \* characters kept of a name, NAMELEN - 1
          NmShow,   \* characters P_name returns, 28
          MaxTask,  \* entries of the task table
          MaxProc   \* bound on the processes started

ASSUME NmAssumption == /\ NmShow \in Nat /\ NmKeep \in Nat /\ NmShow <= NmKeep
                       /\ MaxTask \in Nat /\ MaxProc \in Nat
                       /\ \A n \in NmNames : n \in Seq({n[k] : k \in DOMAIN n})

VARIABLES nmProcs,  \* the processes, by number: name in the environment, running
          nmTasks   \* the task table: process, whether the main thread, pname

nmVars == <<nmProcs, nmTasks>>

NmInit == nmProcs = <<>> /\ nmTasks = <<>>

Trunc(s, n) == SubSeq(s, 1, IF Len(s) < n THEN Len(s) ELSE n)

\* canon_pname: what follows the first colon, truncated.
Canon(s) ==
    LET C == {i \in DOMAIN s : s[i] = Colon}
        i == CHOOSE k \in C : \A j \in C : k <= j
    IN Trunc(IF C = {} THEN s ELSE SubSeq(s, i + 1, Len(s)), NmKeep)

\* parse_self_pname: the name is truncated before it is made canonical.
SelfPname(p) == Canon(Trunc(nmProcs[p].name, NmKeep))

NmStart(n) ==
    /\ Len(nmProcs) < MaxProc
    /\ nmProcs' = Append(nmProcs, [name |-> n, running |-> TRUE])
    /\ UNCHANGED nmTasks

NmDie(p) ==
    /\ nmProcs[p].running
    /\ nmProcs' = [nmProcs EXCEPT ![p].running = FALSE]
    /\ UNCHANGED nmTasks

\* The first call of a thread enters it; the main thread brings the name.
NmRegister(p, main) ==
    /\ nmProcs[p].running /\ Len(nmTasks) < MaxTask
    /\ \A i \in DOMAIN nmTasks : ~(nmTasks[i].proc = p /\ nmTasks[i].main = main)
    /\ nmTasks' = Append(nmTasks, [proc |-> p, main |-> main,
                                   pname |-> IF main THEN SelfPname(p) ELSE <<>>])
    /\ UNCHANGED nmProcs

FirstTask(S) == IF S = {} THEN 0 ELSE CHOOSE i \in S : \A j \in S : i <= j

\* Mutant of P_ident: the query is taken as it is.
P_identPlain(q) == FirstTask({i \in DOMAIN nmTasks : /\ nmTasks[i].pname # <<>>
                                                     /\ nmTasks[i].pname = Trunc(q, NmKeep)})

\* The first task of the table that has the name, or 0.
P_ident(q) == FirstTask({i \in DOMAIN nmTasks : /\ nmTasks[i].pname # <<>>
                                                /\ nmTasks[i].pname = Canon(q)})

\* The name of a task's process, from any task of the process that has one.
P_name(id) ==
    LET S == {i \in DOMAIN nmTasks : /\ nmTasks[i].proc = nmTasks[id].proc
                                     /\ nmTasks[i].pname # <<>>}
    IN IF S = {} THEN <<>> ELSE Trunc(nmTasks[FirstTask(S)].pname, NmShow)

\* No call gives a task a name of its own: T_name is the process name, that of
\* the caller, whichever task it asks for.
T_name(caller, id) == SelfPname(nmTasks[caller].proc)

NmNext == \/ \E n \in NmNames : NmStart(n)
          \/ \E p \in DOMAIN nmProcs : NmDie(p) \/ \E main \in BOOLEAN : NmRegister(p, main)

NmSpec == NmInit /\ [][NmNext]_nmVars

\* A process whose main task is registered is found by the name it was started
\* with and by the name without its prefix, if the whole of it is kept; who is
\* found is a main task that P_name gives the same name, as far as P_name shows
\* it, and a task of the process is shown its own name by T_name.
NamesAgree ==
    \A i \in DOMAIN nmTasks :
        LET n == nmProcs[nmTasks[i].proc].name
        IN (nmTasks[i].main /\ Len(n) <= NmKeep /\ Canon(n) # <<>>) =>
             LET id == P_ident(n)
             IN /\ id # 0 /\ nmTasks[id].main /\ P_ident(Canon(n)) = id
                /\ P_name(id) = Trunc(T_name(i, i), NmShow)

\* P_ident finds only processes that are running with the name.
FoundRuns == \A n \in NmNames : P_ident(n) # 0 => nmProcs[nmTasks[P_ident(n)].proc].running
=============================================================================
