------------------------------ MODULE HerosTrace ------------------------------
(* The guest backtraces of heros_rtos.c: ev_trace() of the tasks that wait  *)
(* for a watched bit and qi_trace() of those that resolve a watched name.   *)
(* Both find the live frames on the stack by the longest chain of frame     *)
(* pointers and report a (task, call stack) once, up to a budget.  The      *)
(* table of the mappings is loaded once for the process.                    *)
EXTENDS Integers, Sequences, FiniteSets

CONSTANTS TrThreads,  \* threads of the process that are traced
          TrWords,    \* words of a stack, from the stack pointer to its end
          TrScan,     \* words the search for a first frame covers, 2048 / 4
          TrDepth,    \* longest chain that is followed, 40
          TrEnough,   \* a chain this long ends the search, 16
          TrShown,    \* most frames that are reported, 24
          TrBudget,   \* HEROSCALL_EV_TRACE_BUDGET
          TrCap,      \* entries of evt_seen
          TrStacks    \* the stacks that occur, functions from 1..TrWords

ASSUME TrAssumption == /\ TrWords \in Nat /\ TrScan \in Nat /\ TrDepth \in Nat
                       /\ TrEnough \in Nat /\ TrShown \in Nat /\ TrBudget \in Nat
                       /\ TrCap \in Nat \ {0}

\* A word that is a return address: it lies in code, after a call instruction.
\* Every other word is the number of a word of the stack, or 0.
Return == -1

VARIABLES trLive,   \* threads that exist
          trLoaded, \* g_maps has been loaded
          trMaps,   \* the threads whose stacks are in g_maps
          trSeen,   \* evt_seen, its first evt_nseen entries
          trBudget, \* evt_budget
          trTask,   \* what each thread is doing
          trLog     \* the backtraces reported: thread, its stack then, the frames

trVars == <<trLive, trLoaded, trMaps, trSeen, trBudget, trTask, trLog>>

Untraced == [at |-> "idle"]

-----------------------------------------------------------------------------
(* The walk over a stack m.                                                 *)

FrameOk(m, bp) == bp \in 1..(TrWords - 1) /\ m[bp + 1] = Return

\* The frame the one at bp leads to, or 0.  The top is not a frame.
NextFrame(m, bp) == IF m[bp] > bp /\ m[bp] <= TrWords THEN m[bp] ELSE 0

\* The frames from bp on, at most n of them.
Frames[n \in 0..100, m \in TrStacks, bp \in 0..TrWords] ==
    IF n = 0 \/ ~FrameOk(m, bp) THEN <<>> ELSE <<bp>> \o Frames[n - 1, m, NextFrame(m, bp)]

ChainLen(m, bp) == Len(Frames[TrDepth, m, bp])

\* Mutant of Walk: the first chain of two frames is taken.
WalkFirst(m) ==
    LET Cand == {p \in 1..TrScan : p < TrWords /\ NextFrame(m, p) # 0 /\ ChainLen(m, m[p]) >= 2}
    IN IF Cand = {} THEN <<>>
       ELSE Frames[TrShown, m, m[CHOOSE p \in Cand : \A q \in Cand : p <= q]]

\* The words near the stack pointer that could be a saved frame pointer are
\* tried in order; the first of the longest chains is taken, or the first that
\* is long enough.  A single frame is no chain.
Walk(m) ==
    LET Cand == {p \in 1..TrScan : p < TrWords /\ NextFrame(m, p) # 0}
        L(p) == ChainLen(m, m[p])
        Stop == {p \in Cand : L(p) >= TrEnough}
        Best == {p \in Cand : \A q \in Cand : L(q) <= L(p)}
        From == IF Stop # {} THEN Stop ELSE Best
        first == CHOOSE p \in From : \A q \in From : p <= q
    IN IF Cand = {} \/ L(first) < 2 THEN <<>> ELSE Frames[TrShown, m, m[first]]

-----------------------------------------------------------------------------
\* The options have been read, and the thread that read them is not overtaken.
TrInit == /\ \E t \in TrThreads : trLive = {t}
          /\ trLoaded = FALSE /\ trMaps = {} /\ trSeen = <<>> /\ trBudget = TrBudget
          /\ trTask = [t \in TrThreads |-> Untraced] /\ trLog = <<>>

\* A thread is created; its stack is a new mapping.
TrThread(t) ==
    /\ t \notin trLive
    /\ trLive' = trLive \cup {t}
    /\ UNCHANGED <<trLoaded, trMaps, trSeen, trBudget, trTask, trLog>>

\* The thread makes the watched call: nothing once the budget is spent; the
\* table is loaded by the first; the stack is walked.
TrCall(t, m) ==
    /\ t \in trLive /\ trTask[t] = Untraced /\ trBudget > 0
    /\ trLoaded' = TRUE
    /\ trMaps' = IF trLoaded THEN trMaps ELSE trLive
    /\ trTask' = [trTask EXCEPT ![t] =
                   [at |-> "walked", mem |-> m, stack |-> Walk(m), capped |-> t \in trMaps']]
    /\ UNCHANGED <<trLive, trSeen, trBudget, trLog>>

\* The hash of the task and its frames has been seen, or is entered: the count
\* and the budget are read here ...
TrLook(t) ==
    /\ trTask[t].at = "walked"
    /\ trTask' = [trTask EXCEPT ![t] =
                   IF \E i \in DOMAIN trSeen : trSeen[i] = <<t, @.stack>> THEN Untraced
                   ELSE [at |-> "enter", mem |-> @.mem, stack |-> @.stack, n |-> Len(trSeen),
                         left |-> trBudget]]
    /\ UNCHANGED <<trLive, trLoaded, trMaps, trSeen, trBudget, trLog>>

\* Mutant of TrReport: the budget is not counted down.
TrReportFree(t) ==
    /\ trTask[t].at = "enter"
    /\ LET w == trTask[t]
       IN /\ trSeen' = IF w.n < TrCap THEN Append(SubSeq(trSeen, 1, w.n), <<t, w.stack>>) ELSE trSeen
          /\ trLog' = Append(trLog, <<t, w.mem, w.stack>>)
    /\ trTask' = [trTask EXCEPT ![t] = Untraced]
    /\ UNCHANGED <<trLive, trLoaded, trMaps, trBudget>>

\* ... and stored here, without a lock: what another thread stored in between
\* is lost.  A full table enters nothing.
TrReport(t) ==
    /\ trTask[t].at = "enter"
    /\ LET w == trTask[t]
       IN /\ trSeen' = IF w.n < TrCap THEN Append(SubSeq(trSeen, 1, w.n), <<t, w.stack>>) ELSE trSeen
          /\ trLog' = Append(trLog, <<t, w.mem, w.stack>>)
    /\ trBudget' = trTask[t].left - 1
    /\ trTask' = [trTask EXCEPT ![t] = Untraced]
    /\ UNCHANGED <<trLive, trLoaded, trMaps>>

TrNext == \E t \in TrThreads : \/ TrThread(t) \/ \E m \in TrStacks : TrCall(t, m)
                               \/ TrLook(t) \/ TrReport(t)

TrSpec == TrInit /\ [][TrNext]_trVars

-----------------------------------------------------------------------------
\* The frames S are a chain that the word p of the stack m leads to.
IsChain(m, p, S) == /\ m[p] > p /\ m[p] \in S
                    /\ \A q \in S : /\ m[q + 1] = Return
                                    /\ q = m[p] \/ \E r \in S : r < q /\ m[r] = q

\* A thread that reports alone keeps to the budget, whoever else is on its way.
ReportsBounded ==
    \A t \in TrThreads :
       (\A i \in DOMAIN trLog : trLog[i][1] = t) => Len(trLog) <= TrBudget

\* The budget counts every report but those of threads that were on their way
\* when it was spent.  Two that read it before either stores it count as one.
BudgetKept == Len(trLog) <= TrBudget + Cardinality(TrThreads) - 1

\* A report shows frames of the stack in ascending order, each led to by the
\* one before, and there is no longer chain near the stack pointer, as far as
\* the limits of the search go.
ReportsLive ==
    /\ ReportsBounded
    /\ \A i \in DOMAIN trLog :
          LET m == trLog[i][2]
              w == trLog[i][3]
          IN /\ \A k \in 2..Len(w) : m[w[k - 1]] = w[k] /\ w[k - 1] < w[k] /\ m[w[k] + 1] = Return
             /\ \A p \in 1..TrScan, S \in SUBSET (1..(TrWords - 1)) :
                   IsChain(m, p, S) /\ Cardinality(S) \in 2..TrEnough => Len(w) >= Cardinality(S)

\* The walk ends where the stack of the thread does: its end is known from the
\* table of the mappings.
ScanCapped == \A t \in TrThreads : trTask[t].at = "walked" => trTask[t].capped
=============================================================================
