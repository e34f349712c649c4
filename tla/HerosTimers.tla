----------------------------- MODULE HerosTimers -----------------------------
(***************************************************************************)
(* The timers of heros_rtos.c.  Tm_evafter() and Tm_evevery() send their   *)
(* event at once; Tm_evevery() also starts a thread that sends it again    *)
(* every period, as long as fewer than the cap run; Tm_cancel() does       *)
(* nothing; Tm_wkafter() sleeps a capped time.  A task's slot is never     *)
(* freed, so that a timer thread that has started goes on for ever.        *)
(***************************************************************************)
EXTENDS Naturals, FiniteSets

CONSTANTS
    TmTasks,      \* the tasks that set timers
    TmBits,       \* the event bits they set
    TmCap,        \* 64: the periodic timers there may be
    TmLongest,    \* the cap of Tm_wkafter(), in the unit of TmSleeps
    TmSleeps,     \* the times slept, asked for
    MaxTmCalls    \* bound: calls of a task

ASSUME TimersAssumption == IsFiniteSet(TmTasks) /\ TmCap \in Nat \ {0}

VARIABLES
    tmPc,         \* where a task is in its call, with the bit it is about
    tmEvents,     \* events[t]: the bits that wait for t
    n_ptimer,     \* the periodic timers counted
    tmThreads,    \* tmThreads[t][b]: the timer threads of t for bit b that run
    tmAsked,      \* history: tmAsked[t][b], the timers t was told it has
    tmLeft,       \* the time t still sleeps
    tmCalls       \* calls made

tmVars == <<tmPc, tmEvents, n_ptimer, tmThreads, tmAsked, tmLeft, tmCalls>>

Idle == [at |-> "idle"]
TmAt(t, s) == tmPc[t].at = s

TmInit ==
    /\ tmPc = [t \in TmTasks |-> Idle]
    /\ tmEvents = [t \in TmTasks |-> {}] /\ n_ptimer = 0
    /\ tmThreads = [t \in TmTasks |-> [b \in TmBits |-> 0]] /\ tmAsked = tmThreads
    /\ tmLeft = [t \in TmTasks |-> 0] /\ tmCalls = [t \in TmTasks |-> 0]

TmCall(t) ==
    /\ TmAt(t, "idle") /\ tmCalls[t] < MaxTmCalls
    /\ tmCalls' = [tmCalls EXCEPT ![t] = @ + 1]

\* Mutant of TmFire: only the thread sends the event.
TmFireLater(t, bit, every) ==
    /\ TmCall(t)
    /\ UNCHANGED tmEvents
    /\ tmPc' = [tmPc EXCEPT ![t] = IF every THEN [at |-> "check", bit |-> bit] ELSE Idle]
    /\ UNCHANGED <<n_ptimer, tmThreads, tmAsked, tmLeft>>

TmFire(t, bit, every) ==
    /\ TmCall(t)
    /\ tmEvents' = [tmEvents EXCEPT ![t] = @ \cup {bit}]
    /\ tmPc' = [tmPc EXCEPT ![t] = IF every THEN [at |-> "check", bit |-> bit] ELSE Idle]
    /\ UNCHANGED <<n_ptimer, tmThreads, tmAsked, tmLeft>>

Tm_evafter(t, bit) == TmFire(t, bit, FALSE)
Tm_evevery(t, bit) == TmFire(t, bit, TRUE)

\* The call returns its made-up timer id, whether a thread was started or not.
TmReturn(t) ==
    /\ tmAsked' = [tmAsked EXCEPT ![t][tmPc[t].bit] = @ + 1]
    /\ tmPc' = [tmPc EXCEPT ![t] = Idle]

\* ptimer_start(): the count is read before the thread is made, and raised
\* after that.
PtimerCheck(t) ==
    /\ TmAt(t, "check")
    /\ IF n_ptimer >= TmCap THEN TmReturn(t)
       ELSE tmPc' = [tmPc EXCEPT ![t].at = "create"] /\ UNCHANGED tmAsked
    /\ UNCHANGED <<tmEvents, n_ptimer, tmThreads, tmLeft, tmCalls>>

PtimerCreate(t) ==
    /\ TmAt(t, "create")
    /\ tmThreads' = [tmThreads EXCEPT ![t][tmPc[t].bit] = @ + 1]
    /\ tmPc' = [tmPc EXCEPT ![t] = [@ EXCEPT !.at = "count"]]
    /\ UNCHANGED <<tmEvents, n_ptimer, tmAsked, tmLeft, tmCalls>>

PtimerCount(t) ==
    /\ TmAt(t, "count")
    /\ n_ptimer' = n_ptimer + 1
    /\ TmReturn(t)
    /\ UNCHANGED <<tmEvents, tmThreads, tmLeft, tmCalls>>

\* ptimer_fn(): a period is over.
PtimerTick(t, bit) ==
    /\ tmThreads[t][bit] > 0
    /\ tmEvents' = [tmEvents EXCEPT ![t] = @ \cup {bit}]
    /\ UNCHANGED <<tmPc, n_ptimer, tmThreads, tmAsked, tmLeft, tmCalls>>

Tm_cancel(t, bit) ==
    /\ tmAsked[t][bit] > 0 /\ TmCall(t)
    /\ tmAsked' = [tmAsked EXCEPT ![t][bit] = @ - 1]
    /\ UNCHANGED <<tmPc, tmEvents, n_ptimer, tmThreads, tmLeft>>

Tm_wkafter(t, time) ==
    /\ TmCall(t)
    /\ tmLeft' = [tmLeft EXCEPT ![t] = IF TmLongest > 0 /\ time > TmLongest THEN TmLongest ELSE time]
    /\ tmPc' = [tmPc EXCEPT ![t] = [at |-> "sleep"]]
    /\ UNCHANGED <<tmEvents, n_ptimer, tmThreads, tmAsked>>

TmPass(t) ==
    /\ TmAt(t, "sleep")
    /\ IF tmLeft[t] = 0 THEN tmPc' = [tmPc EXCEPT ![t] = Idle] /\ UNCHANGED tmLeft
       ELSE tmLeft' = [tmLeft EXCEPT ![t] = @ - 1] /\ UNCHANGED tmPc
    /\ UNCHANGED <<tmEvents, n_ptimer, tmThreads, tmAsked, tmCalls>>

\* The task takes its events.
TmTake(t) ==
    /\ TmAt(t, "idle") /\ tmEvents[t] # {}
    /\ tmEvents' = [tmEvents EXCEPT ![t] = {}]
    /\ UNCHANGED <<tmPc, n_ptimer, tmThreads, tmAsked, tmLeft, tmCalls>>

TmGoes(t) == PtimerCheck(t) \/ PtimerCreate(t) \/ PtimerCount(t) \/ TmPass(t)

TmNext ==
    \E t \in TmTasks :
        \/ TmGoes(t) \/ TmTake(t)
        \/ \E bit \in TmBits : \/ Tm_evafter(t, bit) \/ Tm_evevery(t, bit)
                               \/ PtimerTick(t, bit) \/ Tm_cancel(t, bit)
        \/ \E time \in TmSleeps : Tm_wkafter(t, time)

TmFair == \A t \in TmTasks : WF_tmVars(TmGoes(t))
                             /\ \A bit \in TmBits : WF_tmVars(PtimerTick(t, bit))

TmSpec == TmInit /\ [][TmNext]_tmVars

\* The timers that run, numbered for each task and bit.
TmLive == UNION {{<<c, k>> : k \in 1..tmThreads[c[1]][c[2]]} : c \in TmTasks \X TmBits}
InCount == {t \in TmTasks : TmAt(t, "count")}

(* The timers that run are the counted ones and those about to be counted; *)
(* tasks that pass the check together are over the cap by no more than     *)
(* the others of them.                                                     *)
TimersCounted ==
    /\ Cardinality(TmLive) = n_ptimer + Cardinality(InCount)
    /\ Cardinality(TmLive) <= TmCap + Cardinality(TmTasks) - 1

(* A task that set a timer gets its event, whether the cap let it start or *)
(* not, and each timer that runs ticks again after its event was taken.    *)
TimersTick ==
    \A t \in TmTasks : \A bit \in TmBits :
        [](TmAt(t, "check") /\ tmPc[t].bit = bit => bit \in tmEvents[t])
        /\ (tmThreads[t][bit] > 0 ~> bit \in tmEvents[t])

(* The comment at Tm_cancel(): "no-op (our timers are one-shot immediate)": *)
(* a timer that was cancelled sends nothing any more.                       *)
CancelledIsQuiet ==
    [][\A t \in TmTasks : \A bit \in TmBits :
         TmAt(t, "idle") /\ tmAsked[t][bit] = 0 /\ bit \in tmEvents'[t] \ tmEvents[t]
           => tmCalls'[t] # tmCalls[t]]_tmVars
===============================================================================
