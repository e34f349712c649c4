------------------------------ MODULE HerosTask ------------------------------
(***************************************************************************)
(* Task creation (heros_rtos.c, heroscalls T_create and T_start) on top of *)
(* the events of HerosEvent.                                               *)
(*                                                                         *)
(* The guest library's t_create starts a thread and waits in Ev_receive    *)
(* for RBit; the new thread calls T_create, which registers it, writes its *)
(* task id into the parent's frame, sends RBit to the parent and waits for *)
(* T_start.  A thread that was told no valid parent cannot send: it adds a *)
(* token to the pool orphan and wakes the waiters for RBit, and the parent *)
(* takes the token in ev_receive().                                        *)
(***************************************************************************)
EXTENDS HerosEvent, FiniteSets

CONSTANTS
    Children,   \* the tasks that are created
    parent,     \* parent[c]: the task whose t_create starts c
    Orphans,    \* the children that are told parent 0xffffffff
    None

ASSUME TaskAssumption ==
    /\ Children \subseteq Tasks
    /\ Receivers \cap Children = {}
    /\ parent \in [Children -> Receivers]
    /\ Orphans \subseteq Children
    /\ None \notin Tasks

VARIABLES
    started,    \* tasks[c].started, a futex word
    ctx,        \* has T_start filled the context buffer of c ?
    idOut,      \* idOut[p]: the id the new thread left in p's frame
    creating,   \* creating[p]: the child p's t_create waits for
    phase,      \* where p's t_create and t_start are
    stage       \* where c's T_create is

childVars  == <<started, ctx, stage>>
parentVars == <<idOut, creating, phase>>
taskVars   == <<childVars, parentVars>>
vars       == <<evVars, taskVars>>

TaskInit ==
    /\ Init
    /\ started = [c \in Children |-> 0]
    /\ ctx = [c \in Children |-> FALSE]
    /\ idOut = [p \in Receivers |-> None]
    /\ creating = [p \in Receivers |-> None]
    /\ phase = [p \in Receivers |-> "free"]
    /\ stage = [c \in Children |-> "unborn"]

Stage(c, s) == stage' = [stage EXCEPT ![c] = s]
Phase(p, s) == phase' = [phase EXCEPT ![p] = s]

-----------------------------------------------------------------------------
(* The parent: t_create and t_start of the guest library                   *)

Spawn(p, c) ==
    /\ pc[p] = "idle" /\ phase[p] = "free"
    /\ parent[c] = p /\ stage[c] = "unborn"
    /\ creating' = [creating EXCEPT ![p] = c]
    /\ idOut' = [idOut EXCEPT ![p] = None]
    /\ Phase(p, "creating")
    /\ Stage(c, "reset")
    /\ CallEvReceive(p, {RBit}, "any", "forever")
    /\ UNCHANGED <<events, orphan, sendVars, started, ctx>>

\* t_create returns; its caller starts the task whose id it was given.
Created(p) ==
    /\ pc[p] = "idle" /\ phase[p] = "creating"
    /\ Phase(p, IF idOut[p] = None THEN "failed" ELSE "start")
    /\ UNCHANGED <<evVars, childVars, idOut, creating>>

\* Mutant of CopyContext: the task is resumed without its context.
SkipContext(p) ==
    /\ phase[p] = "start"
    /\ Phase(p, "store")
    /\ UNCHANGED <<evVars, childVars, idOut, creating>>

\* T_start: copy the context, then set started, then wake the task.
CopyContext(p) ==
    /\ phase[p] = "start"
    /\ ctx' = [ctx EXCEPT ![idOut[p]] = TRUE]
    /\ Phase(p, "store")
    /\ UNCHANGED <<evVars, started, stage, idOut, creating>>

SetStarted(p) ==
    /\ phase[p] = "store"
    /\ started' = [started EXCEPT ![idOut[p]] = 1]
    /\ Phase(p, "wake")
    /\ UNCHANGED <<evVars, ctx, stage, idOut, creating>>

WakeStarted(p) ==
    /\ phase[p] = "wake"
    /\ stage' = [stage EXCEPT ![idOut[p]] = IF @ = "asleep" THEN "test" ELSE @]
    /\ Phase(p, "free")
    /\ creating' = [creating EXCEPT ![p] = None]
    /\ UNCHANGED <<evVars, started, ctx, idOut>>

-----------------------------------------------------------------------------
(* The child: T_create                                                     *)

ResetStarted(c) ==
    /\ stage[c] = "reset"
    /\ started' = [started EXCEPT ![c] = 0]
    /\ Stage(c, "id")
    /\ UNCHANGED <<evVars, ctx, parentVars>>

\* Mutants of WriteId: the id is not written, or it is the parent's.
SkipId(c) ==
    /\ stage[c] = "id"
    /\ Stage(c, "notify")
    /\ UNCHANGED <<evVars, started, ctx, parentVars>>

WriteParentId(c) ==
    /\ stage[c] = "id"
    /\ idOut' = [idOut EXCEPT ![parent[c]] = parent[c]]
    /\ Stage(c, "notify")
    /\ UNCHANGED <<evVars, started, ctx, creating, phase>>

WriteId(c) ==
    /\ stage[c] = "id"
    /\ idOut' = [idOut EXCEPT ![parent[c]] = c]
    /\ Stage(c, "notify")
    /\ UNCHANGED <<evVars, started, ctx, creating, phase>>

Notify(c) ==
    /\ stage[c] = "notify"
    /\ c \notin Orphans
    /\ CallEvSend(c, parent[c], {RBit})
    /\ Stage(c, "test")
    /\ UNCHANGED <<events, recvVars, orphan, started, ctx, parentVars>>

PublishToken(c) ==
    /\ stage[c] = "notify"
    /\ c \in Orphans
    /\ orphan' = orphan + 1
    /\ Stage(c, "scan")
    /\ UNCHANGED <<events, recvVars, sendVars, pc, started, ctx, parentVars>>

\* Under the global lock: FUTEX_WAKE every task whose last mask has RBit.
WakeWaiters(c) ==
    /\ stage[c] = "scan"
    /\ pc' = [t \in Tasks |-> IF pc[t] = "asleep" /\ RBit \in want[t] THEN "token"
                                                                    ELSE pc[t]]
    /\ Stage(c, "test")
    /\ UNCHANGED <<events, recvVars, orphan, sendVars, started, ctx, parentVars>>

\* Mutant of TestStarted: started is reset only here, after the notification.
ResetLate(c) ==
    /\ stage[c] = "test"
    /\ pc[c] = "idle"
    /\ started' = [started EXCEPT ![c] = 0]
    /\ Stage(c, "block")
    /\ UNCHANGED <<evVars, ctx, parentVars>>

TestStarted(c) ==
    /\ stage[c] = "test"
    /\ pc[c] = "idle"                       \* its ev_send() has returned
    /\ Stage(c, IF started[c] = 1 THEN "run" ELSE "block")
    /\ UNCHANGED <<evVars, started, ctx, parentVars>>

WaitStarted(c) ==
    /\ stage[c] = "block"
    /\ Stage(c, IF started[c] = 0 THEN "asleep" ELSE "test")
    /\ UNCHANGED <<evVars, started, ctx, parentVars>>

-----------------------------------------------------------------------------
ChildStep(c) ==
    \/ ResetStarted(c) \/ WriteId(c) \/ Notify(c) \/ PublishToken(c)
    \/ WakeWaiters(c) \/ TestStarted(c) \/ WaitStarted(c)

ParentStep(p) ==
    Created(p) \/ CopyContext(p) \/ SetStarted(p) \/ WakeStarted(p)

Next ==
    \/ \E t \in Tasks : (EvStep(t) \/ Disturbed(t)) /\ UNCHANGED taskVars
    \/ \E c \in Children : Spawn(parent[c], c) \/ ChildStep(c)
    \/ \E p \in Receivers : ParentStep(p)

Spec == TaskInit /\ [][Next]_vars

\* Every task that is inside a call, or in the guest library between the two
\* calls, keeps running.
FairSpec ==
    /\ Spec
    /\ \A t \in Tasks : WF_vars(EvStep(t) /\ UNCHANGED taskVars)
    /\ \A c \in Children : WF_vars(ChildStep(c))
    /\ \A p \in Receivers : WF_vars(ParentStep(p))

-----------------------------------------------------------------------------
TaskTypeOK ==
    /\ TypeOK
    /\ started \in [Children -> 0..1]
    /\ ctx \in [Children -> BOOLEAN]
    /\ idOut \in [Receivers -> Children \cup {None}]
    /\ creating \in [Receivers -> Children \cup {None}]
    /\ phase \in [Receivers -> {"free", "creating", "failed", "start", "store", "wake"}]
    /\ stage \in [Children -> {"unborn", "reset", "id", "notify", "scan", "test",
                               "block", "asleep", "run"}]

(* When t_create's rendezvous completes, the parent finds the id of the     *)
(* very child it waits for: the token or bit it consumed was that child's,  *)
(* sent after T_create wrote the id ("the (already-written) task id").      *)
RendezvousIdWritten ==
    \A p \in Receivers :
        pc[p] = "idle" /\ phase[p] = "creating" => idOut[p] = creating[p]

(* A published token reaches "every thread currently blocked" on RBit: no   *)
(* parent sleeps beside a token unless its publisher still has to wake it.  *)
(* It does not hold: a parent between its look at the pool and FUTEX_WAIT   *)
(* is not woken, and its word, which FUTEX_WAIT compares, is unchanged.     *)
NoLostRendezvous ==
    \A p \in Receivers :
        orphan > 0 /\ pc[p] = "asleep" /\ RBit \in want[p]
            => \E c \in Children : stage[c] = "scan"

(* No token outlives the t_create it was published for, so none can        *)
(* complete a later one before its child has registered.                   *)
NoStrayToken ==
    orphan <= Cardinality({c \in Orphans : creating[parent[c]] = c})

(* A task returns from T_create only when T_start has delivered its context.*)
ContextFirst == \A c \in Children : stage[c] = "run" => ctx[c]

(* Every thread that is told its parent gets to run its task body.         *)
AllRun == \A c \in Children \ Orphans : (stage[c] = "reset") ~> (stage[c] = "run")
=============================================================================
