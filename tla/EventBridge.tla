----------------------------- MODULE EventBridge -----------------------------
(***************************************************************************)
(* The /dev/events bridge (heros_rtos.c, evdev_*() and heros_evdev_*();    *)
(* herosapi_shim.c, open() and ioctl() of /dev/events).                    *)
(*                                                                         *)
(* A GUI thread does not sleep in ev_receive() but in select() or ppoll()  *)
(* on its /dev/events, a pipe.  The runtime keeps the pipe readable while  *)
(* the event word of the thread that opened it holds an enabled bit: every *)
(* ev_send() and ev_receive() of the process brings the pipe into line,    *)
(* and a watcher thread sleeps on the event word for the sends of other    *)
(* processes.  A device is named by the task that opened it.               *)
(*                                                                         *)
(* The module describes the devices of one process; they are private to    *)
(* it.  It adds its own steps to those of HerosEvent.                      *)
(***************************************************************************)
EXTENDS HerosEvent

CONSTANTS
    Local,      \* the tasks of the process
    Openers,    \* those of them that open /dev/events
    Gui,        \* those of them that wait in select() or ppoll()
    device,     \* whose device each of these polls: the pipe is shared
    GuiWant,    \* the mask with which they then call Ev_receive
    OwnMask,    \* the queue notify bits, 0xff000000
    Masks,      \* the masks of ioctl(0x4502)
    Senders,    \* the tasks that call Ev_send
    None

\* A reconciliation: the task or the watcher <<d>> that performs it, the device,
\* and whether the pipe is to be readable.
Sections == [by : Local \cup {<<d>> : d \in Openers}, dev : Openers, want : BOOLEAN]

ASSUME BridgeAssumption ==
    /\ Local \subseteq Tasks
    /\ Openers \subseteq Local
    /\ Gui \subseteq Local \cap Receivers
    /\ device \in [Gui -> Openers]
    /\ OwnMask \subseteq Bits
    /\ GuiWant \in Wants
    /\ Timeouts = {"none"}
    /\ Masks \subseteq SUBSET Bits
    /\ Senders \subseteq Tasks
    /\ None \notin Tasks
    /\ None \notin Sections

VARIABLES
    opened,     \* the devices in evdevs[]
    sysmask,    \* evdevs[].sysmask
    signaled,   \* evdevs[].signaled: there is a byte in the pipe
    sibling,    \* evdev_sibling: "unread" (-1), "on" (1) or "off" (0)
    env,        \* what HEROS_EVDEV_SIBLING says: "on" or "off"
    watch,      \* where the watcher thread of each device is
    seen,       \* the value of the word that the watcher loaded
    owed,       \* the task whose device t is about to reconcile
    cs          \* the critical section of a reconciliation, or None

bridgeVars == <<opened, sysmask, signaled, sibling, env, watch, seen, owed, cs>>
vars       == <<evVars, bridgeVars>>

Watching == {"off", "start", "load", "lock", "settle", "block", "asleep"}

BridgeInit ==
    /\ Init
    /\ opened = {}
    /\ sysmask = [d \in Openers |-> {}]
    /\ signaled = [d \in Openers |-> FALSE]
    /\ sibling = "unread"
    /\ env \in {"on", "off"}
    /\ watch = [d \in Openers |-> "off"]
    /\ seen = [d \in Openers |-> {}]
    /\ owed = [t \in Tasks |-> None]
    /\ cs = None

\* The thread is in its own code and may make a call.
Free(t) ==
    /\ pc[t] = "idle"
    /\ owed[t] = None
    /\ cs # None => cs.by # t

-----------------------------------------------------------------------------
(* evdev_reconcile_locked(), between lock() and unlock()                   *)

\* The mask of the ioctl and the queue notify bits
Enabled(mask) == mask \cup OwnMask

\* Mutant of Wanted: only the opener counts.
WantedOwn(d, mask) == events[d] \cap Enabled(mask) # {}

\* The pipe is to be readable: the opener has an enabled bit or, unless the
\* shared-pipe wake is off, any task of the process has.
Wanted(d, mask) ==
    \/ events[d] \cap Enabled(mask) # {}
    \/ sibling # "off" /\ \E u \in Local : events[u] \cap Enabled(mask) # {}

\* Take the lock and read the event words; they may change before the pipe does.
Enter(by, d, mask) ==
    /\ cs = None
    /\ cs' = [by |-> by, dev |-> d, want |-> Wanted(d, mask)]

\* Write the byte or read it, and release the lock.
Settle(by) ==
    /\ cs # None
    /\ cs.by = by
    /\ signaled' = [signaled EXCEPT ![cs.dev] = cs.want]
    /\ cs' = None

-----------------------------------------------------------------------------
(* heros_evdev_register() and heros_evdev_setmask()                        *)

\* open("/dev/events"): an empty pipe, no mask, and a watcher of its own.
Register(t) ==
    /\ t \in Openers \ opened
    /\ Free(t)
    /\ cs = None
    /\ opened' = opened \cup {t}
    /\ watch' = [watch EXCEPT ![t] = "start"]
    /\ UNCHANGED <<evVars, sysmask, signaled, sibling, env, seen, owed, cs>>

\* ioctl(0x4502, &mask)
SetMask(t) ==
    /\ t \in opened
    /\ Free(t)
    /\ \E M \in Masks :
        /\ sysmask' = [sysmask EXCEPT ![t] = M]
        /\ Enter(t, t, M)
    /\ UNCHANGED <<evVars, opened, signaled, sibling, env, watch, seen, owed>>

-----------------------------------------------------------------------------
(* evdev_reconcile(), the last step of ev_send() and of some ev_receive()s *)

\* A task whose device is not in this process's table is none of its business.
Reconcile(t) ==
    /\ owed[t] # None
    /\ IF owed[t] \in opened
       THEN Enter(t, owed[t], sysmask[owed[t]])
       ELSE cs' = cs
    /\ owed' = [owed EXCEPT ![t] = None]
    /\ UNCHANGED <<evVars, opened, sysmask, signaled, sibling, env, watch, seen>>

SettleTask(t) ==
    /\ Settle(t)
    /\ UNCHANGED <<evVars, opened, sysmask, sibling, env, watch, seen, owed>>

\* Mutant of Owe: the devices of another process are reconciled too.
OweAny(t, u) == owed' = [owed EXCEPT ![t] = u]

\* The call of t goes on to evdev_reconcile(u).
Owe(t, u) == owed' = [owed EXCEPT ![t] = IF t \in Local THEN u ELSE None]

-----------------------------------------------------------------------------
(* evdev_watcher_fn()                                                      *)

Goes(d, l) == watch' = [watch EXCEPT ![d] = l]

\* The environment is read by the first watcher to start.
WatchStart(d) ==
    /\ watch[d] = "start"
    /\ sibling' = IF sibling = "unread" THEN env ELSE sibling
    /\ Goes(d, "load")
    /\ UNCHANGED <<evVars, opened, sysmask, signaled, env, seen, owed, cs>>

WatchLoad(d) ==
    /\ watch[d] = "load"
    /\ seen' = [seen EXCEPT ![d] = events[d]]
    /\ Goes(d, "lock")
    /\ UNCHANGED <<evVars, opened, sysmask, signaled, sibling, env, owed, cs>>

WatchEnter(d) ==
    /\ watch[d] = "lock"
    /\ Enter(<<d>>, d, sysmask[d])
    /\ Goes(d, "settle")
    /\ UNCHANGED <<evVars, opened, sysmask, signaled, sibling, env, seen, owed>>

WatchSettle(d) ==
    /\ watch[d] = "settle"
    /\ Settle(<<d>>)
    /\ Goes(d, "block")
    /\ UNCHANGED <<evVars, opened, sysmask, sibling, env, seen, owed>>

\* FUTEX_WAIT on the word
WatchWait(d) ==
    /\ watch[d] = "block"
    /\ Goes(d, IF seen[d] = events[d] THEN "asleep" ELSE "load")
    /\ seen' = [seen EXCEPT ![d] = {}]
    /\ UNCHANGED <<evVars, opened, sysmask, signaled, sibling, env, owed, cs>>

\* With the shared-pipe wake the wait ends after 15 ms.
WatchTick(d) ==
    /\ watch[d] = "asleep"
    /\ sibling = "on"
    /\ Goes(d, "load")
    /\ UNCHANGED <<evVars, opened, sysmask, signaled, sibling, env, seen, owed, cs>>

WatchStep(d) ==
    WatchStart(d) \/ WatchLoad(d) \/ WatchEnter(d) \/ WatchSettle(d) \/ WatchWait(d)

-----------------------------------------------------------------------------
(* The steps of HerosEvent                                                 *)

CallSend(t) == Free(t) /\ Ev_send(t) /\ UNCHANGED bridgeVars

\* FUTEX_WAKE wakes the watcher of the word too.
Wake(t) ==
    /\ EvWake(t)
    /\ Owe(t, dest[t])
    /\ watch' = [d \in Openers |->
                    IF d = dest[t] /\ watch[d] = "asleep" THEN "load" ELSE watch[d]]
    /\ UNCHANGED <<opened, sysmask, signaled, sibling, env, seen, cs>>

\* Mutant of Caught: the pipe is not drained.
CaughtOnly(t) == Take(t) /\ UNCHANGED bridgeVars

\* Mutant of Caught: the events are returned and stay.
CaughtKept(t) ==
    /\ pc[t] = "take"
    /\ ReturnBits(t, cur[t] \cap want[t])
    /\ Owe(t, t)
    /\ UNCHANGED <<events, want, cond, timeout, orphan, sendVars,
                   opened, sysmask, signaled, sibling, env, watch, seen, cs>>

Caught(t) ==
    /\ Take(t)
    /\ Owe(t, t)
    /\ UNCHANGED <<opened, sysmask, signaled, sibling, env, watch, seen, cs>>

\* A poll that finds nothing reconciles as well.
Look(t) ==
    /\ Load(t)
    /\ IF pc'[t] = "idle" THEN Owe(t, t) ELSE owed' = owed
    /\ UNCHANGED <<opened, sysmask, signaled, sibling, env, watch, seen, cs>>

\* These threads poll: the steps of a wait in ev_receive() do not occur.
OtherStep(t) ==
    /\ EvOr(t) \/ TakeToken(t)
    /\ UNCHANGED bridgeVars

-----------------------------------------------------------------------------
(* The GUI threads, known from how the comments of the bridge describe     *)
(* EVHandlerWaitForIOEvent() and handlesysevents()                         *)

\* select() or ppoll() returns: the thread polls its events.
Handle(g) ==
    /\ Free(g)
    /\ device[g] \in opened
    /\ signaled[device[g]]
    /\ CallEvReceive(g, GuiWant, "any", "none")
    /\ UNCHANGED <<events, orphan, sendVars, bridgeVars>>

-----------------------------------------------------------------------------
TaskStep(t) ==
    Wake(t) \/ Caught(t) \/ Look(t) \/ OtherStep(t) \/ SettleTask(t)

Next ==
    \/ \E t \in Senders : CallSend(t)
    \/ \E t \in Tasks : TaskStep(t) \/ Reconcile(t)
    \/ \E t \in Openers : Register(t) \/ SetMask(t)
    \/ \E g \in Gui : Handle(g)
    \/ \E d \in Openers : WatchStep(d) \/ WatchTick(d)

Spec == BridgeInit /\ [][Next]_vars

\* The threads of the process run and the 15 ms pass; a thread that waits for the lock, which is
\* released again and again, gets it at last; a GUI thread comes back to its
\* select(), which returns while the pipe is readable.
FairSpec ==
    /\ Spec
    /\ \A t \in Local : WF_vars(TaskStep(t)) /\ SF_vars(Reconcile(t))
    /\ \A g \in Gui : SF_vars(Handle(g))
    /\ \A d \in Openers : /\ WF_vars(WatchStep(d) \/ WatchTick(d))
                          /\ SF_vars(WatchEnter(d))

-----------------------------------------------------------------------------
BridgeTypeOK ==
    /\ TypeOK
    /\ opened \subseteq Openers
    /\ sysmask \in [Openers -> SUBSET Bits]
    /\ signaled \in [Openers -> BOOLEAN]
    /\ sibling \in {"unread", "on", "off"}
    /\ env \in {"on", "off"}
    /\ watch \in [Openers -> Watching]
    /\ seen \in [Openers -> SUBSET Bits]
    /\ owed \in [Tasks -> Tasks \cup {None}]
    /\ cs \in {None} \cup Sections

(* The watcher "reconciles the LOCAL pipe on every change" (line 410): a    *)
(* device whose opener has an enabled bit is readable, or the watcher is    *)
(* awake, or somebody is about to wake it or to reconcile.                  *)
NoSilentPipe ==
    \A d \in opened :
        events[d] \cap Enabled(sysmask[d]) # {} /\ ~signaled[d] /\ watch[d] = "asleep"
            => \/ \E t \in Tasks : pc[t] = "wake" /\ dest[t] = d
               \/ \E t \in Tasks : owed[t] = d
               \/ cs # None

(* A device without a reason to be readable is not, once the reconciliation *)
(* that the opener owes is done: otherwise the dispatcher of the GUI thread *)
(* would spin.  With the shared-pipe wake the next tick drains it.          *)
NoIdleSpin ==
    \A d \in opened :
        sibling = "off" /\ signaled[d] /\ watch[d] = "asleep" /\ cs = None
            => owed[d] = d \/ events[d] \cap Enabled(sysmask[d]) # {}

(* With the shared-pipe wake, a GUI thread gets every event of a bit that   *)
(* the device it polls enables, its own or another's, from whichever        *)
(* process the event came.                                                  *)
GuiServed ==
    \A g \in Gui, b \in GuiWant :
        LET Due == /\ env = "on"
                   /\ device[g] \in opened
                   /\ b \in Enabled(sysmask[device[g]])
                   /\ b \in events[g]
        IN  Due ~> ~Due

(* An event that a task of the process sends to the thread that opened the  *)
(* device reaches it with and without the shared-pipe wake: it does not     *)
(* depend on the watcher.                                                   *)
ServedFromInside ==
    \A g \in Gui \cap Openers, b \in GuiWant :
        LET Enabling == g \in opened /\ b \in Enabled(sysmask[g])
            Sent == \E s \in Local : pc[s] = "wake" /\ dest[s] = g /\ b \in post[s]
        IN  Sent /\ Enabling ~> (b \notin events[g] \/ ~Enabling)

(* The bridge only adds to the event calls: every behaviour with it is one  *)
(* of HerosEvent, whose properties it keeps.                                *)
KeepsEvents == EvSpec
=============================================================================
