------------------------------ MODULE HerosQueue ------------------------------
(***************************************************************************)
(* Messages between tasks (heros_rtos.c, q_send(), q_read() and the wake   *)
(* of q_delete()) over the table of HerosQueueTable and the events of      *)
(* HerosEvent.                                                             *)
(*                                                                         *)
(* A queue is a ring of QSLOTS messages with a counter tail, on which a    *)
(* blocking q_read() sleeps.  q_send() also sends the queue's notify bits  *)
(* to its owner, for tasks that wait for all their queues in Ev_receive:   *)
(* the dispatchers.  Both functions look the slot of a queue id up once,   *)
(* without the lock, and go on with the slot.                              *)
(*                                                                         *)
(* Of a message the model keeps whether it is too long for a short buffer  *)
(* and whether it is a softkey reply.  The message injectors and the       *)
(* window-manager timers of the two functions are switched off.            *)
(***************************************************************************)
EXTENDS HerosEvent, HerosQueueTable, Sequences

CONSTANTS
    Dispatchers,    \* the tasks that wait for their queues by events
    Senders,        \* the tasks that call Q_send and Q_delete
    Readers,        \* the tasks that call Q_read outside a dispatcher
    inputOf,        \* inputOf[d]: the name of the queue d creates with
    NBit,           \*   this notify bit
    Kinds,          \* the kinds of messages: is it a softkey reply, is it long ?
    clientOf,       \* clientOf[n]: "Client<X>" for n = "Rts<X>", else None
    Modes,          \* how q_read is called: its timeout, and is its buffer short ?
    outputs,        \* outputs[t]: the names of the queues t works with
    Levels,         \* the settings of HEROSCALL_QNOTIFY_LEVEL, FALSE by default
    Early,          \* the settings with which a peer may create the queue of a
                    \*   dispatcher before the dispatcher does
    QSLOTS,
    MaxTail         \* bound: the messages put into one queue

ASSUME QueueAssumption ==
    /\ Dispatchers \subseteq Clients \cap Receivers
    /\ Senders \cup Readers \subseteq Clients \ Dispatchers
    /\ Clients \subseteq Tasks
    /\ inputOf \in [Dispatchers -> Names]
    /\ NBit \in Bits
    /\ {NBit} \in Masks
    /\ Kinds \subseteq [softkey : BOOLEAN, long : BOOLEAN]
    /\ clientOf \in [Names -> Names \cup {None}]
    /\ Modes \subseteq [timeout : {"none", "finite", "forever"}, short : BOOLEAN]
    /\ outputs \in [Senders \cup Readers -> SUBSET Names]
    /\ Early \subseteq Levels
    /\ Levels \subseteq BOOLEAN
    /\ QSLOTS \in Nat \ {0}
    /\ MaxTail \in Nat

VARIABLES
    level,      \* is HEROSCALL_QNOTIFY_LEVEL set in the environment ?
    msgs,       \* the messages from head to tail, the oldest first
    tail,       \* queues[i].tail, the futex word of q_read
    stage,      \* where t is in q_send, q_read or q_delete
    slot,       \* the slot the call works with
    kind,       \* the message q_send sends
    mode,       \* how q_read was called
    seen        \* the tail q_read found when there was no message

ringVars  == <<msgs, tail>>
stageVars == <<level, stage, slot, kind, mode, seen>>
queueVars == <<ringVars, stageVars>>
vars      == <<evVars, tableVars, queueVars>>

Plain   == [softkey |-> FALSE, long |-> FALSE]
Poll    == [timeout |-> "none", short |-> FALSE]
Reading == {"read", "block", "asleep", "woken"}

QueueInit ==
    /\ Init
    /\ TableInit
    /\ level \in Levels
    /\ msgs = [i \in Slots |-> <<>>]
    /\ tail = [i \in Slots |-> 0]
    /\ stage = [t \in Clients |-> IF t \in Dispatchers THEN "start" ELSE "idle"]
    /\ slot = [t \in Clients |-> 0]
    /\ kind = [t \in Clients |-> Plain]
    /\ mode = [t \in Clients |-> Poll]
    /\ seen = [t \in Clients |-> 0]

Stage(t, s) == stage' = [stage EXCEPT ![t] = s]

\* Is t free to make its next call ?
Free4Call(t) == pc[t] = "idle" /\ stage[t] = "idle"

-----------------------------------------------------------------------------
(* Creating and deleting                                                   *)

\* q_create() starts a new queue with head = tail = 0.
MakeOrFind(t, n, B) ==
    /\ Create(t, n, B, TRUE)
    /\ msgs' = [i \in Slots |-> IF qid'[i] = qid[i] THEN msgs[i] ELSE <<>>]
    /\ tail' = [i \in Slots |-> IF qid'[i] = qid[i] THEN tail[i] ELSE 0]
    /\ UNCHANGED identVars

CreateOutput(t) ==
    /\ t \in Senders \cup Readers
    /\ Free4Call(t)
    /\ \E n \in outputs[t] :
         /\ level \in Early \/ \A d \in Dispatchers : inputOf[d] = n => stage[d] # "start"
         /\ MakeOrFind(t, n, {})
    /\ UNCHANGED <<evVars, stageVars>>

CreateInput(d) ==
    /\ d \in Dispatchers
    /\ stage[d] = "start"
    /\ MakeOrFind(d, inputOf[d], {NBit})
    /\ Stage(d, "idle")
    /\ UNCHANGED <<evVars, level, slot, kind, mode, seen>>

\* The ring is emptied with the slot; the counter starts again.
DeleteQueue(t) ==
    /\ t \in Senders
    /\ Free4Call(t)
    /\ \E i \in SlotsOf(handle[t]) :
         /\ Free(i)
         /\ msgs' = [msgs EXCEPT ![i] = <<>>]
         /\ tail' = [tail EXCEPT ![i] = 0]
         /\ slot' = [slot EXCEPT ![t] = i]
    /\ Stage(t, "wake deleted")
    /\ UNCHANGED <<evVars, next_q, identVars, handle, level, kind, mode, seen>>

\* FUTEX_WAKE on the tail of slot[t]: its sleepers go on; t goes to label l.
WakeSlot(t, l) ==
    stage' = [u \in Clients |->
                IF u = t THEN l
                ELSE IF stage[u] = "asleep" /\ slot[u] = slot[t] THEN "woken"
                ELSE stage[u]]

WakeDeleted(t) ==
    /\ stage[t] = "wake deleted"
    /\ WakeSlot(t, "idle")
    /\ slot' = [slot EXCEPT ![t] = 0]
    /\ UNCHANGED <<evVars, tableVars, ringVars, level, kind, mode, seen>>

-----------------------------------------------------------------------------
(* q_send()                                                                *)

\* A softkey reply to "Rts<X>" goes to "Client<X>", if that queue exists and
\* has notify bits.
Route(i, k) ==
    LET clients == {j \in SlotsNamed(clientOf[qname[i]]) : notify[j] # {}}
    IN  IF k.softkey /\ clientOf[qname[i]] # None /\ clients # {}
        THEN Min(clients) ELSE i

\* An unknown id is answered -9.
Q_send(t) ==
    /\ t \in Senders
    /\ Free4Call(t)
    /\ \E i \in SlotsOf(handle[t]), k \in Kinds :
         /\ slot' = [slot EXCEPT ![t] = Route(i, k)]
         /\ kind' = [kind EXCEPT ![t] = k]
    /\ Stage(t, "store")
    /\ UNCHANGED <<evVars, tableVars, ringVars, level, mode, seen>>

\* Mutant of Store: a full ring is not tested for.
StoreAnyway(t) ==
    /\ stage[t] = "store"
    /\ tail[slot[t]] < MaxTail
    /\ msgs' = [msgs EXCEPT ![slot[t]] = Append(@, kind[t])]
    /\ tail' = [tail EXCEPT ![slot[t]] = @ + 1]
    /\ Stage(t, "wake readers")
    /\ UNCHANGED <<evVars, tableVars, level, slot, kind, mode, seen>>

\* In one critical section: drop the oldest message if the ring is full, append
\* the new one, count it, and note whom to notify of it.
Store(t) ==
    /\ stage[t] = "store"
    /\ LET i    == slot[t]
           kept == IF Len(msgs[i]) = QSLOTS THEN Tail(msgs[i]) ELSE msgs[i]
       IN  /\ tail[i] < MaxTail
           /\ msgs' = [msgs EXCEPT ![i] = Append(kept, kind[t])]
           /\ tail' = [tail EXCEPT ![i] = @ + 1]
           /\ post' = [post EXCEPT ![t] = notify[i]]
           /\ dest' = [dest EXCEPT ![t] = IF notify[i] # {} THEN owner[i] ELSE t]
    /\ Stage(t, "wake readers")
    /\ UNCHANGED <<events, recvVars, orphan, pc, tableVars, level, slot, kind, mode, seen>>

\* Wake the readers that sleep, then ev_send() the notify bits.
WakeReaders(t) ==
    /\ stage[t] = "wake readers"
    /\ WakeSlot(t, "idle")
    /\ slot' = [slot EXCEPT ![t] = 0]
    /\ kind' = [kind EXCEPT ![t] = Plain]
    /\ Goto(t, IF post[t] = {} THEN "idle" ELSE "or")
    /\ UNCHANGED <<events, recvVars, orphan, sendVars, tableVars, ringVars, level, mode, seen>>

-----------------------------------------------------------------------------
(* q_read()                                                                *)

\* Enter q_read() in mode m; an unknown id is answered -9.
CallRead(t, m) ==
    /\ \E i \in SlotsOf(handle[t]) : slot' = [slot EXCEPT ![t] = i]
    /\ mode' = [mode EXCEPT ![t] = m]
    /\ Stage(t, "read")
    /\ UNCHANGED <<level, kind, seen>>

Q_read(t) ==
    /\ t \in Readers
    /\ Free4Call(t)
    /\ \E m \in Modes : CallRead(t, m)
    /\ UNCHANGED <<evVars, tableVars, ringVars>>

\* Leave q_read().
LeaveRead(t) ==
    /\ Stage(t, "idle")
    /\ slot' = [slot EXCEPT ![t] = 0]
    /\ mode' = [mode EXCEPT ![t] = Poll]
    /\ seen' = [seen EXCEPT ![t] = 0]
    /\ UNCHANGED <<level, kind>>

\* Mutant of Dequeue: no second notification.
DequeueSilently(t) ==
    /\ stage[t] = "read"
    /\ msgs[slot[t]] # <<>>
    /\ msgs' = [msgs EXCEPT ![slot[t]] = Tail(@)]
    /\ LeaveRead(t)
    /\ UNCHANGED <<evVars, tableVars, tail>>

\* In one critical section: take the oldest message, or leave it there if it
\* is too long for the buffer (-12).  If others remain, notify the owner again.
Dequeue(t) ==
    /\ stage[t] = "read"
    /\ msgs[slot[t]] # <<>>
    /\ LET i       == slot[t]
           tooLong == mode[t].short /\ Head(msgs[i]).long
           more    == Len(msgs[i]) > 1
       IN  IF tooLong
           THEN UNCHANGED <<msgs, sendVars, pc>>
           ELSE /\ msgs' = [msgs EXCEPT ![i] = Tail(@)]
                /\ IF more /\ notify[i] # {}
                   THEN CallEvSend(t, owner[i], notify[i])
                   ELSE UNCHANGED <<sendVars, pc>>
    /\ LeaveRead(t)
    /\ UNCHANGED <<events, recvVars, orphan, tableVars, tail>>

\* There is none: a poll is answered -0x35.
FindNone(t) ==
    /\ stage[t] = "read"
    /\ msgs[slot[t]] = <<>>
    /\ IF mode[t].timeout = "none"
       THEN LeaveRead(t)
       ELSE /\ seen' = [seen EXCEPT ![t] = tail[slot[t]]]
            /\ Stage(t, "block")
            /\ UNCHANGED <<level, slot, kind, mode>>
    /\ UNCHANGED <<evVars, tableVars, ringVars>>

\* Mutant of BlockOnTail: the counter is not compared again.
BlockUnchecked(t) ==
    /\ stage[t] = "block"
    /\ Stage(t, "asleep")
    /\ seen' = [seen EXCEPT ![t] = 0]
    /\ UNCHANGED <<evVars, tableVars, ringVars, level, slot, kind, mode>>

BlockOnTail(t) ==
    /\ stage[t] = "block"
    /\ Stage(t, IF tail[slot[t]] = seen[t] THEN "asleep" ELSE "woken")
    /\ seen' = [seen EXCEPT ![t] = 0]
    /\ UNCHANGED <<evVars, tableVars, ringVars, level, slot, kind, mode>>

\* FUTEX_WAIT also ends with its timeout or EINTR.
ReadDisturbed(t) ==
    /\ stage[t] = "asleep"
    /\ Stage(t, "woken")
    /\ UNCHANGED <<evVars, tableVars, ringVars, level, slot, kind, mode, seen>>

\* After the wait a finite q_read gives up if the ring is empty; otherwise it
\* starts again, with the slot it has.
Awake(t) ==
    /\ stage[t] = "woken"
    /\ IF mode[t].timeout = "finite" /\ msgs[slot[t]] = <<>>
       THEN LeaveRead(t)
       ELSE Stage(t, "read") /\ UNCHANGED <<level, slot, kind, mode, seen>>
    /\ UNCHANGED <<evVars, tableVars, ringVars>>

-----------------------------------------------------------------------------
(* HEROSCALL_QNOTIFY_LEVEL, in ev_receive() before it blocks               *)

\* The wanted notify bits of t's queues that have messages.
Pending(t) ==
    UNION {notify[i] \cap want[t] : i \in {j \in Used : owner[j] = t /\ msgs[j] # <<>>}}

\* Mutant of TestLevel: the option is off.
SkipLevel(t) == GoBlock(t)

TestLevel(t) ==
    IF level /\ ~ (Pending(t) \subseteq cur[t])
    THEN /\ pc[t] = "level"
         /\ events' = [events EXCEPT ![t] = @ \cup Pending(t)]
         /\ cur' = [cur EXCEPT ![t] = {}]
         /\ Goto(t, "token")
         /\ UNCHANGED <<want, cond, timeout, got, orphan, sendVars>>
    ELSE GoBlock(t)

-----------------------------------------------------------------------------
(* A dispatcher of the guest: wait for the event, read one message, repeat.*)

DispatchWait(d) ==
    /\ d \in Dispatchers
    /\ Free4Call(d)
    /\ NBit \notin got[d]
    /\ CallEvReceive(d, {NBit}, "any", "forever")
    /\ UNCHANGED <<events, orphan, sendVars, tableVars, queueVars>>

DispatchRead(d) ==
    /\ d \in Dispatchers
    /\ Free4Call(d)
    /\ NBit \in got[d]
    /\ got' = [got EXCEPT ![d] = {}]
    /\ CallRead(d, Poll)
    /\ UNCHANGED <<events, want, cond, timeout, cur, orphan, sendVars, pc, tableVars, ringVars>>

-----------------------------------------------------------------------------
\* The steps of ev_send() and ev_receive(), with TestLevel for GoBlock.
EventStep(t) ==
    /\ \/ EvOr(t) \/ EvWake(t) \/ TakeToken(t) \/ Load(t) \/ Take(t) \/ Expire(t)
       \/ TestLevel(t) \/ FutexWait(t)
    /\ UNCHANGED <<tableVars, queueVars>>

QueueStep(t) ==
    \/ Store(t) \/ WakeReaders(t) \/ WakeDeleted(t)
    \/ Dequeue(t) \/ FindNone(t) \/ BlockOnTail(t) \/ Awake(t)

Dispatch(d) == CreateInput(d) \/ DispatchWait(d) \/ DispatchRead(d)

Next ==
    \/ \E t \in Tasks : EventStep(t)
    \/ \E t \in Tasks : Disturbed(t) /\ UNCHANGED <<tableVars, queueVars>>
    \/ \E t \in Clients :
         \/ CreateOutput(t) \/ DeleteQueue(t) \/ Q_send(t) \/ Q_read(t)
         \/ QueueStep(t) \/ ReadDisturbed(t)
    \/ \E d \in Dispatchers : Dispatch(d)

Spec == QueueInit /\ [][Next]_vars

\* A task finishes the calls it makes, and a dispatcher keeps making them.
Work(t) ==
    \/ EventStep(t)
    \/ t \in Clients /\ QueueStep(t)
    \/ t \in Dispatchers /\ Dispatch(t)

FairSpec == Spec /\ \A t \in Tasks : WF_vars(Work(t))

-----------------------------------------------------------------------------
QueueTypeOK ==
    /\ TypeOK
    /\ TableTypeOK
    /\ msgs \in [Slots -> UNION {[1..n -> Kinds] : n \in 0..QSLOTS}]
    /\ tail \in [Slots -> 0..MaxTail]
    /\ \A i \in Slots : Len(msgs[i]) <= tail[i]
    /\ stage \in [Clients -> {"start", "idle", "store", "wake readers", "wake deleted"}
                             \cup Reading]
    /\ slot \in [Clients -> 0..MAXQ]
    /\ kind \in [Clients -> Kinds \cup {Plain}]
    /\ level \in Levels
    /\ mode \in [Clients -> Modes \cup {Poll}]
    /\ seen \in [Clients -> 0..MaxTail]

\* The queue t reads or sends to was deleted during the call.
Stale(t) == slot[t] \notin SlotsOf(handle[t])

(* Nobody sleeps in q_read() on a queue that has a message, unless its      *)
(* sender is just about to wake the readers.                                *)
NoMissedMessage ==
    \A t \in Clients :
        stage[t] = "asleep" /\ msgs[slot[t]] # <<>> /\ ~ Stale(t)
            => \E u \in Clients : stage[u] = "wake readers" /\ slot[u] = slot[t]

(* HEROSCALL_QNOTIFY_LEVEL: a task does not sleep in ev_receive() for the   *)
(* notify bit of a queue of its own that has a message, unless the bit is   *)
(* on its way: "the kernel queue notify IS level-triggered".                *)
NoSleepOnBacklog ==
    \A t \in Dispatchers :
        pc[t] = "asleep" /\ Pending(t) # {}
            => \E u \in Tasks :
                 \/ u \in Clients /\ stage[u] = "wake readers" /\ notify[slot[u]] # {}
                 \/ pc[u] \in Sending /\ dest[u] = t

(* A dispatcher's queue does not keep messages for ever: one that comes     *)
(* while others are there, or was there before the dispatcher took the      *)
(* queue over, is read too.                                                 *)
Drained ==
    \A i \in Slots :
        (msgs[i] # <<>> /\ owner[i] \in Dispatchers)
            ~> (msgs[i] = <<>> \/ owner[i] \notin Dispatchers)

(* "any task blocked reading it is woken so it re-checks and does not       *)
(* hang": a q_read() of a queue that is deleted meanwhile returns.          *)
DeletedReadersReturn ==
    \A t \in Clients : (stage[t] \in Reading /\ Stale(t)) ~> (stage[t] = "idle")
=============================================================================
