------------------------------- MODULE HerosWm -------------------------------
(* The window-manager service of the emulator: one client process with its  *)
(* event queue "WMQ<task>", the real winmgr or the stub that q_send plays   *)
(* for it (INJECT_WMGR_ACK), and the timer ticks the emulator puts into the *)
(* stream (INJECT_WMGR_TIMER).  The client insists on events numbered       *)
(* without a gap, so q_send renumbers them (WM_SERIAL_FIX).                 *)
EXTENDS Integers, Sequences, FiniteSets

CONSTANTS WmReaders,    \* client threads that poll the event queue
          WmPosters,    \* wm_timer_thread_fn, if HEROSCALL_WMGR_TIMER_THREAD is set
          WmSenders,    \* client threads that send requests to Q_WMGR
          TimerIds,     \* the timers a client arms
          WmAck,        \* INJECT_WMGR_ACK: q_send answers in winmgr's place
          WmSlots,      \* slots of the queue's ring
          MaxTimers,    \* entries of wm_timers
          MaxWm         \* bound on the serials given out

ASSUME WmAssumption == /\ WmAck \in BOOLEAN
                       /\ WmSlots \in Nat \ {0} /\ MaxTimers \in Nat \ {0} /\ MaxWm \in Nat
                       /\ IsFiniteSet(TimerIds)

VARIABLES wmRing,       \* the events on the queue, oldest first
          wmLast,       \* wm_last_serial of the queue
          wmOffset,     \* wm_tick_offset of the queue
          wmDropped,    \* drop_warned of the queue
          wmTimers,     \* wm_timers, an array
          wmCount,      \* n_wm_timers
          wmKnown,      \* wm_tmr_replyq has been discovered
          wmRead,       \* wm_tmr_last_serial
          wmHsDone,     \* wm_hs_done
          wmSettled,    \* the settle time since wm_last_hs is over
          wmDue,        \* the timer period since the last tick is over
          wmServer,     \* winmgr's counter of replies to this client
          wmAccepted,   \* the serial the client accepted last, its a1[10]
          wmAsked,      \* the request a client thread waits for an answer to
          wmArmed,      \* the timers the client has armed and not disarmed
          wmTask        \* what each thread of the client is doing

wmVars == <<wmRing, wmLast, wmOffset, wmDropped, wmTimers, wmCount, wmKnown, wmRead,
            wmHsDone, wmSettled, wmDue, wmServer, wmAccepted, wmAsked, wmArmed, wmTask>>
wmTable == <<wmTimers, wmCount, wmArmed>>
wmQueue == <<wmRing, wmLast, wmOffset, wmDropped>>
wmGates == <<wmKnown, wmRead, wmHsDone, wmSettled>>

NoTimer  == "none"
Requests == {"connect", "screens", "sync", "area"}
Idle     == [at |-> "idle"]
\* The replies that belong to the handshake, 0x3001 and 0x3037.
Handshake == {"connect", "screens"}

WmInit ==
    /\ wmRing = <<>> /\ wmLast = 0 /\ wmOffset = 0 /\ wmDropped = FALSE
    /\ wmTimers = [i \in 1..MaxTimers |-> NoTimer] /\ wmCount = 0
    /\ wmKnown = FALSE /\ wmRead = 0 /\ wmHsDone = FALSE /\ wmSettled = FALSE
    /\ wmDue = TRUE /\ wmServer = 0 /\ wmAccepted = 0 /\ wmAsked = "none"
    /\ wmArmed = {}
    /\ wmTask = [t \in WmReaders \cup WmPosters \cup WmSenders |-> Idle]

-----------------------------------------------------------------------------
(* q_send to the event queue, all of it under the lock: a full ring drops   *)
(* its oldest event, an injected tick takes the serial after the last one,  *)
(* and any other event is shifted by the number of ticks before it.         *)

\* Mutant of WmSerial: the ticks put into the stream are not counted.
WmSerialPlain(type, orig) == orig

WmSerial(type, orig) == IF type = "tick" THEN wmLast + 1 ELSE orig + wmOffset

WmPost(type, orig) ==
    LET full   == Len(wmRing) = WmSlots
        serial == WmSerial(type, orig)
    IN /\ wmRing' = Append(IF full THEN Tail(wmRing) ELSE wmRing,
                           [type |-> type, serial |-> serial])
       /\ wmDropped' = (wmDropped \/ full)
       /\ wmLast' = serial
       /\ wmOffset' = wmOffset + (IF type = "tick" THEN 1 ELSE 0)

\* The client sends a request and waits for its answer.  The stub posts the
\* answer at once, numbered after the serial the request carries.
WmRequest(t, r) ==
    /\ wmTask[t] = Idle /\ wmAsked = "none" /\ wmLast < MaxWm
    /\ r = "connect" <=> wmAccepted = 0
    /\ wmHsDone \/ r \in Handshake
    /\ IF WmAck THEN WmPost(r, wmAccepted + 1) ELSE UNCHANGED wmQueue
    /\ wmAsked' = r
    /\ UNCHANGED <<wmTable, wmGates, wmDue, wmServer, wmAccepted, wmTask>>

\* The real winmgr answers a request or reports an event; it numbers what it
\* sends to a client one after the other and knows nothing of the ticks.
WmServe(r) ==
    /\ ~WmAck /\ wmLast < MaxWm
    /\ \/ r = wmAsked /\ r # "none" /\ \A i \in DOMAIN wmRing : wmRing[i].type # r
       \/ r = "event" /\ wmHsDone
    /\ WmPost(r, wmServer + 1)
    /\ wmServer' = wmServer + 1
    /\ UNCHANGED <<wmTable, wmGates, wmDue, wmAccepted, wmAsked, wmTask>>

-----------------------------------------------------------------------------
(* q_read of the event queue: the reply to the handshake shows which queue  *)
(* it is; the largest serial read there is kept.                            *)

WmReceive(t) ==
    /\ wmTask[t] = Idle /\ wmRing # <<>>
    /\ LET m    == Head(wmRing)
           hand == m.type \in Handshake
       IN /\ wmRing' = Tail(wmRing)
          /\ wmKnown' = (wmKnown \/ hand)
          /\ wmRead' = IF wmKnown' /\ m.serial > wmRead THEN m.serial ELSE wmRead
          /\ wmHsDone' = (wmHsDone \/ (wmKnown' /\ m.type = "screens"))
          /\ wmSettled' = IF wmKnown' /\ hand THEN FALSE ELSE wmSettled
          /\ wmAccepted' = m.serial
          /\ wmAsked' = IF m.type = wmAsked THEN "none" ELSE wmAsked
    /\ UNCHANGED <<wmLast, wmOffset, wmDropped, wmTable, wmDue, wmServer, wmTask>>

\* wm_timer_maybe_tick, from q_read and from ev_receive: every gate is open,
\* and the queue is seen empty under the lock ...
WmPoll(t) ==
    /\ wmTask[t] = Idle
    /\ wmKnown /\ wmHsDone /\ wmCount > 0 /\ wmSettled /\ wmDue
    /\ wmRing = <<>>
    /\ wmTask' = [wmTask EXCEPT ![t] = [at |-> "due", n |-> wmCount]]
    /\ UNCHANGED <<wmQueue, wmTable, wmGates, wmDue, wmServer, wmAccepted, wmAsked>>

\* ... and without it the period starts again and the ticks are posted, one
\* for each of the timers counted before.
WmStart(t) ==
    /\ wmTask[t].at = "due"
    /\ wmDue' = FALSE
    /\ wmTask' = [wmTask EXCEPT ![t] = [at |-> "post", n |-> @.n, i |-> 1]]
    /\ UNCHANGED <<wmQueue, wmTable, wmGates, wmServer, wmAccepted, wmAsked>>

\* wm_timer_thread_fn looks at nothing but the queue and the timers.
WmPosterWakes(t) ==
    /\ wmTask[t] = Idle /\ wmKnown /\ wmCount > 0
    /\ wmTask' = [wmTask EXCEPT ![t] = [at |-> "post", n |-> wmCount, i |-> 1]]
    /\ UNCHANGED <<wmQueue, wmTable, wmGates, wmDue, wmServer, wmAccepted, wmAsked>>

WmNextTick(t) ==
    LET w == wmTask[t]
    IN wmTask' = [wmTask EXCEPT ![t] = IF w.i = w.n THEN Idle ELSE [w EXCEPT !.i = w.i + 1]]

\* Mutant of WmTick: the loop ends one timer early.
WmTickFew(t) ==
    /\ wmTask[t].at = "post" /\ wmLast < MaxWm
    /\ IF wmTask[t].i = wmTask[t].n THEN UNCHANGED wmQueue ELSE WmPost("tick", wmRead + wmTask[t].i)
    /\ WmNextTick(t)
    /\ UNCHANGED <<wmTable, wmGates, wmDue, wmServer, wmAccepted, wmAsked>>

WmTick(t) ==
    /\ wmTask[t].at = "post" /\ wmLast < MaxWm
    /\ WmPost("tick", wmRead + wmTask[t].i)
    /\ WmNextTick(t)
    /\ UNCHANGED <<wmTable, wmGates, wmDue, wmServer, wmAccepted, wmAsked>>

\* Time passes.
WmPeriod == /\ ~wmDue /\ wmDue' = TRUE
            /\ UNCHANGED <<wmQueue, wmTable, wmGates, wmServer, wmAccepted, wmAsked, wmTask>>
WmSettle == /\ ~wmSettled /\ wmHsDone /\ wmSettled' = TRUE
            /\ UNCHANGED <<wmQueue, wmTable, wmKnown, wmRead, wmHsDone, wmDue, wmServer,
                           wmAccepted, wmAsked, wmTask>>

-----------------------------------------------------------------------------
(* StartTimer 0x302c and StopTimer 0x302d change the array without a lock:  *)
(* the count is loaded first and stored last.                               *)

WmOpen(t, op, id) ==
    /\ wmTask[t] = Idle /\ wmHsDone
    /\ op = "start" <=> id \notin wmArmed
    /\ wmTask' = [wmTask EXCEPT ![t] = [at |-> op, id |-> id, n |-> wmCount]]
    /\ UNCHANGED <<wmQueue, wmTable, wmGates, wmDue, wmServer, wmAccepted, wmAsked>>

WmPlaces(t) == {i \in 1..wmTask[t].n : wmTimers[i] = wmTask[t].id}

\* A new id goes to the end; an id that is there already, or that a full array
\* has no room for, is not entered.
WmEnter(t) ==
    /\ wmTask[t].at = "start"
    /\ LET w == wmTask[t]
       IN IF WmPlaces(t) = {} /\ w.n < MaxTimers
          THEN /\ wmTimers' = [wmTimers EXCEPT ![w.n + 1] = w.id]
               /\ wmTask' = [wmTask EXCEPT ![t] = [at |-> "store", n |-> w.n + 1]]
          ELSE /\ wmTask' = [wmTask EXCEPT ![t] = Idle] /\ UNCHANGED wmTimers
    /\ wmArmed' = wmArmed \cup {wmTask[t].id}
    /\ UNCHANGED <<wmQueue, wmCount, wmGates, wmDue, wmServer, wmAccepted, wmAsked>>

\* Mutant of WmShift: the last entry is dropped, whichever was to go.
WmShiftDrop(t) ==
    /\ wmTask[t].at = "stop"
    /\ wmTask' = [wmTask EXCEPT ![t] = IF WmPlaces(t) = {} THEN Idle
                                      ELSE [at |-> "store", n |-> @.n - 1]]
    /\ wmArmed' = wmArmed \ {wmTask[t].id}
    /\ UNCHANGED <<wmQueue, wmTimers, wmCount, wmGates, wmDue, wmServer, wmAccepted, wmAsked>>

\* The entries after the one that goes move down by one.
WmShift(t) ==
    /\ wmTask[t].at = "stop"
    /\ LET n == wmTask[t].n
       IN IF WmPlaces(t) = {}
          THEN /\ wmTask' = [wmTask EXCEPT ![t] = Idle] /\ UNCHANGED wmTimers
          ELSE LET k == CHOOSE i \in WmPlaces(t) : \A j \in WmPlaces(t) : i <= j
               IN /\ wmTimers' = [i \in 1..MaxTimers |->
                                    IF i \in k..(n - 1) THEN wmTimers[i + 1] ELSE wmTimers[i]]
                  /\ wmTask' = [wmTask EXCEPT ![t] = [at |-> "store", n |-> n - 1]]
    /\ wmArmed' = wmArmed \ {wmTask[t].id}
    /\ UNCHANGED <<wmQueue, wmCount, wmGates, wmDue, wmServer, wmAccepted, wmAsked>>

WmStore(t) ==
    /\ wmTask[t].at = "store"
    /\ wmCount' = wmTask[t].n
    /\ wmTask' = [wmTask EXCEPT ![t] = Idle]
    /\ UNCHANGED <<wmQueue, wmTimers, wmArmed, wmGates, wmDue, wmServer, wmAccepted, wmAsked>>

-----------------------------------------------------------------------------
WmReaderStep(t) == WmReceive(t) \/ WmPoll(t) \/ WmStart(t) \/ WmTick(t)
WmPosterStep(t) == WmPosterWakes(t) \/ WmTick(t)
WmSenderStep(t) == \/ \E r \in Requests : WmRequest(t, r)
                   \/ \E op \in {"start", "stop"}, id \in TimerIds : WmOpen(t, op, id)
                   \/ WmEnter(t) \/ WmShift(t) \/ WmStore(t)

WmNext == \/ \E t \in WmReaders : WmReaderStep(t)
          \/ \E t \in WmPosters : WmPosterStep(t)
          \/ \E t \in WmSenders : WmSenderStep(t)
          \/ \E r \in Requests \cup {"event"} : WmServe(r)
          \/ WmPeriod \/ WmSettle

\* The client polls and reads its queue, time passes and winmgr serves.  What
\* the client asks for is up to it.
WmFairness == /\ \A t \in WmReaders : WF_wmVars(WmReceive(t)) /\ WF_wmVars(WmPoll(t))
                                      /\ WF_wmVars(WmStart(t)) /\ WF_wmVars(WmTick(t))
              /\ \A t \in WmSenders : WF_wmVars(WmEnter(t) \/ WmShift(t) \/ WmStore(t))
              /\ WF_wmVars(WmPeriod) /\ WF_wmVars(WmSettle)
              /\ \A r \in Requests : WF_wmVars(WmServe(r))

WmSpec == WmInit /\ [][WmNext]_wmVars /\ WmFairness

-----------------------------------------------------------------------------
\* Events on the queue are numbered one after the other, and the oldest
\* follows the last one the client accepted, unless the ring was full and an
\* event was dropped: whatever the ticks and winmgr's own numbers.  A gap makes
\* the client give up ("Gap in event serial number sequence!").
WmSerialsContiguous ==
    /\ \A i \in 1..(Len(wmRing) - 1) : wmRing[i + 1].serial = wmRing[i].serial + 1
    /\ wmRing # <<>> => wmRing[Len(wmRing)].serial = wmLast
    /\ (wmRing # <<>> /\ ~wmDropped) => Head(wmRing).serial = wmAccepted + 1

\* While no thread is changing them, the entries in use are armed timers, each
\* of them once, and all of the armed ones unless there are more than entries.
WmTimersAgree ==
    (\A t \in WmSenders : wmTask[t] = Idle) =>
        LET used == {wmTimers[i] : i \in 1..wmCount}
        IN /\ Cardinality(used) = wmCount /\ used \subseteq wmArmed
           /\ Cardinality(TimerIds) <= MaxTimers => used = wmArmed

\* As long as a timer stays armed the client gets ticks: each one read is
\* followed by another, or the bound on the serials is reached.  TickDue leads
\* to TickCame.
TickDue  == wmHsDone /\ wmCount > 0
TickCame == \/ wmCount = 0 \/ wmLast >= MaxWm
            \/ \E i \in DOMAIN wmRing : wmRing[i].type = "tick"
=============================================================================
