------------------------------ MODULE HerosRelay ------------------------------
(* The relay of the event server's broadcasts (HEROS_EVT_RELAY): q_send     *)
(* keeps the last EVTRING messages for QEvtServer in the shared segment and *)
(* forwards each to the target queue; the q_create that makes the target    *)
(* later sends it what was kept.  One flag of the process keeps the relay   *)
(* from entering itself.                                                    *)
EXTENDS Naturals, Sequences, SequencesExt

CONSTANTS RlSenders,     \* threads that send to QEvtServer
          RlCreator,     \* the thread that creates the target queue
          RlProcess,     \* RlProcess[t]: the process of a thread
          EVTRING,       \* messages kept
          RlSlots,       \* slots of the target queue's ring
          MaxBroadcasts  \* bound on the messages sent

ASSUME RelayAssumption == /\ RlCreator \notin RlSenders /\ MaxBroadcasts \in Nat
                          /\ EVTRING \in Nat \ {0} /\ RlSlots \in Nat \ {0}

VARIABLES rlSent,    \* the messages sent to QEvtServer, numbered 1, 2, ...
          rlRing,    \* evt_ring
          rlCount,   \* evt_ring_n
          rlHistory, \* the messages the relay has recorded, in order
          rlTarget,  \* the target queue exists
          rlQueue,   \* the messages on it
          rlPosted,  \* the messages that were put there
          rlLost,    \* those the flush itself pushed out again
          rlBusy,    \* in_evt_relay of each process
          rlTask     \* what each thread is doing

rlVars == <<rlSent, rlRing, rlCount, rlHistory, rlTarget, rlQueue, rlPosted, rlLost,
            rlBusy, rlTask>>

RlIdle == [at |-> "idle"]
RlThreads == RlSenders \cup {RlCreator}

RlInit == /\ rlSent = 0 /\ rlRing = [k \in 0..(EVTRING - 1) |-> 0] /\ rlCount = 0
          /\ rlHistory = <<>> /\ rlTarget = FALSE /\ rlQueue = <<>> /\ rlPosted = {}
          /\ rlLost = {} /\ rlBusy = [p \in {RlProcess[t] : t \in RlThreads} |-> FALSE]
          /\ rlTask = [t \in RlThreads |-> RlIdle]

\* q_send to the target: a full ring drops its oldest message.
RlPost(m) ==
    /\ rlQueue' = Append(IF Len(rlQueue) = RlSlots THEN Tail(rlQueue) ELSE rlQueue, m)
    /\ rlPosted' = rlPosted \cup {m}

\* q_send to QEvtServer: the message is kept and the target is looked for under
\* one lock; while the process is busy relaying neither is done.
RlBroadcast(t) ==
    /\ rlTask[t] = RlIdle /\ rlSent < MaxBroadcasts
    /\ rlSent' = rlSent + 1
    /\ IF rlBusy[RlProcess[t]] THEN UNCHANGED <<rlRing, rlCount, rlHistory, rlTask>>
       ELSE /\ rlRing' = [rlRing EXCEPT ![rlCount % EVTRING] = rlSent']
            /\ rlCount' = rlCount + 1
            /\ rlHistory' = Append(rlHistory, rlSent')
            /\ rlTask' = [rlTask EXCEPT ![t] = IF rlTarget THEN [at |-> "forward", m |-> rlSent']
                                                ELSE RlIdle]
    /\ UNCHANGED <<rlTarget, rlQueue, rlPosted, rlLost, rlBusy>>

RlForward(t) ==
    /\ rlTask[t].at = "forward"
    /\ rlBusy' = [rlBusy EXCEPT ![RlProcess[t]] = TRUE]
    /\ rlTask' = [rlTask EXCEPT ![t].at = "send"]
    /\ UNCHANGED <<rlSent, rlRing, rlCount, rlHistory, rlTarget, rlQueue, rlPosted, rlLost>>

RlSend(t) ==
    /\ rlTask[t].at = "send"
    /\ RlPost(rlTask[t].m)
    /\ rlBusy' = [rlBusy EXCEPT ![RlProcess[t]] = FALSE]
    /\ rlTask' = [rlTask EXCEPT ![t] = RlIdle]
    /\ UNCHANGED <<rlSent, rlRing, rlCount, rlHistory, rlTarget, rlLost>>

\* q_create of the target enters the queue under the lock ...
RlCreate ==
    /\ ~rlTarget /\ rlTask[RlCreator] = RlIdle
    /\ rlTarget' = TRUE
    /\ rlTask' = [rlTask EXCEPT ![RlCreator] = [at |-> "created"]]
    /\ UNCHANGED <<rlSent, rlRing, rlCount, rlHistory, rlQueue, rlPosted, rlLost, rlBusy>>

\* Mutant of FlushFrom: the oldest message kept is left out.
FlushFromNext == IF rlCount > EVTRING THEN rlCount - EVTRING + 1 ELSE 0

FlushFrom == IF rlCount > EVTRING THEN rlCount - EVTRING ELSE 0

\* ... and without it sends what was kept, up to the count of the moment.
RlFlushStart ==
    /\ rlTask[RlCreator].at = "created"
    /\ IF rlBusy[RlProcess[RlCreator]] \/ rlCount = 0
       THEN rlTask' = [rlTask EXCEPT ![RlCreator] = RlIdle] /\ UNCHANGED rlBusy
       ELSE /\ rlTask' = [rlTask EXCEPT ![RlCreator] = [at |-> "flush", i |-> FlushFrom]]
            /\ rlBusy' = [rlBusy EXCEPT ![RlProcess[RlCreator]] = TRUE]
    /\ UNCHANGED <<rlSent, rlRing, rlCount, rlHistory, rlTarget, rlQueue, rlPosted, rlLost>>

RlFlush ==
    /\ rlTask[RlCreator].at = "flush"
    /\ LET i == rlTask[RlCreator].i
       IN IF i < rlCount
          THEN /\ RlPost(rlRing[i % EVTRING])
               /\ rlLost' = IF Len(rlQueue) = RlSlots THEN rlLost \cup {Head(rlQueue)} ELSE rlLost
               /\ rlTask' = [rlTask EXCEPT ![RlCreator].i = i + 1]
               /\ UNCHANGED rlBusy
          ELSE /\ rlBusy' = [rlBusy EXCEPT ![RlProcess[RlCreator]] = FALSE]
               /\ rlTask' = [rlTask EXCEPT ![RlCreator] = RlIdle]
               /\ UNCHANGED <<rlQueue, rlPosted, rlLost>>
    /\ UNCHANGED <<rlSent, rlRing, rlCount, rlHistory, rlTarget>>

\* The thread that made the queue reads it once q_create has returned.
RlRead ==
    /\ rlTarget /\ rlTask[RlCreator] = RlIdle /\ rlQueue # <<>>
    /\ rlQueue' = Tail(rlQueue)
    /\ UNCHANGED <<rlSent, rlRing, rlCount, rlHistory, rlTarget, rlPosted, rlLost, rlBusy, rlTask>>

RlNext == \/ \E t \in RlSenders : RlBroadcast(t) \/ RlForward(t) \/ RlSend(t)
          \/ RlCreate \/ RlFlushStart \/ RlFlush \/ RlRead

RlSpec == RlInit /\ [][RlNext]_rlVars

-----------------------------------------------------------------------------
\* With the target there and nobody relaying, the last EVTRING messages the
\* relay recorded have been posted to it, those sent while it was being made
\* and flushed included (each at least once: some are posted twice).
RelayComplete ==
    (rlTarget /\ \A t \in RlThreads : rlTask[t] = RlIdle) =>
        LET n == Len(rlHistory)
        IN \A i \in 1..n : i + EVTRING > n => rlHistory[i] \in rlPosted

\* The flush delivers every message that was kept.
FlushKeepsAll == rlLost = {}
=============================================================================
