---------------------------- MODULE HerosQueueProofs ----------------------------
(***************************************************************************)
(* Proofs about HerosQueue for every set of tasks, of dispatchers, readers *)
(* and senders, every set of queue names and every size of the rings: no   *)
(* reader sleeps on a message, and with HEROSCALL_QNOTIFY_LEVEL or without *)
(* it no dispatcher sleeps on a backlog.                                   *)
(***************************************************************************)
EXTENDS MCHerosQueue, HerosEventProofs, HerosQueueTableProofs, SequenceTheorems

-----------------------------------------------------------------------------
(* The inductive invariant, part by part.                                  *)

\* The calls that work with a slot.
Holding == {"store", "wake readers", "wake deleted"} \cup Reading
Stages  == {"start", "idle", "store", "wake readers", "wake deleted"} \cup Reading

(* The rings hold at most QSLOTS messages, and no more than were ever put  *)
(* into them.                                                              *)
RingsOK ==
    /\ msgs \in [Slots -> Seq(Kinds)]
    /\ tail \in [Slots -> 0..MaxTail]
    /\ \A i \in Slots : Len(msgs[i]) <= QSLOTS /\ Len(msgs[i]) <= tail[i]

(* A task is in one call at a time; q_send(), q_read() and q_delete() work *)
(* with a slot of the table, and a dispatcher only polls.                  *)
CallsOK ==
    /\ level \in Levels
    /\ stage \in [Clients -> Stages]
    /\ slot \in [Clients -> 0..MAXQ]
    /\ kind \in [Clients -> Kinds \cup {Plain}]
    /\ mode \in [Clients -> Modes \cup {Poll}]
    /\ seen \in [Clients -> 0..MaxTail]
    /\ \A u \in Clients :
         /\ stage[u] # "idle" => pc[u] = "idle"
         /\ stage[u] \in Holding => slot[u] \in Slots
         /\ stage[u] = "store" => kind[u] \in Kinds
    /\ \A u \in Dispatchers : stage[u] \in {"start", "idle", "read"} /\ mode[u] = Poll

(* Only dispatchers wait for events, for the notify bit and for ever, and  *)
(* what they are about to take is the notify bit.  No task is created      *)
(* here, so there are no orphan tokens.                                    *)
WaitsOK ==
    /\ orphan = 0
    /\ \A u \in Tasks :
         /\ pc[u] \in Receiving =>
              u \in Dispatchers /\ want[u] = {NBit} /\ cond[u] = "any" /\ timeout[u] = "forever"
         /\ pc[u] = "take" => NBit \in cur[u]

(* A slot with notify bits is a queue, the one that its owner, a           *)
(* dispatcher, has the id of.                                              *)
Notified ==
    \A i \in Slots : notify[i] # {} =>
        /\ qname[i] # None
        /\ notify[i] = {NBit}
        /\ owner[i] \in Dispatchers
        /\ stage[owner[i]] # "start"
        /\ handle[owner[i]] = qid[i]

(* While a reader is on its way to sleep, the counter it has read tells    *)
(* whether a message has come since the ring was empty.                    *)
Blocked ==
    \A u \in Clients :
        stage[u] = "block" /\ ~ Stale(u)
            => /\ seen[u] <= tail[slot[u]]
               /\ seen[u] = tail[slot[u]] => msgs[slot[u]] = <<>>

QInv ==
    /\ TypeOK /\ TableTypeOK /\ DistinctQueues
    /\ RingsOK /\ CallsOK /\ WaitsOK /\ Notified
    /\ LoadedInVain /\ NoMissedEvent
    /\ Blocked /\ NoMissedMessage

-----------------------------------------------------------------------------
(* Rings                                                                   *)

(* The two ways to say that s is a ring of at most QSLOTS messages.        *)
LEMMA RingIs ==
    ASSUME NEW s
    PROVE  s \in UNION {[1..n -> Kinds] : n \in 0..QSLOTS}
             <=> s \in Seq(Kinds) /\ Len(s) <= QSLOTS
  <1>0. QSLOTS \in Nat
    BY QueueAssumption
  <1>1. ASSUME s \in UNION {[1..n -> Kinds] : n \in 0..QSLOTS}
        PROVE  s \in Seq(Kinds) /\ Len(s) <= QSLOTS
    <2>1. PICK n \in 0..QSLOTS : s \in [1..n -> Kinds]
      BY <1>1
    <2>2. n \in Nat /\ n <= QSLOTS
      BY <1>0
    <2> QED BY <2>1, <2>2
  <1>2. ASSUME s \in Seq(Kinds), Len(s) <= QSLOTS
        PROVE  s \in UNION {[1..n -> Kinds] : n \in 0..QSLOTS}
    <2>1. Len(s) \in 0..QSLOTS /\ s \in [1..Len(s) -> Kinds]
      BY <1>0, <1>2
    <2> QED BY <2>1
  <1> QED BY <1>1, <1>2

(* Putting a message into a ring, and taking the oldest one out.           *)
LEMMA PutIn ==
    ASSUME NEW s \in Seq(Kinds), Len(s) <= QSLOTS, NEW k \in Kinds
    PROVE  LET kept == IF Len(s) = QSLOTS THEN Tail(s) ELSE s
           IN  /\ Append(kept, k) \in Seq(Kinds)
               /\ Append(kept, k) # <<>>
               /\ Len(Append(kept, k)) <= QSLOTS
               /\ Len(Append(kept, k)) <= Len(s) + 1
  <1>0. QSLOTS \in Nat /\ QSLOTS # 0
    BY QueueAssumption
  <1>1. CASE Len(s) = QSLOTS
    <2>1. s # <<>>
      BY <1>0, <1>1
    <2>2. Tail(s) \in Seq(Kinds) /\ Len(Tail(s)) = Len(s) - 1
      BY <2>1
    <2> QED BY <1>0, <1>1, <2>2
  <1>2. CASE Len(s) # QSLOTS
    BY <1>0, <1>2
  <1> QED BY <1>1, <1>2

LEMMA TakeOut ==
    ASSUME NEW s \in Seq(Kinds), s # <<>>
    PROVE  /\ Tail(s) \in Seq(Kinds)
           /\ Len(s) \in Nat /\ Len(Tail(s)) = Len(s) - 1
           /\ Head(s) \in Kinds
           /\ Len(s) > 1 <=> Tail(s) # <<>>
  <1>1. Tail(s) \in Seq(Kinds) /\ Len(Tail(s)) = Len(s) - 1 /\ Head(s) \in Kinds
    BY HeadTailProperties
  <1>2. Len(s) \in Nat /\ Len(s) # 0
    BY EmptySeq
  <1>3. Tail(s) # <<>> => Len(Tail(s)) # 0
    BY <1>1, EmptySeq
  <1>4. Len(<<>>) = 0
    BY EmptySeq
  <1>5. Len(s) > 1 <=> Len(Tail(s)) # 0
    BY <1>1, <1>2
  <1>6. Len(Tail(s)) # 0 <=> Tail(s) # <<>>
    BY <1>3, <1>4, Zenon
  <1> QED BY <1>1, <1>2, <1>5, <1>6, Zenon

-----------------------------------------------------------------------------
(* Creating and deleting                                                   *)

LEMMA SlotTypes == TableTypeOK => SlotTypeOK
  BY DEF TableTypeOK, SlotTypeOK

\* What MakeOrFind(t, n, B) may do with slot i: adopt it, or take it.
Refound(t, i, n, B) ==
    /\ qname[i] = n
    /\ UNCHANGED <<qname, qid, msgs, tail>>
    /\ IF B # {} /\ notify[i] = {}
       THEN owner' = [owner EXCEPT ![i] = t] /\ notify' = [notify EXCEPT ![i] = B]
       ELSE UNCHANGED <<owner, notify>>
    /\ handle' = [handle EXCEPT ![t] = qid[i]]

Remade(t, i, n, B) ==
    /\ qname[i] = None /\ qid[i] = 0
    /\ qname' = [qname EXCEPT ![i] = n]
    /\ qid' = [qid EXCEPT ![i] = next_q]
    /\ owner' = [owner EXCEPT ![i] = t]
    /\ notify' = [notify EXCEPT ![i] = B]
    /\ handle' = [handle EXCEPT ![t] = next_q]
    /\ msgs' = [msgs EXCEPT ![i] = <<>>]
    /\ tail' = [tail EXCEPT ![i] = 0]

Refused(t) ==
    /\ UNCHANGED <<qname, qid, owner, notify, msgs, tail>>
    /\ handle' = [handle EXCEPT ![t] = 0]

(* A new slot has a new id, so its ring starts empty; a slot that is found *)
(* keeps its ring.                                                         *)
LEMMA MakeCases ==
    ASSUME TableTypeOK, DistinctQueues, RingsOK,
           NEW t \in Clients, NEW n \in Names, NEW B \in Masks \cup {{}}, MakeOrFind(t, n, B)
    PROVE  /\ \/ \E i \in Slots : Refound(t, i, n, B)
              \/ \E i \in Slots : Remade(t, i, n, B)
              \/ Refused(t)
           /\ TableTypeOK' /\ DistinctQueues' /\ next_q <= next_q'
  <1>0. SlotTypeOK
    BY SlotTypes
  <1>1. Create(t, n, B, TRUE) /\ UNCHANGED identVars
    BY DEF MakeOrFind
  <1>2. SlotTypeOK' /\ DistinctQueues' /\ next_q <= next_q'
    BY <1>0, <1>1, CreateStep
  <1>3. TableTypeOK'
    BY <1>1, <1>2 DEF TableTypeOK, SlotTypeOK, identVars
  <1>4. next_q \in Nat /\ next_q # 0
    BY <1>0, NextQ
  <1>5. msgs \in [Slots -> Seq(Kinds)] /\ tail \in [Slots -> 0..MaxTail]
    BY DEF RingsOK
  <1>6. ASSUME NEW i \in Slots, SlotAdopted(t, i, n, B, TRUE) PROVE Refound(t, i, n, B)
    <2>1. qid' = qid
      BY <1>6 DEF SlotAdopted, Adopt
    <2>2. UNCHANGED <<msgs, tail>>
      BY <1>5, <2>1 DEF MakeOrFind
    <2> QED BY <1>6, <2>2 DEF SlotAdopted, Adopt, Answer, Refound
  <1>7. ASSUME NEW i \in Slots, SlotTaken(t, i, n, B, TRUE) PROVE Remade(t, i, n, B)
    <2>1. qid[i] = 0 /\ qid' = [qid EXCEPT ![i] = next_q] /\ qid \in [Slots -> 0..MaxId]
      BY <1>0, <1>7 DEF SlotTaken, SlotTypeOK
    <2>2. \A j \in Slots : qid'[j] = qid[j] <=> j # i
      BY <1>4, <2>1
    <2>3. msgs' = [msgs EXCEPT ![i] = <<>>] /\ tail' = [tail EXCEPT ![i] = 0]
      BY <1>5, <2>2 DEF MakeOrFind
    <2> QED BY <1>7, <2>1, <2>3 DEF SlotTaken, Remade
  <1>8. CASE TableFull(t)
    <2>1. UNCHANGED <<qname, qid, owner, notify>> /\ handle' = [handle EXCEPT ![t] = 0]
      BY <1>8 DEF TableFull, slotVars
    <2>2. UNCHANGED <<msgs, tail>>
      BY <1>5, <2>1 DEF MakeOrFind
    <2>3. Refused(t)
      BY <2>1, <2>2 DEF Refused
    <2> QED BY <1>2, <1>3, <2>3
  <1>9. \/ \E i \in Slots : SlotAdopted(t, i, n, B, TRUE)
        \/ \E i \in Slots : SlotTaken(t, i, n, B, TRUE)
        \/ TableFull(t)
    BY <1>1, CreateCases, Zenon
  <1> QED BY <1>2, <1>3, <1>6, <1>7, <1>8, <1>9

(* Deleting frees a slot and nothing else.                                 *)
LEMMA DeleteStep ==
    ASSUME TableTypeOK, DistinctQueues, NEW i \in Slots, Free(i),
           UNCHANGED <<next_q, identVars, handle>>
    PROVE  TableTypeOK' /\ DistinctQueues'
  <1>1. SlotTypeOK'
    BY SlotTypes, TableAssumption DEF Free, SlotTypeOK
  <1>2. TableTypeOK'
    BY <1>1 DEF TableTypeOK, SlotTypeOK, identVars
  <1>3. DistinctQueues'
    BY DEF Free, DistinctQueues, TableTypeOK
  <1> QED BY <1>2, <1>3

-----------------------------------------------------------------------------
(* The steps of the event calls                                            *)

\* The step of TestLevel that finds messages.
Levelled(t) ==
    /\ level
    /\ pc[t] = "level"
    /\ events' = [events EXCEPT ![t] = @ \cup Pending(t)]
    /\ cur' = [cur EXCEPT ![t] = {}]
    /\ pc' = [pc EXCEPT ![t] = "token"]
    /\ UNCHANGED <<want, cond, timeout, got, orphan, sendVars>>

\* GoBlock as TestLevel does it.
Blocking(t) == GoBlock(t) /\ (level => Pending(t) \subseteq cur[t])

\* The other steps of the calls.
Receipt(t) == TakeToken(t) \/ Load(t) \/ Take(t) \/ Expire(t) \/ FutexWait(t) \/ Disturbed(t)

EventOnly(t) == EventStep(t) \/ (Disturbed(t) /\ UNCHANGED <<tableVars, queueVars>>)

LEMMA EventCases ==
    ASSUME NEW t \in Tasks, EventOnly(t)
    PROVE  /\ UNCHANGED <<tableVars, queueVars>>
           /\ Levelled(t) \/ Blocking(t) \/ Receipt(t) \/ EvOr(t) \/ EvWake(t)
           /\ EvNext \/ Levelled(t)
  <1>1. UNCHANGED <<tableVars, queueVars>>
    BY DEF EventOnly, EventStep
  <1>2. TestLevel(t) => Blocking(t) \/ Levelled(t)
    BY DEF TestLevel, Levelled, Blocking, Goto
  <1>3. Levelled(t) \/ Blocking(t) \/ Receipt(t) \/ EvOr(t) \/ EvWake(t)
    BY <1>2 DEF EventOnly, EventStep, Receipt
  <1>4. Blocking(t) \/ Receipt(t) \/ EvOr(t) \/ EvWake(t) => EvNext
    BY DEF EvNext, EvStep, Blocking, Receipt
  <1> QED BY <1>1, <1>3, <1>4

LEMMA PendingWanted ==
    ASSUME TypeOK, NEW t \in Tasks
    PROVE  Pending(t) \subseteq want[t] /\ Pending(t) \subseteq Bits
  <1>1. Pending(t) \subseteq want[t]
    BY DEF Pending
  <1> QED BY <1>1 DEF TypeOK

(* The steps of HerosQueue that use an event call, or are one.             *)
LEMMA EventTypes ==
    ASSUME QInv, [Next]_vars
    PROVE  TypeOK'
  <1> USE QueueAssumption, EventAssumption DEF QInv
  <1>1. CASE UNCHANGED vars
    BY <1>1 DEF vars, evVars, recvVars, sendVars, TypeOK
  <1>2. ASSUME NEW t \in Tasks, EventOnly(t) PROVE TypeOK'
    <2>1. CASE EvNext
      BY <2>1, EvTypeStep
    <2>2. CASE Levelled(t)
      BY <2>2, PendingWanted DEF Levelled, TypeOK, sendVars, Receiving
    <2> QED BY <1>2, <2>1, <2>2, EventCases
  <1>3. CASE UNCHANGED evVars
    BY <1>3 DEF evVars, recvVars, sendVars, TypeOK
  <1>4. ASSUME NEW t \in Clients, Store(t) PROVE TypeOK'
    <2>1. stage[t] = "store" /\ slot[t] \in Slots
      BY <1>4 DEF Store, CallsOK, Holding
    <2> DEFINE i == slot[t]
    <2>2. notify[i] # {} => notify[i] = {NBit} /\ owner[i] \in Tasks
      BY <2>1 DEF Notified
    <2>3. /\ post' = [post EXCEPT ![t] = notify[i]]
          /\ dest' = [dest EXCEPT ![t] = IF notify[i] # {} THEN owner[i] ELSE t]
          /\ UNCHANGED <<events, recvVars, orphan, pc>>
      BY <1>4 DEF Store
    <2>4. t \in Tasks
      OBVIOUS
    <2> HIDE DEF i
    <2>5. post' \in [Tasks -> SUBSET Bits]
      BY <2>2, <2>3 DEF TypeOK
    <2>6. dest' \in [Tasks -> Tasks]
      BY <2>2, <2>3, <2>4 DEF TypeOK
    <2> QED BY <2>3, <2>5, <2>6 DEF TypeOK, recvVars
  <1>5. ASSUME NEW t \in Clients, WakeReaders(t) PROVE TypeOK'
    BY <1>5 DEF WakeReaders, TypeOK, Goto, recvVars, sendVars, Sending
  <1>6. ASSUME NEW t \in Clients, Dequeue(t) PROVE TypeOK'
    <2>1. stage[t] = "read" /\ slot[t] \in Slots
      BY <1>6 DEF Dequeue, CallsOK, Holding, Reading
    <2> DEFINE i == slot[t]
    <2>2. notify[i] # {} => notify[i] = {NBit} /\ owner[i] \in Tasks
      BY <2>1 DEF Notified
    <2>3. UNCHANGED <<events, recvVars, orphan>>
      BY <1>6 DEF Dequeue
    <2>4. CASE notify[i] # {} /\ CallEvSend(t, owner[i], notify[i])
      BY <2>2, <2>3, <2>4 DEF CallEvSend, Goto, TypeOK, recvVars, Sending
    <2>5. CASE UNCHANGED <<sendVars, pc>>
      BY <2>3, <2>5 DEF TypeOK, recvVars, sendVars
    <2> QED BY <1>6, <2>4, <2>5 DEF Dequeue
  <1>7. ASSUME NEW t \in Dispatchers, DispatchWait(t) PROVE TypeOK'
    BY <1>7 DEF DispatchWait, CallEvReceive, Goto, TypeOK, sendVars, Receiving
  <1>8. ASSUME NEW t \in Dispatchers, DispatchRead(t) PROVE TypeOK'
    BY <1>8 DEF DispatchRead, TypeOK, sendVars
  <1>9. ASSUME NEW t \in Clients,
               \/ CreateOutput(t) \/ DeleteQueue(t) \/ Q_send(t) \/ Q_read(t)
               \/ WakeDeleted(t) \/ FindNone(t) \/ BlockOnTail(t) \/ Awake(t)
               \/ ReadDisturbed(t)
        PROVE  UNCHANGED evVars
    BY <1>9, Zenon DEF CreateOutput, DeleteQueue, Q_send, Q_read, WakeDeleted, FindNone,
                       BlockOnTail, Awake, ReadDisturbed
  <1>10. ASSUME NEW t \in Dispatchers, CreateInput(t) PROVE UNCHANGED evVars
    BY <1>10 DEF CreateInput
  <1> QED BY <1>1, <1>2, <1>3, <1>4, <1>5, <1>6, <1>7, <1>8, <1>9, <1>10
          DEF Next, QueueStep, Dispatch, EventOnly

-----------------------------------------------------------------------------
(* What the steps leave alone                                              *)

\* The steps that touch nothing but the task's place in its call.
Placing(t) ==
    \/ Q_send(t) \/ Q_read(t) \/ WakeDeleted(t) \/ FindNone(t)
    \/ BlockOnTail(t) \/ Awake(t) \/ ReadDisturbed(t)

\* The steps that change the table of queues.
Tabling(t) == CreateOutput(t) \/ DeleteQueue(t) \/ (t \in Dispatchers /\ CreateInput(t))

\* The steps that move messages.
Moving(t) == Store(t) \/ Dequeue(t)

\* The steps of a dispatcher between the event and the message.
Dispatching(t) == t \in Dispatchers /\ (DispatchWait(t) \/ DispatchRead(t))

LEMMA StepCases ==
    ASSUME [Next]_vars
    PROVE  \/ UNCHANGED vars
           \/ \E t \in Tasks : EventOnly(t)
           \/ \E t \in Clients : \/ Placing(t) \/ Tabling(t) \/ Moving(t) \/ WakeReaders(t)
                                 \/ Dispatching(t)
  <1>1. Dispatchers \subseteq Clients
    BY QueueAssumption
  <1> QED BY <1>1 DEF Next, EventOnly, Placing, Tabling, Moving, Dispatching, QueueStep, Dispatch

LEMMA Frames ==
    ASSUME NEW t
    PROVE  /\ Placing(t) => UNCHANGED <<evVars, tableVars, ringVars>>
           /\ Tabling(t) => UNCHANGED <<evVars, level, kind, mode, seen>>
           /\ Moving(t) => UNCHANGED <<tableVars, events, recvVars, orphan>>
           /\ WakeReaders(t) => UNCHANGED <<tableVars, ringVars, events, recvVars, orphan>>
           /\ Dispatching(t) => UNCHANGED <<tableVars, ringVars, events, orphan, sendVars>>
  <1>1. Placing(t) => UNCHANGED <<evVars, tableVars, ringVars>>
    BY Zenon DEF Placing, Q_send, Q_read, WakeDeleted, FindNone, BlockOnTail, Awake,
                 ReadDisturbed
  <1>2. Tabling(t) => UNCHANGED <<evVars, level, kind, mode, seen>>
    BY DEF Tabling, CreateOutput, DeleteQueue, CreateInput, stageVars
  <1>3. Moving(t) => UNCHANGED <<tableVars, events, recvVars, orphan>>
    BY DEF Moving, Store, Dequeue
  <1>4. WakeReaders(t) => UNCHANGED <<tableVars, ringVars, events, recvVars, orphan>>
    BY DEF WakeReaders
  <1>5. Dispatching(t) => UNCHANGED <<tableVars, ringVars, events, orphan, sendVars>>
    BY DEF Dispatching, DispatchWait, DispatchRead, queueVars
  <1> QED BY <1>1, <1>2, <1>3, <1>4, <1>5

\* t creates the queue n with the bits B, or finds it.
Making(t, n, B) ==
    /\ \/ \E i \in Slots : Refound(t, i, n, B)
       \/ \E i \in Slots : Remade(t, i, n, B)
       \/ Refused(t)
    /\ UNCHANGED slot
    /\ \/ /\ t \in Senders \cup Readers /\ n \in outputs[t] /\ B = {}
          /\ \/ level \in Early
             \/ \A o \in Dispatchers : inputOf[o] = n => stage[o] # "start"
          /\ stage[t] = "idle" /\ pc[t] = "idle" /\ UNCHANGED stage
       \/ /\ t \in Dispatchers /\ n = inputOf[t] /\ B = {NBit}
          /\ stage[t] = "start" /\ stage' = [stage EXCEPT ![t] = "idle"]

\* t deletes the queue in slot i.
Deleting(t, i) ==
    /\ stage[t] = "idle" /\ pc[t] = "idle"
    /\ qname[i] # None /\ qid[i] = handle[t]
    /\ Free(i)
    /\ msgs' = [msgs EXCEPT ![i] = <<>>]
    /\ tail' = [tail EXCEPT ![i] = 0]
    /\ slot' = [slot EXCEPT ![t] = i]
    /\ stage' = [stage EXCEPT ![t] = "wake deleted"]
    /\ UNCHANGED <<next_q, identVars, handle>>

LEMMA TablingCases ==
    ASSUME TableTypeOK, DistinctQueues, RingsOK, NEW t \in Clients, Tabling(t)
    PROVE  /\ \/ \E n \in Names, B \in Masks \cup {{}} : Making(t, n, B)
              \/ t \in Senders /\ \E i \in Slots : Deleting(t, i)
           /\ TableTypeOK' /\ DistinctQueues' /\ next_q <= next_q'
  <1> USE QueueAssumption
  <1>0. next_q \in Nat
    BY SlotTypes, NextQ
  <1>1. ASSUME CreateOutput(t)
        PROVE  /\ \E n \in Names, B \in Masks \cup {{}} : Making(t, n, B)
               /\ TableTypeOK' /\ DistinctQueues' /\ next_q <= next_q'
    <2>1. t \in Senders \cup Readers /\ stage[t] = "idle" /\ pc[t] = "idle"
      BY <1>1 DEF CreateOutput, Free4Call
    <2>2. PICK n \in outputs[t] :
            /\ level \in Early \/ \A o \in Dispatchers : inputOf[o] = n => stage[o] # "start"
            /\ MakeOrFind(t, n, {})
      BY <1>1 DEF CreateOutput
    <2>3. n \in Names
      BY <2>1, <2>2
    <2>4. UNCHANGED <<slot, stage>>
      BY <1>1 DEF CreateOutput, stageVars
    <2>5. /\ \/ \E i \in Slots : Refound(t, i, n, {})
             \/ \E i \in Slots : Remade(t, i, n, {})
             \/ Refused(t)
          /\ TableTypeOK' /\ DistinctQueues' /\ next_q <= next_q'
      BY <2>2, <2>3, MakeCases
    <2>6. Making(t, n, {})
      BY <2>1, <2>2, <2>4, <2>5 DEF Making
    <2> QED BY <2>3, <2>5, <2>6
  <1>2. ASSUME t \in Dispatchers, CreateInput(t)
        PROVE  /\ \E n \in Names, B \in Masks \cup {{}} : Making(t, n, B)
               /\ TableTypeOK' /\ DistinctQueues' /\ next_q <= next_q'
    <2>1. MakeOrFind(t, inputOf[t], {NBit}) /\ inputOf[t] \in Names
      BY <1>2 DEF CreateInput
    <2>2. stage[t] = "start" /\ stage' = [stage EXCEPT ![t] = "idle"] /\ UNCHANGED slot
      BY <1>2 DEF CreateInput, Stage
    <2>3. /\ \/ \E i \in Slots : Refound(t, i, inputOf[t], {NBit})
             \/ \E i \in Slots : Remade(t, i, inputOf[t], {NBit})
             \/ Refused(t)
          /\ TableTypeOK' /\ DistinctQueues' /\ next_q <= next_q'
      BY <2>1, MakeCases
    <2>4. Making(t, inputOf[t], {NBit})
      BY <1>2, <2>2, <2>3 DEF Making
    <2> QED BY <2>1, <2>3, <2>4
  <1>3. ASSUME DeleteQueue(t)
        PROVE  /\ t \in Senders /\ \E i \in Slots : Deleting(t, i)
               /\ TableTypeOK' /\ DistinctQueues' /\ next_q <= next_q'
    <2>1. PICK i \in SlotsOf(handle[t]) :
            /\ Free(i)
            /\ msgs' = [msgs EXCEPT ![i] = <<>>]
            /\ tail' = [tail EXCEPT ![i] = 0]
            /\ slot' = [slot EXCEPT ![t] = i]
      BY <1>3 DEF DeleteQueue
    <2>2. i \in Slots /\ qname[i] # None /\ qid[i] = handle[t]
      BY <2>1 DEF SlotsOf, Used
    <2>3. /\ t \in Senders /\ stage[t] = "idle" /\ pc[t] = "idle"
          /\ stage' = [stage EXCEPT ![t] = "wake deleted"]
          /\ UNCHANGED <<next_q, identVars, handle>>
      BY <1>3 DEF DeleteQueue, Free4Call, Stage
    <2>4. TableTypeOK' /\ DistinctQueues'
      BY <2>1, <2>2, <2>3, DeleteStep
    <2>5. Deleting(t, i)
      BY <2>1, <2>2, <2>3, Zenon DEF Deleting
    <2>6. next_q <= next_q'
      <3>1. next_q' = next_q
        BY <2>3
      <3> QED BY <1>0, <3>1
    <2> QED BY <2>2, <2>3, <2>4, <2>5, <2>6, Zenon
  <1> QED BY <1>1, <1>2, <1>3 DEF Tabling

-----------------------------------------------------------------------------
(* The table and the rings                                                 *)

\* t stores the message k.
Stored(t, i, k) ==
    /\ stage[t] = "store" /\ slot[t] = i /\ i \in Slots
    /\ LET kept == IF Len(msgs[i]) = QSLOTS THEN Tail(msgs[i]) ELSE msgs[i]
       IN  msgs' = [msgs EXCEPT ![i] = Append(kept, k)]
    /\ tail[i] < MaxTail
    /\ tail' = [tail EXCEPT ![i] = @ + 1]
    /\ post' = [post EXCEPT ![t] = notify[i]]
    /\ dest' = [dest EXCEPT ![t] = IF notify[i] # {} THEN owner[i] ELSE t]
    /\ stage' = [stage EXCEPT ![t] = "wake readers"]
    /\ UNCHANGED <<slot, kind, mode, seen, level, pc>>

\* t leaves q_read(), with the oldest message or without any.
Left(t) ==
    /\ stage' = [stage EXCEPT ![t] = "idle"]
    /\ slot' = [slot EXCEPT ![t] = 0]
    /\ mode' = [mode EXCEPT ![t] = Poll]
    /\ seen' = [seen EXCEPT ![t] = 0]
    /\ UNCHANGED <<level, kind>>

Fetched(t, i) ==
    /\ stage[t] = "read" /\ slot[t] = i /\ i \in Slots
    /\ msgs[i] # <<>>
    /\ \/ mode[t].short /\ UNCHANGED <<msgs, sendVars, pc>>
       \/ /\ msgs' = [msgs EXCEPT ![i] = Tail(@)]
          /\ IF Len(msgs[i]) > 1 /\ notify[i] # {}
             THEN CallEvSend(t, owner[i], notify[i])
             ELSE UNCHANGED <<sendVars, pc>>
    /\ UNCHANGED tail
    /\ Left(t)

LEMMA MovingCases ==
    ASSUME CallsOK, NEW t \in Clients, Moving(t)
    PROVE  \/ \E i \in Slots, k \in Kinds : Stored(t, i, k)
           \/ \E i \in Slots : Fetched(t, i)
  <1>1. ASSUME Store(t) PROVE \E i \in Slots, k \in Kinds : Stored(t, i, k)
    <2>1. stage[t] = "store" /\ slot[t] \in Slots /\ kind[t] \in Kinds
      BY <1>1 DEF Store, CallsOK, Holding
    <2>2. Stored(t, slot[t], kind[t])
      BY <1>1, <2>1, Zenon DEF Store, Stage, Stored
    <2> QED BY <2>1, <2>2
  <1>2. ASSUME Dequeue(t) PROVE \E i \in Slots : Fetched(t, i)
    <2>1. stage[t] = "read" /\ slot[t] \in Slots
      BY <1>2 DEF Dequeue, CallsOK, Holding, Reading
    <2>2. Left(t) /\ UNCHANGED tail /\ msgs[slot[t]] # <<>>
      BY <1>2, Zenon DEF Dequeue, LeaveRead, Stage, Left
    <2>3. \/ mode[t].short /\ UNCHANGED <<msgs, sendVars, pc>>
          \/ /\ msgs' = [msgs EXCEPT ![slot[t]] = Tail(@)]
             /\ IF Len(msgs[slot[t]]) > 1 /\ notify[slot[t]] # {}
                THEN CallEvSend(t, owner[slot[t]], notify[slot[t]])
                ELSE UNCHANGED <<sendVars, pc>>
      BY <1>2, Zenon DEF Dequeue
    <2>4. Fetched(t, slot[t])
      BY <2>1, <2>2, <2>3, Zenon DEF Fetched
    <2> QED BY <2>1, <2>4
  <1> QED BY <1>1, <1>2 DEF Moving

LEMMA TableRings ==
    ASSUME QInv, [Next]_vars
    PROVE  TableTypeOK' /\ DistinctQueues' /\ RingsOK'
  <1> USE DEF QInv
  <1>0. MaxTail \in Nat /\ QSLOTS \in Nat
    BY QueueAssumption
  <1>1. ASSUME UNCHANGED <<tableVars, ringVars>>
        PROVE  TableTypeOK' /\ DistinctQueues' /\ RingsOK'
    <2>1. TableTypeOK' /\ DistinctQueues'
      BY <1>1 DEF tableVars, slotVars, identVars, TableTypeOK, DistinctQueues
    <2>2. RingsOK'
      BY <1>1 DEF ringVars, RingsOK
    <2> QED BY <2>1, <2>2
  <1>2. CASE UNCHANGED vars
    BY <1>1, <1>2 DEF vars, queueVars
  <1>3. ASSUME NEW t \in Tasks, EventOnly(t)
        PROVE  TableTypeOK' /\ DistinctQueues' /\ RingsOK'
    BY <1>1, <1>3, EventCases DEF queueVars
  <1>4. ASSUME NEW t \in Clients, Placing(t) \/ WakeReaders(t) \/ Dispatching(t)
        PROVE  TableTypeOK' /\ DistinctQueues' /\ RingsOK'
    BY <1>1, <1>4, Frames
  <1>5. ASSUME NEW t \in Clients, Tabling(t)
        PROVE  TableTypeOK' /\ DistinctQueues' /\ RingsOK'
    <2>1. TableTypeOK' /\ DistinctQueues'
      BY <1>5, TablingCases
    <2>2. \/ UNCHANGED ringVars
          \/ \E i \in Slots : /\ msgs' = [msgs EXCEPT ![i] = <<>>]
                              /\ tail' = [tail EXCEPT ![i] = 0]
      BY <1>5, TablingCases DEF Making, Refound, Remade, Refused, Deleting, ringVars
    <2>3. ASSUME NEW i \in Slots, msgs' = [msgs EXCEPT ![i] = <<>>],
                 tail' = [tail EXCEPT ![i] = 0]
          PROVE  RingsOK'
      <3>1. <<>> \in Seq(Kinds) /\ Len(<<>>) = 0 /\ 0 \in 0..MaxTail
        BY <1>0, EmptySeq
      <3> QED BY <1>0, <2>3, <3>1 DEF RingsOK
    <2> QED BY <2>1, <2>2, <2>3 DEF RingsOK, ringVars
  <1>6. ASSUME NEW t \in Clients, Moving(t)
        PROVE  TableTypeOK' /\ DistinctQueues' /\ RingsOK'
    <2>1. TableTypeOK' /\ DistinctQueues'
      BY <1>6, Frames DEF tableVars, slotVars, identVars, TableTypeOK, DistinctQueues
    <2>2. ASSUME NEW i \in Slots, NEW k \in Kinds, Stored(t, i, k) PROVE RingsOK'
      <3>1. PICK q \in Seq(Kinds) :
              /\ msgs' = [msgs EXCEPT ![i] = q]
              /\ Len(q) <= QSLOTS /\ Len(q) <= Len(msgs[i]) + 1
        BY <2>2, PutIn DEF Stored, RingsOK
      <3>2. /\ tail[i] \in 0..MaxTail /\ tail[i] < MaxTail
            /\ tail' = [tail EXCEPT ![i] = tail[i] + 1]
        BY <2>2 DEF Stored, RingsOK
      <3>3. tail[i] + 1 \in 0..MaxTail
        BY <1>0, <3>2
      <3>4. Len(msgs[i]) \in Nat /\ Len(q) \in Nat /\ Len(msgs[i]) <= tail[i]
        BY LenProperties DEF RingsOK
      <3> QED BY <3>1, <3>2, <3>3, <3>4 DEF RingsOK
    <2>3. ASSUME NEW i \in Slots, Fetched(t, i) PROVE RingsOK'
      <3>1. CASE msgs' = msgs
        BY <2>3, <3>1 DEF Fetched, RingsOK
      <3>2. CASE msgs' = [msgs EXCEPT ![i] = Tail(msgs[i])]
        <4>1. /\ msgs[i] \in Seq(Kinds) /\ msgs[i] # <<>> /\ UNCHANGED tail
              /\ tail[i] \in Nat /\ Len(msgs[i]) <= QSLOTS /\ Len(msgs[i]) <= tail[i]
          BY <1>0, <2>3 DEF Fetched, RingsOK
        <4>2. PICK q \in Seq(Kinds) : q = Tail(msgs[i]) /\ Len(q) = Len(msgs[i]) - 1
          BY <4>1, TakeOut
        <4>3. Len(msgs[i]) \in Nat
          BY <4>1, LenProperties
        <4> QED BY <1>0, <3>2, <4>1, <4>2, <4>3 DEF RingsOK
      <3> QED BY <2>3, <3>1, <3>2 DEF Fetched
    <2> QED BY <1>6, <2>1, <2>2, <2>3, MovingCases
  <1> QED BY <1>2, <1>3, <1>4, <1>5, <1>6, StepCases

-----------------------------------------------------------------------------
(* The calls and the waits                                                 *)

(* A step of an event call is made by a task inside one.                   *)
LEMMA EventIdle ==
    ASSUME TypeOK, NEW t \in Tasks, EventOnly(t), NEW u \in Tasks, pc[u] = "idle"
    PROVE  pc'[u] = "idle" /\ got'[u] = got[u]
  <1> USE DEF TypeOK, Goto, recvVars
  <1>1. CASE Levelled(t)
    BY <1>1 DEF Levelled
  <1>2. CASE Blocking(t)
    BY <1>2 DEF Blocking, GoBlock
  <1>3. CASE Receipt(t)
    BY <1>3 DEF Receipt, TakeToken, Load, Take, Expire, FutexWait, Disturbed, ReturnBits
  <1>4. CASE EvOr(t)
    BY <1>4 DEF EvOr
  <1>5. CASE EvWake(t)
    BY <1>5 DEF EvWake
  <1> QED BY <1>1, <1>2, <1>3, <1>4, <1>5, EventCases

(* What a search finds is a slot.                                          *)
LEMMA RouteSlot ==
    ASSUME NEW i \in Slots, NEW k
    PROVE  Route(i, k) \in Slots
  <1> DEFINE clients == {j \in SlotsNamed(clientOf[qname[i]]) : notify[j] # {}}
  <1>1. clients \subseteq Slots /\ clients \subseteq Nat
    BY TableAssumption DEF SlotsNamed, Slots
  <1>2. clients # {} => Min(clients) \in Slots
    BY <1>1, FirstSlot
  <1> QED BY <1>2 DEF Route

LEMMA CallsStep ==
    ASSUME QInv, [Next]_vars
    PROVE  CallsOK'
  <1> USE QueueAssumption DEF QInv, CallsOK
  <1>0. /\ 0 \in 0..MAXQ /\ 0 \in 0..MaxTail
        /\ Slots \subseteq 0..MAXQ
    BY TableAssumption DEF Slots
  <1>1. CASE UNCHANGED vars
    BY <1>1 DEF vars, evVars, queueVars, stageVars
  <1>2. ASSUME NEW t \in Tasks, EventOnly(t) PROVE CallsOK'
    <2>1. UNCHANGED stageVars
      BY <1>2, EventCases DEF queueVars
    <2>2. \A u \in Clients : pc[u] = "idle" => pc'[u] = "idle"
      BY <1>2, EventIdle
    <2> QED BY <2>1, <2>2 DEF stageVars
  <1>3. ASSUME NEW t \in Clients, Placing(t) PROVE CallsOK'
    <2>0. pc' = pc
      BY <1>3, Frames DEF evVars
    <2>1. CASE Q_send(t)
      <3>1. PICK i \in SlotsOf(handle[t]), k \in Kinds :
              slot' = [slot EXCEPT ![t] = Route(i, k)] /\ kind' = [kind EXCEPT ![t] = k]
        BY <2>1 DEF Q_send
      <3>2. Route(i, k) \in Slots
        BY RouteSlot DEF SlotsOf, Used
      <3>3. /\ t \notin Dispatchers /\ pc[t] = "idle"
            /\ stage' = [stage EXCEPT ![t] = "store"] /\ UNCHANGED <<level, mode, seen>>
        BY <2>1 DEF Q_send, Free4Call, Stage
      <3> QED BY <1>0, <2>0, <3>1, <3>2, <3>3 DEF Stages, Holding, Reading
    <2>2. CASE Q_read(t)
      <3>1. PICK m \in Modes : CallRead(t, m)
        BY <2>2 DEF Q_read
      <3>2. PICK i \in Slots : slot' = [slot EXCEPT ![t] = i]
        BY <3>1 DEF CallRead, SlotsOf, Used
      <3>3. /\ t \notin Dispatchers /\ pc[t] = "idle"
            /\ mode' = [mode EXCEPT ![t] = m]
            /\ stage' = [stage EXCEPT ![t] = "read"] /\ UNCHANGED <<level, kind, seen>>
        BY <2>2, <3>1 DEF Q_read, CallRead, Free4Call, Stage
      <3> QED BY <1>0, <2>0, <3>2, <3>3 DEF Stages, Holding, Reading
    <2>3. CASE WakeDeleted(t)
      BY <1>0, <2>0, <2>3 DEF WakeDeleted, WakeSlot, Stages, Holding, Reading
    <2>4. CASE FindNone(t)
      <3>1. stage[t] = "read" /\ slot[t] \in Slots /\ tail[slot[t]] \in 0..MaxTail
        BY <2>4 DEF FindNone, Holding, Reading, RingsOK
      <3>2. CASE LeaveRead(t)
        BY <1>0, <2>0, <3>1, <3>2 DEF LeaveRead, Stage, Stages, Holding, Reading
      <3>3. CASE ~ LeaveRead(t)
        <4>1. mode[t].timeout # "none" /\ seen' = [seen EXCEPT ![t] = tail[slot[t]]]
              /\ stage' = [stage EXCEPT ![t] = "block"] /\ UNCHANGED <<level, slot, kind, mode>>
          BY <2>4, <3>3 DEF FindNone, Stage
        <4>2. t \notin Dispatchers
          BY <4>1 DEF Poll
        <4> QED BY <1>0, <2>0, <3>1, <4>1, <4>2 DEF Stages, Holding, Reading
      <3> QED BY <3>2, <3>3
    <2>5. CASE BlockOnTail(t)
      BY <1>0, <2>0, <2>5 DEF BlockOnTail, Stage, Stages, Holding, Reading
    <2>6. CASE Awake(t)
      <3>1. CASE LeaveRead(t)
        BY <1>0, <2>0, <3>1 DEF LeaveRead, Stage, Stages, Holding, Reading
      <3>2. CASE ~ LeaveRead(t)
        <4>1. /\ stage[t] = "woken" /\ stage' = [stage EXCEPT ![t] = "read"]
              /\ UNCHANGED <<level, slot, kind, mode, seen>>
          BY <2>6, <3>2 DEF Awake, Stage
        <4> QED BY <1>0, <2>0, <4>1 DEF Stages, Holding, Reading
      <3> QED BY <3>1, <3>2
    <2>7. CASE ReadDisturbed(t)
      BY <1>0, <2>0, <2>7 DEF ReadDisturbed, Stage, Stages, Holding, Reading
    <2> QED BY <1>3, <2>1, <2>2, <2>3, <2>4, <2>5, <2>6, <2>7 DEF Placing
  <1>4. ASSUME NEW t \in Clients, Tabling(t) PROVE CallsOK'
    <2>1. UNCHANGED <<pc, level, kind, mode, seen>>
      BY <1>4, Frames DEF evVars
    <2>2. ASSUME NEW n, NEW B, Making(t, n, B) PROVE CallsOK'
      <3>1. UNCHANGED slot /\ (UNCHANGED stage \/ stage' = [stage EXCEPT ![t] = "idle"])
        BY <2>2 DEF Making
      <3> QED BY <2>1, <3>1 DEF Stages, Holding, Reading
    <2>3. ASSUME NEW i \in Slots, t \in Senders, Deleting(t, i) PROVE CallsOK'
      BY <1>0, <2>1, <2>3 DEF Deleting, Stages, Holding
    <2> QED BY <1>4, <2>2, <2>3, TablingCases
  <1>5. ASSUME NEW t \in Clients, Moving(t) PROVE CallsOK'
    <2>1. ASSUME NEW i \in Slots, NEW k \in Kinds, Stored(t, i, k) PROVE CallsOK'
      BY <2>1 DEF Stored, Stages, Holding
    <2>2. ASSUME NEW i \in Slots, Fetched(t, i) PROVE CallsOK'
      <3>1. \A u \in Clients : u # t => pc'[u] = pc[u]
        BY <2>2 DEF Fetched, CallEvSend, Goto, TypeOK
      <3>2. Left(t) /\ stage[t] = "read"
        BY <2>2 DEF Fetched
      <3> QED BY <1>0, <3>1, <3>2 DEF Left, Stages, Holding, Reading
    <2> QED BY <1>5, <2>1, <2>2, MovingCases
  <1>6. ASSUME NEW t \in Clients, WakeReaders(t) PROVE CallsOK'
    <2>1. \A u \in Clients : u # t => pc'[u] = pc[u]
      BY <1>6 DEF WakeReaders, Goto, TypeOK
    <2>2. /\ stage[t] = "wake readers"
          /\ stage' = [u \in Clients |->
                         IF u = t THEN "idle"
                         ELSE IF stage[u] = "asleep" /\ slot[u] = slot[t] THEN "woken"
                         ELSE stage[u]]
          /\ slot' = [slot EXCEPT ![t] = 0] /\ kind' = [kind EXCEPT ![t] = Plain]
          /\ UNCHANGED <<level, mode, seen>>
      BY <1>6 DEF WakeReaders, WakeSlot
    <2> QED BY <1>0, <2>1, <2>2 DEF Stages, Holding, Reading
  <1>7. ASSUME NEW t \in Clients, Dispatching(t) PROVE CallsOK'
    <2>1. CASE DispatchWait(t)
      <3>1. stage[t] = "idle" /\ UNCHANGED stageVars
        BY <2>1 DEF DispatchWait, Free4Call, queueVars
      <3>2. \A u \in Clients : u # t => pc'[u] = pc[u]
        BY <2>1 DEF DispatchWait, CallEvReceive, Goto, TypeOK
      <3> QED BY <3>1, <3>2 DEF stageVars
    <2>2. CASE DispatchRead(t)
      <3>1. PICK i \in Slots : slot' = [slot EXCEPT ![t] = i]
        BY <2>2 DEF DispatchRead, CallRead, SlotsOf, Used
      <3>2. /\ pc[t] = "idle" /\ UNCHANGED pc
            /\ mode' = [mode EXCEPT ![t] = Poll]
            /\ stage' = [stage EXCEPT ![t] = "read"] /\ UNCHANGED <<level, kind, seen>>
        BY <2>2 DEF DispatchRead, CallRead, Free4Call, Stage
      <3> QED BY <1>0, <3>1, <3>2 DEF Stages, Holding, Reading
    <2> QED BY <1>7, <2>1, <2>2 DEF Dispatching
  <1> QED BY <1>1, <1>2, <1>3, <1>4, <1>5, <1>6, <1>7, StepCases

LEMMA WaitsStep ==
    ASSUME QInv, [Next]_vars
    PROVE  WaitsOK'
  <1> USE DEF QInv, TypeOK, WaitsOK
  <1>1. ASSUME UNCHANGED <<orphan, want, cond, timeout, cur>>,
               \A u \in Tasks : pc'[u] \in Receiving => pc'[u] = pc[u]
        PROVE  WaitsOK'
    BY <1>1 DEF Receiving
  <1>2. CASE UNCHANGED vars
    BY <1>1, <1>2 DEF vars, evVars, recvVars
  <1>3. ASSUME NEW t \in Tasks, EventOnly(t) PROVE WaitsOK'
    <2> USE DEF recvVars, Goto, Receiving
    <2>1. CASE Levelled(t)
      BY <2>1 DEF Levelled
    <2>2. CASE Blocking(t)
      BY <2>2 DEF Blocking, GoBlock
    <2>3. CASE Receipt(t)
      <3>1. CASE TakeToken(t)   BY <3>1 DEF TakeToken, ReturnBits
      <3>2. CASE Load(t)        BY <3>2 DEF Load, ReturnBits, Satisfies
      <3>3. CASE Take(t)        BY <3>3 DEF Take, ReturnBits
      <3>4. CASE Expire(t)      BY <3>4 DEF Expire, ReturnBits
      <3>5. CASE FutexWait(t)   BY <3>5 DEF FutexWait
      <3>6. CASE Disturbed(t)   BY <3>6 DEF Disturbed
      <3> QED BY <2>3, <3>1, <3>2, <3>3, <3>4, <3>5, <3>6 DEF Receipt
    <2>4. CASE EvOr(t)
      BY <2>4 DEF EvOr
    <2>5. CASE EvWake(t)
      BY <2>5 DEF EvWake
    <2> QED BY <1>3, <2>1, <2>2, <2>3, <2>4, <2>5, EventCases
  <1>4. ASSUME NEW t \in Clients, Placing(t) \/ Tabling(t) PROVE WaitsOK'
    BY <1>1, <1>4, Frames DEF evVars, recvVars
  <1>5. ASSUME NEW t \in Clients, Moving(t) \/ WakeReaders(t) PROVE WaitsOK'
    <2>1. \A u \in Tasks : pc'[u] \in Receiving => pc'[u] = pc[u]
      <3>1. CASE WakeReaders(t)
        BY <3>1 DEF WakeReaders, Goto, Receiving
      <3>2. ASSUME NEW i, NEW k, Stored(t, i, k) PROVE pc' = pc
        BY <3>2 DEF Stored
      <3>3. ASSUME NEW i, Fetched(t, i) PROVE pc' = pc \/ pc' = [pc EXCEPT ![t] = "or"]
        BY <3>3 DEF Fetched, CallEvSend, Goto
      <3> QED BY <1>5, <3>1, <3>2, <3>3, MovingCases DEF Receiving
    <2> QED BY <1>1, <1>5, <2>1, Frames DEF recvVars
  <1>6. ASSUME NEW t \in Clients, Dispatching(t) PROVE WaitsOK'
    <2>1. CASE DispatchWait(t)
      BY <1>6, <2>1 DEF Dispatching, DispatchWait, CallEvReceive, Goto, Receiving
    <2>2. CASE DispatchRead(t)
      BY <1>1, <2>2 DEF DispatchRead
    <2> QED BY <1>6, <2>1, <2>2 DEF Dispatching
  <1> QED BY <1>2, <1>3, <1>4, <1>5, <1>6, StepCases

(* The test before the sleep, and the sleep itself, are still those of     *)
(* HerosEvent: TestLevel starts the loop again.                            *)
LEMMA SleepStep ==
    ASSUME QInv, [Next]_vars
    PROVE  LoadedInVain' /\ NoMissedEvent'
  <1> USE DEF QInv
  <1>1. ASSUME [EvNext]_evVars PROVE LoadedInVain' /\ NoMissedEvent'
    BY <1>1, VainStep, EvMissStep DEF EvIInv
  <1>2. CASE UNCHANGED vars
    BY <1>1, <1>2 DEF vars
  <1>3. ASSUME NEW t \in Tasks, EventOnly(t) PROVE LoadedInVain' /\ NoMissedEvent'
    <2>1. CASE Levelled(t)
      <3>1. /\ pc[t] = "level" /\ pc' = [pc EXCEPT ![t] = "token"]
            /\ cur' = [cur EXCEPT ![t] = {}]
            /\ \A u \in Tasks : u # t => events'[u] = events[u]
            /\ UNCHANGED <<want, cond, dest>>
        BY <2>1 DEF Levelled, sendVars, TypeOK
      <3> QED BY <3>1 DEF LoadedInVain, NoMissedEvent, Satisfies, TypeOK
    <2> QED BY <1>1, <1>3, <2>1, EventCases
  <1>4. ASSUME NEW t \in Clients, Placing(t) \/ Tabling(t)
        PROVE  LoadedInVain' /\ NoMissedEvent'
    BY <1>1, <1>4, Frames
  \* A step of t outside the event calls: t does not become a sleeper, and was no waker.
  <1>5. ASSUME NEW t \in Tasks, pc[t] = "idle", UNCHANGED <<events, cur>>,
               pc'[t] \in {"idle", "or", "token"},
               \A u \in Tasks : u # t => /\ pc'[u] = pc[u] /\ dest'[u] = dest[u]
                                         /\ want'[u] = want[u] /\ cond'[u] = cond[u]
        PROVE  LoadedInVain' /\ NoMissedEvent'
    BY <1>5 DEF LoadedInVain, NoMissedEvent, Satisfies
  <1>6. ASSUME NEW t \in Clients, Moving(t) \/ WakeReaders(t) \/ Dispatching(t)
        PROVE  LoadedInVain' /\ NoMissedEvent'
    <2>0. t \in Tasks
      BY QueueAssumption
    <2>1. pc[t] = "idle"
      BY <1>6 DEF Moving, Store, Dequeue, WakeReaders, Dispatching, DispatchWait,
                  DispatchRead, Free4Call, CallsOK
    <2>2. ASSUME NEW i, NEW k, Stored(t, i, k)
          PROVE  /\ pc'[t] = "idle"
                 /\ \A u \in Tasks : u # t => pc'[u] = pc[u] /\ dest'[u] = dest[u]
      BY <2>1, <2>2 DEF Stored, TypeOK
    <2>3. ASSUME NEW i, Fetched(t, i)
          PROVE  /\ pc'[t] \in {"idle", "or"}
                 /\ \A u \in Tasks : u # t => pc'[u] = pc[u] /\ dest'[u] = dest[u]
      BY <2>0, <2>1, <2>3 DEF Fetched, CallEvSend, Goto, sendVars, TypeOK
    <2>4. CASE Moving(t)
      <3>1. UNCHANGED <<events, cur, want, cond>>
        BY <2>4, Frames DEF recvVars
      <3>2. /\ pc'[t] \in {"idle", "or"}
            /\ \A u \in Tasks : u # t => pc'[u] = pc[u] /\ dest'[u] = dest[u]
        BY <2>2, <2>3, <2>4, MovingCases
      <3> QED BY <1>5, <2>0, <2>1, <3>1, <3>2
    <2>5. CASE WakeReaders(t)
      <3>1. UNCHANGED <<events, cur, want, cond, dest>>
        BY <2>5 DEF WakeReaders, recvVars, sendVars
      <3>2. pc'[t] \in {"idle", "or"} /\ \A u \in Tasks : u # t => pc'[u] = pc[u]
        BY <2>0, <2>5 DEF WakeReaders, Goto, TypeOK
      <3> QED BY <1>5, <2>0, <2>1, <3>1, <3>2
    <2>6. CASE DispatchWait(t)
      <3>1. /\ UNCHANGED <<events, cur, dest>>
            /\ \E W, c : want' = [want EXCEPT ![t] = W] /\ cond' = [cond EXCEPT ![t] = c]
        BY <2>6 DEF DispatchWait, CallEvReceive, sendVars
      <3>2. pc'[t] = "token" /\ \A u \in Tasks : u # t => pc'[u] = pc[u]
        BY <2>0, <2>6 DEF DispatchWait, CallEvReceive, Goto, TypeOK
      <3>3. \A u \in Tasks : u # t => want'[u] = want[u] /\ cond'[u] = cond[u]
        BY <3>1 DEF TypeOK
      <3> QED BY <1>5, <2>0, <2>1, <3>1, <3>2, <3>3
    <2>7. CASE DispatchRead(t)
      <3>1. UNCHANGED <<events, cur, want, cond, dest, pc>>
        BY <2>7 DEF DispatchRead, sendVars
      <3> QED BY <1>5, <2>0, <2>1, <3>1
    <2> QED BY <1>6, <2>4, <2>5, <2>6, <2>7 DEF Dispatching
  <1> QED BY <1>2, <1>3, <1>4, <1>6, StepCases

-----------------------------------------------------------------------------
(* The queues of the dispatchers                                           *)

LEMMA Smaller == \A a, b \in Nat : a < b => a # b
  OBVIOUS

(* Where a dispatcher's q_create() changes who is notified of a queue, it  *)
(* is the dispatcher itself.                                               *)
LEMMA TakenOver ==
    ASSUME TableTypeOK, NEW t \in Clients, NEW k \in Slots, NEW n \in Names, NEW B, B = {NBit},
           Refound(t, k, n, B) \/ Remade(t, k, n, B), NEW i \in Slots,
           ~ (notify'[i] = notify[i] /\ owner'[i] = owner[i] /\ qid'[i] = qid[i])
    PROVE  qname'[i] # None /\ notify'[i] = {NBit} /\ owner'[i] = t /\ handle'[t] = qid'[i]
  <1> USE TableAssumption DEF TableTypeOK
  <1>1. ASSUME i # k PROVE FALSE
    <2>1. CASE Refound(t, k, n, B)
      BY <1>1, <2>1 DEF Refound
    <2>2. CASE Remade(t, k, n, B)
      BY <1>1, <2>2 DEF Remade
    <2> QED BY <2>1, <2>2
  <1>2. CASE Refound(t, k, n, B)
    <2>1. owner' = [owner EXCEPT ![k] = t] /\ notify' = [notify EXCEPT ![k] = B]
      BY <1>1, <1>2 DEF Refound
    <2> QED BY <1>1, <1>2, <2>1 DEF Refound
  <1>3. CASE Remade(t, k, n, B)
    BY <1>1, <1>3 DEF Remade
  <1> QED BY <1>2, <1>3

(* Nobody goes back to the start.                                          *)
LEMMA StartStays ==
    ASSUME CallsOK, [Next]_vars, TableTypeOK, DistinctQueues, RingsOK, NEW u \in Clients,
           stage'[u] = "start"
    PROVE  stage[u] = "start"
  <1> USE DEF CallsOK
  <1>1. CASE UNCHANGED vars
    BY <1>1 DEF vars, queueVars, stageVars
  <1>2. ASSUME NEW t \in Tasks, EventOnly(t) PROVE stage[u] = "start"
    BY <1>2, EventCases DEF queueVars, stageVars
  <1>3. ASSUME NEW t \in Clients, Placing(t) PROVE stage[u] = "start"
    BY <1>3 DEF Placing, Q_send, Q_read, CallRead, WakeDeleted, WakeSlot, FindNone, LeaveRead,
                BlockOnTail, Awake, ReadDisturbed, Stage
  <1>4. ASSUME NEW t \in Clients, Moving(t) PROVE stage[u] = "start"
    BY <1>4 DEF Moving, Store, Dequeue, LeaveRead, Stage
  <1>5. ASSUME NEW t \in Clients, WakeReaders(t) PROVE stage[u] = "start"
    BY <1>5 DEF WakeReaders, WakeSlot
  <1>6. ASSUME NEW t \in Clients, Dispatching(t) PROVE stage[u] = "start"
    BY <1>6 DEF Dispatching, DispatchWait, DispatchRead, CallRead, Stage, queueVars, stageVars
  <1>7. ASSUME NEW t \in Clients, Tabling(t) PROVE stage[u] = "start"
    BY <1>7, TablingCases DEF Making, Deleting
  <1> QED BY <1>1, <1>2, <1>3, <1>4, <1>5, <1>6, <1>7, StepCases

LEMMA NotifiedStep ==
    ASSUME QInv, [Next]_vars
    PROVE  Notified'
  <1> USE QueueAssumption DEF QInv
  <1>1. ASSUME UNCHANGED tableVars PROVE Notified'
    <2>1. \A u \in Clients : stage'[u] = "start" => stage[u] = "start"
      BY StartStays
    <2>2. UNCHANGED <<qname, qid, owner, notify, handle>>
      BY <1>1 DEF tableVars, slotVars
    <2> QED BY <2>1, <2>2 DEF Notified
  <1>2. CASE UNCHANGED vars
    BY <1>1, <1>2 DEF vars
  <1>3. ASSUME NEW t \in Tasks, EventOnly(t) PROVE Notified'
    BY <1>1, <1>3, EventCases
  <1>4. ASSUME NEW t \in Clients, Placing(t) \/ Moving(t) \/ WakeReaders(t) \/ Dispatching(t)
        PROVE  Notified'
    BY <1>1, <1>4, Frames
  <1>5. ASSUME NEW t \in Clients, Tabling(t) PROVE Notified'
    <2> USE DEF TableTypeOK
    <2>0. ASSUME NEW n \in Names, NEW B, Making(t, n, B), NEW i \in Slots, qname[i] # None
          PROVE  qname'[i] # None
      BY <2>0 DEF Making, Refound, Remade, Refused
    <2>1. ASSUME NEW n \in Names, NEW B, Making(t, n, B), NEW i \in Slots, notify'[i] # {}
          PROVE  /\ qname'[i] # None /\ notify'[i] = {NBit} /\ owner'[i] \in Dispatchers
                 /\ stage'[owner'[i]] # "start" /\ handle'[owner'[i]] = qid'[i]
      <3>1. CASE B = {} /\ t \notin Dispatchers /\ UNCHANGED stage
        <4>1. UNCHANGED <<owner[i], notify[i], qid[i]>>
          BY <2>1, <3>1, ZenonT(60) DEF Making, Refound, Remade, Refused
        <4>0. qname'[i] # None
          BY <2>1, <2>0, <4>1 DEF Notified
        <4>2. owner[i] # t
          BY <2>1, <3>1, <4>1 DEF Notified
        <4>3. \A u \in Clients : u # t => handle'[u] = handle[u]
          BY <2>1, ZenonT(60) DEF Making, Refound, Remade, Refused
        <4>4. Dispatchers \subseteq Clients
          OBVIOUS
        <4> QED BY <2>1, <3>1, <4>0, <4>1, <4>2, <4>3, <4>4, ZenonT(60) DEF Notified
      <3>2. CASE /\ B = {NBit} /\ t \in Dispatchers
                 /\ stage[t] = "start" /\ stage' = [stage EXCEPT ![t] = "idle"]
        <4>1. CASE notify'[i] = notify[i] /\ owner'[i] = owner[i] /\ qid'[i] = qid[i]
          <5>1. owner[i] # t
            BY <2>1, <3>2, <4>1 DEF Notified
          <5>2. \A u \in Clients : u # t => handle'[u] = handle[u] /\ stage'[u] = stage[u]
            BY <2>1, <3>2, ZenonT(60) DEF Making, Refound, Remade, Refused, CallsOK
          <5>0. qname'[i] # None
            BY <2>1, <2>0, <4>1 DEF Notified
          <5>3. /\ notify[i] = {NBit} /\ owner[i] \in Dispatchers /\ owner[i] \in Clients
                /\ stage[owner[i]] # "start" /\ handle[owner[i]] = qid[i]
            BY <2>1, <4>1 DEF Notified
          <5> QED BY <4>1, <5>0, <5>1, <5>2, <5>3
        <4>2. CASE ~ (notify'[i] = notify[i] /\ owner'[i] = owner[i] /\ qid'[i] = qid[i])
          <5>1. /\ qname'[i] # None /\ notify'[i] = {NBit}
                /\ owner'[i] = t /\ handle'[t] = qid'[i]
            <6>1. ASSUME NEW k \in Slots, Refound(t, k, n, B) \/ Remade(t, k, n, B)
                  PROVE  /\ qname'[i] # None /\ notify'[i] = {NBit}
                         /\ owner'[i] = t /\ handle'[t] = qid'[i]
              BY <3>2, <4>2, <6>1, TakenOver
            <6>3. ~ Refused(t)
              BY <4>2 DEF Refused
            <6> QED BY <2>1, <6>1, <6>3 DEF Making
          <5>2. stage'[t] = "idle"
            BY <3>2 DEF CallsOK
          <5> QED BY <3>2, <5>1, <5>2
        <4> QED BY <4>1, <4>2
      <3> QED BY <2>1, <3>1, <3>2 DEF Making
    <2>2. ASSUME NEW k \in Slots, Deleting(t, k), NEW i \in Slots, notify'[i] # {}
          PROVE  /\ qname'[i] # None /\ notify'[i] = {NBit} /\ owner'[i] \in Dispatchers
                 /\ stage'[owner'[i]] # "start" /\ handle'[owner'[i]] = qid'[i]
      <3>1. i # k /\ UNCHANGED <<qname[i], notify[i], owner[i], qid[i], handle>>
        BY <2>2 DEF Deleting, Free
      <3>2. \A u \in Clients : stage'[u] = "start" => stage[u] = "start"
        BY <2>2 DEF Deleting, CallsOK
      <3>3. /\ qname[i] # None /\ notify[i] = {NBit} /\ owner[i] \in Dispatchers /\ owner[i] \in Clients
            /\ stage[owner[i]] # "start" /\ handle[owner[i]] = qid[i]
        BY <2>2, <3>1 DEF Notified
      <3> QED BY <3>1, <3>2, <3>3
    <2> QED BY <1>5, <2>1, <2>2, TablingCases DEF Notified
  <1> QED BY <1>2, <1>3, <1>4, <1>5, StepCases

-----------------------------------------------------------------------------
(* Readers                                                                 *)

\* No message that the slot still holds came since u looked.
Looked(u) == seen[u] <= tail[slot[u]] /\ (seen[u] = tail[slot[u]] => msgs[slot[u]] = <<>>)

LEMMA BlockedIs == Blocked <=> \A u \in Clients : stage[u] = "block" /\ ~ Stale(u) => Looked(u)
  BY DEF Blocked, Looked

(* A reader whose queue is the one it asked for, after a step on the       *)
(* table, had the same queue before it, with the same ring.                *)
LEMMA StaleStays ==
    ASSUME QInv, NEW t \in Clients, Tabling(t), NEW u \in Clients,
           stage'[u] \in {"block", "asleep"}, ~ Stale(u)'
    PROVE  /\ stage'[u] = stage[u] /\ slot'[u] = slot[u] /\ slot[u] \in Slots /\ ~ Stale(u)
           /\ msgs'[slot[u]] = msgs[slot[u]] /\ tail'[slot[u]] = tail[slot[u]]
  <1> USE DEF QInv, TableTypeOK
  <1>1. ASSUME NEW n \in Names, NEW B, Making(t, n, B)
        PROVE  /\ stage'[u] = stage[u] /\ slot'[u] = slot[u] /\ slot[u] \in Slots /\ ~ Stale(u)
               /\ msgs'[slot[u]] = msgs[slot[u]] /\ tail'[slot[u]] = tail[slot[u]]
    <2>1. u # t /\ stage'[u] = stage[u] /\ slot'[u] = slot[u]
      BY <1>1 DEF Making, CallsOK
    <2>2. slot[u] \in Slots
      BY <2>1 DEF CallsOK, Holding, Reading
    <2>3. handle'[u] = handle[u] /\ handle[u] < next_q /\ next_q \in Nat
      BY <1>1, <2>1, SlotTypes, NextQ DEF Making, Refound, Remade, Refused, DistinctQueues
    <2>4. qname'[slot[u]] # None /\ qid'[slot[u]] = handle[u]
      BY <2>1, <2>2, <2>3 DEF Stale, SlotsOf, Used
    <2>5. ASSUME NEW i \in Slots, Remade(t, i, n, B) PROVE i # slot[u]
      <3>1. qid'[i] = next_q
        BY <2>5 DEF Remade
      <3>2. handle[u] \in Nat
        BY IdBounds
      <3>3. handle[u] # next_q
        BY <2>3, <3>2, Smaller, Zenon
      <3> QED BY <2>4, <3>1, <3>3
    <2>6. /\ UNCHANGED <<qname[slot[u]], qid[slot[u]]>>
          /\ msgs'[slot[u]] = msgs[slot[u]] /\ tail'[slot[u]] = tail[slot[u]]
      BY <1>1, <2>2, <2>5, ZenonT(60) DEF Making, Refound, Remade, Refused, RingsOK
    <2> QED BY <2>1, <2>2, <2>4, <2>6 DEF Stale, SlotsOf, Used
  <1>2. ASSUME NEW k \in Slots, Deleting(t, k)
        PROVE  /\ stage'[u] = stage[u] /\ slot'[u] = slot[u] /\ slot[u] \in Slots /\ ~ Stale(u)
               /\ msgs'[slot[u]] = msgs[slot[u]] /\ tail'[slot[u]] = tail[slot[u]]
    <2>1. u # t /\ stage'[u] = stage[u] /\ slot'[u] = slot[u]
      BY <1>2 DEF Deleting, CallsOK
    <2>2. slot[u] \in Slots
      BY <2>1 DEF CallsOK, Holding, Reading
    <2>3. handle' = handle
      BY <1>2 DEF Deleting
    <2>4. qname'[slot[u]] # None /\ qid'[slot[u]] = handle[u]
      BY <2>1, <2>2, <2>3 DEF Stale, SlotsOf, Used
    <2>5. k # slot[u]
      BY <1>2, <2>4 DEF Deleting, Free
    <2>6. qname'[slot[u]] = qname[slot[u]] /\ qid'[slot[u]] = qid[slot[u]]
      BY <1>2, <2>2, <2>5 DEF Deleting, Free
    <2>7. msgs'[slot[u]] = msgs[slot[u]] /\ tail'[slot[u]] = tail[slot[u]]
      BY <1>2, <2>2, <2>5 DEF Deleting, RingsOK
    <2> QED BY <2>1, <2>2, <2>4, <2>6, <2>7 DEF Stale, SlotsOf, Used
  <1> QED BY <1>1, <1>2, TablingCases

(* What a step outside the table leaves of a sleeper's or a waker's call.  *)
LEMMA SameStale ==
    ASSUME UNCHANGED tableVars, NEW u, slot'[u] = slot[u]
    PROVE  Stale(u)' <=> Stale(u)
  BY DEF tableVars, slotVars, Stale, SlotsOf, Used

\* u has been on its way to sleep with the same slot and the same counter.
Stays(u) == stage[u] = stage'[u] /\ slot'[u] = slot[u] /\ seen'[u] = seen[u]

LEMMA PlacingBlocks ==
    ASSUME CallsOK, NEW t \in Clients, Placing(t), NEW u \in Clients, stage'[u] = "block"
    PROVE  Stays(u) \/ (/\ slot'[u] = slot[u] /\ seen'[u] = tail[slot[u]]
                        /\ msgs[slot[u]] = <<>> /\ slot[u] \in Slots)
  <1> USE DEF CallsOK, Stage, Stays
  <1>1. CASE FindNone(t)
    <2>1. CASE LeaveRead(t)
      BY <2>1 DEF LeaveRead
    <2>2. CASE ~ LeaveRead(t)
      BY <1>1, <2>2, ZenonT(60) DEF FindNone, Holding, Reading
    <2> QED BY <2>1, <2>2
  <1>2. CASE Q_send(t) \/ Q_read(t)
    BY <1>2 DEF Q_send, Q_read, CallRead
  <1>3. CASE WakeDeleted(t)
    BY <1>3 DEF WakeDeleted, WakeSlot
  <1>4. CASE BlockOnTail(t)
    BY <1>4 DEF BlockOnTail
  <1>5. CASE Awake(t) \/ ReadDisturbed(t)
    BY <1>5 DEF Awake, LeaveRead, ReadDisturbed
  <1> QED BY <1>1, <1>2, <1>3, <1>4, <1>5 DEF Placing

LEMMA BlockedStep ==
    ASSUME QInv, [Next]_vars
    PROVE  Blocked'
  <1> USE DEF QInv
  <1> SUFFICES ASSUME NEW u \in Clients, stage'[u] = "block", ~ Stale(u)'
               PROVE  Looked(u)'
    BY DEF Blocked, Looked
  <1>0. ASSUME Stays(u), UNCHANGED <<tableVars, ringVars>> PROVE Looked(u)'
    <2>1. ~ Stale(u) /\ stage[u] = "block"
      BY <1>0, SameStale DEF Stays
    <2>2. Looked(u)
      BY <2>1, BlockedIs
    <2> QED BY <1>0, <2>2 DEF Stays, Looked, ringVars
  <1>1. CASE UNCHANGED vars
    BY <1>0, <1>1 DEF vars, queueVars, stageVars, Stays
  <1>2. ASSUME NEW t \in Tasks, EventOnly(t) PROVE Looked(u)'
    BY <1>0, <1>2, EventCases DEF queueVars, stageVars, Stays
  <1>3. ASSUME NEW t \in Clients, Placing(t) PROVE Looked(u)'
    <2>1. UNCHANGED <<tableVars, ringVars>>
      BY <1>3, Frames
    <2>2. CASE Stays(u)
      BY <1>0, <2>1, <2>2
    <2>3. CASE /\ slot'[u] = slot[u] /\ seen'[u] = tail[slot[u]]
               /\ msgs[slot[u]] = <<>> /\ slot[u] \in Slots
      <3>1. tail[slot[u]] \in Int
        BY <2>3, QueueAssumption DEF RingsOK
      <3> QED BY <2>1, <2>3, <3>1 DEF Looked, ringVars
    <2> QED BY <1>3, <2>2, <2>3, PlacingBlocks
  <1>4. ASSUME NEW t \in Clients, Tabling(t) PROVE Looked(u)'
    <2>1. UNCHANGED seen
      BY <1>4, Frames
    <2>2. /\ stage'[u] = stage[u] /\ slot'[u] = slot[u] /\ ~ Stale(u)
          /\ msgs'[slot[u]] = msgs[slot[u]] /\ tail'[slot[u]] = tail[slot[u]]
      BY <1>4, StaleStays
    <2>3. Looked(u)
      BY <2>2, BlockedIs
    <2> QED BY <2>1, <2>2, <2>3 DEF Looked
  <1>5. ASSUME NEW t \in Clients, Moving(t) PROVE Looked(u)'
    <2>1. ASSUME NEW i, (\E k : Stored(t, i, k)) \/ Fetched(t, i)
          PROVE  u # t /\ Stays(u) /\ Looked(u) /\ slot[u] \in Slots
      <3>1. u # t
        BY <2>1 DEF Stored, Fetched, Left, CallsOK
      <3>2. Stays(u)
        BY <2>1, <3>1 DEF Stored, Fetched, Left, CallsOK, Stays
      <3>3. UNCHANGED tableVars
        BY <1>5, Frames
      <3>4. Looked(u)
        BY <3>2, <3>3, SameStale, BlockedIs DEF Stays
      <3> QED BY <3>1, <3>2, <3>4 DEF Stays, CallsOK, Holding, Reading
    <2>2. ASSUME NEW i \in Slots, NEW k \in Kinds, Stored(t, i, k) PROVE Looked(u)'
      <3>1. Stays(u) /\ Looked(u) /\ slot[u] \in Slots
        BY <2>1, <2>2
      <3>2. tail[i] \in Nat /\ seen[u] \in Nat
        BY QueueAssumption DEF RingsOK, CallsOK
      <3>3. CASE slot[u] = i
        <4>1. tail'[i] = tail[i] + 1
          BY <2>2 DEF Stored, RingsOK
        <4>2. seen[u] <= tail[i]
          BY <3>1, <3>3 DEF Looked
        <4>3. seen[u] <= tail'[i] /\ seen[u] # tail'[i]
          BY <3>2, <4>1, <4>2
        <4> QED BY <3>1, <3>3, <4>3 DEF Looked, Stays
      <3>4. CASE slot[u] # i
        <4>1. tail'[slot[u]] = tail[slot[u]] /\ msgs'[slot[u]] = msgs[slot[u]]
          BY <2>2, <3>1, <3>4 DEF Stored, RingsOK
        <4> QED BY <3>1, <4>1 DEF Looked, Stays
      <3> QED BY <3>3, <3>4
    <2>3. ASSUME NEW i \in Slots, Fetched(t, i) PROVE Looked(u)'
      <3>1. Stays(u) /\ Looked(u) /\ slot[u] \in Slots
        BY <2>1, <2>3
      <3>2. UNCHANGED tail
        BY <2>3 DEF Fetched
      <3>3. msgs[slot[u]] = <<>> => msgs'[slot[u]] = <<>>
        BY <2>3, <3>1 DEF Fetched, RingsOK
      <3> QED BY <3>1, <3>2, <3>3 DEF Looked, Stays
    <2> QED BY <1>5, <2>2, <2>3, MovingCases
  <1>6. ASSUME NEW t \in Clients, WakeReaders(t) PROVE Looked(u)'
    <2>1. Stays(u)
      BY <1>6 DEF WakeReaders, WakeSlot, CallsOK, Stays
    <2> QED BY <1>0, <1>6, <2>1, Frames
  <1>7. ASSUME NEW t \in Clients, Dispatching(t) PROVE Looked(u)'
    <2>1. Stays(u)
      BY <1>7 DEF Dispatching, DispatchWait, DispatchRead, CallRead, Stage, CallsOK, Stays,
                  queueVars, stageVars
    <2> QED BY <1>0, <1>7, <2>1, Frames
  <1> QED BY <1>1, <1>2, <1>3, <1>4, <1>5, <1>6, <1>7, StepCases

\* Somebody is about to wake the readers of slot i.
Waking(i) == \E w \in Clients : stage[w] = "wake readers" /\ slot[w] = i

LEMMA MissedIs ==
    NoMissedMessage <=>
        \A u \in Clients : stage[u] = "asleep" /\ ~ Stale(u) /\ msgs[slot[u]] # <<>>
                             => Waking(slot[u])
  BY DEF NoMissedMessage, Waking

(* A message that a sleeper has not seen is put there by a sender who is   *)
(* about to wake the readers; a reader falls asleep only if its counter is *)
(* still the one it read on an empty ring.                                 *)
LEMMA MessageStep ==
    ASSUME QInv, [Next]_vars
    PROVE  NoMissedMessage'
  <1> USE DEF QInv
  <1> SUFFICES ASSUME NEW u \in Clients, stage'[u] = "asleep", ~ Stale(u)',
                      msgs'[slot'[u]] # <<>>
               PROVE  Waking(slot[u])' /\ slot'[u] = slot[u]
    BY DEF NoMissedMessage, Waking
  <1> DEFINE Goal == Waking(slot[u])' /\ slot'[u] = slot[u]
  \* The sleeper slept before, on the same queue, and the waker has not moved.
  <1>0. ASSUME stage[u] = "asleep", slot'[u] = slot[u], ~ Stale(u), msgs[slot[u]] # <<>>,
               \A w \in Clients : stage[w] = "wake readers" /\ slot[w] = slot[u]
                   => stage'[w] = "wake readers" /\ slot'[w] = slot[w]
        PROVE  Goal
    <2>1. PICK w \in Clients : stage[w] = "wake readers" /\ slot[w] = slot[u]
      BY <1>0, MissedIs DEF Waking
    <2>2. stage'[w] = "wake readers" /\ slot'[w] = slot[u]'
      BY <1>0, <2>1
    <2> QED BY <1>0, <2>2 DEF Waking
  <1>1. ASSUME UNCHANGED <<tableVars, ringVars, stageVars>> PROVE Goal
    <2>1. ~ Stale(u)
      BY <1>1, SameStale DEF stageVars
    <2> QED BY <1>0, <1>1, <2>1 DEF stageVars, ringVars
  <1>2. CASE UNCHANGED vars
    BY <1>1, <1>2 DEF vars, queueVars
  <1>3. ASSUME NEW t \in Tasks, EventOnly(t) PROVE Goal
    BY <1>1, <1>3, EventCases DEF queueVars
  <1>4. ASSUME NEW t \in Clients, Placing(t) PROVE Goal
    <2>0. UNCHANGED <<tableVars, ringVars>>
      BY <1>4, Frames
    <2>1. CASE u = t
      <3>1. /\ stage[u] = "block" /\ tail[slot[u]] = seen[u] /\ slot'[u] = slot[u]
        BY <1>4, <2>1 DEF Placing, Q_send, Q_read, CallRead, WakeDeleted, WakeSlot, FindNone,
                          LeaveRead, BlockOnTail, Awake, ReadDisturbed, Stage, CallsOK
      <3>2. ~ Stale(u)
        BY <2>0, <3>1, SameStale
      <3>3. Looked(u)
        BY <3>1, <3>2, BlockedIs
      <3> QED BY <2>0, <3>1, <3>3 DEF Looked, ringVars
    <2>2. CASE u # t
      <3>1. stage[u] = "asleep" /\ slot'[u] = slot[u]
        BY <1>4, <2>2 DEF Placing, Q_send, Q_read, CallRead, WakeDeleted, WakeSlot, FindNone,
                          LeaveRead, BlockOnTail, Awake, ReadDisturbed, Stage, CallsOK
      <3>2. \A w \in Clients : stage[w] = "wake readers"
              => stage'[w] = "wake readers" /\ slot'[w] = slot[w]
        BY <1>4 DEF Placing, Q_send, Free4Call, Q_read, CallRead, WakeDeleted, WakeSlot,
                    FindNone, LeaveRead, BlockOnTail, Awake, ReadDisturbed, Stage, CallsOK
      <3>3. ~ Stale(u) /\ msgs[slot[u]] # <<>>
        BY <2>0, <3>1, SameStale DEF ringVars
      <3> QED BY <1>0, <3>1, <3>2, <3>3
    <2> QED BY <2>1, <2>2
  <1>5. ASSUME NEW t \in Clients, Tabling(t) PROVE Goal
    <2>1. /\ stage[u] = "asleep" /\ slot'[u] = slot[u] /\ ~ Stale(u)
          /\ msgs[slot[u]] # <<>>
      BY <1>5, StaleStays
    <2>2. \A w \in Clients : stage[w] = "wake readers"
            => stage'[w] = "wake readers" /\ slot'[w] = slot[w]
      BY <1>5, TablingCases DEF Making, Deleting, CallsOK
    <2> QED BY <1>0, <2>1, <2>2
  <1>6. ASSUME NEW t \in Clients, Moving(t) PROVE Goal
    <2>0. UNCHANGED tableVars
      BY <1>6, Frames
    <2>1. ASSUME NEW i \in Slots, NEW k \in Kinds, Stored(t, i, k) PROVE Goal
      <3>1. stage[u] = "asleep" /\ slot'[u] = slot[u] /\ u # t
        BY <2>1 DEF Stored, CallsOK
      <3>2. CASE slot[u] = i
        <4>1. stage'[t] = "wake readers" /\ slot'[t] = slot[u]'
          BY <2>1, <3>1, <3>2 DEF Stored, CallsOK
        <4> QED BY <3>1, <4>1 DEF Waking
      <3>3. CASE slot[u] # i
        <4>1. msgs[slot[u]] # <<>>
          BY <2>1, <3>1, <3>3 DEF Stored, RingsOK, CallsOK, Holding, Reading
        <4>2. \A w \in Clients : stage[w] = "wake readers"
                => stage'[w] = "wake readers" /\ slot'[w] = slot[w]
          BY <2>1 DEF Stored, CallsOK
        <4>3. ~ Stale(u)
          BY <2>0, <3>1, SameStale
        <4> QED BY <1>0, <3>1, <4>1, <4>2, <4>3
      <3> QED BY <3>2, <3>3
    <2>2. ASSUME NEW i \in Slots, Fetched(t, i) PROVE Goal
      <3>1. stage[u] = "asleep" /\ slot'[u] = slot[u] /\ u # t
        BY <2>2 DEF Fetched, Left, CallsOK
      <3>2. slot[u] \in Slots
        BY <3>1 DEF CallsOK, Holding, Reading
      <3>3. msgs[slot[u]] # <<>>
        BY <2>2, <3>1, <3>2 DEF Fetched, RingsOK
      <3>4. \A w \in Clients : stage[w] = "wake readers"
              => stage'[w] = "wake readers" /\ slot'[w] = slot[w]
        BY <2>2 DEF Fetched, Left, CallsOK
      <3>5. ~ Stale(u)
        BY <2>0, <3>1, SameStale
      <3> QED BY <1>0, <3>1, <3>3, <3>4, <3>5
    <2> QED BY <1>6, <2>1, <2>2, MovingCases
  <1>7. ASSUME NEW t \in Clients, WakeReaders(t) PROVE Goal
    <2>0. UNCHANGED <<tableVars, ringVars>>
      BY <1>7, Frames
    <2>1. /\ stage[t] = "wake readers"
          /\ stage' = [w \in Clients |->
                         IF w = t THEN "idle"
                         ELSE IF stage[w] = "asleep" /\ slot[w] = slot[t] THEN "woken"
                         ELSE stage[w]]
          /\ slot' = [slot EXCEPT ![t] = 0]
      BY <1>7 DEF WakeReaders, WakeSlot
    <2>2. u # t /\ stage[u] = "asleep" /\ slot[u] # slot[t] /\ slot'[u] = slot[u]
      BY <2>1 DEF CallsOK
    <2>3. \A w \in Clients : stage[w] = "wake readers" /\ slot[w] = slot[u]
            => stage'[w] = "wake readers" /\ slot'[w] = slot[w]
      BY <2>1, <2>2 DEF CallsOK
    <2>4. ~ Stale(u) /\ msgs[slot[u]] # <<>>
      BY <2>0, <2>2, SameStale DEF ringVars
    <2> QED BY <1>0, <2>2, <2>3, <2>4
  <1>8. ASSUME NEW t \in Clients, Dispatching(t) PROVE Goal
    <2>0. UNCHANGED <<tableVars, ringVars>>
      BY <1>8, Frames
    <2>1. stage[t] = "idle" /\ \A w \in Clients : w # t => stage'[w] = stage[w] /\ slot'[w] = slot[w]
      BY <1>8 DEF Dispatching, DispatchWait, DispatchRead, Free4Call, CallRead, Stage, CallsOK,
                  queueVars, stageVars
    <2>2. stage'[t] # "asleep"
      BY <1>8 DEF Dispatching, DispatchWait, DispatchRead, Free4Call, CallRead, Stage, CallsOK,
                  queueVars, stageVars
    <2>3. stage[u] = "asleep" /\ slot'[u] = slot[u]
      BY <2>1, <2>2
    <2>4. ~ Stale(u) /\ msgs[slot[u]] # <<>>
      BY <2>0, <2>3, SameStale DEF ringVars
    <2> QED BY <1>0, <2>1, <2>3, <2>4
  <1> QED BY <1>2, <1>3, <1>4, <1>5, <1>6, <1>7, <1>8, StepCases

-----------------------------------------------------------------------------
LEMMA QInvInit == QueueInit => QInv
  <1> SUFFICES ASSUME QueueInit PROVE QInv
    OBVIOUS
  <1> USE QueueAssumption
  <1>0. Init /\ TableInit
    BY DEF QueueInit
  <1>1. TypeOK /\ LoadedInVain /\ NoMissedEvent
    BY <1>0, EvInitInv DEF EvIInv
  <1>2. TableTypeOK /\ DistinctQueues
    BY <1>0, TableInitInv, DistinctIs DEF TableIInv
  <1>3. 0 \in 0..MaxTail /\ 0 \in 0..MAXQ
    BY TableAssumption
  <1>4. RingsOK
    <2>1. <<>> \in Seq(Kinds) /\ Len(<<>>) = 0 /\ 0 <= QSLOTS
      BY EmptySeq
    <2> QED BY <1>3, <2>1 DEF QueueInit, RingsOK
  <1>5. CallsOK
    BY <1>0, <1>3 DEF QueueInit, Init, CallsOK, Stages, Holding, Reading
  <1>6. WaitsOK
    BY <1>0 DEF Init, WaitsOK, Receiving
  <1>7. Notified
    BY <1>0 DEF TableInit, Notified
  <1>8. Blocked /\ NoMissedMessage
    BY DEF QueueInit, Blocked, NoMissedMessage
  <1> QED BY <1>1, <1>2, <1>4, <1>5, <1>6, <1>7, <1>8 DEF QInv

LEMMA QInvStep == QInv /\ [Next]_vars => QInv'
  <1> SUFFICES ASSUME QInv, [Next]_vars PROVE QInv'
    OBVIOUS
  <1>1. TypeOK'
    BY EventTypes
  <1>2. TableTypeOK' /\ DistinctQueues' /\ RingsOK'
    BY TableRings
  <1>3. CallsOK' /\ WaitsOK'
    BY CallsStep, WaitsStep
  <1>4. Notified'
    BY NotifiedStep
  <1>5. LoadedInVain' /\ NoMissedEvent'
    BY SleepStep
  <1>6. Blocked' /\ NoMissedMessage'
    BY BlockedStep, MessageStep
  <1> QED BY <1>1, <1>2, <1>3, <1>4, <1>5, <1>6 DEF QInv

(* The inductive invariant holds in every reachable state.                 *)
THEOREM QueueInvariance == Spec => []QInv
  BY QInvInit, QInvStep, PTL DEF Spec

LEMMA QInvTypes == QInv => QueueTypeOK
  <1> SUFFICES ASSUME QInv PROVE QueueTypeOK
    OBVIOUS
  <1>1. msgs \in [Slots -> UNION {[1..n -> Kinds] : n \in 0..QSLOTS}]
    BY RingIs DEF QInv, RingsOK
  <1> QED BY <1>1 DEF QInv, RingsOK, CallsOK, Stages, QueueTypeOK

(* Queues, rings and calls keep their types: no ring holds more than       *)
(* QSLOTS messages, and q_send() and q_read() work with slots of the table *)
(* even when the queue they looked up is gone.                             *)
THEOREM QueueTyped == Spec => []QueueTypeOK
  BY QueueInvariance, QInvTypes, PTL

(* Nobody sleeps in q_read() on a message, however many tasks send to a    *)
(* queue, read from it, create and delete it at once.                      *)
THEOREM NoMessageMissed == Spec => []NoMissedMessage
  <1>1. QInv => NoMissedMessage
    BY DEF QInv
  <1> QED BY <1>1, QueueInvariance, PTL

(* The events stay sound under the queues: no dispatcher sleeps on a set   *)
(* bit.                                                                    *)
THEOREM QueueEvents == Spec => []NoMissedEvent
  <1>1. QInv => NoMissedEvent
    BY DEF QInv
  <1> QED BY <1>1, QueueInvariance, PTL

-----------------------------------------------------------------------------
(* Dispatchers.  What follows is for the default, in which no peer comes   *)
(* before the dispatcher, and for HEROSCALL_QNOTIFY_LEVEL, with or without *)
(* such a peer: Early \subseteq {TRUE}.  A queue that a peer has filled    *)
(* before the dispatcher took it over is not announced by any event, and   *)
(* only the option makes up for it.                                        *)

\* A queue that a dispatcher is still to create has no other maker.
Held ==
    level \notin Early =>
        \A o \in Dispatchers : stage[o] = "start" =>
            \A i \in Slots : qname[i] = inputOf[o] => notify[i] # {}

\* A dispatcher that reads has used up its event.
Cleared == \A o \in Dispatchers : stage[o] = "read" => NBit \notin got[o]

\* The notify bit of queue i is set, on its way, or in the hands of o; or o
\* has yet to look for messages.
Announced(i, o) ==
    \/ NBit \in events[o]
    \/ \E w \in Clients :
         stage[w] = "wake readers" /\ slot[w] = i /\ post[w] = {NBit} /\ dest[w] = o
    \/ \E w \in Tasks : pc[w] = "or" /\ dest[w] = o /\ NBit \in post[w]
    \/ pc[o] = "idle" /\ (NBit \in got[o] \/ (stage[o] = "read" /\ slot[o] = i))
    \/ level /\ pc[o] \notin {"block", "asleep"}

\* The messages of a dispatcher's queue are announced.
Served == \A i \in Slots : notify[i] # {} /\ msgs[i] # <<>> => Announced(i, owner[i])

LInv == QInv /\ Held /\ Cleared /\ Served

LEMMA HeldStep ==
    ASSUME QInv, Held, [Next]_vars
    PROVE  Held'
  <1> USE QueueAssumption, TableAssumption DEF QInv
  <1>0. level' = level
    <2>1. CASE UNCHANGED vars
      BY <2>1 DEF vars, queueVars, stageVars
    <2>2. ASSUME NEW t \in Tasks, EventOnly(t) PROVE level' = level
      BY <2>2, EventCases DEF queueVars, stageVars
    <2>3. ASSUME NEW t \in Clients, Placing(t) \/ Tabling(t) \/ Moving(t) \/ WakeReaders(t)
          PROVE  level' = level
      BY <2>3, Frames DEF Placing, Q_send, Q_read, CallRead, WakeDeleted, FindNone, LeaveRead,
                          BlockOnTail, Awake, ReadDisturbed, Moving, Store, Dequeue, WakeReaders
    <2>4. ASSUME NEW t \in Clients, Dispatching(t) PROVE level' = level
      BY <2>4 DEF Dispatching, DispatchWait, DispatchRead, CallRead, queueVars, stageVars
    <2> QED BY <2>1, <2>2, <2>3, <2>4, StepCases
  <1> SUFFICES ASSUME level \notin Early, NEW o \in Dispatchers, stage'[o] = "start",
                      NEW i \in Slots, qname'[i] = inputOf[o]
               PROVE  notify'[i] # {}
    BY <1>0 DEF Held
  <1>1. stage[o] = "start"
    BY StartStays
  <1>2. qname[i] = inputOf[o] => notify[i] # {}
    BY <1>1 DEF Held
  <1>3. ASSUME UNCHANGED tableVars PROVE notify'[i] # {}
    BY <1>2, <1>3 DEF tableVars, slotVars
  <1>4. ASSUME NEW t \in Clients, Tabling(t) PROVE notify'[i] # {}
    <2> USE DEF TableTypeOK
    <2>1. ASSUME NEW n \in Names, NEW B, Making(t, n, B) PROVE notify'[i] # {}
      <3>1. ASSUME NEW k \in Slots, Refound(t, k, n, B) PROVE notify'[i] # {}
        <4>1. notify' = notify \/ (B # {} /\ notify' = [notify EXCEPT ![k] = B])
          BY <3>1 DEF Refound
        <4>2. qname'[i] = qname[i]
          BY <3>1 DEF Refound
        <4> QED BY <1>2, <4>1, <4>2
      <3>2. ASSUME NEW k \in Slots, Remade(t, k, n, B) PROVE notify'[i] # {}
        <4>1. CASE i = k
          <5>1. n = inputOf[o]
            BY <3>2, <4>1 DEF Remade
          <5>2. B # {}
            BY <1>1, <2>1, <5>1 DEF Making
          <5> QED BY <3>2, <4>1, <5>2 DEF Remade
        <4>2. CASE i # k
          BY <1>2, <3>2, <4>2 DEF Remade
        <4> QED BY <4>1, <4>2
      <3>3. Refused(t) => notify'[i] # {}
        BY <1>2 DEF Refused
      <3> QED BY <2>1, <3>1, <3>2, <3>3 DEF Making
    <2>2. ASSUME NEW k \in Slots, Deleting(t, k) PROVE notify'[i] # {}
      <3>1. inputOf[o] # None
        OBVIOUS
      <3>2. i # k
        BY <2>2, <3>1 DEF Deleting, Free
      <3> QED BY <1>2, <2>2, <3>2 DEF Deleting, Free
    <2> QED BY <1>4, <2>1, <2>2, TablingCases
  <1>5. CASE UNCHANGED vars
    BY <1>3, <1>5 DEF vars
  <1> QED BY <1>3, <1>4, <1>5, EventCases, Frames, StepCases

LEMMA ClearedStep ==
    ASSUME QInv, Cleared, [Next]_vars
    PROVE  Cleared'
  <1> USE QueueAssumption DEF QInv
  <1> SUFFICES ASSUME NEW o \in Dispatchers, stage'[o] = "read" PROVE NBit \notin got'[o]
    BY DEF Cleared
  <1>0. ASSUME stage[o] = "read", got'[o] = got[o] PROVE NBit \notin got'[o]
    BY <1>0 DEF Cleared
  <1>1. CASE UNCHANGED vars
    BY <1>0, <1>1 DEF vars, evVars, recvVars, queueVars, stageVars
  <1>2. ASSUME NEW t \in Tasks, EventOnly(t) PROVE NBit \notin got'[o]
    <2>1. stage[o] = "read" /\ pc[o] = "idle" /\ o \in Tasks
      BY <1>2, EventCases DEF queueVars, stageVars, CallsOK
    <2> QED BY <1>0, <1>2, <2>1, EventIdle
  <1>3. ASSUME NEW t \in Clients, Placing(t) \/ Tabling(t) \/ Moving(t) \/ WakeReaders(t)
        PROVE  NBit \notin got'[o]
    <2>1. UNCHANGED got
      BY <1>3, Frames DEF evVars, recvVars
    <2>2. Placing(t) => stage[o] = "read"
      <3>1. CASE t = o
        <4>1. stage[o] \in {"start", "idle", "read"} /\ o \notin Senders \cup Readers
          BY DEF CallsOK
        <4> QED BY <3>1, <4>1 DEF Placing, Q_send, Q_read, WakeDeleted, FindNone, BlockOnTail,
                                  Awake, ReadDisturbed
      <3>2. CASE t # o
        BY <3>2 DEF Placing, Q_send, Q_read, CallRead, WakeDeleted, WakeSlot, FindNone,
                    LeaveRead, BlockOnTail, Awake, ReadDisturbed, Stage, CallsOK
      <3> QED BY <3>1, <3>2
    <2>3. Tabling(t) => stage[o] = "read"
      BY TablingCases DEF Making, Deleting, CallsOK
    <2>4. Moving(t) \/ WakeReaders(t) => stage[o] = "read"
      BY DEF Moving, Store, Dequeue, LeaveRead, WakeReaders, WakeSlot, Stage, CallsOK
    <2> QED BY <1>0, <1>3, <2>1, <2>2, <2>3, <2>4
  <1>4. ASSUME NEW t \in Clients, Dispatching(t) PROVE NBit \notin got'[o]
    <2>1. CASE DispatchWait(t)
      BY <1>0, <2>1 DEF DispatchWait, CallEvReceive, queueVars, stageVars, TypeOK
    <2>2. CASE DispatchRead(t)
      BY <1>0, <2>2 DEF DispatchRead, CallRead, Stage, CallsOK, TypeOK
    <2> QED BY <1>4, <2>1, <2>2 DEF Dispatching
  <1> QED BY <1>1, <1>2, <1>3, <1>4, StepCases

(* The steps of the event calls take the announcement of queue i from one  *)
(* form to the next, and lose it nowhere: the option does not let o go to  *)
(* sleep with messages in its queue.                                       *)
LEMMA EventServes ==
    ASSUME QInv, NEW t \in Tasks, EventOnly(t), NEW i \in Slots, notify[i] # {}, msgs[i] # <<>>,
           NEW o \in Dispatchers, o = owner[i], Announced(i, o)
    PROVE  Announced(i, o)'
  <1> USE QueueAssumption DEF QInv
  <1>1. /\ o \in Dispatchers /\ o \in Tasks /\ o \in Clients /\ notify[i] = {NBit}
        /\ qname[i] # None
    BY DEF Notified
  <1>2. UNCHANGED <<owner, notify, level, stage, slot>>
    BY EventCases DEF tableVars, slotVars, queueVars, stageVars
  <1>4. pc[o] \in Receiving => want[o] = {NBit} /\ cond[o] = "any" /\ timeout[o] = "forever"
    BY <1>1 DEF WaitsOK
  <1>5. CASE pc[o] = "idle" /\ (NBit \in got[o] \/ (stage[o] = "read" /\ slot[o] = i))
    <2>1. pc'[o] = "idle" /\ got'[o] = got[o]
      BY <1>1, <1>5, EventIdle
    <2> QED BY <1>2, <1>5, <2>1 DEF Announced
  <1>6. CASE Levelled(t)
    <2>1. /\ pc[t] = "level" /\ pc' = [pc EXCEPT ![t] = "token"]
          /\ events' = [events EXCEPT ![t] = @ \cup Pending(t)] /\ UNCHANGED <<dest, post>>
      BY <1>6 DEF Levelled, sendVars
    <2> QED BY <1>1, <1>2, <1>5, <2>1 DEF Announced, TypeOK
  <1>7. CASE Blocking(t)
    <2>1. /\ pc[t] = "level" /\ pc' = [pc EXCEPT ![t] = "block"]
          /\ UNCHANGED <<events, dest, post>>
      BY <1>7 DEF Blocking, GoBlock, Goto, sendVars
    <2>2. ASSUME t = o, level PROVE FALSE
      <3>1. want[o] = {NBit} /\ cond[o] = "any"
        BY <1>4, <2>1, <2>2 DEF Receiving
      <3>2. i \in {j \in Used : owner[j] = o /\ msgs[j] # <<>>}
        BY <1>1 DEF Used
      <3>3. NBit \in Pending(o)
        BY <1>1, <3>1, <3>2 DEF Pending
      <3>4. NBit \in cur[o]
        BY <1>7, <2>2, <3>3 DEF Blocking
      <3>5. ~ Satisfies(o, cur[o])
        BY <1>1, <2>1, <2>2 DEF LoadedInVain
      <3> QED BY <3>1, <3>4, <3>5 DEF Satisfies
    <2> QED BY <1>1, <1>2, <1>5, <2>1, <2>2 DEF Announced, TypeOK
  <1>8. CASE Receipt(t)
    <2>1. /\ UNCHANGED <<dest, post>> /\ pc[t] \in Receiving
          /\ \A u \in Tasks : u # t => pc'[u] = pc[u] /\ events'[u] = events[u]
      BY <1>8 DEF Receipt, TakeToken, Load, Take, Expire, FutexWait, Disturbed, ReturnBits, Goto,
                  sendVars, recvVars, TypeOK, Receiving
    <2>2. CASE t # o
      BY <1>1, <1>2, <1>5, <2>1, <2>2 DEF Announced, Receiving
    <2>3. CASE t = o
      <3>0. want[o] = {NBit} /\ cond[o] = "any" /\ timeout[o] = "forever" /\ orphan = 0
        BY <1>4, <2>1, <2>3 DEF WaitsOK
      <3>1. CASE Take(o)
        <4>1. NBit \in cur[o] \cap want[o]
          BY <1>1, <3>0, <3>1 DEF Take, WaitsOK
        <4>2. pc'[o] = "idle" /\ NBit \in got'[o]
          BY <1>1, <3>1, <4>1 DEF Take, ReturnBits, Goto, TypeOK
        <4> QED BY <4>2 DEF Announced
      <3>2. CASE TakeToken(o) \/ Load(o) \/ Disturbed(o)
        <4>1. events' = events /\ pc'[o] \notin {"block", "asleep"}
          BY <1>1, <3>0, <3>2 DEF TakeToken, Load, Disturbed, Goto, TypeOK
        <4>2. pc[o] # "idle"
          BY <2>1, <2>3 DEF Receiving
        <4>3. pc[o] \in {"block", "asleep"} \/ pc[o] \notin {"block", "asleep"}
          OBVIOUS
        <4> QED BY <1>1, <1>2, <2>1, <2>3, <4>1, <4>2 DEF Announced, Receiving
      <3>3. CASE FutexWait(o)
        <4>1. events' = events /\ pc[o] = "block"
          BY <3>3 DEF FutexWait
        <4> QED BY <1>1, <1>2, <2>1, <2>3, <4>1 DEF Announced
      <3>4. ~ Expire(o)
        BY <3>0 DEF Expire
      <3> QED BY <1>8, <2>3, <3>1, <3>2, <3>3, <3>4 DEF Receipt
    <2> QED BY <2>2, <2>3
  <1>9. CASE EvOr(t)
    <2>1. /\ pc[t] = "or" /\ pc' = [pc EXCEPT ![t] = "wake"] /\ UNCHANGED <<dest, post>>
          /\ events' = [events EXCEPT ![dest[t]] = @ \cup post[t]]
      BY <1>9 DEF EvOr, Goto, sendVars
    <2>2. CASE dest[t] = o /\ NBit \in post[t]
      BY <1>1, <2>1, <2>2 DEF Announced, TypeOK
    <2>3. CASE ~ (dest[t] = o /\ NBit \in post[t])
      BY <1>1, <1>2, <1>5, <2>1, <2>3 DEF Announced, TypeOK
    <2> QED BY <2>2, <2>3
  <1>10. CASE EvWake(t)
    <2>1. /\ pc[t] = "wake" /\ UNCHANGED events
          /\ pc' = [u \in Tasks |->
                      IF u = t THEN "idle"
                      ELSE IF u = dest[t] /\ pc[u] = "asleep" THEN "token"
                      ELSE pc[u]]
          /\ dest' = [dest EXCEPT ![t] = t]
          /\ post' = [post EXCEPT ![t] = {}]
      BY <1>10 DEF EvWake
    <2>2. \A u \in Clients : stage[u] = "wake readers" => u # t
      BY <2>1 DEF CallsOK
    <2>3. /\ \A u \in Tasks : u # t => /\ dest'[u] = dest[u] /\ post'[u] = post[u]
                                       /\ pc[u] # "asleep" => pc'[u] = pc[u]
          /\ pc'[t] = "idle"
      BY <2>1 DEF TypeOK
    <2>4. \A u \in Clients : u \in Tasks
      OBVIOUS
    <2> HIDE DEF QInv
    <2>5. CASE level /\ pc[o] \notin {"block", "asleep"}
      <3>1. pc'[o] \notin {"block", "asleep"}
        BY <1>1, <2>3, <2>5
      <3> QED BY <1>2, <2>5, <3>1 DEF Announced
    <2>6. ASSUME NEW w \in Tasks, pc[w] = "or", dest[w] = o, NBit \in post[w]
          PROVE  Announced(i, o)'
      BY <2>1, <2>3, <2>6 DEF Announced
    <2>7. ASSUME NEW w \in Clients, stage[w] = "wake readers", slot[w] = i,
                 post[w] = {NBit}, dest[w] = o
          PROVE  Announced(i, o)'
      BY <1>2, <2>2, <2>3, <2>4, <2>7 DEF Announced
    <2> QED BY <1>5, <2>1, <2>5, <2>6, <2>7 DEF Announced
  <1> QED BY <1>6, <1>7, <1>8, <1>9, <1>10, EventCases

(* A queue with notify bits is the one its dispatcher has asked for.       *)
LEMMA OwnQueue ==
    ASSUME QInv, NEW i \in Slots, NEW o, o = owner[i], notify[i] # {}
    PROVE  /\ o \in Dispatchers /\ o \in Tasks /\ o \in Clients /\ notify[i] = {NBit}
           /\ qname[i] # None /\ stage[o] # "start" /\ handle[o] = qid[i]
  BY QueueAssumption DEF QInv, Notified

(* A step that changes neither the bits nor the calls of others keeps the  *)
(* announcement, but for what t itself had to do with it.                  *)
LEMMA KeepAnnounced ==
    ASSUME NEW i, NEW t, NEW o, Announced(i, o),
           UNCHANGED <<events, level, dest, post, pc>>,
           \A w \in Clients : w # t => stage'[w] = stage[w] /\ slot'[w] = slot[w],
           stage[t] # "wake readers", o \in Clients, got'[o] = got[o],
           o = t => ~ (stage[o] = "read" /\ slot[o] = i)
    PROVE  Announced(i, o)'
  BY DEF Announced

LEMMA PlacingServes ==
    ASSUME QInv, NEW t \in Clients, Placing(t), NEW i \in Slots, notify[i] # {}, msgs[i] # <<>>,
           NEW o \in Dispatchers, o = owner[i], Announced(i, o)
    PROVE  Announced(i, o)'
  <1> USE QueueAssumption DEF QInv, CallsOK
  <1>0. UNCHANGED <<events, level, dest, post, pc, got>>
    <2>1. UNCHANGED evVars
      BY Frames
    <2>2. UNCHANGED level
      BY DEF Placing, Q_send, Q_read, CallRead, WakeDeleted, FindNone, LeaveRead, BlockOnTail,
             Awake, ReadDisturbed
    <2> QED BY <2>1, <2>2 DEF evVars, recvVars, sendVars
  <1>1. o \in Clients /\ stage[t] # "wake readers"
    BY DEF Placing, Q_send, Q_read, Free4Call, WakeDeleted, FindNone, BlockOnTail, Awake,
           ReadDisturbed
  <1>2. ASSUME t = o PROVE ~ (stage[o] = "read" /\ slot[o] = i)
    BY <1>2 DEF Placing, Q_send, Q_read, Free4Call, WakeDeleted, FindNone, BlockOnTail, Awake,
                ReadDisturbed
  <1>3. CASE ~ WakeDeleted(t)
    <2>1. \A w \in Clients : w # t => stage'[w] = stage[w] /\ slot'[w] = slot[w]
      BY <1>3 DEF Placing, Q_send, Q_read, CallRead, FindNone, LeaveRead, BlockOnTail, Awake,
                  ReadDisturbed, Stage
    <2> QED BY <1>0, <1>1, <1>2, <2>1, KeepAnnounced, ZenonT(60)
  <1>4. CASE WakeDeleted(t)
    <2>1. /\ \A w \in Clients : w # t => slot'[w] = slot[w]
          /\ \A w \in Clients : w # t /\ stage[w] # "asleep" => stage'[w] = stage[w]
      BY <1>4 DEF WakeDeleted, WakeSlot
    <2> QED BY <1>0, <1>1, <1>2, <2>1 DEF Announced
  <1> QED BY <1>3, <1>4

(* The dispatcher that takes a queue over has yet to look for messages,    *)
(* and will: the option is set, or no peer was there before it.            *)
LEMMA TablingServes ==
    ASSUME QInv, Held, Served, Early \subseteq {TRUE}, NEW t \in Clients, Tabling(t),
           NEW i \in Slots, notify'[i] # {}, msgs'[i] # <<>>,
           NEW o, o = owner'[i]
    PROVE  Announced(i, o)'
  <1> USE QueueAssumption DEF QInv
  <1>0. UNCHANGED <<events, level, dest, post, pc, got>>
    BY Frames DEF evVars, recvVars, sendVars
  <1>1. ASSUME owner'[i] = owner[i], notify'[i] = notify[i], msgs'[i] = msgs[i],
               stage[t] \in {"idle", "start"},
               \A w \in Clients : w # t => stage'[w] = stage[w] /\ slot'[w] = slot[w]
        PROVE  Announced(i, o)'
    <2>1. Announced(i, o) /\ o \in Clients
      BY <1>1, OwnQueue DEF Served
    <2> QED BY <1>0, <1>1, <2>1, KeepAnnounced
  <1>2. ASSUME NEW n \in Names, NEW B, Making(t, n, B) PROVE Announced(i, o)'
    <2>1. /\ stage[t] \in {"idle", "start"}
          /\ \A w \in Clients : w # t => stage'[w] = stage[w] /\ slot'[w] = slot[w]
      BY <1>2 DEF Making, CallsOK
    <2>2. ASSUME NEW k \in Slots, Refound(t, k, n, B) PROVE Announced(i, o)'
      <3>1. CASE B # {} /\ notify[k] = {} /\ k = i
        <4>1. /\ t \in Dispatchers /\ stage[t] = "start" /\ pc[t] = "idle"
              /\ qname[i] = inputOf[t]
          BY <1>2, <2>2, <3>1 DEF Making, Refound, CallsOK
        <4>2. level \in Early
          BY <3>1, <4>1 DEF Held
        <4>3. o = t
          BY <2>2, <3>1 DEF Refound, TableTypeOK
        <4> QED BY <1>0, <4>1, <4>2, <4>3 DEF Announced
      <3>2. CASE ~ (B # {} /\ notify[k] = {} /\ k = i)
        <4>1. owner'[i] = owner[i] /\ notify'[i] = notify[i] /\ msgs'[i] = msgs[i]
          BY <2>2, <3>2, ZenonT(60) DEF Refound, TableTypeOK
        <4> QED BY <1>1, <2>1, <4>1
      <3> QED BY <3>1, <3>2
    <2>3. ASSUME NEW k \in Slots, Remade(t, k, n, B) PROVE Announced(i, o)'
      <3>1. k # i
        BY <2>3 DEF Remade, RingsOK
      <3>2. owner'[i] = owner[i] /\ notify'[i] = notify[i] /\ msgs'[i] = msgs[i]
        BY <2>3, <3>1 DEF Remade
      <3> QED BY <1>1, <2>1, <3>2
    <2>4. ASSUME Refused(t) PROVE Announced(i, o)'
      BY <1>1, <2>1, <2>4 DEF Refused
    <2> QED BY <1>2, <2>2, <2>3, <2>4 DEF Making
  <1>3. ASSUME NEW k \in Slots, Deleting(t, k) PROVE Announced(i, o)'
    <2>1. k # i
      BY <1>3 DEF Deleting, RingsOK
    <2>2. /\ owner'[i] = owner[i] /\ notify'[i] = notify[i] /\ msgs'[i] = msgs[i]
          /\ stage[t] = "idle"
      BY <1>3, <2>1 DEF Deleting, Free, TableTypeOK, RingsOK
    <2>3. \A w \in Clients : w # t => stage'[w] = stage[w] /\ slot'[w] = slot[w]
      BY <1>3 DEF Deleting, CallsOK
    <2> QED BY <1>1, <2>2, <2>3
  <1> QED BY <1>2, <1>3, TablingCases

(* A dispatcher that reads its last message is done; one that leaves       *)
(* others behind announces them to itself.                                 *)
LEMMA MovingServes ==
    ASSUME QInv, Cleared, Served, NEW t \in Clients, Moving(t),
           NEW i \in Slots, notify[i] # {}, msgs'[i] # <<>>,
           NEW o, o = owner[i]
    PROVE  Announced(i, o)'
  <1> USE QueueAssumption DEF QInv
  <1>1. /\ o \in Dispatchers /\ o \in Tasks /\ o \in Clients /\ notify[i] = {NBit}
        /\ UNCHANGED <<events, got>>
    BY OwnQueue, Frames DEF recvVars
  <1>2. t \in Tasks /\ pc[t] = "idle"
    BY DEF CallsOK, Moving, Store, Dequeue
  <1>3. ASSUME NEW j \in Slots, NEW k \in Kinds, Stored(t, j, k) PROVE Announced(i, o)'
    <2>1. /\ stage[t] = "store" /\ slot[t] = j
          /\ stage' = [stage EXCEPT ![t] = "wake readers"]
          /\ post' = [post EXCEPT ![t] = notify[j]]
          /\ dest' = [dest EXCEPT ![t] = IF notify[j] # {} THEN owner[j] ELSE t]
          /\ UNCHANGED <<slot, level, pc>>
      BY <1>3 DEF Stored
    <2>2. CASE i = j
      <3>1. /\ stage'[t] = "wake readers" /\ slot'[t] = i
            /\ post'[t] = {NBit} /\ dest'[t] = o
        BY <1>1, <1>2, <2>1, <2>2 DEF CallsOK, TypeOK
      <3> QED BY <3>1 DEF Announced
    <2>3. CASE i # j
      <3>1. msgs'[i] = msgs[i]
        BY <1>3, <2>3 DEF Stored, RingsOK
      <3>2. Announced(i, o)
        BY <3>1 DEF Served
      <3>3. /\ \A w \in Clients : w # t => stage'[w] = stage[w]
            /\ \A w \in Tasks : w # t => post'[w] = post[w] /\ dest'[w] = dest[w]
        BY <2>1 DEF CallsOK, TypeOK
      <3>4. stage[o] = "read" => o # t
        BY <2>1
      <3> QED BY <1>1, <1>2, <2>1, <3>2, <3>3, <3>4, ZenonT(60) DEF Announced
    <2> QED BY <2>2, <2>3
  <1>4. ASSUME NEW j \in Slots, Fetched(t, j) PROVE Announced(i, o)'
    <2>1. /\ stage[t] = "read" /\ slot[t] = j /\ msgs[j] # <<>> /\ UNCHANGED level
          /\ stage' = [stage EXCEPT ![t] = "idle"]
          /\ slot' = [slot EXCEPT ![t] = 0]
      BY <1>4 DEF Fetched, Left
    <2>2. msgs[i] # <<>>
      BY <1>4 DEF Fetched, RingsOK
    <2>3. Announced(i, o)
      BY <2>2 DEF Served
    <2>4. /\ \A w \in Clients : w # t => stage'[w] = stage[w] /\ slot'[w] = slot[w]
          /\ \A w \in Tasks : w # t => /\ post'[w] = post[w] /\ dest'[w] = dest[w]
                                       /\ pc'[w] = pc[w]
      BY <1>4, <2>1 DEF CallsOK, TypeOK, Fetched, CallEvSend, Goto, sendVars
    <2>5. pc'[t] \in {"idle", "or"}
      BY <1>2, <1>4 DEF Fetched, CallEvSend, Goto, sendVars, TypeOK
    <2>6. CASE ~ (t = o /\ j = i)
      <3>1. NBit \in got[o] => stage[o] # "read"
        BY <1>1 DEF Cleared
      <3>2. ASSUME NEW w \in Clients, stage[w] = "wake readers", slot[w] = i,
                   post[w] = {NBit}, dest[w] = o
            PROVE  Announced(i, o)'
        <4>1. w # t /\ w \in Tasks
          BY <2>1, <3>2
        <4> QED BY <2>4, <3>2, <4>1 DEF Announced
      <3>3. ASSUME NEW w \in Tasks, pc[w] = "or", dest[w] = o, NBit \in post[w]
            PROVE  Announced(i, o)'
        <4>1. w # t
          BY <1>2, <3>3
        <4> QED BY <2>4, <3>3, <4>1 DEF Announced
      <3>4. CASE pc[o] = "idle" /\ (NBit \in got[o] \/ (stage[o] = "read" /\ slot[o] = i))
        <4>1. t # o
          BY <2>1, <2>6, <3>1, <3>4
        <4> QED BY <1>1, <2>4, <3>4, <4>1 DEF Announced
      <3>5. CASE level /\ pc[o] \notin {"block", "asleep"}
        BY <1>1, <2>1, <2>4, <2>5, <3>5 DEF Announced
      <3> QED BY <1>1, <2>3, <3>2, <3>3, <3>4, <3>5 DEF Announced
    <2>7. CASE t = o /\ j = i
      <3>1. ~ mode[o].short
        BY <1>1 DEF CallsOK, Poll
      <3>2. /\ msgs' = [msgs EXCEPT ![i] = Tail(@)]
            /\ Len(msgs[i]) > 1 => CallEvSend(o, o, {NBit})
        BY <1>1, <1>4, <2>7, <3>1 DEF Fetched
      <3>3. Len(msgs[i]) > 1
        <4>1. msgs[i] \in Seq(Kinds)
          BY DEF RingsOK
        <4>2. Tail(msgs[i]) # <<>>
          BY <3>2 DEF RingsOK
        <4> QED BY <2>2, <4>1, <4>2
      <3>4. pc'[o] = "or" /\ dest'[o] = o /\ post'[o] = {NBit}
        BY <1>1, <3>2, <3>3 DEF CallEvSend, Goto, TypeOK
      <3> QED BY <1>1, <3>4 DEF Announced
    <2> QED BY <2>6, <2>7
  <1> QED BY <1>3, <1>4, MovingCases

LEMMA WakeServes ==
    ASSUME QInv, NEW t \in Clients, WakeReaders(t), NEW i \in Slots, notify[i] # {},
           NEW o \in Dispatchers, o = owner[i], Announced(i, o)
    PROVE  Announced(i, o)'
  <1> USE QueueAssumption DEF QInv
  <1>1. /\ stage[t] = "wake readers" /\ pc[t] = "idle" /\ t \in Tasks /\ o \in Tasks
        /\ o \in Clients
    BY DEF WakeReaders, CallsOK
  <1>2. /\ pc' = [pc EXCEPT ![t] = IF post[t] = {} THEN "idle" ELSE "or"]
        /\ slot' = [slot EXCEPT ![t] = 0]
        /\ UNCHANGED <<events, got, dest, post, level>>
        /\ \A u \in Clients : u # t /\ stage[u] # "asleep" => stage'[u] = stage[u]
    BY DEF WakeReaders, WakeSlot, Goto, recvVars, sendVars
  <1>3. ASSUME NEW w \in Clients, stage[w] = "wake readers", slot[w] = i,
               post[w] = {NBit}, dest[w] = o
        PROVE  Announced(i, o)'
    <2>1. CASE w = t
      <3>1. pc'[t] = "or"
        BY <1>1, <1>2, <1>3, <2>1 DEF TypeOK
      <3> QED BY <1>1, <1>2, <1>3, <2>1, <3>1 DEF Announced
    <2>2. CASE w # t
      <3>1. slot'[w] = slot[w] /\ stage'[w] = stage[w]
        BY <1>2, <1>3, <2>2 DEF CallsOK
      <3> HIDE DEF QInv
      <3> QED BY <1>2, <1>3, <3>1 DEF Announced
    <2> QED BY <2>1, <2>2
  <1>4. ASSUME NEW w \in Tasks, pc[w] = "or", dest[w] = o, NBit \in post[w]
        PROVE  Announced(i, o)'
    BY <1>1, <1>2, <1>4 DEF Announced, TypeOK
  <1>5. CASE \/ pc[o] = "idle" /\ (NBit \in got[o] \/ (stage[o] = "read" /\ slot[o] = i))
             \/ level /\ pc[o] \notin {"block", "asleep"}
    <2>1. o # t
      BY <1>1 DEF CallsOK
    <2> QED BY <1>1, <1>2, <1>5, <2>1, ZenonT(60) DEF Announced, TypeOK, CallsOK
  <1> QED BY <1>2, <1>3, <1>4, <1>5 DEF Announced

(* The id a dispatcher reads with is the id of its own queue.              *)
LEMMA DispatchServes ==
    ASSUME QInv, NEW t \in Clients, Dispatching(t), NEW i \in Slots, notify[i] # {},
           NEW o \in Dispatchers, o = owner[i], Announced(i, o)
    PROVE  Announced(i, o)'
  <1> USE QueueAssumption DEF QInv
  <1>1. /\ o \in Tasks /\ o \in Clients /\ t \in Tasks /\ pc[t] = "idle" /\ stage[t] = "idle"
        /\ UNCHANGED <<events, level, dest, post>>
    BY Frames DEF Dispatching, DispatchWait, DispatchRead, Free4Call, CallRead, sendVars,
                  queueVars, stageVars
  <1>2. /\ \A w \in Clients : w # t => stage'[w] = stage[w] /\ slot'[w] = slot[w]
        /\ \A w \in Tasks : w # t => pc'[w] = pc[w] /\ got'[w] = got[w]
    BY DEF Dispatching, DispatchWait, DispatchRead, CallEvReceive, Goto, CallRead, Stage,
           queueVars, stageVars, CallsOK, TypeOK
  <1>3. ASSUME NEW w \in Clients, stage[w] = "wake readers", slot[w] = i,
               post[w] = {NBit}, dest[w] = o
        PROVE  Announced(i, o)'
    BY <1>1, <1>2, <1>3 DEF Announced
  <1>4. ASSUME NEW w \in Tasks, pc[w] = "or", dest[w] = o, NBit \in post[w]
        PROVE  Announced(i, o)'
    BY <1>1, <1>2, <1>4 DEF Announced
  <1>5. CASE \/ pc[o] = "idle" /\ (NBit \in got[o] \/ (stage[o] = "read" /\ slot[o] = i))
             \/ level /\ pc[o] \notin {"block", "asleep"}
    <2>1. CASE o # t
      BY <1>1, <1>2, <1>5, <2>1 DEF Announced
    <2>2. CASE o = t /\ DispatchWait(t)
      <3>1. NBit \notin got[o] /\ pc'[o] = "token"
        BY <1>1, <2>2 DEF DispatchWait, CallEvReceive, Goto, TypeOK
      <3> QED BY <1>1, <1>5, <2>2, <3>1 DEF Announced
    <2>3. CASE o = t /\ DispatchRead(t)
      <3>1. UNCHANGED pc /\ CallRead(o, Poll)
        BY <2>3 DEF DispatchRead
      <3>2. stage'[o] = "read" /\ slot'[o] \in SlotsOf(handle[o])
        BY <1>1, <3>1 DEF CallRead, Stage, CallsOK
      <3>3. slot'[o] = i
        BY <3>2, OwnQueue DEF SlotsOf, Used, DistinctQueues
      <3> QED BY <1>1, <2>3, <3>1, <3>2, <3>3 DEF Announced
    <2> QED BY <2>1, <2>2, <2>3 DEF Dispatching
  <1> QED BY <1>1, <1>3, <1>4, <1>5 DEF Announced

LEMMA ServedStep ==
    ASSUME LInv, Early \subseteq {TRUE}, [Next]_vars
    PROVE  Served'
  <1> SUFFICES ASSUME NEW i \in Slots, notify'[i] # {}, msgs'[i] # <<>>, NEW o, o = owner'[i]
               PROVE  Announced(i, o)'
    BY DEF Served, Announced
  <1> USE DEF LInv
  <1>1. ASSUME UNCHANGED <<tableVars, ringVars>>
        PROVE  /\ notify[i] # {} /\ msgs[i] # <<>> /\ o = owner[i] /\ o \in Dispatchers
               /\ Announced(i, o)
    <2>1. notify[i] # {} /\ msgs[i] # <<>> /\ o = owner[i]
      BY <1>1 DEF tableVars, slotVars, ringVars
    <2> QED BY <2>1, OwnQueue DEF Served
  <1>2. CASE UNCHANGED vars
    <2>1. Announced(i, o)
      BY <1>1, <1>2 DEF vars, queueVars
    <2> QED BY <1>2, <2>1 DEF Announced, vars, evVars, recvVars, sendVars, queueVars, stageVars
  <1>3. ASSUME NEW t \in Tasks, EventOnly(t) PROVE Announced(i, o)'
    BY <1>1, <1>3, EventCases, EventServes DEF queueVars
  <1>4. ASSUME NEW t \in Clients, Placing(t) PROVE Announced(i, o)'
    BY <1>1, <1>4, Frames, PlacingServes
  <1>5. ASSUME NEW t \in Clients, Tabling(t) PROVE Announced(i, o)'
    BY <1>5, TablingServes
  <1>6. ASSUME NEW t \in Clients, Moving(t) PROVE Announced(i, o)'
    <2>1. UNCHANGED tableVars
      BY <1>6, Frames
    <2>2. notify[i] # {} /\ o = owner[i]
      BY <2>1 DEF tableVars, slotVars
    <2> QED BY <1>6, <2>2, MovingServes
  <1>7. ASSUME NEW t \in Clients, WakeReaders(t) PROVE Announced(i, o)'
    BY <1>1, <1>7, Frames, WakeServes
  <1>8. ASSUME NEW t \in Clients, Dispatching(t) PROVE Announced(i, o)'
    BY <1>1, <1>8, Frames, DispatchServes
  <1> QED BY <1>2, <1>3, <1>4, <1>5, <1>6, <1>7, <1>8, StepCases

LEMMA LInvInit == QueueInit => LInv
  <1> SUFFICES ASSUME QueueInit PROVE LInv
    OBVIOUS
  <1>1. \A o \in Dispatchers : o \in Clients
    BY QueueAssumption
  <1>2. Held
    BY <1>1, TableAssumption, QueueAssumption DEF QueueInit, TableInit, Held
  <1>3. Cleared /\ Served
    BY <1>1 DEF QueueInit, Cleared, Served
  <1> QED BY <1>2, <1>3, QInvInit DEF LInv

LEMMA LInvStep ==
    ASSUME Early \subseteq {TRUE}
    PROVE  LInv /\ [Next]_vars => LInv'
  BY QInvStep, HeldStep, ClearedStep, ServedStep DEF LInv

(* An announcement reaches a dispatcher that sleeps.                       *)
LEMMA AnnouncedWakes == LInv => NoSleepOnBacklog
  <1> SUFFICES ASSUME LInv, NEW t \in Dispatchers, pc[t] = "asleep", Pending(t) # {}
               PROVE  \E u \in Tasks :
                        \/ u \in Clients /\ stage[u] = "wake readers" /\ notify[slot[u]] # {}
                        \/ pc[u] \in Sending /\ dest[u] = t
    BY DEF NoSleepOnBacklog
  <1> USE QueueAssumption DEF LInv, QInv
  <1>1. PICK i \in Used : owner[i] = t /\ msgs[i] # <<>> /\ notify[i] \cap want[t] # {}
    BY DEF Pending
  <1>2. i \in Slots /\ notify[i] # {} /\ t \in Tasks
    BY <1>1 DEF Used
  <1>3. Announced(i, t)
    BY <1>1, <1>2 DEF Served
  <1>4. want[t] = {NBit} /\ cond[t] = "any"
    BY <1>2 DEF WaitsOK, Receiving
  <1>5. CASE NBit \in events[t]
    <2>1. Satisfies(t, events[t])
      BY <1>4, <1>5 DEF Satisfies
    <2> QED BY <1>2, <2>1 DEF NoMissedEvent, Sending
  <1>6. ASSUME NEW w \in Tasks, pc[w] = "or", dest[w] = t PROVE pc[w] \in Sending
    BY <1>6 DEF Sending
  <1> QED BY <1>2, <1>3, <1>5, <1>6 DEF Announced

(* As long as no peer comes to a dispatcher's queue before the dispatcher, *)
(* or else with HEROSCALL_QNOTIFY_LEVEL, no dispatcher sleeps while a      *)
(* queue of its own holds messages, unless the notify bit is on its way:   *)
(* what q_send() and the second notification of q_read() do suffices.      *)
THEOREM BacklogCovered == (Early \subseteq {TRUE}) => (Spec => []BacklogSound)
  <1> SUFFICES ASSUME Early \subseteq {TRUE} PROVE Spec => []BacklogSound
    OBVIOUS
  <1>1. LInv => BacklogSound
    BY AnnouncedWakes, QInvTypes DEF LInv, BacklogSound
  <1>2. LInv /\ [Next]_vars => LInv'
    BY LInvStep
  <1> QED BY <1>1, <1>2, LInvInit, PTL DEF Spec
=============================================================================
