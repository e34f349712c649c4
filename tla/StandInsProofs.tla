---------------------------- MODULE StandInsProofs ----------------------------
(***************************************************************************)
(* Proofs about what stands in for something that is missing: the relay of *)
(* the event server's broadcasts, for every number of senders and every    *)
(* size of its ring; the replies of a shared queue and the answers to a    *)
(* connect, for every set of readers, families and clients; the shims, for *)
(* every set of places, chunks and errors, and the programs they are       *)
(* loaded into, however many; the libraries that keep a state; what q_send *)
(* posts of its own accord, and the backtraces.                            *)
(***************************************************************************)
EXTENDS MCStandIns, FiniteSetTheorems, SequenceTheorems, WellFoundedInduction, TLAPS

-----------------------------------------------------------------------------
(* The relay                                                               *)

\* The thread that creates the target is of another process than those that
\* send to the event server: a process relays one thing at a time.
RelayApart == \A t \in RlSenders : RlProcess[t] # RlProcess[RlCreator]

RlForwards == [at : {"forward", "send"}, m : Nat]
RlFlushes  == [at : {"flush"}, i : Nat]
RlCreated  == [at |-> "created"]
RlStates   == {RlIdle, RlCreated} \cup RlForwards \cup RlFlushes

RlOnWay(t, m) == rlTask[t].at \in {"forward", "send"} /\ rlTask[t].m = m

\* The i-th message recorded has been posted, or somebody is going to: the one
\* who sent it, or the creator of the target, now or once it has made it.
Delivered(i) ==
    \/ rlHistory[i] \in rlPosted
    \/ ~ rlTarget
    \/ rlTask[RlCreator].at = "created"
    \/ rlTask[RlCreator].at = "flush" /\ rlTask[RlCreator].i < i
    \/ \E t \in RlSenders : RlOnWay(t, rlHistory[i])

\* The i-th message recorded has not been overwritten in the ring.
InRing(i) == i + EVTRING > rlCount

RlTyped ==
    /\ rlSent \in Nat /\ rlCount \in Nat /\ rlTarget \in BOOLEAN
    /\ rlHistory \in Seq(Nat) /\ Len(rlHistory) = rlCount
    /\ rlRing \in [0..(EVTRING - 1) -> Nat]
    /\ rlTask \in [RlThreads -> RlStates]
    /\ \A t \in RlSenders : rlTask[t].at \in {"idle", "forward", "send"}
    /\ rlTask[RlCreator].at \in {"idle", "created", "flush"}
    /\ rlBusy \in [{RlProcess[t] : t \in RlThreads} -> BOOLEAN]

\* Only its own flush makes the creator's process busy.
FlushUndisturbed == rlBusy[RlProcess[RlCreator]] => rlTask[RlCreator].at = "flush"

RingKept == \A i \in 1..rlCount : InRing(i) => rlRing[(i - 1) % EVTRING] = rlHistory[i]

AllDelivered == \A i \in 1..rlCount : InRing(i) => Delivered(i)

RlInv == RlTyped /\ FlushUndisturbed /\ RingKept /\ AllDelivered

\* What a thread may be doing is told by its label.
LEMMA RlLabels ==
    /\ RlIdle \in RlStates /\ RlCreated \in RlStates
    /\ RlIdle.at = "idle" /\ RlCreated.at = "created"
    /\ \A w \in RlStates : w.at = "idle" <=> w = RlIdle
    /\ \A w \in RlStates : w.at \in {"forward", "send"} => w \in RlForwards
    /\ \A w \in RlStates : w.at = "flush" => w \in RlFlushes
  <1>1. RlIdle.at = "idle" /\ RlCreated.at = "created"
    BY DEF RlIdle, RlCreated
  <1>2. \A w \in RlForwards : w.at \in {"forward", "send"}
    BY DEF RlForwards
  <1>3. \A w \in RlFlushes : w.at = "flush"
    BY DEF RlFlushes
  <1>4. /\ "idle" \notin {"forward", "send"} /\ "created" \notin {"forward", "send"}
        /\ "flush" \notin {"forward", "send"} /\ "idle" # "flush" /\ "created" # "flush"
        /\ "idle" # "created"
    OBVIOUS
  <1> QED BY <1>1, <1>2, <1>3, <1>4, Zenon DEF RlStates

\* The records of a relay go on by their fields.
LEMMA RlGoesOn ==
    /\ \A m \in Nat : /\ [at |-> "forward", m |-> m] \in RlStates
                      /\ [at |-> "forward", m |-> m].at = "forward"
                      /\ [at |-> "forward", m |-> m].m = m
    /\ \A n \in Nat : /\ [at |-> "flush", i |-> n] \in RlStates
                      /\ [at |-> "flush", i |-> n].at = "flush"
                      /\ [at |-> "flush", i |-> n].i = n
    /\ \A w \in RlForwards : /\ [w EXCEPT !.at = "send"] \in RlStates
                             /\ [w EXCEPT !.at = "send"].at = "send"
                             /\ [w EXCEPT !.at = "send"].m = w.m
    /\ \A w \in RlFlushes, n \in Nat : /\ [w EXCEPT !.i = n] \in RlStates
                                       /\ [w EXCEPT !.i = n].at = "flush"
                                       /\ [w EXCEPT !.i = n].i = n
  <1>1. \A m \in Nat : [at |-> "forward", m |-> m] \in RlForwards
    BY DEF RlForwards
  <1>2. \A n \in Nat : [at |-> "flush", i |-> n] \in RlFlushes
    BY DEF RlFlushes
  <1>3. \A w \in RlForwards : /\ [w EXCEPT !.at = "send"] \in RlForwards
                              /\ [w EXCEPT !.at = "send"].at = "send"
                              /\ [w EXCEPT !.at = "send"].m = w.m
    BY DEF RlForwards
  <1>4. \A w \in RlFlushes, n \in Nat : /\ [w EXCEPT !.i = n] \in RlFlushes
                                        /\ [w EXCEPT !.i = n].at = "flush"
                                        /\ [w EXCEPT !.i = n].i = n
    BY DEF RlFlushes
  <1>5. RlForwards \subseteq RlStates /\ RlFlushes \subseteq RlStates
    BY Zenon DEF RlStates
  <1>6. \A m \in Nat : [at |-> "forward", m |-> m].at = "forward" /\ [at |-> "forward", m |-> m].m = m
    OBVIOUS
  <1>7. \A n \in Nat : [at |-> "flush", i |-> n].at = "flush" /\ [at |-> "flush", i |-> n].i = n
    OBVIOUS
  <1>8. \A m \in Nat : [at |-> "forward", m |-> m] \in RlStates
    BY <1>1, <1>5, Zenon
  <1>9. \A n \in Nat : [at |-> "flush", i |-> n] \in RlStates
    BY <1>2, <1>5, Zenon
  <1>10. \A w \in RlForwards : [w EXCEPT !.at = "send"] \in RlStates
    BY <1>3, <1>5, Zenon
  <1>11. \A w \in RlFlushes, n \in Nat : [w EXCEPT !.i = n] \in RlStates
    BY <1>4, <1>5, Zenon
  <1> QED BY <1>3, <1>4, <1>6, <1>7, <1>8, <1>9, <1>10, <1>11

\* Fewer than a ring apart, two messages have different slots.
LEMMA SlotsApart ==
    ASSUME NEW k \in Nat, NEW n \in Nat, k < n, n < k + EVTRING
    PROVE  k % EVTRING # n % EVTRING
  <1>1. EVTRING \in Nat \ {0}
    BY RelayAssumption
  <1>2. PICK x \in Nat : x = EVTRING /\ x > 0
    BY <1>1
  <1>3. k = x * (k \div x) + (k % x) /\ n = x * (n \div x) + (n % x)
        /\ k \div x \in Int /\ n \div x \in Int
    BY <1>2
  <1>4. PICK y \in Int, z \in Int : y = k \div x /\ z = n \div x
    BY <1>3
  <1>5. ASSUME k % x = n % x PROVE FALSE
    <2>1. n - k = x * (z - y)
      BY <1>2, <1>3, <1>4, <1>5
    <2>2. z - y \in Int /\ 0 < n - k /\ n - k < x
      BY <1>2, <1>4
    <2>3. CASE z - y <= 0
      <3>1. x * (z - y) <= 0
        BY <1>2, <2>2, <2>3
      <3> QED BY <2>1, <2>2, <3>1
    <2>4. CASE z - y >= 1
      <3>1. x * (z - y) >= x
        BY <1>2, <2>2, <2>4
      <3> QED BY <2>1, <2>2, <3>1
    <2> QED BY <2>2, <2>3, <2>4
  <1> QED BY <1>2, <1>5

LEMMA RlInitInv == RlInit => RlInv
  <1> SUFFICES ASSUME RlInit PROVE RlInv
    OBVIOUS
  <1>1. /\ rlSent = 0 /\ rlCount = 0 /\ rlHistory = <<>> /\ rlTarget = FALSE
        /\ rlRing = [k \in 0..(EVTRING - 1) |-> 0]
        /\ rlBusy = [p \in {RlProcess[t] : t \in RlThreads} |-> FALSE]
        /\ rlTask = [t \in RlThreads |-> RlIdle]
    BY DEF RlInit
  <1>2. RlCreator \in RlThreads /\ RlSenders \subseteq RlThreads
    BY DEF RlThreads
  <1>3. RlProcess[RlCreator] \in {RlProcess[t] : t \in RlThreads}
    BY <1>2
  <1>4. RlTyped
    <2>1. rlTask \in [RlThreads -> RlStates] /\ \A t \in RlThreads : rlTask[t].at = "idle"
      BY <1>1, RlLabels
    <2>2. rlBusy \in [{RlProcess[t] : t \in RlThreads} -> BOOLEAN]
      BY <1>1
    <2>3. rlRing \in [0..(EVTRING - 1) -> Nat]
      BY <1>1
    <2>4. /\ rlSent \in Nat /\ rlCount \in Nat /\ rlTarget \in BOOLEAN
          /\ rlHistory \in Seq(Nat) /\ Len(rlHistory) = rlCount
      <3>1. <<>> \in Seq(Nat) /\ Len(<<>>) = 0
        OBVIOUS
      <3>2. 0 \in Nat /\ FALSE \in BOOLEAN
        OBVIOUS
      <3> QED BY <1>1, <3>1, <3>2, Zenon
    <2>5. /\ \A t \in RlSenders : rlTask[t].at \in {"idle", "forward", "send"}
          /\ rlTask[RlCreator].at \in {"idle", "created", "flush"}
      BY <1>2, <2>1
    <2> QED BY <2>1, <2>2, <2>3, <2>4, <2>5, Zenon DEF RlTyped
  <1>5. FlushUndisturbed
    BY <1>1, <1>3 DEF FlushUndisturbed
  <1>6. RingKept /\ AllDelivered
    BY <1>1 DEF RingKept, AllDelivered
  <1> QED BY <1>4, <1>5, <1>6 DEF RlInv

\* What the steps that record nothing have to show.
LEMMA RlKeeps ==
    ASSUME RlInv, RlTyped', FlushUndisturbed', UNCHANGED <<rlRing, rlCount, rlHistory>>,
           \A i \in 1..rlCount : InRing(i) /\ Delivered(i) => Delivered(i)'
    PROVE  RlInv'
  <1>1. \A i \in 1..rlCount : InRing(i) <=> InRing(i)'
    BY DEF InRing
  <1>2. RingKept'
    BY <1>1 DEF RlInv, RingKept
  <1>3. AllDelivered'
    BY <1>1 DEF RlInv, AllDelivered
  <1> QED BY <1>2, <1>3 DEF RlInv

\* A step of one thread leaves what the others are doing.
LEMMA RlOthers ==
    ASSUME RlInv, NEW t \in RlThreads, NEW w \in RlStates, rlTask' = [rlTask EXCEPT ![t] = w]
    PROVE  /\ rlTask' \in [RlThreads -> RlStates] /\ rlTask'[t] = w
           /\ \A u \in RlThreads : u # t => rlTask'[u] = rlTask[u]
  BY DEF RlInv, RlTyped

LEMMA RlThreadsTwo == /\ RlCreator \in RlThreads /\ RlSenders \subseteq RlThreads
                      /\ \A t \in RlSenders : t # RlCreator
  BY RelayAssumption DEF RlThreads

LEMMA RlBroadcastKeeps ==
    ASSUME RlInv, NEW t \in RlSenders, RlBroadcast(t)
    PROVE  RlInv'
  <1>1. /\ rlTask[t] = RlIdle /\ rlSent' = rlSent + 1 /\ rlSent \in Nat /\ rlSent' \in Nat
        /\ UNCHANGED <<rlTarget, rlPosted, rlBusy>>
    BY DEF RlBroadcast, RlInv, RlTyped
  <1>2. CASE UNCHANGED <<rlRing, rlCount, rlHistory, rlTask>>
    <2>1. RlTyped' /\ FlushUndisturbed'
      BY <1>1, <1>2 DEF RlInv, RlTyped, FlushUndisturbed
    <2>2. \A i \in 1..rlCount : Delivered(i) => Delivered(i)'
      BY <1>1, <1>2 DEF Delivered, RlOnWay
    <2> QED BY <1>2, <2>1, <2>2, RlKeeps
  <1>3. CASE ~ rlBusy[RlProcess[t]]
    <2>1. /\ rlRing' = [rlRing EXCEPT ![rlCount % EVTRING] = rlSent'] /\ rlCount' = rlCount + 1
          /\ rlHistory' = Append(rlHistory, rlSent')
          /\ rlTask' = [rlTask EXCEPT ![t] = IF rlTarget THEN [at |-> "forward", m |-> rlSent']
                                              ELSE RlIdle]
      BY <1>3 DEF RlBroadcast
    <2>2. PICK w \in RlStates : /\ w = IF rlTarget THEN [at |-> "forward", m |-> rlSent'] ELSE RlIdle
                                /\ rlTarget => w.at = "forward" /\ w.m = rlSent'
                                /\ ~ rlTarget => w.at = "idle"
      <3>1. PICK m \in Nat : m = rlSent'
        BY <1>1
      <3>2. CASE rlTarget
        <4>1. /\ [at |-> "forward", m |-> m] \in RlStates
              /\ [at |-> "forward", m |-> m].at = "forward"
              /\ [at |-> "forward", m |-> m].m = m
          BY RlGoesOn
        <4> QED BY <3>1, <3>2, <4>1
      <3>3. CASE ~ rlTarget
        BY <3>3, RlLabels
      <3> QED BY <3>2, <3>3
    <2>3. /\ rlTask' \in [RlThreads -> RlStates] /\ rlTask'[t] = w
          /\ \A u \in RlThreads : u # t => rlTask'[u] = rlTask[u]
      BY <2>1, <2>2, RlOthers, RlThreadsTwo
    <2>4. /\ rlCount \in Nat /\ rlCount' \in Nat /\ rlHistory' \in Seq(Nat) /\ Len(rlHistory') = rlCount'
          /\ rlHistory'[rlCount'] = rlSent'
          /\ \A i \in 1..rlCount : rlHistory'[i] = rlHistory[i]
      BY <1>1, <2>1 DEF RlInv, RlTyped
    <2>5. /\ rlCount % EVTRING \in 0..(EVTRING - 1) /\ EVTRING \in Nat \ {0}
          /\ \A i \in 1..rlCount : (i - 1) % EVTRING \in 0..(EVTRING - 1)
      BY <2>4, RelayAssumption
    <2>6. /\ rlRing' \in [0..(EVTRING - 1) -> Nat] /\ rlRing'[rlCount % EVTRING] = rlSent'
          /\ \A k \in 0..(EVTRING - 1) : k # rlCount % EVTRING => rlRing'[k] = rlRing[k]
      BY <1>1, <2>1, <2>5 DEF RlInv, RlTyped
    <2>7. /\ rlTask'[RlCreator] = rlTask[RlCreator]
          /\ \A u \in RlSenders : u # t => rlTask'[u] = rlTask[u]
      BY <2>3, RlThreadsTwo
    <2>8. RlTyped'
      <3>1. w.at \in {"idle", "forward", "send"}
        BY <1>1, <2>2 DEF RlInv, RlTyped
      <3>2. \A u \in RlSenders : rlTask'[u].at \in {"idle", "forward", "send"}
        BY <2>3, <2>7, <3>1 DEF RlInv, RlTyped
      <3> QED BY <1>1, <2>3, <2>4, <2>6, <2>7, <3>2 DEF RlInv, RlTyped
    <2>9. FlushUndisturbed'
      BY <1>1, <2>7 DEF RlInv, FlushUndisturbed
    <2>10. RingKept'
      <3>1. ASSUME NEW i \in 1..rlCount', InRing(i)'
            PROVE  rlRing'[(i - 1) % EVTRING] = rlHistory'[i]
        <4>1. CASE i = rlCount'
          BY <2>1, <2>4, <2>6, <4>1
        <4>2. CASE i # rlCount'
          <5>1. /\ i \in 1..rlCount /\ i - 1 \in Nat /\ i - 1 < rlCount
                /\ rlCount < i - 1 + EVTRING /\ InRing(i)
            BY <2>1, <2>4, <2>5, <3>1, <4>2 DEF InRing
          <5>2. (i - 1) % EVTRING # rlCount % EVTRING
            BY <2>4, <5>1, SlotsApart
          <5>3. rlRing[(i - 1) % EVTRING] = rlHistory[i]
            BY <5>1 DEF RlInv, RingKept
          <5> QED BY <2>4, <2>5, <2>6, <5>1, <5>2, <5>3
        <4> QED BY <4>1, <4>2
      <3> QED BY <3>1 DEF RingKept
    <2>11. AllDelivered'
      <3>1. ASSUME NEW i \in 1..rlCount', InRing(i)' PROVE Delivered(i)'
        <4>1. CASE i = rlCount'
          <5>1. CASE rlTarget
            BY <2>2, <2>3, <2>4, <4>1, <5>1 DEF Delivered, RlOnWay
          <5>2. CASE ~ rlTarget
            BY <1>1, <5>2 DEF Delivered
          <5> QED BY <5>1, <5>2
        <4>2. CASE i # rlCount'
          <5>1. i \in 1..rlCount /\ InRing(i) /\ rlHistory'[i] = rlHistory[i]
            BY <2>1, <2>4, <2>5, <3>1, <4>2 DEF InRing
          <5>2. Delivered(i)
            BY <5>1 DEF RlInv, AllDelivered
          <5>3. ASSUME NEW u \in RlSenders, RlOnWay(u, rlHistory[i])
                PROVE  RlOnWay(u, rlHistory[i])'
            <6>1. u # t
              BY <1>1, <5>3, RlLabels DEF RlOnWay
            <6> QED BY <2>7, <5>1, <5>3, <6>1 DEF RlOnWay
          <5> QED BY <1>1, <2>7, <5>1, <5>2, <5>3 DEF Delivered
        <4> QED BY <4>1, <4>2
      <3> QED BY <3>1 DEF AllDelivered
    <2> QED BY <2>8, <2>9, <2>10, <2>11 DEF RlInv
  <1> QED BY <1>2, <1>3 DEF RlBroadcast

LEMMA RlForwardKeeps ==
    ASSUME RlInv, NEW t \in RlSenders, RlForward(t) \/ RlSend(t), RelayApart
    PROVE  RlInv'
  <1>1. /\ rlTask[t] \in RlForwards /\ rlTask[t].at \in {"forward", "send"} /\ t \in RlThreads
        /\ UNCHANGED <<rlSent, rlRing, rlCount, rlHistory, rlTarget>>
    <2>1. rlTask[t].at \in {"forward", "send"}
      BY DEF RlForward, RlSend
    <2>2. rlTask[t] \in RlStates
      BY RlThreadsTwo DEF RlInv, RlTyped
    <2> QED BY <2>1, <2>2, RlLabels, RlThreadsTwo DEF RlForward, RlSend
  <1>2. PICK w \in RlStates :
          /\ rlTask' = [rlTask EXCEPT ![t] = w]
          /\ \/ w.at = "send" /\ w.m = rlTask[t].m /\ rlPosted' = rlPosted
             \/ w.at = "idle" /\ rlPosted' = rlPosted \cup {rlTask[t].m}
    <2>1. CASE RlForward(t)
      <3>1. rlTask' = [rlTask EXCEPT ![t] = [rlTask[t] EXCEPT !.at = "send"]] /\ rlPosted' = rlPosted
        BY <1>1, <2>1 DEF RlForward, RlInv, RlTyped
      <3>2. PICK z \in RlForwards : z = rlTask[t]
        BY <1>1
      <3>3. PICK w \in RlStates : w = [z EXCEPT !.at = "send"] /\ w.at = "send" /\ w.m = z.m
        BY RlGoesOn
      <3> QED BY <3>1, <3>2, <3>3
    <2>2. CASE RlSend(t)
      <3>1. rlTask' = [rlTask EXCEPT ![t] = RlIdle] /\ rlPosted' = rlPosted \cup {rlTask[t].m}
        BY <2>2 DEF RlSend, RlPost
      <3> QED BY <3>1, RlLabels
    <2> QED BY <2>1, <2>2
  <1>3. /\ rlTask' \in [RlThreads -> RlStates] /\ rlTask'[t] = w
        /\ \A u \in RlThreads : u # t => rlTask'[u] = rlTask[u]
    BY <1>1, <1>2, RlOthers
  <1>4. rlTask'[RlCreator] = rlTask[RlCreator] /\ \A u \in RlSenders : u # t => rlTask'[u] = rlTask[u]
    BY <1>3, RlThreadsTwo
  <1>5. /\ rlBusy' \in [{RlProcess[u] : u \in RlThreads} -> BOOLEAN]
        /\ rlBusy'[RlProcess[RlCreator]] = rlBusy[RlProcess[RlCreator]]
    <2>1. RlProcess[t] # RlProcess[RlCreator]
      BY DEF RelayApart
    <2>2. RlProcess[RlCreator] \in {RlProcess[u] : u \in RlThreads}
      BY RlThreadsTwo
    <2>3. PICK x \in BOOLEAN : rlBusy' = [rlBusy EXCEPT ![RlProcess[t]] = x]
      BY DEF RlForward, RlSend
    <2>4. rlBusy \in [{RlProcess[u] : u \in RlThreads} -> BOOLEAN]
      BY DEF RlInv, RlTyped
    <2> QED BY <2>1, <2>2, <2>3, <2>4
  <1>6. RlTyped'
    <2>1. \A u \in RlSenders : rlTask'[u].at \in {"idle", "forward", "send"}
      BY <1>2, <1>3, <1>4 DEF RlInv, RlTyped
    <2>2. rlTask'[RlCreator].at \in {"idle", "created", "flush"}
      BY <1>4 DEF RlInv, RlTyped
    <2>3. /\ rlSent' \in Nat /\ rlCount' \in Nat /\ rlTarget' \in BOOLEAN
          /\ rlHistory' \in Seq(Nat) /\ Len(rlHistory') = rlCount'
          /\ rlRing' \in [0..(EVTRING - 1) -> Nat]
      BY <1>1, Zenon DEF RlInv, RlTyped
    <2> QED BY <1>3, <1>5, <2>1, <2>2, <2>3, Zenon DEF RlTyped
  <1>7. FlushUndisturbed'
    BY <1>4, <1>5 DEF RlInv, FlushUndisturbed
  <1>8. ASSUME NEW i \in 1..rlCount, Delivered(i) PROVE Delivered(i)'
    <2>1. rlPosted \subseteq rlPosted'
      BY <1>2
    <2>2. ASSUME NEW u \in RlSenders, RlOnWay(u, rlHistory[i]) PROVE Delivered(i)'
      <3>1. CASE u # t
        BY <1>1, <1>4, <2>2, <3>1 DEF RlOnWay, Delivered
      <3>2. CASE u = t /\ w.at = "send" /\ w.m = rlTask[t].m
        BY <1>1, <1>3, <2>2, <3>2 DEF RlOnWay, Delivered
      <3>3. CASE u = t /\ rlPosted' = rlPosted \cup {rlTask[t].m}
        BY <1>1, <2>2, <3>3 DEF RlOnWay, Delivered
      <3> QED BY <1>2, <3>1, <3>2, <3>3
    <2> QED BY <1>1, <1>4, <1>8, <2>1, <2>2 DEF Delivered
  <1> QED BY <1>1, <1>6, <1>7, <1>8, RlKeeps

\* The steps of the creator before the flush, and of its reader.
LEMMA RlCreatorKeeps ==
    ASSUME RlInv, RlCreate \/ RlFlushStart \/ RlRead
    PROVE  RlInv'
  <1>1. UNCHANGED <<rlSent, rlRing, rlCount, rlHistory, rlPosted>>
    BY DEF RlCreate, RlFlushStart, RlRead
  <1>c. /\ rlCount \in Nat /\ EVTRING \in Nat \ {0} /\ rlTarget \in BOOLEAN
        /\ rlTask \in [RlThreads -> RlStates] /\ RlCreator \in RlThreads
    BY RelayAssumption, RlThreadsTwo DEF RlInv, RlTyped
  <1>2. PICK w \in RlStates :
          /\ rlTask' = [rlTask EXCEPT ![RlCreator] = w]
          /\ w.at \in {"idle", "created", "flush"}
          /\ rlTask[RlCreator].at = "created" /\ rlCount # 0 =>
                w.at = "flush" /\ \A i \in 1..rlCount : InRing(i) => w.i < i
          /\ \/ rlTask[RlCreator].at = "created" /\ rlTarget' = rlTarget
             \/ rlTask[RlCreator].at = "idle" /\ w.at = "created" /\ rlTarget' = TRUE
                /\ rlBusy' = rlBusy
             \/ w = rlTask[RlCreator] /\ rlTarget' = rlTarget /\ rlBusy' = rlBusy
                /\ w.at # "created"
    <2>1. CASE RlCreate
      <3>1. rlTask' = [rlTask EXCEPT ![RlCreator] = RlCreated] /\ rlTarget' = TRUE /\ rlBusy' = rlBusy
            /\ rlTask[RlCreator] = RlIdle
        BY <2>1 DEF RlCreate, RlCreated
      <3> QED BY <3>1, RlLabels
    <2>2. CASE RlFlushStart
      <3>1. rlTask[RlCreator].at = "created" /\ rlTarget' = rlTarget
        BY <2>2 DEF RlFlushStart
      <3>2. CASE rlCount = 0
        <4>1. rlTask' = [rlTask EXCEPT ![RlCreator] = RlIdle]
          BY <2>2, <3>2 DEF RlFlushStart
        <4> QED BY <3>1, <3>2, <4>1, RlLabels
      <3>3. CASE rlCount # 0
        <4>1. ~ rlBusy[RlProcess[RlCreator]]
          BY <3>1 DEF RlInv, FlushUndisturbed
        <4>2. rlTask' = [rlTask EXCEPT ![RlCreator] = [at |-> "flush", i |-> FlushFrom]]
          BY <2>2, <3>3, <4>1 DEF RlFlushStart
        <4>3. FlushFrom \in Nat /\ \A i \in 1..rlCount : InRing(i) => FlushFrom < i
          BY <1>c DEF FlushFrom, InRing
        <4>4. PICK n \in Nat : n = FlushFrom
          BY <4>3
        <4>5. PICK w \in RlStates : w = [at |-> "flush", i |-> n] /\ w.at = "flush" /\ w.i = n
          BY RlGoesOn
        <4> QED BY <3>1, <3>3, <4>2, <4>3, <4>4, <4>5
      <3> QED BY <3>2, <3>3
    <2>3. CASE RlRead
      <3>1. /\ rlTask' = rlTask /\ rlTarget' = rlTarget /\ rlBusy' = rlBusy
            /\ rlTask[RlCreator] = RlIdle
        BY <2>3 DEF RlRead
      <3>2. rlTask' = [rlTask EXCEPT ![RlCreator] = RlIdle]
        BY <1>c, <3>1
      <3> QED BY <3>1, <3>2, RlLabels
    <2> QED BY <2>1, <2>2, <2>3
  <1>3. /\ rlTask' \in [RlThreads -> RlStates] /\ rlTask'[RlCreator] = w
        /\ \A u \in RlSenders : rlTask'[u] = rlTask[u]
    BY <1>2, RlOthers, RlThreadsTwo
  <1>4. rlBusy' \in [{RlProcess[u] : u \in RlThreads} -> BOOLEAN]
    <2>1. rlBusy \in [{RlProcess[u] : u \in RlThreads} -> BOOLEAN]
      BY DEF RlInv, RlTyped
    <2>2. rlBusy' = rlBusy \/ rlBusy' = [rlBusy EXCEPT ![RlProcess[RlCreator]] = TRUE]
      BY DEF RlCreate, RlFlushStart, RlRead
    <2> QED BY <2>1, <2>2
  <1>5. RlTyped'
    <2>1. /\ \A u \in RlSenders : rlTask'[u].at \in {"idle", "forward", "send"}
          /\ rlTask'[RlCreator].at \in {"idle", "created", "flush"}
      BY <1>2, <1>3 DEF RlInv, RlTyped
    <2>2. rlTarget' \in BOOLEAN
      BY <1>c, <1>2
    <2>3. /\ rlSent' \in Nat /\ rlCount' \in Nat
          /\ rlHistory' \in Seq(Nat) /\ Len(rlHistory') = rlCount'
          /\ rlRing' \in [0..(EVTRING - 1) -> Nat]
      BY <1>1, Zenon DEF RlInv, RlTyped
    <2> QED BY <1>3, <1>4, <2>1, <2>2, <2>3, Zenon DEF RlTyped
  <1>6. FlushUndisturbed'
    <2>1. CASE RlFlushStart
      <3>1. ~ rlBusy[RlProcess[RlCreator]]
        BY <2>1 DEF RlFlushStart, RlInv, FlushUndisturbed
      <3>2. CASE rlCount = 0
        <4>1. rlBusy' = rlBusy
          BY <2>1, <3>2 DEF RlFlushStart
        <4> QED BY <3>1, <4>1 DEF FlushUndisturbed
      <3>3. CASE rlCount # 0
        <4>1. rlTask[RlCreator].at = "created"
          BY <2>1 DEF RlFlushStart
        <4> QED BY <1>2, <1>3, <3>3, <4>1 DEF FlushUndisturbed
      <3> QED BY <3>2, <3>3
    <2>2. CASE RlCreate \/ RlRead
      <3>1. rlBusy' = rlBusy /\ rlTask[RlCreator].at = "idle"
        BY <2>2, RlLabels DEF RlCreate, RlRead
      <3> QED BY <3>1 DEF RlInv, FlushUndisturbed
    <2> QED BY <2>1, <2>2
  <1>7. ASSUME NEW i \in 1..rlCount, InRing(i), Delivered(i) PROVE Delivered(i)'
    <2>1. rlCount # 0
      BY <1>c
    <2>2. CASE rlTask[RlCreator].at = "created"
      BY <1>1, <1>2, <1>3, <1>7, <2>1, <2>2 DEF Delivered
    <2>3. CASE rlTask[RlCreator].at = "idle" /\ w.at = "created"
      BY <1>3, <2>3 DEF Delivered
    <2>4. CASE w = rlTask[RlCreator] /\ rlTarget' = rlTarget
      BY <1>1, <1>3, <1>7, <2>4 DEF Delivered, RlOnWay
    <2> QED BY <1>2, <2>2, <2>3, <2>4
  <1> QED BY <1>1, <1>5, <1>6, <1>7, RlKeeps

\* A message is flushed, or the flush is over.
LEMMA RlFlushKeeps == ASSUME RlInv, RlFlush PROVE RlInv'
  <1>1. /\ UNCHANGED <<rlSent, rlRing, rlCount, rlHistory, rlTarget>>
        /\ rlTask[RlCreator].at = "flush" /\ RlCreator \in RlThreads
    BY RlThreadsTwo DEF RlFlush
  <1>2. rlCount \in Nat /\ EVTRING \in Nat \ {0}
    BY RelayAssumption DEF RlInv, RlTyped
  <1>3. PICK z \in RlFlushes : z = rlTask[RlCreator] /\ z.i \in Nat
    <2>1. rlTask[RlCreator] \in RlFlushes
      BY <1>1, RlLabels DEF RlInv, RlTyped
    <2> QED BY <2>1 DEF RlFlushes
  <1>4. PICK w \in RlStates :
          /\ rlTask' = [rlTask EXCEPT ![RlCreator] = w]
          /\ \/ /\ z.i < rlCount /\ w.at = "flush" /\ w.i = z.i + 1 /\ rlBusy' = rlBusy
                /\ rlPosted' = rlPosted \cup {rlRing[z.i % EVTRING]}
             \/ /\ ~ (z.i < rlCount) /\ w.at = "idle" /\ rlPosted' = rlPosted
                /\ rlBusy' = [rlBusy EXCEPT ![RlProcess[RlCreator]] = FALSE]
    <2>1. CASE z.i < rlCount
      <3>1. /\ rlTask' = [rlTask EXCEPT ![RlCreator] = [z EXCEPT !.i = z.i + 1]]
            /\ rlPosted' = rlPosted \cup {rlRing[z.i % EVTRING]} /\ rlBusy' = rlBusy
        BY <1>1, <1>3, <2>1 DEF RlFlush, RlPost, RlInv, RlTyped
      <3>2. PICK n \in Nat : n = z.i + 1
        BY <1>3
      <3>3. /\ [z EXCEPT !.i = n] \in RlStates
            /\ [z EXCEPT !.i = n].at = "flush" /\ [z EXCEPT !.i = n].i = n
        BY RlGoesOn
      <3>4. PICK w \in RlStates : w = [z EXCEPT !.i = n] /\ w.at = "flush" /\ w.i = n
        BY <3>3, Zenon
      <3> QED BY <2>1, <3>1, <3>2, <3>4
    <2>2. CASE ~ (z.i < rlCount)
      <3>1. /\ rlTask' = [rlTask EXCEPT ![RlCreator] = RlIdle] /\ rlPosted' = rlPosted
            /\ rlBusy' = [rlBusy EXCEPT ![RlProcess[RlCreator]] = FALSE]
        BY <1>3, <2>2 DEF RlFlush
      <3> QED BY <2>2, <3>1, RlLabels
    <2> QED BY <2>1, <2>2
  <1>5. /\ rlTask' \in [RlThreads -> RlStates] /\ rlTask'[RlCreator] = w
        /\ \A u \in RlSenders : rlTask'[u] = rlTask[u]
    BY <1>4, RlOthers, RlThreadsTwo
  <1>6. /\ rlBusy' \in [{RlProcess[u] : u \in RlThreads} -> BOOLEAN]
        /\ rlBusy'[RlProcess[RlCreator]] => w.at = "flush"
    <2>1. rlBusy \in [{RlProcess[u] : u \in RlThreads} -> BOOLEAN]
      BY DEF RlInv, RlTyped
    <2>2. RlProcess[RlCreator] \in {RlProcess[u] : u \in RlThreads}
      BY <1>1
    <2> QED BY <1>4, <2>1, <2>2
  <1>7. RlTyped'
    <2>1. /\ \A u \in RlSenders : rlTask'[u].at \in {"idle", "forward", "send"}
          /\ rlTask'[RlCreator].at \in {"idle", "created", "flush"}
      BY <1>4, <1>5 DEF RlInv, RlTyped
    <2>2. /\ rlSent' \in Nat /\ rlCount' \in Nat /\ rlTarget' \in BOOLEAN
          /\ rlHistory' \in Seq(Nat) /\ Len(rlHistory') = rlCount'
          /\ rlRing' \in [0..(EVTRING - 1) -> Nat]
      BY <1>1, Zenon DEF RlInv, RlTyped
    <2> QED BY <1>5, <1>6, <2>1, <2>2, Zenon DEF RlTyped
  <1>8. FlushUndisturbed'
    BY <1>5, <1>6 DEF FlushUndisturbed
  <1>9. ASSUME NEW i \in 1..rlCount, InRing(i), Delivered(i) PROVE Delivered(i)'
    <2>1. rlPosted \subseteq rlPosted'
      BY <1>4
    <2>2. ASSUME NEW u \in RlSenders, RlOnWay(u, rlHistory[i]) PROVE RlOnWay(u, rlHistory[i])'
      BY <1>1, <1>5, <2>2 DEF RlOnWay
    <2>3. CASE z.i < i
      <3>1. z.i < rlCount
        BY <1>2, <1>3, <2>3
      <3>2. CASE z.i = i - 1
        <4>1. rlRing[z.i % EVTRING] = rlHistory[i]
          BY <1>9, <3>2 DEF RlInv, RingKept
        <4> QED BY <1>1, <1>4, <3>1, <4>1 DEF Delivered
      <3>3. CASE z.i < i - 1
        <4>1. w.at = "flush" /\ w.i < i
          BY <1>2, <1>3, <1>4, <3>1, <3>3
        <4> QED BY <1>5, <4>1 DEF Delivered
      <3> QED BY <1>2, <1>3, <2>3, <3>2, <3>3
    <2>4. CASE ~ (z.i < i)
      BY <1>1, <1>3, <1>9, <2>1, <2>2, <2>4 DEF Delivered
    <2> QED BY <2>3, <2>4
  <1> QED BY <1>1, <1>7, <1>8, <1>9, RlKeeps

LEMMA RlInvStep == RelayApart /\ RlInv /\ [RlNext]_rlVars => RlInv'
  <1> SUFFICES ASSUME RelayApart, RlInv, [RlNext]_rlVars PROVE RlInv'
    OBVIOUS
  <1>1. CASE UNCHANGED rlVars
    BY <1>1 DEF rlVars, RlInv, RlTyped, FlushUndisturbed, RingKept, AllDelivered, Delivered,
                InRing, RlOnWay
  <1>2. ASSUME NEW t \in RlSenders, RlBroadcast(t) PROVE RlInv'
    BY <1>2, RlBroadcastKeeps
  <1>3. ASSUME NEW t \in RlSenders, RlForward(t) \/ RlSend(t) PROVE RlInv'
    BY <1>3, RlForwardKeeps
  <1>4. CASE RlCreate \/ RlFlushStart \/ RlRead
    BY <1>4, RlCreatorKeeps
  <1>5. CASE RlFlush
    BY <1>5, RlFlushKeeps
  <1> QED BY <1>1, <1>2, <1>3, <1>4, <1>5 DEF RlNext

\* With everybody idle and the target there, delivered means posted.
LEMMA RlInvComplete == RlInv => RelayComplete
  <1> SUFFICES ASSUME RlInv, rlTarget, \A t \in RlThreads : rlTask[t] = RlIdle,
                      NEW i \in 1..Len(rlHistory), i + EVTRING > Len(rlHistory)
               PROVE  rlHistory[i] \in rlPosted
    BY DEF RelayComplete
  <1>1. \A t \in RlThreads : rlTask[t].at = "idle"
    BY RlLabels
  <1>2. i \in 1..rlCount /\ InRing(i)
    BY DEF RlInv, RlTyped, InRing
  <1>3. Delivered(i)
    BY <1>2 DEF RlInv, AllDelivered
  <1>4. /\ rlTask[RlCreator].at = "idle"
        /\ \A t \in RlSenders : rlTask[t].at = "idle"
    BY <1>1, RlThreadsTwo
  <1> QED BY <1>3, <1>4 DEF Delivered, RlOnWay

(* However many send to the event server while the target is being made,   *)
(* once nobody relays any more the last EVTRING messages the relay recorded *)
(* have been put on the target queue.                                       *)
THEOREM RelayDelivers == RelayApart => (RlSpec => []RelayComplete)
  <1> SUFFICES ASSUME RelayApart PROVE RlSpec => []RelayComplete
    OBVIOUS
  <1>1. RlInv /\ [RlNext]_rlVars => RlInv'
    BY RlInvStep
  <1> QED BY <1>1, RlInitInv, RlInvComplete, PTL DEF RlSpec

-----------------------------------------------------------------------------
(* The replies of a shared queue                                           *)

RpTyped ==
    /\ last \in [RpReaders -> RpFamilies \cup {NoReply}]
    /\ due \in Seq(RpFamilies) /\ box \in Seq(RpFamilies)
    /\ rpGot \in [RpReaders -> RpFamilies \cup {NoReply}]
    /\ rpAt \in [RpReaders -> {"idle", "read", "block", "asleep"}]

\* A reader that sends requests and waits has sent one.
HasAsked == \A t \in RpReaders \ RpPlain : rpAt[t] # "idle" => last[t] # NoReply

\* What the client's queue holds after each step of a connect.
ClientAt ==
    /\ ackOn \in BOOLEAN /\ connects \in 0..3
    /\ connects = 0 => client = <<>>
    /\ connects = 1 => client = IF ackOn THEN <<"ack">> ELSE <<>>
    /\ connects = 2 => client = <<"ack">>
    /\ connects = 3 => client = <<"ack", "data">>

RpInv == RpTyped /\ HasAsked /\ OwnReply /\ ClientAt

(* What is left of a sequence without one of its elements is of its type.  *)
LEMMA RemovedTyped ==
    ASSUME NEW S, NEW s \in Seq(S), NEW i \in DOMAIN s
    PROVE  RemoveAt(s, i) \in Seq(S)
  <1>1. Len(s) \in Nat /\ DOMAIN s = 1..Len(s) /\ i \in 1..Len(s) /\ \A j \in 1..Len(s) : s[j] \in S
    BY LenProperties, ElementOfSeq
  <1>2. SubSeq(s, 1, i - 1) \in Seq(S) /\ SubSeq(s, i + 1, Len(s)) \in Seq(S)
    BY <1>1, SubSeqProperties
  <1> QED BY <1>2, ConcatProperties DEF RemoveAt

(* There is a first among the messages a reader may take.                  *)
LEMMA FirstOfMine ==
    ASSUME NEW S, S \subseteq Nat, S # {}
    PROVE  (CHOOSE i \in S : \A j \in S : i <= j) \in S
  <1> DEFINE less == {pair \in Nat \X Nat : pair[1] < pair[2]}
  <1>1. OpToRel(<, Nat) = less
    BY DEF OpToRel
  <1>2. IsWellFoundedOn(less, Nat)
    BY <1>1, NatLessThanWellFounded, Zenon
  <1> HIDE DEF less
  <1>3. PICK i \in S : \A j \in S : ~ (<<j, i>> \in less)
    BY <1>2, WFMin
  <1>4. ASSUME NEW j \in S PROVE i <= j
    <2>1. <<j, i>> \in Nat \X Nat /\ ~ (<<j, i>> \in less)
      BY <1>3
    <2>2. ~ (j < i)
      BY <2>1 DEF less
    <2> QED BY <2>1, <2>2
  <1> QED BY <1>4

LEMMA RpInitInv == RpInit => RpInv
  BY ReplyAssumption
  DEF RpInit, RpInv, RpTyped, HasAsked, OwnReply, ClientAt

\* A request: the reader waits for the family it has just noted.
LEMMA RpRequestKeeps ==
    ASSUME RpInv, NEW t \in RpReaders, NEW f \in RpFamilies, RpRequest(t, f)
    PROVE  RpInv'
  <1>1. /\ last' = [last EXCEPT ![t] = f] /\ due' = Append(due, f) /\ box' = box
        /\ rpAt' = [rpAt EXCEPT ![t] = "read"] /\ rpGot' = [rpGot EXCEPT ![t] = NoReply]
        /\ UNCHANGED cfgVars
    BY DEF RpRequest
  <1>2. RpTyped'
    <2>1. due' \in Seq(RpFamilies)
      BY <1>1, AppendProperties DEF RpInv, RpTyped
    <2> QED BY <1>1, <2>1 DEF RpInv, RpTyped
  <1>3. HasAsked' /\ OwnReply'
    BY <1>1, ReplyAssumption DEF RpInv, RpTyped, HasAsked, OwnReply
  <1>4. ClientAt'
    BY <1>1 DEF cfgVars, RpInv, ClientAt
  <1> QED BY <1>2, <1>3, <1>4 DEF RpInv

\* A reader takes the first of its own messages.
LEMMA RpTakeKeeps ==
    ASSUME RpInv, NEW t \in RpReaders, RpTake(t)
    PROVE  RpInv'
  <1>1. Mine(t) \subseteq DOMAIN box /\ Mine(t) \subseteq Nat /\ Mine(t) # {}
    BY LenProperties DEF RpTake, Mine, RpInv, RpTyped
  <1>2. PICK i \in Mine(t) :
          /\ rpGot' = [rpGot EXCEPT ![t] = box[i]] /\ box' = RemoveAt(box, i)
    BY <1>1, FirstOfMine DEF RpTake
  <1>3. /\ last' = last /\ due' = due /\ rpAt' = [rpAt EXCEPT ![t] = "idle"]
        /\ rpAt[t] = "read" /\ UNCHANGED cfgVars
    BY DEF RpTake
  <1>4. i \in DOMAIN box /\ last[t] \in {NoReply, box[i]}
    BY <1>2 DEF Mine
  <1>5. box[i] \in RpFamilies /\ box' \in Seq(RpFamilies)
    BY <1>2, <1>4, RemovedTyped, ElementOfSeq, LenProperties DEF RpInv, RpTyped
  <1>6. RpTyped'
    BY <1>2, <1>3, <1>5 DEF RpInv, RpTyped
  <1>7. HasAsked'
    BY <1>3 DEF RpInv, RpTyped, HasAsked
  <1>8. OwnReply'
    <2>1. t \in RpReaders \ RpPlain => rpGot'[t] = last[t]
      BY <1>2, <1>3, <1>4 DEF RpInv, RpTyped, HasAsked
    <2>2. \A u \in RpReaders : u # t => rpGot'[u] = rpGot[u]
      BY <1>2 DEF RpInv, RpTyped
    <2> QED BY <1>3, <2>1, <2>2 DEF RpInv, OwnReply
  <1>9. ClientAt'
    BY <1>3 DEF cfgVars, RpInv, ClientAt
  <1> QED BY <1>6, <1>7, <1>8, <1>9 DEF RpInv

\* The other steps of the shared queue give no reply to anybody.
LEMMA RpOthersKeep ==
    ASSUME RpInv,
           RpAnswer \/ RpWake
             \/ \E t \in RpReaders : RpReadOnly(t) \/ RpMiss(t) \/ RpSleep(t)
    PROVE  RpInv'
  <1>1. last' = last /\ rpGot' = rpGot /\ UNCHANGED cfgVars
    BY DEF RpAnswer, RpWake, RpReadOnly, RpMiss, RpSleep
  <1>2. due' \in Seq(RpFamilies) /\ box' \in Seq(RpFamilies)
    <2>1. CASE RpAnswer
      <3>1. PICK i \in DOMAIN due : box' = Append(box, due[i]) /\ due' = RemoveAt(due, i)
        BY <2>1 DEF RpAnswer
      <3>2. due[i] \in RpFamilies
        BY <3>1, ElementOfSeq, LenProperties DEF RpInv, RpTyped
      <3> QED BY <3>1, <3>2, RemovedTyped, AppendProperties DEF RpInv, RpTyped
    <2>2. CASE box' = box /\ due' = due
      BY <2>2 DEF RpInv, RpTyped
    <2> QED BY <2>1, <2>2 DEF RpWake, RpReadOnly, RpMiss, RpSleep
  <1>3. /\ rpAt' \in [RpReaders -> {"idle", "read", "block", "asleep"}]
        /\ \A u \in RpReaders \ RpPlain : rpAt'[u] # "idle" => rpAt[u] # "idle"
    <2>1. CASE RpAnswer
      BY <2>1 DEF RpAnswer, RpInv, RpTyped
    <2>2. CASE RpWake
      BY <2>2 DEF RpWake, RpInv, RpTyped
    <2>3. ASSUME NEW t \in RpReaders, RpReadOnly(t) \/ RpMiss(t) \/ RpSleep(t)
          PROVE  /\ rpAt' \in [RpReaders -> {"idle", "read", "block", "asleep"}]
                 /\ \A u \in RpReaders \ RpPlain : rpAt'[u] # "idle" => rpAt[u] # "idle"
      BY <2>3 DEF RpReadOnly, RpMiss, RpSleep, RpInv, RpTyped
    <2> QED BY <2>1, <2>2, <2>3
  <1>4. RpTyped'
    BY <1>1, <1>2, <1>3 DEF RpInv, RpTyped
  <1>5. HasAsked' /\ OwnReply'
    BY <1>1, <1>3 DEF RpInv, HasAsked, OwnReply
  <1>6. ClientAt'
    BY <1>1 DEF cfgVars, RpInv, ClientAt
  <1> QED BY <1>4, <1>5, <1>6 DEF RpInv

\* The steps of a connect.
LEMMA RpConnectKeeps ==
    ASSUME RpInv, CfgConnect \/ CfgReply
    PROVE  RpInv'
  <1>1. UNCHANGED rtsVars /\ ackOn' = ackOn
    BY DEF CfgConnect, CfgReply
  <1>2. RpTyped' /\ HasAsked' /\ OwnReply'
    BY <1>1 DEF rtsVars, RpInv, RpTyped, HasAsked, OwnReply
  <1>3. ClientAt'
    <2>1. CASE CfgConnect
      BY <1>1, <2>1 DEF CfgConnect, RpInv, ClientAt
    <2>2. CASE CfgReply /\ connects = 1
      <3>1. connects' = 2 /\ client' = IF ackOn THEN client ELSE Append(client, "ack")
        BY <1>1, <2>2 DEF CfgReply, CfgTarget
      <3>2. client = IF ackOn THEN <<"ack">> ELSE <<>>
        BY <2>2 DEF RpInv, ClientAt
      <3>3. client' = <<"ack">>
        BY <3>1, <3>2
      <3>4. 2 \in 0..3 /\ 2 # 0 /\ 2 # 1 /\ 2 # 3
        OBVIOUS
      <3> QED BY <1>1, <3>1, <3>3, <3>4, Zenon DEF RpInv, ClientAt
    <2>3. CASE CfgReply /\ connects = 2
      <3>1. connects' = 3 /\ client' = Append(client, "data")
        BY <1>1, <2>3 DEF CfgReply, CfgTarget
      <3>2. client = <<"ack">>
        BY <2>3 DEF RpInv, ClientAt
      <3>3. Append(<<"ack">>, "data") = <<"ack", "data">>
        <4> DEFINE l == Append(<<"ack">>, "data")
                   m == <<"ack", "data">>
        <4>1. <<"ack">> \in Seq({"ack", "data"}) /\ Len(<<"ack">>) = 1 /\ <<"ack">>[1] = "ack"
          OBVIOUS
        <4>2. l \in Seq({"ack", "data"}) /\ Len(l) = 2 /\ l[1] = "ack" /\ l[2] = "data"
          BY <4>1, AppendProperties
        <4>3. m \in Seq({"ack", "data"}) /\ Len(m) = 2 /\ m[1] = "ack" /\ m[2] = "data"
          OBVIOUS
        <4> HIDE DEF l, m
        <4>4. l = m
          BY <4>2, <4>3, SeqEqual
        <4> QED BY <4>4 DEF l, m
      <3>4. client' = <<"ack", "data">>
        BY <3>1, <3>2, <3>3, Zenon
      <3>5. 3 \in 0..3 /\ 3 # 0 /\ 3 # 1 /\ 3 # 2
        OBVIOUS
      <3> QED BY <1>1, <3>1, <3>4, <3>5, Zenon DEF RpInv, ClientAt
    <2> QED BY <2>1, <2>2, <2>3 DEF CfgReply
  <1> QED BY <1>2, <1>3 DEF RpInv

LEMMA RpInvStep == RpInv /\ [RpNext]_rpVars => RpInv'
  <1> SUFFICES ASSUME RpInv, [RpNext]_rpVars PROVE RpInv'
    OBVIOUS
  <1>1. CASE UNCHANGED rpVars
    BY <1>1 DEF rpVars, rtsVars, cfgVars, RpInv, RpTyped, HasAsked, OwnReply, ClientAt
  <1>2. CASE RpNext
    BY <1>2, RpRequestKeeps, RpTakeKeeps, RpOthersKeep, RpConnectKeeps DEF RpNext
  <1> QED BY <1>1, <1>2

(* For every set of readers, however their requests, replies and reads      *)
(* interleave: a reader that asks is given nothing but a reply of the family*)
(* it asked for last, and the client of a connect finds one acknowledgement,*)
(* in front of the data.                                                    *)
THEOREM RepliesGoHome == RpSpec => []RepliesRouted
  <1>1. RpInv => RepliesRouted
    BY DEF RpInv, ClientAt, RepliesRouted, AckThenData
  <1> QED BY <1>1, RpInitInv, RpInvStep, PTL DEF RpSpec

-----------------------------------------------------------------------------
(* The answers to a connect                                                *)

\* A text that embeds names is never taken for the queue of a client that gives
\* just the name: two clients do not share a reply queue.
NamesApart == \A q \in Embedding : Resolve(q) \in Embedding

Named == Replies \ Embedding

OnceEach(l) == \A i, j \in DOMAIN l : l[i] = l[j] => i = j

CnTyped ==
    /\ DOMAIN cnTable = {"cfg", "evt", "peer"} /\ cnTable["cfg"] \in Seq(Replies)
    /\ cnClient \in [Servers -> [Replies -> {"closed", "asked", "open"}]]
    /\ cnAcks \in [Servers -> [Replies -> Nat]]

\* A client that disconnected is forgotten, one that asks has been answered.
NamedTold ==
    \A q \in Named : /\ cnClient["cfg"][q] = "closed" => q \notin ToSet(cnTable["cfg"])
                     /\ cnClient["cfg"][q] = "asked" => cnAcks["cfg"][q] > 0

\* While the table has room an answer is remembered, and read before a client
\* that is remembered by its name disconnects.
AnswersRemembered ==
    Cardinality(Replies) <= AckSlots =>
        /\ \A q \in Replies : /\ cnAcks["cfg"][q] <= 1
                              /\ cnAcks["cfg"][q] > 0 => q \in ToSet(cnTable["cfg"])
        /\ \A q \in Named : cnClient["cfg"][q] = "open" => cnAcks["cfg"][q] = 0

CnInv ==
    CnTyped /\ OnceEach(cnTable["cfg"]) /\ NamedTold /\ AnswersRemembered

\* Where the server's table is, and what is looked for in it.
LEMMA ServerTables ==
    /\ "cfg" \in Servers /\ TableOf("cfg") = "cfg"
    /\ \A q : Key("cfg", q) = q
    /\ \A s \in Servers : s # "cfg" => TableOf(s) \in {"evt", "peer"}
  <1>1. "cfg" \notin Peers /\ "evt" \notin Peers
    BY ConnectAssumption
  <1> QED BY <1>1, Zenon DEF Servers, TableOf, Key

\* Whose queue a text stands for.
LEMMA ResolvedApart ==
    ASSUME NamesApart, NEW q \in Replies
    PROVE  /\ Resolve(q) \in Replies
           /\ \A x \in Named : x # q => x # Resolve(q)
           /\ q \in Named => Resolve(q) = q
  <1>1. CASE q \in Embedding
    BY <1>1, ConnectAssumption DEF NamesApart, Named
  <1>2. CASE q \notin Embedding
    BY <1>2 DEF Resolve, Named
  <1> QED BY <1>1, <1>2

\* What is appended to a table comes last.
LEMMA Remembered ==
    ASSUME NEW l \in Seq(Replies), OnceEach(l), NEW q \in Replies, q \notin ToSet(l)
    PROVE  /\ Append(l, q) \in Seq(Replies) /\ OnceEach(Append(l, q))
           /\ ToSet(Append(l, q)) = ToSet(l) \cup {q}
  <1>1. Len(l) \in Nat /\ DOMAIN l = 1..Len(l)
    BY LenProperties
  <1>2. PICK m \in Seq(Replies) :
          /\ m = Append(l, q) /\ Len(m) = Len(l) + 1 /\ DOMAIN m = 1..(Len(l) + 1)
          /\ m[Len(l) + 1] = q /\ \A i \in 1..Len(l) : m[i] = l[i]
    <2>1. /\ Append(l, q) \in Seq(Replies) /\ Len(Append(l, q)) = Len(l) + 1
          /\ Append(l, q)[Len(l) + 1] = q /\ \A i \in 1..Len(l) : Append(l, q)[i] = l[i]
      BY AppendProperties
    <2> QED BY <2>1, LenProperties
  <1>3. \A i \in DOMAIN m : i = Len(l) + 1 \/ i \in 1..Len(l)
    BY <1>1, <1>2
  <1>4. OnceEach(m)
    BY <1>1, <1>2, <1>3 DEF OnceEach, ToSet
  <1>5. ToSet(m) = ToSet(l) \cup {q}
    BY <1>1, <1>2, <1>3 DEF ToSet
  <1> QED BY <1>2, <1>4, <1>5

\* What is forgotten, and nothing else, is no longer in the table.
LEMMA Forgotten ==
    ASSUME NEW l \in Seq(Replies), OnceEach(l), NEW q
    PROVE  /\ Forget(l, q) \in Seq(Replies) /\ OnceEach(Forget(l, q))
           /\ ToSet(Forget(l, q)) = ToSet(l) \ {q}
  <1>1. CASE q \notin ToSet(l)
    BY <1>1 DEF Forget
  <1>2. CASE q \in ToSet(l)
    <2>1. PICK n \in Nat : n = Len(l) /\ DOMAIN l = 1..n
      BY LenProperties
    <2>2. \A i \in 1..n : l[i] \in Replies
      BY <2>1, ElementOfSeq
    <2>3. PICK i \in 1..n : l[i] = q /\ Forget(l, q) = Front([l EXCEPT ![i] = l[n]])
      <3>1. \E i \in DOMAIN l : l[i] = q
        BY <1>2 DEF ToSet
      <3> QED BY <1>2, <2>1, <3>1 DEF Forget, Last
    <2>4. n \in 1..n
      BY <2>3
    <2>5. PICK m \in Seq(Replies) :
            /\ m = [l EXCEPT ![i] = l[n]] /\ Len(m) = n
            /\ \A j \in 1..n : m[j] = IF j = i THEN l[n] ELSE l[j]
      <3>1. PICK e \in Replies : e = l[n]
        BY <2>2, <2>4
      <3>2. /\ [l EXCEPT ![i] = e] \in Seq(Replies) /\ Len([l EXCEPT ![i] = e]) = Len(l)
            /\ \A j \in 1..Len(l) : [l EXCEPT ![i] = e][j] = IF j = i THEN e ELSE l[j]
        BY <2>1, ExceptSeq
      <3> QED BY <2>1, <3>1, <3>2, Zenon
    <2>6. PICK k \in Seq(Replies) :
            /\ k = Forget(l, q) /\ Len(k) = n - 1 /\ DOMAIN k = 1..(n - 1)
            /\ \A j \in 1..(n - 1) : k[j] = IF j = i THEN l[n] ELSE l[j]
      <3>1. \A j \in 1..(n - 1) : m[j] \in Replies /\ j \in 1..n
        BY <2>1, <2>5, ElementOfSeq
      <3>2. /\ SubSeq(m, 1, n - 1) \in Seq(Replies) /\ Len(SubSeq(m, 1, n - 1)) = n - 1
            /\ \A j \in 1..(n - 1) : SubSeq(m, 1, n - 1)[j] = m[j]
        BY <2>3, <3>1, SubSeqProperties
      <3>3. Forget(l, q) = SubSeq(m, 1, n - 1)
        BY <2>3, <2>5 DEF Front
      <3>4. PICK k \in Seq(Replies) : k = SubSeq(m, 1, n - 1)
        BY <3>2
      <3>5. DOMAIN k = 1..(n - 1)
        BY <3>2, <3>4, LenProperties
      <3>6. \A j \in 1..(n - 1) : k[j] = IF j = i THEN l[n] ELSE l[j]
        BY <2>5, <3>1, <3>2, <3>4
      <3> QED BY <3>2, <3>3, <3>4, <3>5, <3>6
    <2>7. \A j \in 1..n : l[j] = q => j = i
      BY <2>1, <2>3 DEF OnceEach
    <2>8. OnceEach(k)
      BY <2>1, <2>4, <2>6 DEF OnceEach
    <2>9. ToSet(k) = ToSet(l) \ {q}
      <3>1. ASSUME NEW j \in 1..(n - 1) PROVE k[j] \in ToSet(l) /\ k[j] # q
        <4>1. j \in 1..n /\ j # n /\ k[j] = IF j = i THEN l[n] ELSE l[j]
          BY <2>6
        <4>2. CASE j = i
          BY <2>1, <2>4, <2>7, <4>1, <4>2 DEF ToSet
        <4>3. CASE j # i
          BY <2>1, <2>7, <4>1, <4>3 DEF ToSet
        <4> QED BY <4>2, <4>3
      <3>2. ASSUME NEW j \in 1..n, l[j] # q PROVE \E h \in 1..(n - 1) : k[h] = l[j]
        <4>1. j # i
          BY <2>3, <3>2
        <4>2. CASE j = n
          <5>1. i \in 1..(n - 1)
            BY <4>1, <4>2
          <5> QED BY <2>6, <4>2, <5>1
        <4>3. CASE j # n
          <5>1. j \in 1..(n - 1)
            BY <4>3
          <5> QED BY <2>6, <4>1, <5>1
        <4> QED BY <4>2, <4>3
      <3>3. /\ ToSet(l) = {l[j] : j \in 1..n}
            /\ ToSet(k) = {k[j] : j \in 1..(n - 1)}
        BY <2>1, <2>6, Zenon DEF ToSet
      <3>4. ToSet(k) \subseteq ToSet(l) \ {q}
        BY <3>1, <3>3
      <3>5. ToSet(l) \ {q} \subseteq ToSet(k)
        BY <3>2, <3>3
      <3> QED BY <3>4, <3>5
    <2> QED BY <2>6, <2>8, <2>9
  <1> QED BY <1>1, <1>2

\* A queue that is not in the table has a place there.
LEMMA RoomForOne ==
    ASSUME NEW l \in Seq(Replies), OnceEach(l), NEW q \in Replies, q \notin ToSet(l),
           Cardinality(Replies) <= AckSlots
    PROVE  Len(l) < AckSlots
  <1>1. PICK n \in Nat : n = Len(l) /\ DOMAIN l = 1..n /\ l \in [1..n -> Replies]
    BY LenProperties
  <1>2. PICK R : R = Replies \ {q}
    OBVIOUS
  <1>3. l \in [1..n -> R]
    BY <1>1, <1>2 DEF ToSet
  <1>4. IsFiniteSet(R) /\ Cardinality(R) = Cardinality(Replies) - 1 /\ Cardinality(Replies) \in Nat
    BY <1>2, ConnectAssumption, FS_RemoveElement, FS_CardinalityType
  <1>5. IsFiniteSet(1..n) /\ Cardinality(1..n) = n
    BY FS_Interval
  <1>6. ~ (Cardinality(R) < n)
    <2>1. SUFFICES ASSUME Cardinality(R) < n PROVE FALSE
      OBVIOUS
    <2>2. \E i, j \in 1..n : i # j /\ l[i] = l[j]
      BY <1>3, <1>4, <1>5, <2>1, FS_PigeonHole
    <2> QED BY <1>1, <2>2 DEF OnceEach
  <1> QED BY <1>1, <1>4, <1>6, ConnectAssumption

LEMMA CnInitInv == CnInit => CnInv
  BY ServerTables, ConnectAssumption
  DEF CnInit, CnInv, CnTyped, OnceEach, NamedTold, AnswersRemembered, Named, ToSet

\* Nothing happens to the configuration server's clients.
LEMMA CnApart ==
    ASSUME CnInv, CnTyped', cnTable'["cfg"] = cnTable["cfg"],
           cnClient'["cfg"] = cnClient["cfg"], cnAcks'["cfg"] = cnAcks["cfg"]
    PROVE  CnInv'
  BY DEF CnInv, NamedTold, AnswersRemembered

\* One client of one server changes.
LEMMA OneClient ==
    ASSUME NEW S, NEW f \in [Servers -> [Replies -> S]], NEW s \in Servers, NEW q \in Replies,
           NEW v \in S, NEW g, g = [f EXCEPT ![s][q] = v]
    PROVE  /\ g \in [Servers -> [Replies -> S]] /\ g[s][q] = v
           /\ \A x \in Replies : x # q => g[s][x] = f[s][x]
           /\ \A u \in Servers : u # s => g[u] = f[u]
  <1>1. f[s] \in [Replies -> S]
    OBVIOUS
  <1>2. PICK h \in [Replies -> S] : h = [f[s] EXCEPT ![q] = v]
    BY <1>1
  <1>3. g = [f EXCEPT ![s] = h]
    BY <1>2
  <1> QED BY <1>1, <1>2, <1>3

\* What an answer does to the table and the acknowledgements of a server.
LEMMA AnswerKeeps ==
    ASSUME CnInv, NEW s \in Servers, NEW r \in Replies, Answer(s, r)
    PROVE  /\ DOMAIN cnTable' = {"cfg", "evt", "peer"}
           /\ cnAcks' \in [Servers -> [Replies -> Nat]]
           /\ s # "cfg" => cnTable'["cfg"] = cnTable["cfg"] /\ cnAcks'["cfg"] = cnAcks["cfg"]
           /\ s = "cfg" =>
                /\ \A x \in Replies : x # r => cnAcks'[s][x] = cnAcks[s][x]
                /\ \/ /\ r \in ToSet(cnTable["cfg"]) /\ cnTable' = cnTable /\ cnAcks' = cnAcks
                   \/ /\ r \notin ToSet(cnTable["cfg"]) /\ cnAcks'[s][r] = cnAcks[s][r] + 1
                      /\ cnTable'["cfg"] = IF Len(cnTable["cfg"]) < AckSlots
                                           THEN Append(cnTable["cfg"], r) ELSE cnTable["cfg"]
  <1>1. DOMAIN cnTable = {"cfg", "evt", "peer"} /\ cnAcks \in [Servers -> [Replies -> Nat]]
    BY DEF CnInv, CnTyped
  <1>2. Known("cfg", r) <=> r \in ToSet(cnTable["cfg"])
    BY ServerTables, Zenon DEF Known
  <1>3. CASE Known(s, r)
    BY <1>1, <1>2, <1>3 DEF Answer
  <1>4. CASE ~ Known(s, r)
    <2>1. PICK n \in Nat : n = cnAcks[s][r] + 1
      BY <1>1
    <2>2. cnAcks' = [cnAcks EXCEPT ![s][r] = n]
      BY <1>4, <2>1 DEF Answer
    <2>3. /\ cnAcks' \in [Servers -> [Replies -> Nat]] /\ cnAcks'[s][r] = n
          /\ \A x \in Replies : x # r => cnAcks'[s][x] = cnAcks[s][x]
          /\ \A u \in Servers : u # s => cnAcks'[u] = cnAcks[u]
      BY <1>1, <2>2, OneClient
    <2>4. PICK l : cnTable' = [cnTable EXCEPT ![TableOf(s)] = l]
                     /\ l = IF Len(cnTable[TableOf(s)]) < AckSlots
                            THEN Append(cnTable[TableOf(s)], Key(s, r)) ELSE cnTable[TableOf(s)]
      BY <1>4, Zenon DEF Answer
    <2>5. CASE s = "cfg"
      <3>1. cnTable'["cfg"] = l /\ DOMAIN cnTable' = DOMAIN cnTable
        BY <1>1, <2>4, <2>5, ServerTables
      <3>2. l = IF Len(cnTable["cfg"]) < AckSlots
                THEN Append(cnTable["cfg"], r) ELSE cnTable["cfg"]
        BY <2>4, <2>5, ServerTables, Zenon
      <3> QED BY <1>1, <1>2, <1>4, <2>1, <2>3, <2>5, <3>1, <3>2
    <2>6. CASE s # "cfg"
      <3>1. TableOf(s) # "cfg"
        BY <2>6, ServerTables
      <3>2. cnTable'["cfg"] = cnTable["cfg"] /\ DOMAIN cnTable' = DOMAIN cnTable
        BY <1>1, <2>4, <3>1
      <3> QED BY <1>1, <2>3, <2>6, <3>2, ServerTables
    <2> QED BY <2>5, <2>6
  <1> QED BY <1>3, <1>4

\* A connect, or one sent again.
LEMMA CnConnectKeeps ==
    ASSUME NamesApart, CnInv, NEW s \in Servers, NEW q \in Replies, Connect(s, q)
    PROVE  CnInv'
  <1>1. PICK r \in Replies : r = Resolve(q)
    BY ResolvedApart
  <1>2. /\ \A x \in Named : x # q => x # r
        /\ q \in Named => r = q
    BY <1>1, ResolvedApart
  <1>3. Answer(s, r) /\ cnClient' = [cnClient EXCEPT ![s][q] = "asked"] /\ cnClient[s][q] # "open"
    BY <1>1 DEF Connect
  <1>4. /\ cnClient' \in [Servers -> [Replies -> {"closed", "asked", "open"}]]
        /\ cnClient'[s][q] = "asked"
        /\ \A x \in Replies : x # q => cnClient'[s][x] = cnClient[s][x]
        /\ \A u \in Servers : u # s => cnClient'[u] = cnClient[u]
    BY <1>3, OneClient DEF CnInv, CnTyped
  <1>5. CASE s # "cfg"
    <2>1. cnTable'["cfg"] = cnTable["cfg"] /\ cnAcks'["cfg"] = cnAcks["cfg"] /\ CnTyped'
      BY <1>3, <1>4, <1>5, AnswerKeeps DEF CnInv, CnTyped
    <2> QED BY <1>4, <1>5, <2>1, CnApart, ServerTables
  <1>6. CASE s = "cfg"
    <2>1. PICK l \in Seq(Replies) : l = cnTable["cfg"] /\ OnceEach(l)
      BY DEF CnInv, CnTyped
    <2>2. /\ cnAcks'["cfg"] \in [Replies -> Nat] /\ cnAcks["cfg"] \in [Replies -> Nat]
          /\ \A x \in Replies : x # r => cnAcks'["cfg"][x] = cnAcks["cfg"][x]
          /\ DOMAIN cnTable' = {"cfg", "evt", "peer"}
          /\ \/ /\ r \in ToSet(l) /\ cnTable'["cfg"] = l /\ cnAcks' = cnAcks
             \/ /\ r \notin ToSet(l) /\ cnAcks'["cfg"][r] = cnAcks["cfg"][r] + 1
                /\ cnTable'["cfg"] = IF Len(l) < AckSlots THEN Append(l, r) ELSE l
      BY <1>3, <1>6, <2>1, AnswerKeeps, ServerTables DEF CnInv, CnTyped
    <2>3. /\ cnTable'["cfg"] \in Seq(Replies) /\ OnceEach(cnTable'["cfg"])
          /\ ToSet(l) \subseteq ToSet(cnTable'["cfg"])
          /\ ToSet(cnTable'["cfg"]) \subseteq ToSet(l) \cup {r}
          /\ Cardinality(Replies) <= AckSlots => r \in ToSet(cnTable'["cfg"])
      <3>1. CASE cnTable'["cfg"] = l
        BY <2>1, <2>2, <3>1, RoomForOne, Remembered
      <3>2. CASE r \notin ToSet(l) /\ cnTable'["cfg"] = Append(l, r)
        BY <2>1, <3>2, Remembered
      <3> QED BY <2>2, <3>1, <3>2
    <2>4. CnTyped'
      BY <1>3, <1>4, <1>6, <2>2, <2>3, AnswerKeeps DEF CnTyped
    <2>5. ASSUME NEW x \in Named
          PROVE  /\ cnClient'["cfg"][x] = "closed" => x \notin ToSet(cnTable'["cfg"])
                 /\ cnClient'["cfg"][x] = "asked" => cnAcks'["cfg"][x] > 0
      <3>1. /\ x \in Replies
            /\ cnClient["cfg"][x] = "closed" => x \notin ToSet(l)
            /\ cnClient["cfg"][x] = "asked" => cnAcks["cfg"][x] > 0
            /\ cnClient["cfg"][x] \in {"closed", "asked", "open"}
        BY <1>6, <2>1, <2>5 DEF CnInv, CnTyped, NamedTold, Named
      <3>2. CASE x # q
        BY <1>2, <1>4, <1>6, <2>2, <2>3, <3>1, <3>2
      <3>3. CASE x = q
        <4>1. r = q /\ cnClient'["cfg"][x] = "asked" /\ cnClient["cfg"][x] # "open"
          BY <1>2, <1>3, <1>4, <1>6, <3>3
        <4>2. CASE r \in ToSet(l)
          BY <2>2, <3>1, <3>3, <4>1, <4>2
        <4>3. CASE r \notin ToSet(l)
          BY <2>2, <3>1, <3>3, <4>1, <4>3
        <4> QED BY <4>2, <4>3
      <3> QED BY <3>2, <3>3
    <2>6. AnswersRemembered'
      <3> SUFFICES ASSUME Cardinality(Replies) <= AckSlots
                   PROVE  /\ \A x \in Replies : /\ cnAcks'["cfg"][x] <= 1
                                                /\ cnAcks'["cfg"][x] > 0 => x \in ToSet(cnTable'["cfg"])
                          /\ \A x \in Named : cnClient'["cfg"][x] = "open" => cnAcks'["cfg"][x] = 0
        BY DEF AnswersRemembered
      <3>1. /\ \A x \in Replies : /\ cnAcks["cfg"][x] <= 1
                                  /\ cnAcks["cfg"][x] > 0 => x \in ToSet(l)
            /\ \A x \in Named : cnClient["cfg"][x] = "open" => cnAcks["cfg"][x] = 0
        BY <2>1 DEF CnInv, AnswersRemembered
      <3>2. \A x \in Replies : /\ cnAcks'["cfg"][x] <= 1
                               /\ cnAcks'["cfg"][x] > 0 => x \in ToSet(cnTable'["cfg"])
        <4>1. ASSUME NEW x \in Replies, x # r
              PROVE  cnAcks'["cfg"][x] <= 1 /\ (cnAcks'["cfg"][x] > 0 => x \in ToSet(cnTable'["cfg"]))
          <5>1. cnAcks'["cfg"][x] = cnAcks["cfg"][x]
            BY <2>2, <4>1, Zenon
          <5> QED BY <2>3, <3>1, <5>1, Zenon
        <4>2. r \in ToSet(cnTable'["cfg"])
          BY <2>3, Zenon
        <4>3. cnAcks'["cfg"][r] <= 1
          <5>1. CASE cnAcks' = cnAcks
            BY <3>1, <5>1, Zenon
          <5>2. CASE r \notin ToSet(l) /\ cnAcks'["cfg"][r] = cnAcks["cfg"][r] + 1
            <6>1. cnAcks["cfg"][r] \in Nat /\ ~ (cnAcks["cfg"][r] > 0)
              BY <2>2, <3>1, <5>2
            <6> QED BY <5>2, <6>1
          <5> QED BY <2>2, <5>1, <5>2, Zenon
        <4> QED BY <4>1, <4>2, <4>3, Zenon
      <3>3. ASSUME NEW x \in Named, cnClient'["cfg"][x] = "open" PROVE cnAcks'["cfg"][x] = 0
        <4>1. x # q /\ x \in Replies
          BY <1>4, <1>6, <3>3 DEF Named
        <4> QED BY <1>2, <1>4, <1>6, <2>2, <3>1, <3>3, <4>1
      <3> QED BY <3>2, <3>3
    <2> QED BY <2>3, <2>4, <2>5, <2>6 DEF CnInv, NamedTold
  <1> QED BY <1>5, <1>6

\* An acknowledgement is read.
LEMMA CnReadKeeps ==
    ASSUME CnInv, NEW s \in Servers, NEW q \in Replies, ReadAck(s, q)
    PROVE  CnInv'
  <1>1. PICK n \in Nat : n = cnAcks[s][q] - 1 /\ cnAcks' = [cnAcks EXCEPT ![s][q] = n]
    <2>1. cnAcks[s][q] \in Nat /\ cnAcks[s][q] > 0
      BY DEF CnInv, CnTyped, ReadAck
    <2>2. cnAcks' = [cnAcks EXCEPT ![s][q] = cnAcks[s][q] - 1]
      BY DEF ReadAck, CnInv, CnTyped
    <2>3. PICK n \in Nat : n = cnAcks[s][q] - 1
      BY <2>1
    <2> QED BY <2>2, <2>3
  <1>2. PICK c \in {"closed", "asked", "open"} :
          /\ c = (IF cnClient[s][q] = "asked" THEN "open" ELSE cnClient[s][q])
          /\ cnClient' = [cnClient EXCEPT ![s][q] = c]
    <2>1. cnClient[s][q] \in {"closed", "asked", "open"}
      BY DEF CnInv, CnTyped
    <2> QED BY <2>1 DEF ReadAck
  <1>3. /\ cnAcks' \in [Servers -> [Replies -> Nat]] /\ cnAcks'[s][q] = n
        /\ \A x \in Replies : x # q => cnAcks'[s][x] = cnAcks[s][x]
        /\ \A u \in Servers : u # s => cnAcks'[u] = cnAcks[u]
    BY <1>1, OneClient DEF CnInv, CnTyped
  <1>4. /\ cnClient' \in [Servers -> [Replies -> {"closed", "asked", "open"}]]
        /\ cnClient'[s][q] = c
        /\ \A x \in Replies : x # q => cnClient'[s][x] = cnClient[s][x]
        /\ \A u \in Servers : u # s => cnClient'[u] = cnClient[u]
    BY <1>2, OneClient DEF CnInv, CnTyped
  <1>5. cnTable' = cnTable /\ CnTyped'
    BY <1>3, <1>4 DEF ReadAck, CnInv, CnTyped
  <1>6. CASE s # "cfg"
    BY <1>3, <1>4, <1>5, <1>6, CnApart, ServerTables
  <1>7. CASE s = "cfg"
    <2>1. cnAcks["cfg"] \in [Replies -> Nat]
      BY ServerTables DEF CnInv, CnTyped
    <2>2. NamedTold'
      <3>1. ASSUME NEW x \in Named
            PROVE  /\ cnClient'["cfg"][x] = "closed" => x \notin ToSet(cnTable["cfg"])
                   /\ cnClient'["cfg"][x] = "asked" => cnAcks'["cfg"][x] > 0
        <4>1. x \in Replies
          BY <3>1 DEF Named
        <4>2. CASE x = q
          BY <1>2, <1>4, <1>7, <3>1, <4>2 DEF CnInv, NamedTold
        <4>3. CASE x # q
          BY <1>3, <1>4, <1>7, <3>1, <4>1, <4>3 DEF CnInv, NamedTold
        <4> QED BY <4>2, <4>3
      <3> QED BY <1>5, <3>1 DEF NamedTold
    <2>3. AnswersRemembered'
      <3> SUFFICES ASSUME Cardinality(Replies) <= AckSlots
                   PROVE  /\ \A x \in Replies : /\ cnAcks'["cfg"][x] <= 1
                                                /\ cnAcks'["cfg"][x] > 0 => x \in ToSet(cnTable["cfg"])
                          /\ \A x \in Named : cnClient'["cfg"][x] = "open" => cnAcks'["cfg"][x] = 0
        BY <1>5 DEF AnswersRemembered
      <3>1. /\ \A x \in Replies : /\ cnAcks["cfg"][x] <= 1
                                  /\ cnAcks["cfg"][x] > 0 => x \in ToSet(cnTable["cfg"])
            /\ \A x \in Named : cnClient["cfg"][x] = "open" => cnAcks["cfg"][x] = 0
        BY DEF CnInv, AnswersRemembered
      <3>2. n = 0 /\ cnAcks["cfg"][q] = 1
        BY <1>1, <1>7, <2>1, <3>1
      <3>3. ASSUME NEW x \in Replies
            PROVE  /\ cnAcks'["cfg"][x] <= 1
                   /\ cnAcks'["cfg"][x] > 0 => x \in ToSet(cnTable["cfg"])
        BY <1>3, <1>7, <2>1, <3>1, <3>2
      <3>4. ASSUME NEW x \in Named, cnClient'["cfg"][x] = "open" PROVE cnAcks'["cfg"][x] = 0
        <4>1. x \in Replies
          BY <3>4 DEF Named
        <4> QED BY <1>3, <1>4, <1>7, <3>1, <3>2, <3>4, <4>1
      <3> QED BY <3>3, <3>4
    <2> QED BY <1>5, <2>2, <2>3 DEF CnInv
  <1> QED BY <1>6, <1>7

\* A disconnect: a client that gives its name is forgotten.
LEMMA CnDisconnectKeeps ==
    ASSUME CnInv, NEW q \in Replies, Disconnect(q)
    PROVE  CnInv'
  <1>1. /\ cnClient' = [cnClient EXCEPT !["cfg"][q] = "closed"] /\ cnAcks' = cnAcks
        /\ cnClient["cfg"][q] = "open"
    BY DEF Disconnect
  <1>2. /\ cnClient' \in [Servers -> [Replies -> {"closed", "asked", "open"}]]
        /\ cnClient'["cfg"][q] = "closed"
        /\ \A x \in Replies : x # q => cnClient'["cfg"][x] = cnClient["cfg"][x]
    BY <1>1, OneClient, ServerTables DEF CnInv, CnTyped
  <1>3. PICK l \in Seq(Replies) : l = cnTable["cfg"] /\ OnceEach(l)
    BY DEF CnInv, CnTyped
  <1>4. /\ DOMAIN cnTable' = {"cfg", "evt", "peer"} /\ cnTable'["cfg"] \in Seq(Replies)
        /\ OnceEach(cnTable'["cfg"])
        /\ ToSet(cnTable'["cfg"]) = IF q \in Embedding THEN ToSet(l) ELSE ToSet(l) \ {q}
    <2>1. CASE q \in Embedding
      BY <1>3, <2>1 DEF Disconnect, CnInv, CnTyped
    <2>2. CASE q \notin Embedding
      <3>1. PICK k \in Seq(Replies) :
              k = Forget(l, q) /\ OnceEach(k) /\ ToSet(k) = ToSet(l) \ {q}
        BY <1>3, Forgotten
      <3>2. cnTable' = [cnTable EXCEPT !["cfg"] = k]
        BY <1>3, <2>2, <3>1 DEF Disconnect
      <3>3. cnTable'["cfg"] = k /\ DOMAIN cnTable' = {"cfg", "evt", "peer"}
        BY <3>2 DEF CnInv, CnTyped
      <3> QED BY <2>2, <3>1, <3>3
    <2> QED BY <2>1, <2>2
  <1>5. CnTyped'
    BY <1>1, <1>2, <1>4 DEF CnInv, CnTyped
  <1>6. NamedTold'
    <2>1. ASSUME NEW x \in Named
          PROVE  /\ cnClient'["cfg"][x] = "closed" => x \notin ToSet(cnTable'["cfg"])
                 /\ cnClient'["cfg"][x] = "asked" => cnAcks'["cfg"][x] > 0
      <3>1. x \in Replies /\ x \notin Embedding
        BY <2>1 DEF Named
      <3>2. CASE x = q
        BY <1>2, <1>4, <3>1, <3>2
      <3>3. CASE x # q
        <4>1. /\ cnClient["cfg"][x] = "closed" => x \notin ToSet(l)
              /\ cnClient["cfg"][x] = "asked" => cnAcks["cfg"][x] > 0
          BY <1>3, <2>1 DEF CnInv, NamedTold
        <4> QED BY <1>1, <1>2, <1>4, <3>1, <3>3, <4>1
      <3> QED BY <3>2, <3>3
    <2> QED BY <2>1 DEF NamedTold
  <1>7. AnswersRemembered'
    <2> SUFFICES ASSUME Cardinality(Replies) <= AckSlots
                 PROVE  /\ \A x \in Replies : /\ cnAcks["cfg"][x] <= 1
                                              /\ cnAcks["cfg"][x] > 0 => x \in ToSet(cnTable'["cfg"])
                        /\ \A x \in Named : cnClient'["cfg"][x] = "open" => cnAcks["cfg"][x] = 0
      BY <1>1 DEF AnswersRemembered
    <2>1. /\ \A x \in Replies : /\ cnAcks["cfg"][x] <= 1
                                /\ cnAcks["cfg"][x] > 0 => x \in ToSet(l)
          /\ \A x \in Named : cnClient["cfg"][x] = "open" => cnAcks["cfg"][x] = 0
      BY <1>3 DEF CnInv, AnswersRemembered
    <2>2. ASSUME NEW x \in Replies, cnAcks["cfg"][x] > 0 PROVE x \in ToSet(cnTable'["cfg"])
      <3>1. CASE q \in Embedding
        BY <1>4, <2>1, <2>2, <3>1
      <3>2. CASE q \notin Embedding
        <4>1. cnAcks["cfg"][q] = 0
          BY <1>1, <2>1, <3>2 DEF Named
        <4> QED BY <1>4, <2>1, <2>2, <3>2, <4>1
      <3> QED BY <3>1, <3>2
    <2>3. ASSUME NEW x \in Named, cnClient'["cfg"][x] = "open" PROVE cnAcks["cfg"][x] = 0
      BY <1>2, <2>1, <2>3 DEF Named
    <2> QED BY <2>1, <2>2, <2>3
  <1> QED BY <1>4, <1>5, <1>6, <1>7 DEF CnInv

LEMMA CnInvStep == NamesApart /\ CnInv /\ [CnNext]_cnVars => CnInv'
  <1> SUFFICES ASSUME NamesApart, CnInv, [CnNext]_cnVars PROVE CnInv'
    OBVIOUS
  <1>1. CASE cnTable' = cnTable /\ cnClient' = cnClient /\ cnAcks' = cnAcks
    BY <1>1, CnApart DEF CnInv, CnTyped
  <1>2. CASE UNCHANGED cnVars
    BY <1>1, <1>2 DEF cnVars
  <1>3. ASSUME NEW q \in Replies, BroadcastRegister(q) PROVE CnInv'
    BY <1>1, <1>3 DEF BroadcastRegister
  <1>4. CASE EvtErrorRequest \/ ReadCfgGlobal
    BY <1>1, <1>4 DEF EvtErrorRequest, ReadCfgGlobal
  <1> QED BY <1>2, <1>3, <1>4, CnConnectKeeps, CnReadKeeps, CnDisconnectKeeps DEF CnNext

\* The answer to an event error request and the client's target.
LEMMA TargetStep == AnswerAfterTarget /\ [CnNext]_cnVars => AnswerAfterTarget'
  <1> SUFFICES ASSUME AnswerAfterTarget, [CnNext]_cnVars PROVE AnswerAfterTarget'
    OBVIOUS
  <1>1. (cnAnswers' = cnAnswers /\ cnTarget' = cnTarget) \/ cnTarget'
    BY DEF CnNext, Connect, ReadAck, Disconnect, BroadcastRegister, EvtErrorRequest,
           ReadCfgGlobal, cnError, cnVars
  <1> QED BY <1>1 DEF AnswerAfterTarget

(* For every number of clients, queues and places in the table, and however *)
(* often a connect is sent again: while no text is taken for the queue of a *)
(* client that gives its name, such a client finds its connect acknowledged,*)
(* on every connect; with room for all no client is acknowledged twice; and *)
(* the event error answer comes after the client's target.                  *)
THEOREM ConnectsTold == NamesApart => (CnSpec => []ConnectsAnswered)
  <1> SUFFICES ASSUME NamesApart PROVE CnSpec => []ConnectsAnswered
    OBVIOUS
  <1>1. CnInv /\ [CnNext]_cnVars => CnInv'
    BY CnInvStep
  <1>2. CnInit => AnswerAfterTarget
    BY DEF CnInit, AnswerAfterTarget
  <1>3. CnInv => NamedConnectAcked /\ OneAckPerConnect
    <2>1. CnInv => NamedConnectAcked
      BY DEF CnInv, NamedTold, NamedConnectAcked, Waiting, Named
    <2> QED BY <2>1 DEF CnInv, AnswersRemembered, OneAckPerConnect
  <1>4. CnInv /\ AnswerAfterTarget => ConnectsAnswered
    BY <1>3 DEF ConnectsAnswered
  <1> QED BY <1>1, <1>2, <1>4, CnInitInv, TargetStep, PTL DEF CnSpec

-----------------------------------------------------------------------------
(* The shims                                                               *)

PtTyped ==
    /\ ptAt \in [Patchers -> Nat]
    /\ ptStep \in [Patchers -> {"out", "begin", "compare", "protect", "done"}]
    /\ code \in [Sites -> {"old", "other", "new"}]
    /\ \A x \in Patchers : /\ ptAt[x] <= Len(sitesOf[x])
                           /\ ptStep[x] \in {"begin", "compare", "protect"} => ptAt[x] > 0
                           /\ ptStep[x] = "out" => ptAt[x] = 0

\* Nothing is written over but what was known, and what was known is never
\* taken for something else.
KnownCode == \A s \in Sites : s \in known <=> code[s] # "other"

\* Place s needs nothing more.
Patched(s) == s \in known /\ span[s] \cap failing = {} => code[s] = "new"

\* A patcher has patched the places it has left behind.
PlacesPatched ==
    \A x \in Patchers : \A i \in 1..ptAt[x] :
        i < ptAt[x] \/ ptStep[x] \in {"protect", "done"} => Patched(sitesOf[x][i])

\* Each writable page belongs to the place some patcher is working at.
PagesNeeded ==
    \A p \in writable : \E x \in Patchers :
        ptStep[x] \in {"compare", "protect"} /\ p \in span[Site(x)]

PtInv == PtTyped /\ KnownCode /\ PlacesPatched /\ PagesNeeded

\* The place a patcher works at is one of its own.
LEMMA OwnPlace ==
    ASSUME NEW x \in Patchers, NEW n \in 1..Len(sitesOf[x])
    PROVE  sitesOf[x][n] \in Sites
  BY PatchAssumption, ElementOfSeq

LEMMA PtInitInv == PtInit => PtInv
  <1> SUFFICES ASSUME PtInit PROVE PtInv
    OBVIOUS
  <1>1. \A x \in Patchers : Len(sitesOf[x]) \in Nat
    BY PatchAssumption, LenProperties
  <1>2. PtTyped
    BY <1>1 DEF PtInit, PtTyped
  <1>3. KnownCode
    BY DEF PtInit, KnownCode
  <1>4. PlacesPatched /\ PagesNeeded
    BY DEF PtInit, PlacesPatched, PagesNeeded
  <1> QED BY <1>2, <1>3, <1>4 DEF PtInv

\* How a patcher goes on.
LEMMA NextPlace ==
    ASSUME PtInv, NEW x \in Patchers, NEW patched, PtNextSite(x, patched), ptAt[x] > 0
    PROVE  \E n \in Nat, w \in {"begin", "done"} :
             /\ ptAt' = [ptAt EXCEPT ![x] = n] /\ ptStep' = [ptStep EXCEPT ![x] = w]
             /\ n <= Len(sitesOf[x])
             /\ (w = "begin" /\ n = ptAt[x] + 1) \/ (w = "done" /\ n = ptAt[x])
  <1>1. ptAt[x] \in Nat /\ Len(sitesOf[x]) \in Nat /\ ptAt[x] <= Len(sitesOf[x])
    BY PatchAssumption, LenProperties DEF PtInv, PtTyped
  <1>2. CASE ptAt[x] < Len(sitesOf[x]) /\ (patched \/ ptAt[x] > 1 \/ x \notin givesUp)
    <2>1. PICK n \in Nat : n = ptAt[x] + 1
      BY <1>1
    <2>2. ptAt' = [ptAt EXCEPT ![x] = n] /\ ptStep' = [ptStep EXCEPT ![x] = "begin"]
      BY <1>2, <2>1 DEF PtNextSite
    <2>3. n <= Len(sitesOf[x])
      BY <1>1, <1>2, <2>1
    <2> QED BY <2>1, <2>2, <2>3, Zenon
  <1>3. CASE ~ (ptAt[x] < Len(sitesOf[x]) /\ (patched \/ ptAt[x] > 1 \/ x \notin givesUp))
    <2>1. ptAt' = ptAt /\ ptStep' = [ptStep EXCEPT ![x] = "done"]
      BY <1>3, Zenon DEF PtNextSite
    <2>2. ptAt' = [ptAt EXCEPT ![x] = ptAt[x]]
      BY <2>1 DEF PtInv, PtTyped
    <2> QED BY <1>1, <2>1, <2>2
  <1> QED BY <1>2, <1>3

\* A patcher that leaves its place leaves it patched.
LEMMA PtLeaves ==
    ASSUME PtInv, NEW x \in Patchers, NEW n \in Nat, NEW w \in {"begin", "done"},
           ptAt' = [ptAt EXCEPT ![x] = n], ptStep' = [ptStep EXCEPT ![x] = w],
           n <= Len(sitesOf[x]), ptAt[x] > 0,
           (w = "begin" /\ n = ptAt[x] + 1) \/ (w = "done" /\ n = ptAt[x]),
           UNCHANGED <<code, failing, known>>, Patched(Site(x))
    PROVE  PtTyped' /\ KnownCode' /\ PlacesPatched'
  <1>1. PtTyped'
    BY DEF PtInv, PtTyped
  <1>2. KnownCode'
    BY DEF PtInv, KnownCode
  <1>3. \A s : Patched(s)' <=> Patched(s)
    BY DEF Patched
  <1>4. ASSUME NEW y \in Patchers, NEW i \in 1..ptAt'[y],
               i < ptAt'[y] \/ ptStep'[y] \in {"protect", "done"}
        PROVE  Patched(sitesOf[y][i])
    <2>1. CASE y # x
      BY <1>4, <2>1 DEF PtInv, PtTyped, PlacesPatched
    <2>2. CASE y = x
      <3>1. ptAt'[x] = n /\ ptStep'[x] = w /\ ptAt[x] \in Nat
        BY DEF PtInv, PtTyped
      <3>2. CASE i = ptAt[x]
        BY <2>2, <3>2 DEF Site
      <3>3. CASE i # ptAt[x]
        <4>1. i \in 1..ptAt[x] /\ i < ptAt[x]
          BY <1>4, <2>2, <3>1, <3>3
        <4> QED BY <2>2, <4>1 DEF PtInv, PlacesPatched
      <3> QED BY <3>2, <3>3
    <2> QED BY <2>1, <2>2
  <1> QED BY <1>1, <1>2, <1>3, <1>4 DEF PlacesPatched

\* The library is mapped, or looked for.
LEMMA PtFindKeeps ==
    ASSUME PtInv, NEW x \in Patchers, PtMap(x) \/ FindBase(x)
    PROVE  PtInv'
  <1>1. UNCHANGED <<code, writable, failing, known>>
    BY DEF PtMap, FindBase
  <1>2. CASE PtMap(x)
    <2>1. ptAt' = ptAt /\ ptStep' = ptStep
      BY <1>2 DEF PtMap
    <2> QED BY <1>1, <2>1
            DEF PtInv, PtTyped, KnownCode, PlacesPatched, Patched, PagesNeeded, Site
  <1>3. CASE FindBase(x)
    <2>1. ptAt[x] = 0 /\ ptStep[x] = "out" /\ ptAt \in [Patchers -> Nat]
      BY <1>3 DEF FindBase, PtInv, PtTyped
    <2>2. PICK n \in {0, 1}, w \in {"begin", "done"} :
            /\ ptAt' = [ptAt EXCEPT ![x] = n] /\ ptStep' = [ptStep EXCEPT ![x] = w]
            /\ (w = "begin" /\ n = 1) \/ (w = "done" /\ n = 0)
      <3>1. CASE image[x]
        BY <1>3, <3>1 DEF FindBase
      <3>2. CASE ~ image[x]
        <4>1. ptAt' = ptAt /\ ptStep' = [ptStep EXCEPT ![x] = "done"]
          BY <1>3, <3>2 DEF FindBase
        <4>2. ptAt' = [ptAt EXCEPT ![x] = 0]
          BY <2>1, <4>1
        <4> QED BY <4>1, <4>2
      <3> QED BY <3>1, <3>2
    <2>3. Len(sitesOf[x]) \in Nat \ {0}
      BY PatchAssumption, EmptySeq
    <2>4. PtTyped'
      BY <1>1, <2>1, <2>2, <2>3 DEF PtInv, PtTyped
    <2>5. KnownCode'
      BY <1>1 DEF PtInv, KnownCode
    <2>6. PlacesPatched'
      <3>1. \A s : Patched(s)' <=> Patched(s)
        BY <1>1 DEF Patched
      <3>2. ASSUME NEW y \in Patchers, NEW i \in 1..ptAt'[y],
                   i < ptAt'[y] \/ ptStep'[y] \in {"protect", "done"}
            PROVE  Patched(sitesOf[y][i])
        <4>1. CASE y = x
          BY <2>1, <2>2, <3>2, <4>1 DEF PtInv, PtTyped
        <4>2. CASE y # x
          BY <2>2, <3>2, <4>2 DEF PtInv, PtTyped, PlacesPatched
        <4> QED BY <4>1, <4>2
      <3> QED BY <3>1, <3>2 DEF PlacesPatched
    <2>7. PagesNeeded'
      <3>1. ASSUME NEW y \in Patchers, ptStep[y] \in {"compare", "protect"}
            PROVE  ptStep'[y] = ptStep[y] /\ Site(y)' = Site(y)
        BY <2>1, <2>2, <3>1 DEF PtInv, PtTyped, Site
      <3> QED BY <1>1, <3>1 DEF PtInv, PagesNeeded
    <2> QED BY <2>4, <2>5, <2>6, <2>7 DEF PtInv
  <1> QED BY <1>2, <1>3

\* The pages are made writable, or the place is left alone.
LEMMA PtUnprotectKeeps ==
    ASSUME PtInv, NEW x \in Patchers, PtAlone(x), Unprotect(x)
    PROVE  PtInv'
  <1>1. /\ ptStep[x] = "begin" /\ ptAt[x] \in 1..Len(sitesOf[x])
        /\ UNCHANGED <<code, failing, known>>
    <2>1. ptAt[x] \in Nat /\ ptAt[x] > 0 /\ ptAt[x] <= Len(sitesOf[x])
      BY DEF Unprotect, PtInv, PtTyped
    <2> QED BY <2>1, PatchAssumption, LenProperties DEF Unprotect
  <1>2. Site(x) \in Sites
    BY <1>1, OwnPlace DEF Site
  <1>3. writable = {}
    BY <1>1 DEF PtAlone, PtInv, PagesNeeded
  <1>4. CASE (x \in comparesFirst /\ code[Site(x)] # "old") \/ span[Site(x)] \cap failing # {}
    <2>1. PtNextSite(x, FALSE) /\ writable' = writable
      BY <1>4 DEF Unprotect
    <2>2. Patched(Site(x))
      BY <1>2, <1>4 DEF Patched, PtInv, PtTyped, KnownCode
    <2>3. ptAt[x] > 0
      BY <1>1
    <2>4. PICK n \in Nat, w \in {"begin", "done"} :
            /\ ptAt' = [ptAt EXCEPT ![x] = n] /\ ptStep' = [ptStep EXCEPT ![x] = w]
            /\ n <= Len(sitesOf[x])
            /\ (w = "begin" /\ n = ptAt[x] + 1) \/ (w = "done" /\ n = ptAt[x])
      BY <2>1, <2>3, NextPlace
    <2>5. PtTyped' /\ KnownCode' /\ PlacesPatched'
      BY <1>1, <2>2, <2>3, <2>4, PtLeaves
    <2>6. PagesNeeded'
      BY <1>3, <2>1 DEF PagesNeeded
    <2> QED BY <2>5, <2>6 DEF PtInv
  <1>5. CASE ~ ((x \in comparesFirst /\ code[Site(x)] # "old") \/ span[Site(x)] \cap failing # {})
    <2>1. /\ writable' = writable \cup span[Site(x)] /\ ptAt' = ptAt
          /\ ptStep' = [ptStep EXCEPT ![x] = "compare"]
      BY <1>5 DEF Unprotect
    <2>2. PtTyped' /\ KnownCode'
      BY <1>1, <2>1 DEF PtInv, PtTyped, KnownCode
    <2>3. PlacesPatched'
      BY <1>1, <2>1 DEF PtInv, PtTyped, PlacesPatched, Patched
    <2>4. PagesNeeded'
      BY <1>3, <2>1 DEF PtInv, PtTyped, PagesNeeded, Site
    <2> QED BY <2>2, <2>3, <2>4 DEF PtInv
  <1> QED BY <1>4, <1>5

\* The known bytes are written over.
LEMMA PtCompareKeeps ==
    ASSUME PtInv, NEW x \in Patchers, Compare(x)
    PROVE  PtInv'
  <1>1. /\ ptStep[x] = "compare" /\ ptAt[x] \in 1..Len(sitesOf[x])
        /\ UNCHANGED <<ptAt, writable, failing, known>>
        /\ ptStep' = [ptStep EXCEPT ![x] = "protect"]
    <2>1. ptAt[x] \in Nat /\ ptAt[x] > 0 /\ ptAt[x] <= Len(sitesOf[x])
      BY DEF Compare, PtInv, PtTyped
    <2> QED BY <2>1, PatchAssumption, LenProperties DEF Compare
  <1>2. PICK h \in Sites : h = Site(x)
    BY <1>1, OwnPlace DEF Site
  <1>3. PICK v \in {"other", "new"} :
          code' = [code EXCEPT ![h] = v] /\ v = IF code[h] = "old" THEN "new" ELSE code[h]
    <2>1. code' = [code EXCEPT ![h] = IF code[h] = "old" THEN "new" ELSE code[h]]
      BY <1>2 DEF Compare, PtInv, PtTyped
    <2>2. code[h] \in {"old", "other", "new"}
      BY DEF PtInv, PtTyped
    <2> QED BY <2>1, <2>2
  <1>4. PtTyped' /\ KnownCode'
    <2>1. PtTyped'
      BY <1>1, <1>3 DEF PtInv, PtTyped
    <2>2. v = "other" <=> code[h] = "other"
      BY <1>3 DEF PtInv, PtTyped
    <2>3. KnownCode'
      BY <1>1, <1>3, <2>2 DEF PtInv, PtTyped, KnownCode
    <2> QED BY <2>1, <2>3
  <1>5. \A s : Patched(s) /\ s \in Sites => Patched(s)'
    BY <1>1, <1>3 DEF Patched, PtInv, PtTyped
  <1>6. Patched(h)'
    BY <1>1, <1>3 DEF Patched, PtInv, PtTyped, KnownCode
  <1>7. PlacesPatched'
    <2>1. ASSUME NEW y \in Patchers, NEW i \in 1..ptAt[y],
                 i < ptAt[y] \/ ptStep'[y] \in {"protect", "done"}
          PROVE  Patched(sitesOf[y][i])'
      <3>1. sitesOf[y][i] \in Sites
        <4>1. ptAt[y] \in Nat /\ ptAt[y] <= Len(sitesOf[y]) /\ Len(sitesOf[y]) \in Nat
          BY PatchAssumption, LenProperties DEF PtInv, PtTyped
        <4>2. i \in 1..Len(sitesOf[y])
          BY <4>1
        <4> QED BY <4>2, OwnPlace
      <3>2. CASE Patched(sitesOf[y][i])
        BY <1>5, <3>1, <3>2
      <3>3. CASE y = x /\ i = ptAt[x]
        BY <1>2, <1>6, <3>3 DEF Site
      <3>4. CASE ~ (y = x /\ i = ptAt[x])
        <4>1. ptAt[y] \in Nat /\ (y # x => ptStep'[y] = ptStep[y])
          BY <1>1 DEF PtInv, PtTyped
        <4>2. i < ptAt[y] \/ ptStep[y] \in {"protect", "done"}
          <5>1. CASE y = x
            BY <3>4, <4>1, <5>1
          <5>2. CASE y # x
            BY <2>1, <4>1, <5>2
          <5> QED BY <5>1, <5>2
        <4>3. Patched(sitesOf[y][i])
          BY <4>2, Zenon DEF PtInv, PlacesPatched
        <4> QED BY <3>2, <4>3
      <3> QED BY <3>3, <3>4
    <2> QED BY <1>1, <2>1 DEF PlacesPatched
  <1>8. PagesNeeded'
    BY <1>1 DEF PtInv, PtTyped, PagesNeeded, Site
  <1> QED BY <1>4, <1>7, <1>8 DEF PtInv

\* The pages are read-only again.
LEMMA PtProtectKeeps ==
    ASSUME PtInv, NEW x \in Patchers, PtAlone(x), Protect(x)
    PROVE  PtInv'
  <1>1. /\ ptStep[x] = "protect" /\ ptAt[x] \in Nat /\ ptAt[x] > 0
        /\ UNCHANGED <<code, failing, known>>
    BY DEF Protect, PtInv, PtTyped
  <1>2. writable' = {}
    <2>1. writable' = writable \ span[Site(x)]
      BY DEF Protect
    <2>2. \A y \in Patchers : ptStep[y] \in {"compare", "protect"} => y = x
      BY DEF PtAlone
    <2> QED BY <2>1, <2>2 DEF PtInv, PagesNeeded
  <1>3. Patched(Site(x))
    BY <1>1 DEF PtInv, PlacesPatched, Site
  <1>4. PtTyped' /\ KnownCode' /\ PlacesPatched'
    <2>1. PICK patched : PtNextSite(x, patched)
      BY DEF Protect
    <2> QED BY <1>1, <1>3, <2>1, NextPlace, PtLeaves
  <1>5. PagesNeeded'
    BY <1>2 DEF PagesNeeded
  <1> QED BY <1>4, <1>5 DEF PtInv

LEMMA PtInvStep == PtInv /\ [PtNext]_ptVars => PtInv'
  <1> SUFFICES ASSUME PtInv, [PtNext]_ptVars PROVE PtInv'
    OBVIOUS
  <1>1. CASE UNCHANGED ptVars
    BY <1>1 DEF ptVars, PtInv, PtTyped, KnownCode, PlacesPatched, Patched, PagesNeeded, Site
  <1>2. CASE PtNext
    BY <1>2, PtFindKeeps, PtUnprotectKeeps, PtCompareKeeps, PtProtectKeeps DEF PtNext, PtStep
  <1> QED BY <1>1, <1>2

LEMMA PtInvExact == PtInv => PatchedExactly
  <1> SUFFICES ASSUME PtInv PROVE PatchedExactly
    OBVIOUS
  <1>1. \A s \in Sites : code[s] = "new" => s \in known
    BY DEF PtInv, KnownCode
  <1>2. \A x \in Patchers : ptStep[x] = "done" => \A i \in 1..ptAt[x] : Patched(sitesOf[x][i])
    BY DEF PtInv, PlacesPatched
  <1>3. writable \subseteq UNION {span[Site(x)] : x \in {y \in Patchers :
                                    ptStep[y] \in {"compare", "protect"}}}
    BY DEF PtInv, PagesNeeded
  <1> QED BY <1>1, <1>2, <1>3 DEF PatchedExactly, Patched

\* However often a disk fails for a while, the errors made and those to come are
\* no more than it has in a row; only the end of a copy removes the source.
GfInv ==
    /\ eio \in Nat /\ ill \in Nat /\ repaired \in BOOLEAN /\ dead \in BOOLEAN
    /\ ill <= MaxEio /\ (~ dead => eio + ill <= MaxEio)
    /\ mover = "start" => from = "whole"
    /\ ErrorsSurface /\ NoFileLost

LEMMA GfInitInv == GfInit => GfInv
  BY FileAssumption DEF GfInit, GfInv, ErrorsSurface, NoFileLost

LEMMA GfInvStep == GfInv /\ [GfNext]_gfVars => GfInv'
  <1> SUFFICES ASSUME GfInv, [GfNext]_gfVars PROVE GfInv'
    OBVIOUS
  <1>1. CASE UNCHANGED gfVars
    BY <1>1 DEF gfVars, GfInv, ErrorsSurface, NoFileLost
  <1>2. CASE ReadInterrupted
    BY <1>2 DEF ReadInterrupted, Fails, Retried, moveVars, GfInv, ErrorsSurface, NoFileLost
  <1>3. CASE ReadFails
    <2>1. UNCHANGED <<repaired, eintr, dead, moveVars>> /\ (ill > 0 \/ dead)
          /\ ill' = IF ill > 0 THEN ill - 1 ELSE ill
      BY <1>3 DEF ReadFails
    <2>2. CASE repaired /\ eio < EIO_MAX
      <3>1. eio' = eio + 1 /\ reader' = "try"
        BY <1>3, <2>2 DEF ReadFails, Fails, Retried
      <3> QED BY <2>1, <3>1, FileAssumption DEF moveVars, GfInv, ErrorsSurface, NoFileLost
    <2>3. CASE ~ (repaired /\ eio < EIO_MAX)
      <3>1. eio' = eio /\ reader' = "EIO"
        BY <1>3, <2>3 DEF ReadFails, Fails, Retried
      <3> QED BY <2>1, <2>3, <3>1, FileAssumption DEF moveVars, GfInv, ErrorsSurface, NoFileLost
    <2> QED BY <2>2, <2>3
  <1>4. CASE ReadData \/ Rename
    BY <1>4 DEF ReadData, Rename, moveVars, GfInv, ErrorsSurface, NoFileLost
  <1>5. CASE CopyRead \/ CopyWrite
    BY <1>5 DEF CopyRead, CopyWrite, moveVars, GfInv, ErrorsSurface, NoFileLost
  <1>6. CASE CopyEnd
    BY <1>6 DEF CopyEnd, GfInv, ErrorsSurface, NoFileLost
  <1> QED BY <1>1, <1>2, <1>3, <1>4, <1>5, <1>6 DEF GfNext

\* A chunk that is in use is in a mapping that is there; the vector is not a
\* chunk that malloc() could hand out.
FfInv ==
    /\ block \in [FfBlocks -> {"new", "live", "freed", "kept"}] /\ vector \in FfBlocks \cup {0}
    /\ \A b \in FfBlocks : block[b] = "live" => regionOf[b] \in regions
    /\ filter \in {"keep", "fred"} /\ inFred /\ vector # 0 => block[vector] \in {"live", "kept"}
    /\ VectorIntact /\ ChunksFreed

LEMMA FfInitInv == FfInit => FfInv
  BY ChunkAssumption DEF FfInit, FfInv, VectorIntact, ChunksFreed

LEMMA FfInvStep == FfInv /\ [FfNext]_ffVars => FfInv'
  <1> SUFFICES ASSUME FfInv, [FfNext]_ffVars PROVE FfInv'
    OBVIOUS
  <1>1. CASE UNCHANGED ffVars
    BY <1>1 DEF ffVars, FfInv, VectorIntact, ChunksFreed
  <1>2. CASE Grow \/ DeleteRogue
    BY <1>2 DEF Grow, DeleteRogue, FfInv, VectorIntact, ChunksFreed
  <1>3. CASE Malloc
    <2>1. PICK b \in FfBlocks :
            /\ regionOf[b] \in regions /\ block[b] \in {"new", "freed"}
            /\ block' = [block EXCEPT ![b] = "live"]
            /\ \/ vector = 0 /\ vector' = b /\ UNCHANGED intact
               \/ intact' = (intact /\ vector # b) /\ UNCHANGED vector
      BY <1>3 DEF Malloc
    <2>2. UNCHANGED <<filter, inFred, regions, reg, aborted>>
      BY <1>3 DEF Malloc
    <2>3. filter \in {"keep", "fred"} /\ inFred /\ vector # 0 => vector # b
      BY <2>1 DEF FfInv
    <2>4. /\ block' \in [FfBlocks -> {"new", "live", "freed", "kept"}]
          /\ \A c \in FfBlocks : block'[c] = "live" => regionOf[c] \in regions'
      BY <2>1, <2>2 DEF FfInv
    <2>5. VectorIntact'
      <3>1. filter \in {"keep", "fred"} /\ inFred => vector # b
        BY <2>3, ChunkAssumption
      <3>2. filter \in {"keep", "fred"} /\ inFred => intact
        BY DEF FfInv, VectorIntact
      <3>3. intact /\ vector # b => intact'
        BY <2>1, Zenon
      <3>4. filter' = filter /\ inFred' = inFred
        BY <2>2
      <3> QED BY <3>1, <3>2, <3>3, <3>4, Zenon DEF VectorIntact
    <2>6. ChunksFreed'
      BY <2>1, <2>2 DEF FfInv, ChunksFreed
    <2>7. /\ vector' \in FfBlocks \cup {0}
          /\ filter' \in {"keep", "fred"} /\ inFred' /\ vector' # 0
               => block'[vector'] \in {"live", "kept"}
      <3>1. CASE vector' = b
        BY <2>1, <3>1 DEF FfInv
      <3>2. CASE vector' = vector
        BY <2>1, <2>2, <2>3, <3>2 DEF FfInv
      <3> QED BY <2>1, <3>1, <3>2
    <2> QED BY <2>4, <2>5, <2>6, <2>7 DEF FfInv
  <1>4. ASSUME NEW b \in FfBlocks, Delete(b) PROVE FfInv'
    <2>1. /\ block[b] = "live" /\ UNCHANGED <<filter, inFred, regions, vector, intact, aborted>>
          /\ regionOf[b] \in regions
      BY <1>4 DEF Delete, FfInv
    <2>2. PICK w \in {"kept", "freed"} :
            block' = [block EXCEPT ![b] = w] /\ (Withheld(b) => w = "kept")
              /\ (w = "kept" => Withheld(b) \/ (filter = "guard" /\ regionOf[b] \notin reg'))
      BY <1>4 DEF Delete
    <2>3. filter = "guard" => regionOf[b] \in reg'
      BY <1>4, <2>1 DEF Delete, Refreshed
    <2>4. filter = "guard" => ~ Withheld(b)
      BY DEF Withheld
    <2>5. filter \in {"keep", "fred"} /\ inFred /\ b = vector => Withheld(b)
      BY DEF Withheld
    <2> QED BY <2>1, <2>2, <2>3, <2>4, <2>5 DEF FfInv, VectorIntact, ChunksFreed
  <1> QED BY <1>1, <1>2, <1>3, <1>4 DEF FfNext

(* For every set of patchers, places and pages, every length of a file and  *)
(* number of errors, and every heap: known bytes are patched and unknown    *)
(* ones are not, no page stays writable, no file is lost by a rename but by *)
(* a read that failed, a vector stays as it was left, and every chunk is    *)
(* freed.                                                                   *)
THEOREM ShimsKeepSafe == PtSpec /\ GfSpec /\ FfSpec => []ShimsSafe
  <1>1. PtSpec => []PatchedExactly
    BY PtInitInv, PtInvStep, PtInvExact, PTL DEF PtSpec
  <1>2. GfInv => FilesSurvive
    BY DEF GfInv, FilesSurvive
  <1>3. GfSpec => []FilesSurvive
    BY <1>2, GfInitInv, GfInvStep, PTL DEF GfSpec
  <1>4. FfInv => FreesFiltered
    BY DEF FfInv, FreesFiltered
  <1>5. FfSpec => []FreesFiltered
    BY <1>4, FfInitInv, FfInvStep, PTL DEF FfSpec
  <1>6. PatchedExactly /\ FilesSurvive /\ FreesFiltered => ShimsSafe
    BY DEF ShimsSafe
  <1> QED BY <1>1, <1>3, <1>5, <1>6, PTL

-----------------------------------------------------------------------------
(* The programs that start each other                                      *)

SpCalls   == [at : {"fork"}, image : SpImages, first : SpFirst, more : SpMore]
SpWords   == {"fex", NoArg} \cup ({"moved", "asked"} \X SpImages) \cup SpFirst \cup Nat
SpRecords == [injects : BOOLEAN, name : SpFirst \cup {NoArg, "root"}, argv : Seq(SpWords),
              asked : {Free} \cup SpCalls, runs : BOOLEAN]

\* Process q is what it was started as.
OwnChild(q) ==
    /\ q.name \in {q.asked.first, NoArg} /\ (q.name # NoArg => q.name \notin SpOptions)
    /\ q.argv[2][2] = q.asked.image
    /\ (q.asked.first # NoArg => q.argv[3] = q.asked.first)
    /\ Len(q.argv) <= MaxArgs

SpTyped ==
    /\ spawned \in Seq(SpRecords) /\ Len(spawned) > 0
    /\ spPc \in Seq({Free} \cup SpCalls) /\ Len(spPc) = Len(spawned)
    /\ imgbuf \in Seq(SpWords) /\ Len(imgbuf) = Len(spawned)
    /\ spPid \in Seq(Nat) /\ Len(spPid) = Len(spawned)

\* The buffer of a process in a call holds the image of that call.
BufferOwn ==
    \A i \in DOMAIN spawned :
        spPc[i].at = "fork" /\ spPc[i].image \in SpMoved => imgbuf[i] = <<"moved", spPc[i].image>>

ChildrenRight ==
    \A i \in DOMAIN spawned : i # 1 => OwnChild(spawned[i]) /\ spawned[i].injects = FALSE

ChildIds == \A i \in DOMAIN spawned : spPid[i] # 0 => spPid[i] \in DOMAIN spawned /\ spPid[i] > i

MachineKept ==
    /\ machine \in [tried : Nat, mounts : Nat, modes : Nat]
    /\ FakeNs => machine.mounts = 0 /\ machine.modes = 0

SpInv == SpTyped /\ BufferOwn /\ ChildrenRight /\ ChildIds /\ MachineKept

\* A process is in a call, or not.
LEMMA SpLabels ==
    /\ Free.at = "free" /\ "free" # "fork"
    /\ \A c \in SpCalls : /\ c.at = "fork" /\ c.image \in SpImages /\ c.first \in SpFirst
                          /\ c.more \in SpMore
    /\ \A c \in {Free} \cup SpCalls : c.at = "fork" => c \in SpCalls
  <1>1. Free.at = "free" /\ "free" # "fork"
    BY DEF Free
  <1>2. \A c \in SpCalls : /\ c.at = "fork" /\ c.image \in SpImages /\ c.first \in SpFirst
                           /\ c.more \in SpMore
    BY DEF SpCalls
  <1> QED BY <1>1, <1>2, Zenon

\* The arguments of a child that runs w, with first argument f and m more.
ArgvWith(w, f, m) ==
    <<"fex", w>> \o (IF f = NoArg THEN <<>> ELSE <<f>>)
      \o [k \in 1 .. Least(m, MaxArgs - 2 - (IF f = NoArg THEN 0 ELSE 1)) |-> k]

(* The arguments of a child: the image second, the first argument third, and *)
(* no more of the others than there is room for.                             *)
LEMMA ArgvShape ==
    ASSUME NEW w \in SpWords, NEW f \in SpFirst, NEW m \in SpMore, NEW l, l = ArgvWith(w, f, m)
    PROVE  l \in Seq(SpWords) /\ Len(l) <= MaxArgs /\ l[2] = w /\ (f # NoArg => l[3] = f)
  <1>1. PICK n \in 0..1 : n = IF f = NoArg THEN 0 ELSE 1
    OBVIOUS
  <1>2. PICK r \in Nat : r = Least(m, MaxArgs - 2 - n) /\ r <= MaxArgs - 2 - n
    BY <1>1, SpawnAssumption DEF Least
  <1>3. PICK a \in Seq(SpWords) : a = <<"fex", w>> /\ Len(a) = 2 /\ a[2] = w
    <2>1. PICK v \in SpWords : v = "fex"
      BY DEF SpWords
    <2>2. <<v, w>> \in Seq(SpWords) /\ Len(<<v, w>>) = 2 /\ <<v, w>>[2] = w
      OBVIOUS
    <2> QED BY <2>1, <2>2, Zenon
  <1>4. PICK b \in Seq(SpWords) :
          b = (IF f = NoArg THEN <<>> ELSE <<f>>) /\ Len(b) = n /\ (f # NoArg => b[1] = f)
    <2>1. CASE f = NoArg
      BY <1>1, <2>1, EmptySeq
    <2>2. CASE f # NoArg
      <3>1. <<f>> \in Seq(SpWords) /\ Len(<<f>>) = 1 /\ <<f>>[1] = f
        BY DEF SpWords
      <3> QED BY <1>1, <2>2, <3>1
    <2> QED BY <2>1, <2>2
  <1>5. PICK c \in Seq(SpWords) : c = [k \in 1..r |-> k] /\ Len(c) = r
    <2>1. [k \in 1..r |-> k] \in Seq(Nat) /\ Len([k \in 1..r |-> k]) = r
      OBVIOUS
    <2>2. Nat \subseteq SpWords
      BY DEF SpWords
    <2> QED BY <2>1, <2>2, SeqMonotonic
  <1>6. l = (a \o b) \o c
    BY <1>1, <1>2, <1>3, <1>4, <1>5 DEF ArgvWith
  <1>7. /\ a \o b \in Seq(SpWords) /\ Len(a \o b) = 2 + n
        /\ (a \o b)[2] = w /\ (f # NoArg => (a \o b)[3] = f)
    <2>1. /\ a \o b \in Seq(SpWords) /\ Len(a \o b) = Len(a) + Len(b)
          /\ \A i \in 1..Len(a) + Len(b) : (a \o b)[i] = IF i <= Len(a) THEN a[i] ELSE b[i - Len(a)]
      BY ConcatProperties
    <2> QED BY <1>1, <1>3, <1>4, <2>1
  <1>8. PICK d \in Seq(SpWords) : d = a \o b
    BY <1>7
  <1>9. /\ d \o c \in Seq(SpWords) /\ Len(d \o c) = 2 + n + r
        /\ (d \o c)[2] = d[2] /\ (n = 1 => (d \o c)[3] = d[3])
    <2>1. /\ d \o c \in Seq(SpWords) /\ Len(d \o c) = Len(d) + Len(c)
          /\ \A i \in 1..Len(d) + Len(c) : (d \o c)[i] = IF i <= Len(d) THEN d[i] ELSE c[i - Len(d)]
      BY ConcatProperties
    <2> QED BY <1>1, <1>5, <1>7, <1>8, <2>1
  <1>10. l = d \o c /\ d[2] = w /\ (f # NoArg => d[3] = f)
    BY <1>6, <1>7, <1>8, Zenon
  <1>11. Len(l) <= MaxArgs
    BY <1>1, <1>2, <1>9, <1>10, SpawnAssumption
  <1>12. f # NoArg => n = 1
    BY <1>1
  <1> QED BY <1>9, <1>10, <1>11, <1>12, Zenon

LEMMA SpInitInv == SpInit => SpInv
  <1> SUFFICES ASSUME SpInit PROVE SpInv
    OBVIOUS
  <1>1. PICK q \in SpRecords : q = Root
    <2>1. <<>> \in Seq(SpWords)
      BY EmptySeq
    <2> QED BY <2>1 DEF Root, SpRecords
  <1>2. spawned = <<q>> /\ spawned \in Seq(SpRecords) /\ Len(spawned) = 1 /\ DOMAIN spawned = {1}
    BY <1>1 DEF SpInit
  <1>3. spPc = <<Free>> /\ spPc \in Seq({Free} \cup SpCalls) /\ Len(spPc) = 1 /\ spPc[1] = Free
    BY DEF SpInit
  <1>4. imgbuf \in Seq(SpWords) /\ Len(imgbuf) = 1
    BY DEF SpInit, SpWords
  <1>5. spPid \in Seq(Nat) /\ Len(spPid) = 1 /\ spPid[1] = 0
    BY DEF SpInit
  <1>6. MachineKept
    BY DEF SpInit, MachineKept
  <1>7. BufferOwn /\ ChildrenRight /\ ChildIds
    BY <1>2, <1>3, <1>5, SpLabels DEF BufferOwn, ChildrenRight, ChildIds
  <1> QED BY <1>2, <1>3, <1>4, <1>5, <1>6, <1>7 DEF SpInv, SpTyped

\* The machine's calls.
LEMMA SpMachineKeeps ==
    ASSUME SpInv, Mount \/ Chmod
    PROVE  SpInv'
  <1>1. UNCHANGED <<spawned, spPc, imgbuf, spPid>>
    BY DEF Mount, Chmod
  <1>2. MachineKept'
    <2>1. PICK c \in [tried : Nat, mounts : Nat, modes : Nat] : c = machine
      BY DEF SpInv, MachineKept
    <2>2. FakeNs => c.mounts = 0 /\ c.modes = 0
      BY <2>1 DEF SpInv, MachineKept
    <2>3. c.tried \in Nat /\ c.mounts \in Nat /\ c.modes \in Nat
      OBVIOUS
    <2>4. PICK n \in Nat : n = c.tried + 1
      BY <2>3
    <2>5. CASE Mount
      <3>1. PICK m \in Nat : m = c.mounts + (IF FakeNs THEN 0 ELSE 1)
        BY <2>3
      <3>2. machine' = [c EXCEPT !.tried = n, !.mounts = m]
        BY <2>1, <2>4, <2>5, <3>1 DEF Mount
      <3>3. FakeNs => m = 0
        BY <2>2, <3>1
      <3> QED BY <2>2, <3>2, <3>3 DEF MachineKept
    <2>6. CASE Chmod
      <3>1. PICK m \in Nat : m = c.modes + (IF FakeChmod \/ FakeNs THEN 0 ELSE 1)
        BY <2>3
      <3>2. machine' = [c EXCEPT !.tried = n, !.modes = m]
        BY <2>1, <2>4, <2>6, <3>1 DEF Chmod
      <3>3. FakeNs => m = 0
        BY <2>2, <3>1
      <3> QED BY <2>2, <3>2, <3>3 DEF MachineKept
    <2> QED BY <2>5, <2>6
  <1> QED BY <1>1, <1>2 DEF SpInv, SpTyped, BufferOwn, ChildrenRight, ChildIds

\* An element of a sequence is replaced, or one comes after its last.
LEMMA SeqPut ==
    ASSUME NEW S, NEW l \in Seq(S), NEW i \in 1..Len(l), NEW e \in S, NEW m,
           m = [l EXCEPT ![i] = e]
    PROVE  /\ m \in Seq(S) /\ Len(m) = Len(l) /\ m[i] = e
           /\ \A j \in 1..Len(l) : j # i => m[j] = l[j]
  BY ExceptSeq

LEMMA SeqPlus ==
    ASSUME NEW S, NEW l \in Seq(S), NEW e \in S, NEW m, m = Append(l, e)
    PROVE  /\ m \in Seq(S) /\ Len(m) = Len(l) + 1 /\ m[Len(l) + 1] = e
           /\ \A j \in 1..Len(l) : m[j] = l[j]
  BY AppendProperties

\* The numbers of the processes.
LEMMA SpNumbers ==
    ASSUME SpTyped
    PROVE  \E n \in Nat \ {0} :
             /\ n = Len(spawned) /\ n = Len(spPc) /\ n = Len(imgbuf) /\ n = Len(spPid)
             /\ DOMAIN spawned = 1..n
             /\ \A i \in 1..n : spPc[i] \in {Free} \cup SpCalls /\ imgbuf[i] \in SpWords
                                  /\ spPid[i] \in Nat
  <1>1. Len(spawned) \in Nat /\ DOMAIN spawned = 1..Len(spawned)
    BY LenProperties DEF SpTyped
  <1>2. \A i \in 1..Len(spPc) : spPc[i] \in {Free} \cup SpCalls
    BY ElementOfSeq, Zenon DEF SpTyped
  <1>3. \A i \in 1..Len(imgbuf) : imgbuf[i] \in SpWords
    BY ElementOfSeq, Zenon DEF SpTyped
  <1>4. \A i \in 1..Len(spPid) : spPid[i] \in Nat
    BY ElementOfSeq, Zenon DEF SpTyped
  <1> QED BY <1>1, <1>2, <1>3, <1>4 DEF SpTyped

\* A call of p_create(): the image's path is put into the buffer.
LEMMA SpCallKeeps ==
    ASSUME SpInv, NEW i \in DOMAIN spawned, NEW img \in SpImages, NEW f \in SpFirst,
           NEW m \in SpMore, SpCall(i, img, f, m)
    PROVE  SpInv'
  <1>1. PICK n \in Nat \ {0} :
          /\ n = Len(spawned) /\ n = Len(spPc) /\ n = Len(imgbuf) /\ n = Len(spPid)
          /\ DOMAIN spawned = 1..n
          /\ \A j \in 1..n : spPc[j] \in {Free} \cup SpCalls /\ imgbuf[j] \in SpWords
                               /\ spPid[j] \in Nat
    BY SpNumbers DEF SpInv
  <1>2. spawned' = spawned /\ machine' = machine
    BY DEF SpCall
  <1>3. CASE ~ SpEnabled
    <2>1. spPid' = [spPid EXCEPT ![i] = 0] /\ spPc' = spPc /\ imgbuf' = imgbuf
      BY <1>3 DEF SpCall
    <2>2. spPid' \in Seq(Nat) /\ Len(spPid') = n /\ spPid'[i] = 0
            /\ \A j \in 1..n : j # i => spPid'[j] = spPid[j]
      BY <1>1, <2>1, SeqPut DEF SpInv, SpTyped
    <2>3. ChildIds'
      BY <1>1, <1>2, <2>2 DEF SpInv, ChildIds
    <2> QED BY <1>1, <1>2, <2>1, <2>2, <2>3
            DEF SpInv, SpTyped, BufferOwn, ChildrenRight, MachineKept
  <1>4. CASE SpEnabled
    <2>1. PICK c \in SpCalls :
            c = [at |-> "fork", image |-> img, first |-> f, more |-> m] /\ c.image = img
      <3>1. /\ [at |-> "fork", image |-> img, first |-> f, more |-> m] \in SpCalls
            /\ [at |-> "fork", image |-> img, first |-> f, more |-> m].image = img
        BY DEF SpCalls
      <3> QED BY <3>1, Zenon
    <2>2. /\ spPc' = [spPc EXCEPT ![i] = c] /\ spPid' = spPid
          /\ imgbuf' = IF img \in SpMoved THEN [imgbuf EXCEPT ![i] = <<"moved", img>>] ELSE imgbuf
      BY <1>4, <2>1 DEF SpCall
    <2>3. /\ spPc' \in Seq({Free} \cup SpCalls) /\ Len(spPc') = n /\ spPc'[i] = c
          /\ \A j \in 1..n : j # i => spPc'[j] = spPc[j]
      BY <1>1, <2>2, SeqPut DEF SpInv, SpTyped
    <2>4. PICK w \in SpWords : w = <<"moved", img>>
      BY DEF SpWords
    <2>5. /\ imgbuf' \in Seq(SpWords) /\ Len(imgbuf') = n
          /\ img \in SpMoved => imgbuf'[i] = <<"moved", img>>
          /\ \A j \in 1..n : j # i => imgbuf'[j] = imgbuf[j]
      <3>1. CASE img \in SpMoved
        BY <1>1, <2>2, <2>4, <3>1, SeqPut DEF SpInv, SpTyped
      <3>2. CASE img \notin SpMoved
        BY <1>1, <2>2, <3>2 DEF SpInv, SpTyped
      <3> QED BY <3>1, <3>2
    <2>6. SpTyped'
      BY <1>1, <1>2, <2>2, <2>3, <2>5 DEF SpInv, SpTyped
    <2>7. BufferOwn'
      BY <1>1, <1>2, <2>1, <2>3, <2>5 DEF SpInv, BufferOwn
    <2> QED BY <1>2, <2>2, <2>6, <2>7 DEF SpInv, ChildrenRight, ChildIds, MachineKept
  <1> QED BY <1>3, <1>4

\* fork() fails.
LEMMA SpNoForkKeeps ==
    ASSUME SpInv, NEW i \in DOMAIN spawned, SpNoFork(i)
    PROVE  SpInv'
  <1>1. PICK n \in Nat \ {0} :
          /\ n = Len(spawned) /\ n = Len(spPc) /\ n = Len(imgbuf) /\ n = Len(spPid)
          /\ DOMAIN spawned = 1..n
          /\ \A j \in 1..n : spPc[j] \in {Free} \cup SpCalls /\ imgbuf[j] \in SpWords
                               /\ spPid[j] \in Nat
    BY SpNumbers DEF SpInv
  <1>2. /\ spawned' = spawned /\ imgbuf' = imgbuf /\ machine' = machine
        /\ spPc' = [spPc EXCEPT ![i] = Free] /\ spPid' = [spPid EXCEPT ![i] = 0]
    BY DEF SpNoFork
  <1>3. /\ spPc' \in Seq({Free} \cup SpCalls) /\ Len(spPc') = n /\ spPc'[i] = Free
        /\ \A j \in 1..n : j # i => spPc'[j] = spPc[j]
    BY <1>1, <1>2, SeqPut DEF SpInv, SpTyped
  <1>4. /\ spPid' \in Seq(Nat) /\ Len(spPid') = n /\ spPid'[i] = 0
        /\ \A j \in 1..n : j # i => spPid'[j] = spPid[j]
    BY <1>1, <1>2, SeqPut DEF SpInv, SpTyped
  <1>5. SpTyped'
    BY <1>1, <1>2, <1>3, <1>4 DEF SpInv, SpTyped
  <1>6. BufferOwn'
    BY <1>1, <1>2, <1>3, SpLabels DEF SpInv, BufferOwn
  <1>7. ChildIds'
    BY <1>1, <1>2, <1>4 DEF SpInv, ChildIds
  <1> QED BY <1>2, <1>5, <1>6, <1>7 DEF SpInv, ChildrenRight, MachineKept

\* fork(): the child gets the image its parent was asked for.
LEMMA SpForkKeeps ==
    ASSUME SpInv, NEW i \in DOMAIN spawned, NEW runs \in BOOLEAN, SpFork(i, runs)
    PROVE  SpInv'
  <1>1. PICK n \in Nat \ {0} :
          /\ n = Len(spawned) /\ n = Len(spPc) /\ n = Len(imgbuf) /\ n = Len(spPid)
          /\ DOMAIN spawned = 1..n
          /\ \A j \in 1..n : spPc[j] \in {Free} \cup SpCalls /\ imgbuf[j] \in SpWords
                               /\ spPid[j] \in Nat
    BY SpNumbers DEF SpInv
  <1>2. PICK c \in SpCalls : c = spPc[i] /\ c.image \in SpImages /\ c.first \in SpFirst
                               /\ c.more \in SpMore
    BY <1>1, SpLabels DEF SpFork
  <1>3. PICK w \in SpWords : w = Image(i) /\ w[2] = c.image
    <2>1. /\ <<"moved", c.image>> \in SpWords /\ <<"moved", c.image>>[2] = c.image
          /\ <<"asked", c.image>> \in SpWords /\ <<"asked", c.image>>[2] = c.image
      BY <1>2 DEF SpWords
    <2>2. CASE c.image \in SpMoved
      <3>1. Image(i) = imgbuf[i]
        BY <1>2, <2>2, Zenon DEF Image
      <3>2. imgbuf[i] = <<"moved", c.image>>
        BY <1>2, <2>2, SpLabels, Zenon DEF SpInv, BufferOwn
      <3> QED BY <2>1, <3>1, <3>2, Zenon
    <2>3. CASE c.image \notin SpMoved
      <3>1. Image(i) = <<"asked", c.image>>
        BY <1>2, <2>3, Zenon DEF Image
      <3> QED BY <2>1, <3>1, Zenon
    <2> QED BY <2>2, <2>3
  <1>4. PICK l \in Seq(SpWords) :
          /\ l = Argv(i) /\ Len(l) <= MaxArgs /\ l[2] = w
          /\ c.first # NoArg => l[3] = c.first
    <2>1. Argv(i) = ArgvWith(w, c.first, c.more)
      BY <1>2, <1>3, Zenon DEF Argv, ArgvWith
    <2>2. PICK f \in SpFirst, m \in SpMore : f = c.first /\ m = c.more
      BY <1>2, Zenon
    <2>3. PICK l : l = Argv(i) /\ l = ArgvWith(w, f, m)
      BY <2>1, <2>2, Zenon
    <2>4. l \in Seq(SpWords) /\ Len(l) <= MaxArgs /\ l[2] = w /\ (f # NoArg => l[3] = f)
      BY <2>3, ArgvShape
    <2> QED BY <2>2, <2>3, <2>4, Zenon
  <1>5. PICK a \in SpFirst \cup {NoArg} :
          a = ChildName(i) /\ a \in {c.first, NoArg} /\ (a # NoArg => a \notin SpOptions)
    BY <1>2 DEF ChildName
  <1>6. PICK q \in SpRecords :
          /\ q = [injects |-> FALSE, name |-> a, argv |-> l, asked |-> c, runs |-> runs]
          /\ q.injects = FALSE /\ q.name = a /\ q.argv = l /\ q.asked = c
    <2> DEFINE child == [injects |-> FALSE, name |-> a, argv |-> l, asked |-> c, runs |-> runs]
    <2>1. child \in SpRecords
      BY DEF SpRecords
    <2>2. child.injects = FALSE /\ child.name = a /\ child.argv = l /\ child.asked = c
      OBVIOUS
    <2> QED BY <2>1, <2>2, Zenon
  <1>7. OwnChild(q)
    BY <1>3, <1>4, <1>5, <1>6, Zenon DEF OwnChild
  <1>8. spawned' = Append(spawned, q)
    BY <1>2, <1>4, <1>5, <1>6 DEF SpFork
  <1>9. /\ spawned' \in Seq(SpRecords) /\ Len(spawned') = n + 1 /\ DOMAIN spawned' = 1..(n + 1)
        /\ spawned'[n + 1] = q /\ \A j \in 1..n : spawned'[j] = spawned[j]
    <2>1. /\ spawned' \in Seq(SpRecords) /\ Len(spawned') = n + 1
          /\ spawned'[n + 1] = q /\ \A j \in 1..n : spawned'[j] = spawned[j]
      BY <1>1, <1>8, SeqPlus DEF SpInv, SpTyped
    <2> QED BY <2>1, LenProperties
  <1>10. /\ spPc' \in Seq({Free} \cup SpCalls) /\ Len(spPc') = n + 1
         /\ spPc'[n + 1] = Free /\ spPc'[i] = Free
         /\ \A j \in 1..n : j # i => spPc'[j] = spPc[j]
    <2>1. PICK k \in Seq({Free} \cup SpCalls) :
            k = [spPc EXCEPT ![i] = Free] /\ Len(k) = n /\ k[i] = Free
              /\ \A j \in 1..n : j # i => k[j] = spPc[j]
      <3>1. spPc \in Seq({Free} \cup SpCalls) /\ i \in 1..Len(spPc)
        BY <1>1 DEF SpInv, SpTyped
      <3>2. Free \in {Free} \cup SpCalls
        OBVIOUS
      <3>3. /\ [spPc EXCEPT ![i] = Free] \in Seq({Free} \cup SpCalls)
            /\ Len([spPc EXCEPT ![i] = Free]) = Len(spPc) /\ [spPc EXCEPT ![i] = Free][i] = Free
            /\ \A j \in 1..Len(spPc) : j # i => [spPc EXCEPT ![i] = Free][j] = spPc[j]
        BY <3>1, <3>2, SeqPut
      <3> QED BY <1>1, <3>3, Zenon
    <2>2. spPc' = Append(k, Free)
      BY <2>1 DEF SpFork
    <2> QED BY <1>1, <2>1, <2>2, SeqPlus
  <1>11. /\ imgbuf' \in Seq(SpWords) /\ Len(imgbuf') = n + 1
         /\ \A j \in 1..n : imgbuf'[j] = imgbuf[j]
    BY <1>1, SeqPlus DEF SpFork, SpInv, SpTyped
  <1>12. /\ spPid' \in Seq(Nat) /\ Len(spPid') = n + 1
         /\ spPid'[n + 1] = 0 /\ spPid'[i] = n + 1
         /\ \A j \in 1..n : j # i => spPid'[j] = spPid[j]
    <2>1. PICK p \in Nat : p = n + 1
      OBVIOUS
    <2>2. PICK k \in Seq(Nat) :
            k = [spPid EXCEPT ![i] = p] /\ Len(k) = n /\ k[i] = p
              /\ \A j \in 1..n : j # i => k[j] = spPid[j]
      <3>1. spPid \in Seq(Nat) /\ i \in 1..Len(spPid)
        BY <1>1 DEF SpInv, SpTyped
      <3>2. /\ [spPid EXCEPT ![i] = p] \in Seq(Nat)
            /\ Len([spPid EXCEPT ![i] = p]) = n /\ [spPid EXCEPT ![i] = p][i] = p
            /\ \A j \in 1..n : j # i => [spPid EXCEPT ![i] = p][j] = spPid[j]
        BY <1>1, <3>1, SeqPut
      <3> QED BY <3>2, Zenon
    <2>3. spPid' = Append(k, 0)
      BY <1>1, <2>1, <2>2 DEF SpFork
    <2> QED BY <1>1, <2>1, <2>2, <2>3, SeqPlus
  <1>13. \A j \in 1..(n + 1) : j = n + 1 \/ j \in 1..n
    OBVIOUS
  <1>14. SpTyped'
    BY <1>9, <1>10, <1>11, <1>12 DEF SpTyped
  <1>15. BufferOwn'
    <2>1. ASSUME NEW j \in 1..(n + 1), spPc'[j].at = "fork", spPc'[j].image \in SpMoved
          PROVE  imgbuf'[j] = <<"moved", spPc'[j].image>>
      <3>1. j \in 1..n /\ j # i
        BY <1>10, <1>13, <2>1, SpLabels
      <3> QED BY <1>1, <1>10, <1>11, <2>1, <3>1 DEF SpInv, BufferOwn
    <2> QED BY <1>9, <2>1 DEF BufferOwn
  <1>16. ChildrenRight'
    <2>1. ASSUME NEW j \in 1..(n + 1), j # 1
          PROVE  OwnChild(spawned'[j]) /\ spawned'[j].injects = FALSE
      <3>1. CASE j = n + 1
        BY <1>6, <1>7, <1>9, <3>1
      <3>2. CASE j \in 1..n
        BY <1>1, <1>9, <2>1, <3>2, Zenon DEF SpInv, ChildrenRight
      <3> QED BY <1>13, <3>1, <3>2
    <2> QED BY <1>9, <2>1, Zenon DEF ChildrenRight
  <1>17. ChildIds'
    <2>1. ASSUME NEW j \in 1..(n + 1), spPid'[j] # 0
          PROVE  spPid'[j] \in 1..(n + 1) /\ spPid'[j] > j
      <3>1. CASE j = i
        BY <1>1, <1>12, <3>1
      <3>2. CASE j # i
        <4>1. j \in 1..n /\ spPid'[j] = spPid[j]
          BY <1>12, <1>13, <2>1, <3>2
        <4>2. spPid[j] \in 1..n /\ spPid[j] > j
          BY <1>1, <2>1, <4>1 DEF SpInv, ChildIds
        <4> QED BY <4>1, <4>2
      <3> QED BY <3>1, <3>2
    <2> QED BY <1>9, <2>1 DEF ChildIds
  <1>18. MachineKept'
    BY DEF SpFork, SpInv, MachineKept
  <1> QED BY <1>14, <1>15, <1>16, <1>17, <1>18 DEF SpInv

LEMMA SpInvStep == SpInv /\ [SpNext]_spVars => SpInv'
  <1> SUFFICES ASSUME SpInv, [SpNext]_spVars PROVE SpInv'
    OBVIOUS
  <1>1. CASE UNCHANGED spVars
    BY <1>1 DEF spVars, SpInv, SpTyped, BufferOwn, ChildrenRight, ChildIds, MachineKept
  <1>2. CASE SpNext
    BY <1>2, SpMachineKeeps, SpCallKeeps, SpForkKeeps, SpNoForkKeeps DEF SpNext
  <1> QED BY <1>1, <1>2

LEMMA SpInvOwn == SpInv => ChildrenOwn
  <1> SUFFICES ASSUME SpInv PROVE ChildrenOwn
    OBVIOUS
  <1>1. \A i \in DOMAIN spawned : spawned[i].injects => i = 1
    BY Zenon DEF SpInv, ChildrenRight
  <1>2. \A i \in DOMAIN spawned \ {1} : OwnChild(spawned[i])
    BY Zenon DEF SpInv, ChildrenRight
  <1>3. /\ \A i \in DOMAIN spawned : spPid[i] # 0 => spPid[i] \in DOMAIN spawned /\ spPid[i] > i
        /\ FakeNs => machine.mounts = 0 /\ machine.modes = 0
    BY Zenon DEF SpInv, ChildIds, MachineKept
  <1> QED BY <1>1, <1>2, <1>3, Zenon DEF ChildrenOwn, OwnChild

(* However deep the programs of the control start each other, and whatever  *)
(* fails on the way: one of them injects, and every other runs the image it *)
(* was asked for, under its own name or none, with the arguments that fit.  *)
THEOREM ProgramsOwn == SpInit /\ [][SpNext]_spVars => []ChildrenOwn
  BY SpInitInv, SpInvStep, SpInvOwn, PTL

-----------------------------------------------------------------------------
(* The libraries                                                           *)

\* A pass with next that has returned s since first, with the cursor left at k.
Passed(s, k) ==
    /\ s \in Seq(Int) /\ Len(s) \in 1..(Length + 1)
    /\ \A i \in 1..Len(s) : s[i] = IF i <= Length THEN i ELSE 0
    /\ k = IF Len(s) <= Length THEN Len(s) ELSE Length

\* The walker of an edge is on the edge of its channel.
OnEdge ==
    node # 0 =>
       /\ edge \in Channels /\ Edges(SlotOf(edge)) # Null
       /\ node \in Edges(SlotOf(edge)).start..Edges(SlotOf(edge)).end

KInv ==
    /\ cursor \in [Containers -> Nodes] /\ seen \in [Containers -> Seq(Int)]
    /\ mixed \subseteq Containers
    /\ \A c \in Containers \ mixed : Passed(seen[c], cursor[c])
    /\ OnEdge

LEMMA PassedFirst == Passed(<<1>>, 1)
  BY LengthAssumption DEF Passed

\* Next puts one more node into a pass, and 0 once, at the tail.
LEMMA PassedNext ==
  ASSUME NEW s, NEW k, Passed(s, k), s[Len(s)] # 0
  PROVE  Passed(Append(s, NextOf(k)), IF NextOf(k) # 0 THEN NextOf(k) ELSE k)
  <1> DEFINE l == Append(s, NextOf(k))
  <1>1. Length \in Nat \ {0} /\ s \in Seq(Int) /\ Len(s) \in 1..(Length + 1)
    BY LengthAssumption DEF Passed
  <1>2. s[Len(s)] = IF Len(s) <= Length THEN Len(s) ELSE 0
    BY <1>1 DEF Passed
  <1>3. Len(s) <= Length /\ k = Len(s)
    BY <1>1, <1>2 DEF Passed
  <1>4. NextOf(k) = (IF Len(s) + 1 <= Length THEN Len(s) + 1 ELSE 0) /\ NextOf(k) \in Int
    BY <1>1, <1>3 DEF NextOf
  <1>5. l \in Seq(Int) /\ Len(l) = Len(s) + 1
    BY <1>1, <1>4
  <1>6. ASSUME NEW i \in 1..Len(l) PROVE l[i] = IF i <= Length THEN i ELSE 0
    <2>1. CASE i = Len(s) + 1
      BY <1>1, <1>4, <2>1
    <2>2. CASE i # Len(s) + 1
      <3>1. i \in 1..Len(s) /\ l[i] = s[i]
        BY <1>1, <1>4, <1>5, <2>2
      <3> QED BY <3>1 DEF Passed
    <2> QED BY <2>1, <2>2
  <1>7. (IF NextOf(k) # 0 THEN NextOf(k) ELSE k) = IF Len(l) <= Length THEN Len(l) ELSE Length
    BY <1>1, <1>3, <1>4, <1>5
  <1> HIDE DEF l
  <1>8. Len(l) \in 1..(Length + 1)
    BY <1>1, <1>3, <1>5
  <1>9. Passed(l, IF NextOf(k) # 0 THEN NextOf(k) ELSE k)
    BY <1>5, <1>6, <1>7, <1>8 DEF Passed
  <1> QED BY <1>9 DEF l

LEMMA NavigateKeeps ==
  ASSUME NEW f \in Families, KInv, Navigate(f) PROVE KInv'
  <1> USE DEF KInv
  <1>1. PICK ch \in Channels :
           NavFirst(f, ch) \/ NavLast(f, ch) \/ NavNext(f, ch) \/ NavPrev(f, ch)
    BY DEF Navigate
  <1> DEFINE c == ContainerAt(f, ch)
  <1>2. c # Null /\ UNCHANGED <<node, edge>>
    BY <1>1, Zenon DEF NavFirst, NavLast, NavNext, NavPrev, MoveTo
  <1>3. c \in Containers
    BY <1>2, ListAssumption
  <1>4. Length \in Nat \ {0} /\ cursor[c] \in 1..Length
    BY <1>3, LengthAssumption DEF Nodes
  <1>5. OnEdge'
    BY <1>2 DEF OnEdge
  <1> HIDE DEF c
  <1>6. ASSUME NEW n \in Nodes, cursor' = [cursor EXCEPT ![c] = n],
               mixed' = mixed \cup {c}, seen' = seen
        PROVE  KInv'
    BY <1>3, <1>5, <1>6
  <1>7. CASE NavFirst(f, ch)
    <2>1. /\ cursor' = [cursor EXCEPT ![c] = 1] /\ seen' = [seen EXCEPT ![c] = <<1>>]
          /\ mixed' = mixed \ {c}
      BY <1>7 DEF NavFirst, MoveTo, c
    <2>2. 1 \in Nodes /\ <<1>> \in Seq(Int)
      BY <1>4 DEF Nodes
    <2>3. /\ cursor' \in [Containers -> Nodes] /\ seen' \in [Containers -> Seq(Int)]
          /\ mixed' \subseteq Containers
      BY <2>1, <2>2
    <2>4. ASSUME NEW x \in Containers \ mixed' PROVE Passed(seen'[x], cursor'[x])
      BY <1>3, <2>1, <2>4, PassedFirst
    <2> QED BY <1>5, <2>3, <2>4
  <1>8. CASE NavLast(f, ch)
    <2>1. Length \in Nodes
      BY <1>4 DEF Nodes
    <2>2. cursor' = [cursor EXCEPT ![c] = Length] /\ mixed' = mixed \cup {c} /\ seen' = seen
      BY <1>8 DEF NavLast, MoveTo, c
    <2> QED BY <1>6, <2>1, <2>2, Zenon
  <1>9. CASE NavNext(f, ch)
    <2> DEFINE k == IF NextOf(cursor[c]) # 0 THEN NextOf(cursor[c]) ELSE cursor[c]
    <2>1. /\ cursor' = [cursor EXCEPT ![c] = k] /\ mixed' = mixed
          /\ seen' = IF c \in mixed \/ seen[c][Len(seen[c])] = 0 THEN seen
                     ELSE [seen EXCEPT ![c] = Append(@, NextOf(cursor[c]))]
      BY <1>9 DEF NavNext, MoveTo, c
    <2>2. k \in Nodes /\ NextOf(cursor[c]) \in Int
      BY <1>4 DEF NextOf, Nodes
    <2>3. cursor' \in [Containers -> Nodes] /\ mixed' \subseteq Containers
      BY <2>1, <2>2
    <2>4. CASE c \in mixed
      BY <1>3, <1>5, <2>1, <2>3, <2>4
    <2>5. CASE c \notin mixed /\ seen[c][Len(seen[c])] = 0
      <3>1. Passed(seen[c], cursor[c])
        BY <1>3, <2>5
      <3>2. cursor[c] = Length
        <4>1. /\ Len(seen[c]) \in 1..(Length + 1)
              /\ cursor[c] = IF Len(seen[c]) <= Length THEN Len(seen[c]) ELSE Length
              /\ \A i \in 1..Len(seen[c]) : seen[c][i] = IF i <= Length THEN i ELSE 0
          BY <3>1 DEF Passed
        <4>2. Len(seen[c]) \in 1..Len(seen[c])
          BY <1>4, <4>1
        <4>3. seen[c][Len(seen[c])] = IF Len(seen[c]) <= Length THEN Len(seen[c]) ELSE 0
          BY <4>1, <4>2, Zenon
        <4>4. ~ (Len(seen[c]) <= Length)
          BY <1>4, <2>5, <4>1, <4>3
        <4> QED BY <4>1, <4>4
      <3>3. k = cursor[c]
        BY <3>2 DEF NextOf
      <3>4. cursor' = cursor
        BY <2>1, <3>3
      <3> QED BY <1>5, <2>1, <2>5, <3>4
    <2>6. CASE c \notin mixed /\ seen[c][Len(seen[c])] # 0
      <3>1. Passed(Append(seen[c], NextOf(cursor[c])), k)
        BY <1>3, <2>6, PassedNext
      <3>2. seen' = [seen EXCEPT ![c] = Append(seen[c], NextOf(cursor[c]))]
        BY <2>1, <2>6
      <3> HIDE DEF k
      <3>3. Append(seen[c], NextOf(cursor[c])) \in Seq(Int)
        BY <1>3, <2>2
      <3>4. seen' \in [Containers -> Seq(Int)]
        BY <3>2, <3>3
      <3>5. ASSUME NEW x \in Containers \ mixed' PROVE Passed(seen'[x], cursor'[x])
        <4>1. CASE x = c
          BY <1>3, <2>1, <3>1, <3>2, <4>1
        <4>2. CASE x # c
          BY <2>1, <3>2, <3>5, <4>2
        <4> QED BY <4>1, <4>2
      <3> QED BY <1>5, <2>3, <3>4, <3>5
    <2> QED BY <2>4, <2>5, <2>6
  <1>10. CASE NavPrev(f, ch)
    <2>1. PrevOf(cursor[c]) # 0 /\ PrevOf(cursor[c]) \in Nodes
      BY <1>4, <1>10 DEF NavPrev, PrevOf, Nodes, c
    <2> QED BY <1>6, <1>10, <2>1 DEF NavPrev, MoveTo, c
  <1> QED BY <1>1, <1>7, <1>8, <1>9, <1>10

LEMMA EdgeKeeps == KInv /\ EdgeStep => KInv'
  <1> SUFFICES ASSUME KInv, EdgeStep PROVE KInv'
    OBVIOUS
  <1> USE DEF KInv
  <1>1. ASSUME NEW ch \in Channels, Edges(SlotOf(ch)) # Null, edge' = ch,
               NEW n \in Edges(SlotOf(ch)).start..Edges(SlotOf(ch)).end,
               Along(Edges(SlotOf(ch)), n)
        PROVE  KInv'
    <2> DEFINE d == Edges(SlotOf(ch))
    <2>1. d.container \in Containers /\ d.start \in Nodes /\ d.end \in Nodes
      BY <1>1, ListAssumption, Zenon
    <2>2. n \in Nodes
      BY <2>1, LengthAssumption DEF Nodes
    <2>3. /\ node' = n /\ cursor' = [cursor EXCEPT ![d.container] = n]
          /\ mixed' = mixed \cup {d.container} /\ seen' = seen
      BY <1>1, Zenon DEF Along
    <2> HIDE DEF d
    <2>4. /\ cursor' \in [Containers -> Nodes] /\ mixed' \subseteq Containers
          /\ \A x \in Containers \ mixed' : Passed(seen'[x], cursor'[x])
      BY <2>1, <2>2, <2>3
    <2>5. OnEdge'
      BY <1>1, <2>3, Zenon DEF OnEdge
    <2> QED BY <2>3, <2>4, <2>5, Zenon
  <1>2. ASSUME NEW ch \in Channels, Edges(SlotOf(ch)) # Null
        PROVE  /\ Edges(SlotOf(ch)).start \in Nodes /\ Edges(SlotOf(ch)).end \in Nodes
               /\ Edges(SlotOf(ch)).start <= Edges(SlotOf(ch)).end
    BY <1>2, ListAssumption, Zenon
  <1>3. ASSUME NEW ch \in Channels, EdgeStart(ch) \/ EdgeEnd(ch) PROVE KInv'
    <2> DEFINE d == Edges(SlotOf(ch))
    <2>1. d # Null /\ edge' = ch /\ (Along(d, d.start) \/ Along(d, d.end))
      BY <1>3, Zenon DEF EdgeStart, EdgeEnd
    <2>2. d.start \in d.start..d.end /\ d.end \in d.start..d.end
      BY <1>2, <2>1, LengthAssumption DEF Nodes
    <2> QED BY <1>1, <2>1, <2>2
  <1>4. ASSUME EdgeNext \/ EdgePrev PROVE KInv'
    <2> DEFINE d == Edges(SlotOf(edge))
    <2>1. /\ node # 0 /\ edge' = edge
          /\ \/ node # d.end /\ Along(d, NextOf(node))
             \/ node # d.start /\ Along(d, PrevOf(node))
      BY <1>4, Zenon DEF EdgeNext, EdgePrev
    <2>2. edge \in Channels /\ d # Null /\ node \in d.start..d.end
      BY <2>1, Zenon DEF OnEdge
    <2>3. d.start \in Nodes /\ d.end \in Nodes
      BY <1>2, <2>2
    <2> HIDE DEF d
    <2>4. /\ node # d.end => NextOf(node) \in d.start..d.end
          /\ node # d.start => PrevOf(node) \in d.start..d.end
      BY <2>2, <2>3, LengthAssumption DEF NextOf, PrevOf, Nodes
    <2>5. \E n \in d.start..d.end : Along(d, n)
      BY <2>1, <2>4, Zenon
    <2> QED BY <1>1, <2>1, <2>2, <2>5, Zenon DEF d
  <1> QED BY <1>3, <1>4, Zenon DEF EdgeStep

LEMMA KInvHolds ==
    /\ KInit => KInv
    /\ KInv /\ [KStep]_kvars => KInv'
    /\ KInv => DkompWalks
  <1>1. ASSUME KInit PROVE KInv
    <2>1. 1 \in Nodes /\ <<1>> \in Seq(Int)
      BY LengthAssumption DEF Nodes
    <2> QED BY <1>1, <2>1 DEF KInit, KInv, OnEdge
  <1>2. ASSUME KInv, [KStep]_kvars PROVE KInv'
    <2>1. CASE UNCHANGED kvars
      BY <1>2, <2>1 DEF kvars, KInv, OnEdge
    <2>2. CASE KStep
      BY <1>2, <2>2, NavigateKeeps, EdgeKeeps, ListAssumption
         DEF KStep, HuelleStep, HilfStep, Rot3DStep, Box3DStep
    <2> QED BY <1>2, <2>1, <2>2
  <1>3. ASSUME KInv PROVE DkompWalks
    <2>1. CursorsOnList
      BY <1>3 DEF KInv, CursorsOnList
    <2>2. ASSUME NEW c \in Containers \ mixed, NEW i \in DOMAIN seen[c]
          PROVE  seen[c][i] = IF i <= Length THEN i ELSE 0
      BY <1>3, <2>2 DEF KInv, Passed
    <2>3. node # 0 => node \in Edges(SlotOf(edge)).start..Edges(SlotOf(edge)).end
      BY <1>3 DEF KInv, OnEdge
    <2> QED BY <2>1, <2>2, <2>3 DEF DkompWalks, WalksExact
  <1> QED BY <1>1, <1>2, <1>3

\* The handle is on a file: what is kept of its header is of that file, and the
\* chunks are its code from the first byte on, up to where the FILE is.
PbInv ==
    pbFile # Closed =>
       /\ pbFile \in PbFiles
       /\ binOff # 0 => binOff = pbFile.codeOff /\ binSize = pbFile.codeSize
       /\ binPos \in Nat /\ binPos <= pbFile.codeSize
       /\ ~ moved => codeRead \in Seq(Int) /\ CodeExact
       /\ ~ moved /\ binPos # 0 =>
             at = pbFile.codeOff + Len(codeRead) /\ Len(codeRead) <= binPos

\* The offsets a read of got bytes from start on puts into the buffer.
Chunk(start, got) == [i \in 1..got |-> start + i - 1]

LEMMA ChunkPut ==
  ASSUME NEW l \in Seq(Int), NEW base \in Nat, NEW got \in Nat,
         \A i \in DOMAIN l : l[i] = base + i - 1
  PROVE  /\ l \o Chunk(base + Len(l), got) \in Seq(Int)
         /\ Len(l \o Chunk(base + Len(l), got)) = Len(l) + got
         /\ \A i \in DOMAIN (l \o Chunk(base + Len(l), got)) :
               (l \o Chunk(base + Len(l), got))[i] = base + i - 1
  <1> DEFINE c == Chunk(base + Len(l), got)
  <1>1. c \in Seq(Int) /\ Len(c) = got /\ \A i \in 1..got : c[i] = base + Len(l) + i - 1
    BY DEF Chunk
  <1> HIDE DEF c
  <1>2. l \o c \in Seq(Int) /\ Len(l \o c) = Len(l) + got
    BY <1>1
  <1>3. ASSUME NEW i \in 1..(Len(l) + got) PROVE (l \o c)[i] = base + i - 1
    <2>1. CASE i <= Len(l)
      BY <1>1, <2>1
    <2>2. CASE ~ (i <= Len(l))
      <3>1. (l \o c)[i] = c[i - Len(l)] /\ i - Len(l) \in 1..got
        BY <1>1, <2>2
      <3> QED BY <1>1, <3>1
    <2> QED BY <2>1, <2>2
  <1> QED BY <1>2, <1>3 DEF c

\* How much of a chunk is asked for, and how much is there.
LEMMA ChunkSizes ==
  ASSUME NEW n \in Nat, NEW left \in Nat, NEW start \in Nat, NEW len \in Nat,
         NEW want, want = IF n < left THEN n ELSE left,
         NEW got, got = IF start + want <= len THEN want
                        ELSE IF start < len THEN len - start ELSE 0
  PROVE  want \in 0..left /\ got \in 0..want
  OBVIOUS

LEMMA ReadCodeKeeps ==
  ASSUME PbInv, NEW n \in PbSizes, ReadBinCode(n) PROVE PbInv'
  <1> DEFINE left == Size - binPos
             want == IF n < left THEN n ELSE left
             start == IF binPos = 0 THEN Off ELSE at
             got == IF Has(pbFile, start, want) THEN want
                    ELSE IF start < pbFile.length THEN pbFile.length - start ELSE 0
             old == IF binPos = 0 THEN <<>> ELSE codeRead
  <1>1. /\ pbFile # Closed /\ pbFile' = pbFile
        /\ want # 0 => /\ binOff' = Off /\ binSize' = Size
                       /\ binPos' = binPos + want
                       /\ at' = start + got
                       /\ codeRead' = old \o Chunk(start, got)
                       /\ moved' = (binPos # 0 /\ moved)
        /\ want = 0 => /\ binOff' = 0 /\ binSize' = 0 /\ binPos' = 0
                       /\ codeRead' = codeRead /\ moved' = moved
    BY DEF ReadBinCode, Chunk
  <1>2. /\ n \in Nat /\ pbFile \in PbFiles /\ binPos \in Nat
        /\ pbFile.length \in Nat /\ pbFile.codeOff \in Nat /\ pbFile.codeSize \in Nat
    BY <1>1, BinaryAssumption DEF PbInv
  <1>3. Off = pbFile.codeOff /\ Size = pbFile.codeSize /\ binPos <= pbFile.codeSize
    BY <1>1 DEF PbInv, Off, Size
  <1>4. CASE want = 0
    <2>1. binOff' = 0 /\ binPos' = 0 /\ codeRead' = codeRead /\ moved' = moved
      BY <1>1, <1>4
    <2>2. ~ moved => codeRead \in Seq(Int) /\ CodeExact
      BY <1>1 DEF PbInv
    <2>3. ~ moved' => codeRead' \in Seq(Int) /\ CodeExact'
      BY <1>1, <2>1, <2>2 DEF CodeExact
    <2> QED BY <1>1, <1>2, <2>1, <2>3 DEF PbInv
  <1>5. CASE want # 0
    <2>1. left \in Nat
      BY <1>2, <1>3
    <2>2. /\ pbFile' = pbFile /\ binOff' = Off /\ binSize' = Size
          /\ binPos' = binPos + want /\ at' = start + got
          /\ codeRead' = old \o Chunk(start, got) /\ moved' = (binPos # 0 /\ moved)
      BY <1>1, <1>5
    <2>3. ASSUME ~ moved'
          PROVE  /\ old \in Seq(Int) /\ start = pbFile.codeOff + Len(old)
                 /\ Len(old) <= binPos
                 /\ \A i \in DOMAIN old : old[i] = pbFile.codeOff + i - 1
      <3>1. CASE binPos = 0
        BY <1>2, <1>3, <3>1
      <3>2. CASE binPos # 0
        <4>1. ~ moved
          BY <2>2, <2>3, <3>2
        <4>2. /\ codeRead \in Seq(Int) /\ CodeExact
              /\ at = pbFile.codeOff + Len(codeRead) /\ Len(codeRead) <= binPos
          BY <1>1, <3>2, <4>1 DEF PbInv
        <4>3. old = codeRead /\ start = at
          BY <3>2
        <4> QED BY <1>1, <4>1, <4>2, <4>3 DEF CodeExact
      <3> QED BY <3>1, <3>2
    <2>4. ASSUME start \in Nat PROVE want \in 0..left /\ got \in 0..want
      BY <1>2, <2>1, <2>4, ChunkSizes DEF Has
    <2>5. want \in 0..left
      BY <1>2, <2>1
    <2> HIDE DEF start, got, old, want
    <2>6. binPos' \in Nat /\ binPos' <= pbFile.codeSize
      BY <1>2, <1>3, <2>2, <2>5
    <2>7. ASSUME ~ moved'
          PROVE  /\ codeRead' \in Seq(Int) /\ CodeExact'
                 /\ at' = pbFile.codeOff + Len(codeRead') /\ Len(codeRead') <= binPos'
      <3>1. start \in Nat
        BY <1>2, <2>3, <2>7
      <3>2. got \in Nat /\ got <= want
        BY <2>4, <2>5, <3>1
      <3>3. /\ codeRead' \in Seq(Int) /\ Len(codeRead') = Len(old) + got
            /\ \A i \in DOMAIN codeRead' : codeRead'[i] = pbFile.codeOff + i - 1
        <4>1. /\ old \in Seq(Int) /\ start = pbFile.codeOff + Len(old)
              /\ \A i \in DOMAIN old : old[i] = pbFile.codeOff + i - 1
          BY <2>3, <2>7
        <4>2. /\ old \o Chunk(start, got) \in Seq(Int)
              /\ Len(old \o Chunk(start, got)) = Len(old) + got
              /\ \A i \in DOMAIN (old \o Chunk(start, got)) :
                    (old \o Chunk(start, got))[i] = pbFile.codeOff + i - 1
          <5>1. pbFile.codeOff \in Nat /\ got \in Nat
            BY <1>2, <3>2, Zenon
          <5>2. /\ old \o Chunk(pbFile.codeOff + Len(old), got) \in Seq(Int)
                /\ Len(old \o Chunk(pbFile.codeOff + Len(old), got)) = Len(old) + got
                /\ \A i \in DOMAIN (old \o Chunk(pbFile.codeOff + Len(old), got)) :
                      (old \o Chunk(pbFile.codeOff + Len(old), got))[i] = pbFile.codeOff + i - 1
            BY <4>1, <5>1, ChunkPut, ZenonT(30)
          <5> QED BY <4>1, <5>2, Zenon
        <4> QED BY <2>2, <4>2, Zenon
      <3>4. Len(codeRead') <= binPos' /\ at' = pbFile.codeOff + Len(codeRead')
        BY <1>2, <2>2, <2>3, <2>5, <2>7, <3>2, <3>3
      <3>5. Len(codeRead') <= pbFile.codeSize
        BY <1>2, <2>6, <3>3, <3>4
      <3> QED BY <2>2, <3>3, <3>4, <3>5 DEF CodeExact
    <2>8. binOff' # 0 => binOff' = pbFile'.codeOff /\ binSize' = pbFile'.codeSize
      BY <1>3, <2>2
    <2> QED BY <1>2, <2>2, <2>6, <2>7, <2>8 DEF PbInv
  <1> QED BY <1>4, <1>5

LEMMA PbInvHolds ==
    /\ PbInit => PbInv
    /\ PbInv /\ [PbStep]_pbvars => PbInv'
    /\ PbInv => CodeExact
  <1>1. PbInit => PbInv
    BY DEF PbInit, PbInv
  <1>2. ASSUME PbInv, [PbStep]_pbvars PROVE PbInv'
    <2>1. CASE UNCHANGED pbvars
      BY <1>2, <2>1 DEF pbvars, hvars, PbInv, CodeExact
    <2>2. ASSUME NEW file \in PbFiles, PbOpen(file) PROVE PbInv'
      <3>1. /\ pbFile' \in {file, Closed} /\ binOff' = 0 /\ binPos' = 0
            /\ codeRead' = <<>> /\ moved' = FALSE
        BY <2>2 DEF PbOpen
      <3>2. file.codeSize \in Nat
        BY BinaryAssumption
      <3> QED BY <3>1, <3>2 DEF PbInv, CodeExact
    <2>3. CASE PbClose
      BY <2>3 DEF PbClose, PbInv
    <2>4. ASSUME NEW n \in PbSizes, ReadBinCode(n) PROVE PbInv'
      BY <1>2, <2>4, ReadCodeKeeps
    <2>5. CASE ReadInfo \/ ReadSPLCInfo
      <3>1. /\ pbFile # Closed /\ pbFile' = pbFile /\ moved' = TRUE
            /\ binPos' = binPos /\ codeRead' = codeRead
            /\ binOff' = (IF InfoKnown THEN Off ELSE 0)
            /\ binSize' = (IF InfoKnown THEN Size ELSE 0)
        BY <2>5 DEF ReadInfo, ReadSPLCInfo, ReadTable
      <3>2. Off = pbFile.codeOff /\ Size = pbFile.codeSize
        BY <1>2, <3>1 DEF PbInv, Off, Size
      <3> QED BY <1>2, <3>1, <3>2 DEF PbInv
    <2> QED BY <1>2, <2>1, <2>2, <2>3, <2>4, <2>5 DEF PbStep
  <1>3. PbInv => CodeExact
    BY DEF PbInv, CodeExact
  <1> QED BY <1>1, <1>2, <1>3

\* The values of the buffer up to the top are those of the sequence.
StkInv ==
    /\ pushed \in Seq(Values) /\ top = Len(pushed) - 1 /\ top <= StackSize
    /\ DOMAIN data = 0..StackSize
    /\ \A i \in 1..Len(pushed) : data[i - 1] = pushed[i]
    /\ popped[1] = popped[2]

LEMMA PushKeeps ==
  ASSUME NEW v \in Values, StkInv, PushStack(v) PROVE StkInv'
  <1>1. /\ top < StackSize /\ top' = top + 1 /\ data' = [data EXCEPT ![top + 1] = v]
        /\ pushed' = Append(pushed, v) /\ popped' = popped
    BY DEF PushStack
  <1>2. /\ pushed \in Seq(Values) /\ top = Len(pushed) - 1 /\ DOMAIN data = 0..StackSize
        /\ Len(pushed) \in Nat /\ StackSize \in Nat
    BY StackAssumption DEF StkInv
  <1>3. /\ pushed' \in Seq(Values) /\ Len(pushed') = Len(pushed) + 1
        /\ \A i \in 1..Len(pushed) : pushed'[i] = pushed[i]
        /\ pushed'[Len(pushed) + 1] = v
    BY <1>1, <1>2
  <1>4. top' = Len(pushed') - 1 /\ top' <= StackSize /\ top + 1 \in 0..StackSize
    BY <1>1, <1>2, <1>3
  <1>5. DOMAIN data' = 0..StackSize
    BY <1>1, <1>2
  <1>6. ASSUME NEW i \in 1..Len(pushed') PROVE data'[i - 1] = pushed'[i]
    <2>1. CASE i = Len(pushed) + 1
      BY <1>1, <1>2, <1>3, <1>4, <2>1
    <2>2. CASE i # Len(pushed) + 1
      <3>1. i \in 1..Len(pushed) /\ i - 1 # top + 1 /\ i - 1 \in 0..StackSize
        BY <1>1, <1>2, <1>3, <2>2
      <3>2. data'[i - 1] = data[i - 1]
        BY <1>1, <1>2, <3>1
      <3>3. data[i - 1] = pushed[i] /\ pushed'[i] = pushed[i]
        BY <1>3, <3>1 DEF StkInv
      <3> QED BY <3>2, <3>3
    <2> QED BY <2>1, <2>2
  <1> QED BY <1>1, <1>3, <1>4, <1>5, <1>6 DEF StkInv

LEMMA PopKeeps == StkInv /\ PopStack => StkInv'
  <1> SUFFICES ASSUME StkInv, PopStack PROVE StkInv'
    OBVIOUS
  <1>1. /\ pushed \in Seq(Values) /\ top = Len(pushed) - 1 /\ DOMAIN data = 0..StackSize
        /\ Len(pushed) \in Nat /\ StackSize \in Nat /\ top <= StackSize
        /\ \A i \in 1..Len(pushed) : data[i - 1] = pushed[i]
    BY StackAssumption DEF StkInv
  <1>2. CASE top < 0
    <2>1. popped' = <<0, 0>> /\ top' = top /\ pushed' = pushed /\ data' = data
      BY <1>2 DEF PopStack
    <2> QED BY <1>1, <2>1 DEF StkInv
  <1>3. CASE ~ (top < 0)
    <2>1. /\ popped' = <<data[top], pushed[Len(pushed)]>> /\ top' = top - 1
          /\ pushed' = SubSeq(pushed, 1, Len(pushed) - 1) /\ data' = data
      BY <1>3 DEF PopStack
    <2>2. Len(pushed) \in 1..Len(pushed) /\ Len(pushed) - 1 \in Nat
      BY <1>1, <1>3
    <2>3. data[top] = pushed[Len(pushed)]
      BY <1>1, <2>2
    <2>4. /\ pushed' \in Seq(Values) /\ Len(pushed') = Len(pushed) - 1
          /\ \A i \in 1..(Len(pushed) - 1) : pushed'[i] = pushed[i]
      BY <1>1, <2>1, <2>2
    <2>5. top' = Len(pushed') - 1 /\ top' <= StackSize
      BY <1>1, <2>1, <2>4
    <2>6. \A i \in 1..Len(pushed') : data'[i - 1] = pushed'[i]
      BY <1>1, <2>1, <2>4
    <2>7. popped'[1] = popped'[2]
      BY <2>1, <2>3
    <2> QED BY <1>1, <2>1, <2>4, <2>5, <2>6, <2>7 DEF StkInv
  <1> QED BY <1>2, <1>3

LEMMA StkInvHolds ==
    /\ StkInit => StkInv
    /\ StkInv /\ [StkStep]_stkvars => StkInv'
    /\ StkInv => StackIsLifo
  <1>1. StkInit => StkInv
    BY StackAssumption DEF StkInit, StkInv
  <1>2. ASSUME StkInv, [StkStep]_stkvars PROVE StkInv'
    <2>1. CASE UNCHANGED stkvars
      BY <1>2, <2>1 DEF stkvars, StkInv
    <2>2. CASE StkStep
      BY <1>2, <2>2, PushKeeps, PopKeeps DEF StkStep
    <2> QED BY <1>2, <2>1, <2>2
  <1>3. ASSUME StkInv PROVE StackIsLifo
    <2>1. /\ pushed \in Seq(Values) /\ top = Len(pushed) - 1 /\ Len(pushed) \in Nat
          /\ StackSize \in Nat /\ top <= StackSize /\ popped[1] = popped[2]
          /\ \A i \in 1..Len(pushed) : data[i - 1] = pushed[i]
      BY <1>3, StackAssumption DEF StkInv
    <2>2. IsStackEmpty <=> pushed = <<>>
      BY <2>1 DEF IsStackEmpty
    <2>3. Len(pushed) <= StackSize + 1
      BY <2>1
    <2>4. ASSUME pushed # <<>> PROVE PeekStack = pushed[Len(pushed)]
      <3>1. Len(pushed) \in 1..Len(pushed) /\ ~ (top < 0)
        BY <2>1, <2>4
      <3> QED BY <2>1, <3>1 DEF PeekStack
    <2> QED BY <2>1, <2>2, <2>3, <2>4 DEF StackIsLifo
  <1> QED BY <1>1, <1>2, <1>3

(* Whatever walks there are on a channel, a cursor stays on its list and a  *)
(* walk on its edge, and a pass that nothing disturbs sees every node; the  *)
(* chunks of a binary are its code, for files and sizes of every kind; and  *)
(* the stack gives back what was pushed, for every depth of its buffer.     *)
THEOREM LibrariesAgree == KSpec /\ PbSpec /\ StkSpec => []LibrariesKeep
  BY KInvHolds, PbInvHolds, StkInvHolds, PTL DEF KSpec, PbSpec, StkSpec, LibrariesKeep

-----------------------------------------------------------------------------
(* What q_send posts of its own accord                                     *)

SaKinds == SaMessages \cup {"activation", "winmgr", "fmload"}
SaCalls == [m : SaKinds, at : {"enter", "stored"}]

\* What may have been posted, told from the flags.
SaDone == (IF saFired THEN {"activation"} ELSE {}) \cup saStates

SaWeight(x) == IF x \in SaDone THEN 1 ELSE 0

\* Everything whose flag is set has been posted once and nothing else, and a
\* call that is not of a program is of something that has been posted.
SaInv ==
    /\ saFired \in BOOLEAN /\ saStates \in {{}, {"winmgr"}, {"winmgr", "fmload"}}
    /\ saPosted \in Seq(SaKinds) /\ saCalls \in Seq(SaCalls)
    /\ ToSet(saPosted) = SaDone /\ IsInjective(saPosted)
    /\ Len(saPosted) = SaWeight("activation") + SaWeight("winmgr") + SaWeight("fmload")
    /\ Len(saCalls) <= 1 + Len(saPosted)

\* One more thing is posted, which was not before.
LEMMA PostOnce ==
  ASSUME NEW l \in Seq(SaKinds), IsInjective(l), NEW x \in SaKinds, x \notin ToSet(l)
  PROVE  /\ Append(l, x) \in Seq(SaKinds) /\ Len(Append(l, x)) = Len(l) + 1
         /\ ToSet(Append(l, x)) = ToSet(l) \cup {x}
         /\ IsInjective(Append(l, x))
  <1> DEFINE k == Append(l, x)
  <1>1. /\ k \in Seq(SaKinds) /\ Len(k) = Len(l) + 1 /\ k[Len(l) + 1] = x
        /\ \A i \in 1..Len(l) : k[i] = l[i]
        /\ Len(l) \in Nat /\ DOMAIN l = 1..Len(l)
    OBVIOUS
  <1> HIDE DEF k
  <1>2. DOMAIN k = 1..(Len(l) + 1)
    BY <1>1
  <1>3. \A i \in 1..Len(l) : k[i] \in ToSet(l)
    BY <1>1 DEF ToSet
  <1>4. ToSet(k) = ToSet(l) \cup {x}
    <2>1. ASSUME NEW i \in DOMAIN k PROVE k[i] \in ToSet(l) \cup {x}
      <3>1. i \in 1..Len(l) \/ i = Len(l) + 1
        BY <1>1, <1>2
      <3> QED BY <1>1, <1>3, <3>1
    <2>2. ASSUME NEW y \in ToSet(l) \cup {x} PROVE \E i \in DOMAIN k : k[i] = y
      BY <1>1, <1>2 DEF ToSet
    <2> QED BY <2>1, <2>2 DEF ToSet
  <1>5. ASSUME NEW i \in DOMAIN k, NEW j \in DOMAIN k, k[i] = k[j] PROVE i = j
    <2>1. \A h \in DOMAIN k : h \in 1..Len(l) \/ h = Len(l) + 1
      BY <1>1, <1>2
    <2>2. CASE i \in 1..Len(l) /\ j \in 1..Len(l)
      BY <1>1, <1>5, <2>2 DEF IsInjective
    <2>3. CASE i \in 1..Len(l) /\ j = Len(l) + 1
      BY <1>1, <1>3, <1>5, <2>3
    <2>4. CASE j \in 1..Len(l) /\ i = Len(l) + 1
      BY <1>1, <1>3, <1>5, <2>4
    <2> QED BY <2>1, <2>2, <2>3, <2>4
  <1>6. IsInjective(k)
    BY <1>5 DEF IsInjective
  <1> QED BY <1>1, <1>4, <1>6 DEF k

LEMMA SaEnterKeeps == SaInv /\ SaEnter => SaInv'
  <1> SUFFICES ASSUME SaInv, SaEnter PROVE SaInv'
    OBVIOUS
  <1> DEFINE after == [saCalls EXCEPT ![1].at = "stored"]
  <1>1. /\ saCalls # <<>> /\ saStates' = saStates
        /\ \/ /\ ~ saFired /\ saFired' = TRUE /\ saPosted' = Append(saPosted, "activation")
              /\ saCalls' = <<SaCall("activation")>> \o after
           \/ saCalls' = after /\ UNCHANGED <<saFired, saPosted>>
    BY DEF SaEnter, SaGate, SaFire
  <1>2. after \in Seq(SaCalls) /\ Len(after) = Len(saCalls)
    <2>1. /\ saCalls \in Seq(SaCalls) /\ Len(saCalls) \in Nat /\ 1 \in 1..Len(saCalls)
      BY <1>1 DEF SaInv
    <2>2. saCalls[1] \in SaCalls
      BY <2>1
    <2>3. [saCalls[1] EXCEPT !.at = "stored"] \in SaCalls
      BY <2>2 DEF SaCalls
    <2>4. after = [saCalls EXCEPT ![1] = [saCalls[1] EXCEPT !.at = "stored"]]
      BY Zenon
    <2> QED BY <2>1, <2>3, <2>4
  <1> HIDE DEF after
  <1>3. CASE saCalls' = after /\ UNCHANGED <<saFired, saPosted>>
    BY <1>1, <1>2, <1>3 DEF SaInv, SaDone, SaWeight
  <1>4. CASE /\ ~ saFired /\ saFired' = TRUE /\ saPosted' = Append(saPosted, "activation")
             /\ saCalls' = <<SaCall("activation")>> \o after
    <2>1. "activation" \notin SaDone /\ "activation" \in SaKinds
      BY <1>4 DEF SaInv, SaDone, SaKinds
    <2>2. /\ saPosted' \in Seq(SaKinds) /\ Len(saPosted') = Len(saPosted) + 1
          /\ ToSet(saPosted') = ToSet(saPosted) \cup {"activation"}
          /\ IsInjective(saPosted')
      BY <1>4, <2>1, PostOnce DEF SaInv
    <2>3. SaDone' = SaDone \cup {"activation"}
      BY <1>1, <1>4 DEF SaDone
    <2>4. SaCall("activation") \in SaCalls
      BY <2>1 DEF SaCall, SaCalls
    <2>5. saCalls' \in Seq(SaCalls) /\ Len(saCalls') = Len(saCalls) + 1
      BY <1>2, <1>4, <2>4
    <2>6. /\ SaWeight("activation") = 0 /\ SaWeight("activation")' = 1
          /\ SaWeight("winmgr")' = SaWeight("winmgr")
          /\ SaWeight("fmload")' = SaWeight("fmload")
      BY <2>1, <2>3 DEF SaWeight
    <2>7. /\ Len(saPosted') = SaWeight("activation")' + SaWeight("winmgr")' + SaWeight("fmload")'
          /\ Len(saCalls') <= 1 + Len(saPosted')
      <3>1. SaWeight("winmgr") \in 0..1 /\ SaWeight("fmload") \in 0..1
        BY DEF SaWeight
      <3>2. /\ Len(saPosted) = SaWeight("activation") + SaWeight("winmgr") + SaWeight("fmload")
            /\ Len(saCalls) <= 1 + Len(saPosted) /\ Len(saCalls) \in Nat
        BY DEF SaInv
      <3> QED BY <2>2, <2>5, <2>6, <3>1, <3>2
    <2>8. saFired' \in BOOLEAN /\ saStates' \in {{}, {"winmgr"}, {"winmgr", "fmload"}}
      BY <1>1, <1>4 DEF SaInv
    <2>9. ToSet(saPosted') = SaDone'
      BY <2>2, <2>3 DEF SaInv
    <2> QED BY <2>2, <2>5, <2>7, <2>8, <2>9 DEF SaInv
  <1> QED BY <1>1, <1>3, <1>4

LEMMA SaStoredKeeps == SaInv /\ SaStored => SaInv'
  <1> SUFFICES ASSUME SaInv, SaStored PROVE SaInv'
    OBVIOUS
  <1> DEFINE left == {"winmgr", "fmload"} \ saStates
             next == IF "winmgr" \in left THEN "winmgr" ELSE "fmload"
  <1>1. /\ saCalls # <<>> /\ saFired' = saFired
        /\ \/ /\ left # {} /\ saStates' = saStates \cup {next}
              /\ saPosted' = Append(saPosted, next)
              /\ saCalls' = <<SaCall(next)>> \o saCalls
           \/ saCalls' = Tail(saCalls) /\ UNCHANGED <<saStates, saPosted>>
    BY DEF SaStored
  <1>2. saCalls \in Seq(SaCalls) /\ Len(saCalls) \in Nat /\ saFired \in BOOLEAN
    BY DEF SaInv
  <1>3. CASE saCalls' = Tail(saCalls) /\ UNCHANGED <<saStates, saPosted>>
    <2>1. saCalls' \in Seq(SaCalls) /\ Len(saCalls') <= Len(saCalls) /\ Len(saCalls') \in Nat
      BY <1>1, <1>2, <1>3
    <2>2. Len(saPosted) \in Nat
      BY DEF SaInv
    <2>3. Len(saCalls') <= 1 + Len(saPosted)
      BY <1>2, <2>1, <2>2 DEF SaInv
    <2> QED BY <1>1, <1>3, <2>1, <2>3 DEF SaInv, SaDone, SaWeight
  <1>4. CASE /\ left # {} /\ saStates' = saStates \cup {next}
             /\ saPosted' = Append(saPosted, next)
             /\ saCalls' = <<SaCall(next)>> \o saCalls
    <2>1. /\ next \in {"winmgr", "fmload"} /\ next \notin saStates
          /\ saStates' \in {{}, {"winmgr"}, {"winmgr", "fmload"}}
      BY <1>4 DEF SaInv
    <2> HIDE DEF next
    <2>2. next \notin SaDone /\ next \in SaKinds
      BY <2>1 DEF SaDone, SaKinds
    <2>3. /\ saPosted' \in Seq(SaKinds) /\ Len(saPosted') = Len(saPosted) + 1
          /\ ToSet(saPosted') = ToSet(saPosted) \cup {next}
          /\ IsInjective(saPosted')
      BY <1>4, <2>2, PostOnce DEF SaInv
    <2>4. SaDone' = SaDone \cup {next}
      BY <1>1, <1>4 DEF SaDone
    <2>5. SaCall(next) \in SaCalls
      BY <2>2 DEF SaCall, SaCalls
    <2>6. saCalls' \in Seq(SaCalls) /\ Len(saCalls') = Len(saCalls) + 1
      BY <1>2, <1>4, <2>5
    <2>7. SaWeight("activation")' + SaWeight("winmgr")' + SaWeight("fmload")'
            = SaWeight("activation") + SaWeight("winmgr") + SaWeight("fmload") + 1
      BY <2>1, <2>2, <2>4 DEF SaWeight
    <2>8. /\ Len(saPosted') = SaWeight("activation")' + SaWeight("winmgr")' + SaWeight("fmload")'
          /\ Len(saCalls') <= 1 + Len(saPosted')
      <3>1. /\ Len(saPosted) = SaWeight("activation") + SaWeight("winmgr") + SaWeight("fmload")
            /\ Len(saCalls) <= 1 + Len(saPosted) /\ Len(saPosted) \in Nat
        BY DEF SaInv
      <3> QED BY <1>2, <2>3, <2>6, <2>7, <3>1
    <2>9. ToSet(saPosted') = SaDone'
      BY <2>3, <2>4 DEF SaInv
    <2> QED BY <1>1, <1>2, <2>1, <2>3, <2>6, <2>8, <2>9 DEF SaInv
  <1> QED BY <1>1, <1>3, <1>4

LEMMA SaInvHolds ==
    /\ SaInit => SaInv
    /\ SaInv /\ [SaNext]_saVars => SaInv'
    /\ SaInv => InjectsOnce
  <1>1. ASSUME SaInit PROVE SaInv
    <2>1. ToSet(<<>>) = {} /\ IsInjective(<<>>)
      BY DEF ToSet, IsInjective
    <2>2. SaDone = {} /\ saPosted = <<>> /\ saCalls = <<>> /\ saStates = {} /\ saFired = FALSE
      BY <1>1 DEF SaInit, SaDone
    <2>3. <<>> \in Seq(SaKinds) /\ <<>> \in Seq(SaCalls) /\ Len(<<>>) = 0
      BY EmptySeq
    <2>4. Len(saPosted) = SaWeight("activation") + SaWeight("winmgr") + SaWeight("fmload")
      BY <2>2, <2>3 DEF SaWeight
    <2>5. Len(saCalls) <= 1 + Len(saPosted)
      BY <2>2, <2>3
    <2> QED BY <2>1, <2>2, <2>3, <2>4, <2>5, Zenon DEF SaInv
  <1>2. ASSUME SaInv, [SaNext]_saVars PROVE SaInv'
    <2>1. CASE UNCHANGED saVars
      BY <1>2, <2>1 DEF saVars, SaInv, SaDone, SaWeight
    <2>2. ASSUME NEW m \in SaMessages, SaSend(m) PROVE SaInv'
      <3>1. /\ saCalls' = <<SaCall(m)>>
            /\ UNCHANGED <<saFired, saStates, saPosted>>
        BY <2>2 DEF SaSend
      <3>2. SaCall(m) \in SaCalls
        BY DEF SaCall, SaCalls, SaKinds
      <3>3. saCalls' \in Seq(SaCalls) /\ Len(saCalls') = 1 /\ Len(saPosted) \in Nat
        BY <1>2, <3>1, <3>2 DEF SaInv
      <3> QED BY <1>2, <3>1, <3>3 DEF SaInv, SaDone, SaWeight
    <2>3. CASE SaCreate
      BY <1>2, <2>3 DEF SaCreate, SaInv, SaDone, SaWeight
    <2> QED BY <1>2, <2>1, <2>2, <2>3, SaEnterKeeps, SaStoredKeeps DEF SaNext
  <1>3. ASSUME SaInv PROVE InjectsOnce
    <2>1. Len(saPosted) <= 3 /\ Len(saCalls) \in Nat
      BY <1>3 DEF SaInv, SaWeight
    <2>2. Len(saCalls) <= 4
      BY <1>3, <2>1 DEF SaInv
    <2>3. "fmload" \in ToSet(saPosted) => "winmgr" \in ToSet(saPosted)
      BY <1>3 DEF SaInv, SaDone
    <2> QED BY <1>3, <2>2, <2>3 DEF SaInv, InjectsOnce
  <1> QED BY <1>1, <1>2, <1>3

(* A call of q_send that posts of its own accord runs the tests it was made *)
(* from again: however many messages pass and whatever the thresholds, each *)
(* thing is posted once at most, and the calls nest no deeper than four.    *)
THEOREM PostsNest == SaSpec => []InjectsOnce
  BY SaInvHolds, PTL DEF SaSpec

-----------------------------------------------------------------------------
(* The backtraces                                                          *)

Walks     == {Walk(m) : m \in TrStacks}
TrReports == TrThreads \X TrStacks \X Walks

\* Nobody but t has reported.
Sole(t) == \A i \in DOMAIN trLog : trLog[i][1] = t

\* The budget is what the reports of t leave of it, and t has read it as it is.
Paid(t) ==
    /\ trBudget = TrBudget - Len(trLog) /\ trBudget >= 0
    /\ trTask[t].at # "idle" => trBudget > 0
    /\ trTask[t].at = "enter" => trTask[t].left = trBudget

TrTyped(w) ==
    /\ w.at \in {"idle", "walked", "enter"}
    /\ w.at # "idle" => w.mem \in TrStacks /\ w.stack \in Walks

TrInv ==
    /\ DOMAIN trTask = TrThreads /\ trLog \in Seq(TrReports)
    /\ \A t \in TrThreads : TrTyped(trTask[t])
    /\ \A t \in TrThreads : Sole(t) => Paid(t)

\* A step of t that reports nothing: its own place is what has to be looked at.
LEMMA TrStays ==
  ASSUME TrInv, NEW t \in TrThreads, NEW w, TrTyped(w), UNCHANGED <<trLog, trBudget>>,
         trTask' = [trTask EXCEPT ![t] = w],
         Sole(t) => /\ w.at # "idle" => trBudget > 0
                    /\ w.at = "enter" => w.left = trBudget
  PROVE  TrInv'
  <1>1. DOMAIN trTask' = TrThreads /\ trTask'[t] = w
    BY DEF TrInv
  <1>2. \A r \in TrThreads : r # t => trTask'[r] = trTask[r]
    BY DEF TrInv
  <1>3. \A r \in TrThreads : TrTyped(trTask'[r])
    BY <1>1, <1>2, Zenon DEF TrInv
  <1>4. ASSUME NEW r \in TrThreads, Sole(r)' PROVE Paid(r)'
    <2>1. Sole(r) /\ Paid(r)
      BY <1>4 DEF TrInv, Sole
    <2>2. CASE r = t
      BY <1>1, <2>1, <2>2 DEF Paid
    <2>3. CASE r # t
      BY <1>2, <2>1, <2>3 DEF Paid
    <2> QED BY <2>2, <2>3
  <1>5. trLog' \in Seq(TrReports)
    BY DEF TrInv
  <1> QED BY <1>1, <1>3, <1>4, <1>5, Zenon DEF TrInv, TrTyped

LEMMA TrCallKeeps ==
  ASSUME TrInv, NEW t \in TrThreads, NEW m \in TrStacks, TrCall(t, m) PROVE TrInv'
  <1> DEFINE w == [at |-> "walked", mem |-> m, stack |-> Walk(m), capped |-> t \in trMaps']
  <1>1. /\ trBudget > 0 /\ UNCHANGED <<trLog, trBudget>>
        /\ trTask' = [trTask EXCEPT ![t] = w]
    BY Zenon DEF TrCall
  <1>2. w.at = "walked" /\ w.mem = m /\ w.stack = Walk(m)
    OBVIOUS
  <1> HIDE DEF w
  <1>3. TrTyped(w)
    BY <1>2, Zenon DEF TrTyped, Walks
  <1> QED BY <1>1, <1>2, <1>3, TrStays

LEMMA TrLookKeeps ==
  ASSUME TrInv, NEW t \in TrThreads, TrLook(t) PROVE TrInv'
  <1> DEFINE old == trTask[t]
             w == [at |-> "enter", mem |-> old.mem, stack |-> old.stack,
                   n |-> Len(trSeen), left |-> trBudget]
  <1>1. /\ old.at = "walked" /\ UNCHANGED <<trLog, trBudget>>
        /\ \/ trTask' = [trTask EXCEPT ![t] = Untraced]
           \/ trTask' = [trTask EXCEPT ![t] = w]
    BY DEF TrLook
  <1>2. old.mem \in TrStacks /\ old.stack \in Walks
    BY <1>1 DEF TrInv, TrTyped
  <1>3. Sole(t) => trBudget > 0
    BY <1>1 DEF TrInv, Paid
  <1>4. TrTyped(w) /\ w.at = "enter" /\ w.left = trBudget
    BY <1>2 DEF TrTyped
  <1>5. TrTyped(Untraced) /\ Untraced.at = "idle"
    BY DEF TrTyped, Untraced
  <1> HIDE DEF w
  <1> QED BY <1>1, <1>3, <1>4, <1>5, TrStays

LEMMA TrReportKeeps ==
  ASSUME TrInv, NEW t \in TrThreads, TrReport(t) PROVE TrInv'
  <1> DEFINE w == trTask[t]
             e == <<t, w.mem, w.stack>>
  <1>1. /\ w.at = "enter" /\ trBudget' = w.left - 1 /\ trLog' = Append(trLog, e)
        /\ trTask' = [trTask EXCEPT ![t] = Untraced]
    BY DEF TrReport
  <1>2. e \in TrReports /\ e[1] = t
    <2>1. w.mem \in TrStacks /\ w.stack \in Walks
      BY <1>1 DEF TrInv, TrTyped
    <2> QED BY <2>1 DEF TrReports
  <1> HIDE DEF e
  <1>3. trLog \in Seq(TrReports)
    BY DEF TrInv
  <1>4. /\ trLog' \in Seq(TrReports) /\ Len(trLog') = Len(trLog) + 1
        /\ trLog'[Len(trLog) + 1] = e
        /\ \A i \in 1..Len(trLog) : trLog'[i] = trLog[i]
    BY <1>1, <1>2, <1>3, SeqPlus
  <1>5. /\ DOMAIN trLog = 1..Len(trLog) /\ DOMAIN trLog' = 1..(Len(trLog) + 1)
        /\ Len(trLog) \in Nat
    BY <1>3, <1>4
  <1>6. /\ DOMAIN trTask' = TrThreads /\ trTask'[t] = Untraced
        /\ \A r \in TrThreads : r # t => trTask'[r] = trTask[r]
    BY <1>1 DEF TrInv
  <1>7. \A r \in TrThreads : TrTyped(trTask'[r])
    BY <1>6 DEF TrInv, TrTyped, Untraced
  <1>8. ASSUME NEW r \in TrThreads, Sole(r)' PROVE Paid(r)'
    <2>1. Len(trLog) + 1 \in DOMAIN trLog'
      BY <1>5
    <2>2. r = t
      BY <1>2, <1>4, <1>8, <2>1 DEF Sole
    <2>3. Sole(t)
      <3>1. \A i \in DOMAIN trLog : i \in DOMAIN trLog' /\ trLog'[i] = trLog[i]
        BY <1>4, <1>5
      <3> QED BY <1>8, <2>2, <3>1 DEF Sole
    <2>4. /\ trBudget = TrBudget - Len(trLog) /\ trBudget > 0 /\ w.left = trBudget
      BY <1>1, <2>3 DEF TrInv, Paid
    <2>5. trBudget' = TrBudget - Len(trLog') /\ trBudget' >= 0
      BY <1>1, <1>4, <1>5, <2>4, TrAssumption
    <2>6. trTask'[r].at = "idle"
      BY <1>6, <2>2 DEF Untraced
    <2> QED BY <2>5, <2>6 DEF Paid
  <1> QED BY <1>4, <1>6, <1>7, <1>8, Zenon DEF TrInv, TrTyped

LEMMA TrInvHolds ==
    /\ TrInit => TrInv
    /\ TrInv /\ [TrNext]_trVars => TrInv'
    /\ TrInv => ReportsBounded
  <1>1. ASSUME TrInit PROVE TrInv
    <2>1. /\ trTask = [t \in TrThreads |-> Untraced] /\ trLog = <<>> /\ trBudget = TrBudget
          /\ TrBudget \in Nat
      BY <1>1, TrAssumption DEF TrInit
    <2>2. trLog \in Seq(TrReports) /\ Len(trLog) = 0
      BY <2>1, EmptySeq
    <2>3. \A t \in TrThreads : Paid(t)
      BY <2>1, <2>2 DEF Paid, Untraced
    <2>4. \A t \in TrThreads : TrTyped(trTask[t])
      BY <2>1 DEF TrTyped, Untraced
    <2> QED BY <2>1, <2>2, <2>3, <2>4 DEF TrInv
  <1>2. ASSUME TrInv, [TrNext]_trVars PROVE TrInv'
    <2>1. CASE UNCHANGED <<trBudget, trTask, trLog>>
      BY <1>2, <2>1 DEF TrInv, TrTyped, Sole, Paid
    <2>2. \A t \in TrThreads : TrThread(t) => UNCHANGED <<trBudget, trTask, trLog>>
      BY DEF TrThread
    <2>3. UNCHANGED trVars => UNCHANGED <<trBudget, trTask, trLog>>
      BY DEF trVars
    <2> QED BY <1>2, <2>1, <2>2, <2>3, TrCallKeeps, TrLookKeeps, TrReportKeeps, Zenon DEF TrNext
  <1>3. ASSUME TrInv PROVE ReportsBounded
    <2>1. ASSUME NEW t \in TrThreads, Sole(t) PROVE Len(trLog) <= TrBudget
      <3>1. Len(trLog) \in Nat /\ trBudget = TrBudget - Len(trLog) /\ trBudget >= 0
        BY <1>3, <2>1 DEF TrInv, Paid
      <3> QED BY <3>1, TrAssumption
    <2> QED BY <2>1, Zenon DEF ReportsBounded, Sole
  <1> QED BY <1>1, <1>2, <1>3

(* However many threads trace, on whatever stacks, and although what one    *)
(* stores another overwrites: while a single thread reports, it reports no  *)
(* more than the budget.                                                    *)
THEOREM BudgetHolds == TrSpec => []ReportsBounded
  BY TrInvHolds, PTL DEF TrSpec

-----------------------------------------------------------------------------
(* The parts side by side                                                  *)

standVars == <<serverVars, shimVars, libVars, argVars>>

\* A step is one of a single part, and leaves the variables of the others.
LEMMA StandInStep ==
    MCNext \/ UNCHANGED standVars
      => /\ [CnNext]_cnVars /\ [RlNext]_rlVars /\ [RpNext]_rpVars /\ [SaNext]_saVars
         /\ [TrNext]_trVars /\ [SpNext]_spVars /\ [PtNext]_ptVars /\ [GfNext]_gfVars /\ [FfNext]_ffVars
         /\ [KStep]_kvars /\ [PbStep]_pbvars /\ [StkStep]_stkvars
  <1>1. ASSUME ServerParts
        PROVE  /\ [CnNext]_cnVars /\ [RlNext]_rlVars /\ [RpNext]_rpVars /\ [SaNext]_saVars
               /\ [TrNext]_trVars /\ UNCHANGED <<shimVars, libVars>>
    BY <1>1, Zenon DEF ServerParts
  <1>2. ASSUME ShimParts
        PROVE  /\ [SpNext]_spVars /\ [PtNext]_ptVars /\ [GfNext]_gfVars /\ [FfNext]_ffVars
               /\ UNCHANGED <<serverVars, libVars>>
    BY <1>2, Zenon DEF ShimParts
  <1>3. ASSUME LibParts
        PROVE  /\ [KStep]_kvars /\ [PbStep]_pbvars /\ [StkStep]_stkvars
               /\ UNCHANGED <<serverVars, shimVars>>
    BY <1>3, Zenon DEF LibParts
  <1>4. /\ UNCHANGED serverVars => UNCHANGED <<cnVars, rlVars, rpVars, saVars, trVars>>
        /\ UNCHANGED shimVars => UNCHANGED <<spVars, ptVars, gfVars, ffVars>>
        /\ UNCHANGED libVars => UNCHANGED <<kvars, pbvars, stkvars>>
        /\ UNCHANGED standVars => UNCHANGED <<serverVars, shimVars, libVars>>
    BY Zenon DEF serverVars, shimVars, libVars, standVars
  <1> QED BY <1>1, <1>2, <1>3, <1>4, Zenon DEF MCNext

\* What holds of all the parts, as far as no reader is defined by recursion.
StandInsRight ==
    /\ ConnectsAnswered /\ RelayComplete /\ RepliesRouted /\ InjectsOnce /\ ReportsBounded
    /\ ChildrenOwn /\ ShimsSafe /\ LibrariesKeep

(* Whichever of the stand-ins a behaviour is one of: what is answered,      *)
(* relayed, posted, started, patched and walked is right, and a part that   *)
(* rests is as right as one that runs.                                      *)
THEOREM StandInsHold == RelayApart /\ NamesApart => (MCSpec => []StandInsRight)
  <1> SUFFICES ASSUME RelayApart, NamesApart PROVE MCSpec => []StandInsRight
    OBVIOUS
  <1>1. MCInit => /\ CnInit /\ RlInit /\ RpInit /\ SaInit /\ TrInit /\ SpInit /\ PtInit /\ GfInit
                  /\ FfInit /\ KInit /\ PbInit /\ StkInit
    BY Zenon DEF MCInit
  <1>2. MCSpec => /\ CnSpec /\ RlSpec /\ RpSpec /\ SaSpec /\ TrSpec
                  /\ SpInit /\ [][SpNext]_spVars /\ PtSpec /\ GfSpec /\ FfSpec
                  /\ KSpec /\ PbSpec /\ StkSpec
    BY <1>1, StandInStep, PTL
       DEF MCSpec, standVars, CnSpec, RlSpec, RpSpec, SaSpec, TrSpec, PtSpec, GfSpec,
           FfSpec, KSpec, PbSpec, StkSpec
  <1>3. /\ CnSpec => []ConnectsAnswered
        /\ RlSpec => []RelayComplete
    BY ConnectsTold, RelayDelivers
  <1> QED BY <1>2, <1>3, RepliesGoHome, PostsNest, BudgetHolds, ProgramsOwn, ShimsKeepSafe,
             LibrariesAgree, PTL DEF StandInsRight
=============================================================================
