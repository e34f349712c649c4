--------------------------- MODULE HerosEventProofs ---------------------------
(***************************************************************************)
(* Proofs about HerosEvent for every set of tasks, of bits and of masks.   *)
(***************************************************************************)
EXTENDS HerosEvent, TLAPS

(* A task that is about to sleep has loaded a word that does not satisfy   *)
(* its call.  With the comparison FUTEX_WAIT makes, this carries the test  *)
(* over to the moment of falling asleep.                                   *)
LoadedInVain ==
    \A t \in Tasks : pc[t] \in {"level", "block"} => ~ Satisfies(t, cur[t])

EvIInv == TypeOK /\ LoadedInVain /\ NoMissedEvent

LEMMA EvInitInv == Init => EvIInv
  <1> SUFFICES ASSUME Init PROVE EvIInv
    OBVIOUS
  <1>1. TypeOK
    BY DEF Init, TypeOK, Receiving, Sending
  <1>2. LoadedInVain /\ NoMissedEvent
    BY DEF Init, LoadedInVain, NoMissedEvent
  <1> QED BY <1>1, <1>2 DEF EvIInv

(* Every step preserves the type invariant.                                *)
LEMMA EvTypeStep == TypeOK /\ [EvNext]_evVars => TypeOK'
  <1> SUFFICES ASSUME TypeOK, [EvNext]_evVars PROVE TypeOK'
    OBVIOUS
  <1> USE EventAssumption DEF TypeOK, Goto, recvVars, sendVars, Receiving, Sending
  <1>1. CASE UNCHANGED evVars
    BY <1>1 DEF evVars
  <1>2. ASSUME NEW t \in Tasks, Ev_send(t) PROVE TypeOK'
    BY <1>2 DEF Ev_send, CallEvSend
  <1>3. ASSUME NEW t \in Tasks, Ev_receive(t) PROVE TypeOK'
    BY <1>3 DEF Ev_receive, CallEvReceive
  <1>4. ASSUME NEW t \in Tasks, EvStep(t) PROVE TypeOK'
    <2>1. CASE EvOr(t)            BY <2>1 DEF EvOr
    <2>2. CASE EvWake(t)          BY <2>2 DEF EvWake
    <2>3. CASE TakeToken(t)       BY <2>3 DEF TakeToken, ReturnBits
    <2>4. CASE Load(t)            BY <2>4 DEF Load, ReturnBits
    <2>5. CASE Take(t)            BY <2>5 DEF Take, ReturnBits
    <2>6. CASE Expire(t)          BY <2>6 DEF Expire, ReturnBits
    <2>7. CASE GoBlock(t)         BY <2>7 DEF GoBlock
    <2>8. CASE FutexWait(t)       BY <2>8 DEF FutexWait
    <2> QED BY <1>4, <2>1, <2>2, <2>3, <2>4, <2>5, <2>6, <2>7, <2>8 DEF EvStep
  <1>5. ASSUME NEW t \in Tasks, Disturbed(t) PROVE TypeOK'
    BY <1>5 DEF Disturbed
  <1> QED BY <1>1, <1>2, <1>3, <1>4, <1>5 DEF EvNext

(* The loaded word and the call do not change between the test and the     *)
(* sleep.                                                                  *)
LEMMA VainStep == TypeOK /\ LoadedInVain /\ [EvNext]_evVars => LoadedInVain'
  <1> SUFFICES ASSUME TypeOK, LoadedInVain, [EvNext]_evVars PROVE LoadedInVain'
    OBVIOUS
  <1> USE DEF TypeOK, LoadedInVain, Satisfies, Goto, recvVars, sendVars
  <1>1. CASE UNCHANGED evVars
    BY <1>1 DEF evVars
  <1>2. ASSUME NEW t \in Tasks, Ev_send(t) PROVE LoadedInVain'
    BY <1>2 DEF Ev_send, CallEvSend
  <1>3. ASSUME NEW t \in Tasks, Ev_receive(t) PROVE LoadedInVain'
    BY <1>3 DEF Ev_receive, CallEvReceive
  <1>4. ASSUME NEW t \in Tasks, EvStep(t) PROVE LoadedInVain'
    <2>1. CASE EvOr(t)            BY <2>1 DEF EvOr
    <2>2. CASE EvWake(t)          BY <2>2 DEF EvWake
    <2>3. CASE TakeToken(t)       BY <2>3 DEF TakeToken, ReturnBits
    <2>4. CASE Load(t)            BY <2>4 DEF Load, ReturnBits
    <2>5. CASE Take(t)            BY <2>5 DEF Take, ReturnBits
    <2>6. CASE Expire(t)          BY <2>6 DEF Expire, ReturnBits
    <2>7. CASE GoBlock(t)         BY <2>7 DEF GoBlock
    <2>8. CASE FutexWait(t)       BY <2>8 DEF FutexWait
    <2> QED BY <1>4, <2>1, <2>2, <2>3, <2>4, <2>5, <2>6, <2>7, <2>8 DEF EvStep
  <1>5. ASSUME NEW t \in Tasks, Disturbed(t) PROVE LoadedInVain'
    BY <1>5 DEF Disturbed
  <1> QED BY <1>1, <1>2, <1>3, <1>4, <1>5 DEF EvNext

(* A word comes to satisfy a sleeper only by EvOr, which leaves its sender *)
(* about to wake; and a task falls asleep only on a word that does not.    *)
LEMMA EvMissStep == EvIInv /\ [EvNext]_evVars => NoMissedEvent'
  <1> SUFFICES ASSUME EvIInv, [EvNext]_evVars, NEW r \in Tasks,
                      (pc[r] = "asleep" /\ Satisfies(r, events[r]))'
               PROVE  (\E s \in Tasks : pc[s] = "wake" /\ dest[s] = r)'
    BY DEF NoMissedEvent
  <1> USE DEF EvIInv, TypeOK, NoMissedEvent, Satisfies, Goto, recvVars, sendVars
  <1>1. CASE UNCHANGED evVars
    BY <1>1 DEF evVars
  <1>2. ASSUME NEW t \in Tasks, Ev_send(t)
        PROVE  (\E s \in Tasks : pc[s] = "wake" /\ dest[s] = r)'
    BY <1>2 DEF Ev_send, CallEvSend
  <1>3. ASSUME NEW t \in Tasks, Ev_receive(t)
        PROVE  (\E s \in Tasks : pc[s] = "wake" /\ dest[s] = r)'
    BY <1>3 DEF Ev_receive, CallEvReceive
  <1>4. ASSUME NEW t \in Tasks, EvStep(t)
        PROVE  (\E s \in Tasks : pc[s] = "wake" /\ dest[s] = r)'
    <2>1. CASE EvOr(t)
      <3>1. CASE dest[t] = r      BY <2>1, <3>1 DEF EvOr
      <3>2. CASE dest[t] # r      BY <2>1, <3>2 DEF EvOr
      <3> QED BY <3>1, <3>2
    <2>2. CASE EvWake(t)
      <3>1. r # t /\ r # dest[t] /\ pc[r] = "asleep"
        BY <2>2 DEF EvWake
      <3>2. PICK s \in Tasks : pc[s] = "wake" /\ dest[s] = r
        BY <2>2, <3>1 DEF EvWake
      <3> QED BY <2>2, <3>1, <3>2 DEF EvWake
    <2>3. CASE TakeToken(t)       BY <2>3 DEF TakeToken, ReturnBits
    <2>4. CASE Load(t)            BY <2>4 DEF Load, ReturnBits
    <2>5. CASE Take(t)            BY <2>5 DEF Take, ReturnBits
    <2>6. CASE Expire(t)          BY <2>6 DEF Expire, ReturnBits
    <2>7. CASE GoBlock(t)         BY <2>7 DEF GoBlock
    <2>8. CASE FutexWait(t)
      <3>1. CASE r = t            BY <2>8, <3>1 DEF FutexWait, LoadedInVain
      <3>2. CASE r # t            BY <2>8, <3>2 DEF FutexWait
      <3> QED BY <3>1, <3>2
    <2> QED BY <1>4, <2>1, <2>2, <2>3, <2>4, <2>5, <2>6, <2>7, <2>8 DEF EvStep
  <1>5. ASSUME NEW t \in Tasks, Disturbed(t)
        PROVE  (\E s \in Tasks : pc[s] = "wake" /\ dest[s] = r)'
    BY <1>5 DEF Disturbed
  <1> QED BY <1>1, <1>2, <1>3, <1>4, <1>5 DEF EvNext

LEMMA EvIInvStep == EvIInv /\ [EvNext]_evVars => EvIInv'
  BY EvTypeStep, VainStep, EvMissStep DEF EvIInv

(* The inductive invariant holds in every reachable state.                 *)
THEOREM EvInvariance == EvSpec => []EvIInv
  BY EvInitInv, EvIInvStep, PTL DEF EvSpec

(* The events keep their types; in particular no token is taken from an    *)
(* empty pool.                                                             *)
THEOREM EvTyped == EvSpec => []TypeOK
  <1>1. EvIInv => TypeOK
    BY DEF EvIInv
  <1> QED BY <1>1, EvInvariance, PTL

(* No event is slept through, whatever the tasks and the masks.            *)
THEOREM NoEventMissed == EvSpec => []NoMissedEvent
  <1>1. EvIInv => NoMissedEvent
    BY DEF EvIInv
  <1> QED BY <1>1, EvInvariance, PTL

-----------------------------------------------------------------------------
(* The refinement.  What a call is about to take is still set: only the    *)
(* task itself clears bits of its word.  Without new tasks there are no    *)
(* orphan tokens.                                                          *)
Untaken ==
    /\ orphan = 0
    /\ \A t \in Tasks :
         /\ pc[t] \in Receiving => want[t] # {}
         /\ pc[t] = "take" => /\ Satisfies(t, cur[t])
                              /\ cur[t] \cap want[t] \subseteq events[t]

LEMMA UntakenInit == Init => Untaken
  BY DEF Init, Untaken, Receiving

LEMMA UntakenStep ==
    ASSUME TypeOK, Untaken, [EvNext]_evVars
    PROVE  Untaken'
  <1> USE EventAssumption
      DEF TypeOK, Untaken, Satisfies, Goto, recvVars, sendVars, Receiving
  <1>1. CASE UNCHANGED evVars
    BY <1>1 DEF evVars
  <1>2. ASSUME NEW t \in Tasks, Ev_send(t) PROVE Untaken'
    BY <1>2 DEF Ev_send, CallEvSend
  <1>3. ASSUME NEW t \in Tasks, Ev_receive(t) PROVE Untaken'
    <2>1. PICK W \in Wants : /\ want' = [want EXCEPT ![t] = W]
                             /\ pc' = [pc EXCEPT ![t] = "token"]
      BY <1>3 DEF Ev_receive, CallEvReceive
    <2>2. UNCHANGED <<events, orphan, cur>>
      BY <1>3 DEF Ev_receive, CallEvReceive
    <2>3. \A u \in Tasks : u # t => cond'[u] = cond[u]
      BY <1>3 DEF Ev_receive, CallEvReceive
    <2>4. W # {}
      BY <2>1
    <2> QED BY <2>1, <2>2, <2>3, <2>4
  <1>4. ASSUME NEW t \in Tasks, EvStep(t) PROVE Untaken'
    <2>1. CASE EvOr(t)            BY <2>1 DEF EvOr
    <2>2. CASE EvWake(t)          BY <2>2 DEF EvWake
    <2>3. CASE TakeToken(t)       BY <2>3 DEF TakeToken, ReturnBits
    <2>4. CASE Load(t)            BY <2>4 DEF Load, ReturnBits
    <2>5. CASE Take(t)            BY <2>5 DEF Take, ReturnBits
    <2>6. CASE Expire(t)          BY <2>6 DEF Expire, ReturnBits
    <2>7. CASE GoBlock(t)         BY <2>7 DEF GoBlock
    <2>8. CASE FutexWait(t)       BY <2>8 DEF FutexWait
    <2> QED BY <1>4, <2>1, <2>2, <2>3, <2>4, <2>5, <2>6, <2>7, <2>8 DEF EvStep
  <1>5. ASSUME NEW t \in Tasks, Disturbed(t) PROVE Untaken'
    BY <1>5 DEF Disturbed
  <1> QED BY <1>1, <1>2, <1>3, <1>4, <1>5 DEF EvNext

\* The call that task t is in, as EventFlags sees it.
CallOf ==
    [t \in Tasks |->
       IF pc[t] \in Receiving
       THEN [want |-> want[t], cond |-> cond[t], timeout |-> timeout[t]]
       ELSE [want |-> {}, cond |-> "any", timeout |-> "none"]]

LEMMA FlagsInit == Init => Flags!FInit
  BY DEF Init, Flags!FInit, Flags!NoCall, Receiving

(* A task that stays in its call, or out of any, leaves CallOf as it is.     *)
LEMMA SameCall ==
    ASSUME NEW t \in Tasks, pc[t] \in Receiving <=> pc'[t] \in Receiving,
           UNCHANGED <<want, cond, timeout>>,
           \A u \in Tasks : u # t => (pc'[u] \in Receiving <=> pc[u] \in Receiving)
    PROVE  CallOf' = CallOf
  BY DEF CallOf

(* A task that leaves its call.                                            *)
LEMMA LeaveCall ==
    ASSUME TypeOK, Untaken, NEW t \in Tasks, NEW B, pc[t] \in Receiving, ReturnBits(t, B),
           UNCHANGED <<want, cond, timeout>>
    PROVE  /\ CallOf[t] = [want |-> want[t], cond |-> cond[t], timeout |-> timeout[t]]
           /\ CallOf[t] # Flags!NoCall
           /\ CallOf' = [CallOf EXCEPT ![t] = Flags!NoCall]
           /\ got' = [got EXCEPT ![t] = B]
  <1>1. pc' = [pc EXCEPT ![t] = "idle"] /\ got' = [got EXCEPT ![t] = B]
    BY DEF ReturnBits, Goto
  <1>2. CallOf[t] = [want |-> want[t], cond |-> cond[t], timeout |-> timeout[t]]
    BY DEF CallOf
  <1>3. want[t] # {}
    BY DEF Untaken
  <1>4. CallOf[t] # Flags!NoCall
    BY <1>2, <1>3 DEF Flags!NoCall
  <1>5. CallOf' = [CallOf EXCEPT ![t] = Flags!NoCall]
    BY <1>1 DEF CallOf, TypeOK, Flags!NoCall, Receiving
  <1> QED BY <1>1, <1>2, <1>4, <1>5

(* Posting takes effect at the atomic OR, receiving at the atomic AND, and *)
(* a poll or a deadline at the load that finds too little.                 *)
LEMMA FlagsStep ==
    ASSUME TypeOK, Untaken, [EvNext]_evVars
    PROVE  [Flags!FNext]_(Flags!fvars)
  <1> DEFINE Stutter == events' = events /\ got' = got /\ CallOf' = CallOf
  <1> USE DEF recvVars, sendVars
  <1>0. Stutter => UNCHANGED Flags!fvars
    BY DEF CallOf, Flags!fvars
  <1>1. CASE UNCHANGED evVars
    BY <1>0, <1>1 DEF evVars, CallOf
  <1>2. ASSUME NEW t \in Tasks, Ev_send(t) PROVE [Flags!FNext]_(Flags!fvars)
    <2>1. CallOf' = CallOf
      BY <1>2, SameCall DEF Ev_send, CallEvSend, Goto, TypeOK, Receiving
    <2> QED BY <1>0, <1>2, <2>1 DEF Ev_send
  <1>3. ASSUME NEW t \in Tasks, Ev_receive(t) PROVE [Flags!FNext]_(Flags!fvars)
    <2>1. PICK W \in Wants, c \in {"all", "any"}, m \in Timeouts : CallEvReceive(t, W, c, m)
      BY <1>3 DEF Ev_receive
    <2>2. pc[t] = "idle" /\ UNCHANGED events
      BY <1>3 DEF Ev_receive
    <2> DEFINE k == [want |-> W, cond |-> c, timeout |-> m]
    <2>3. k \in Flags!Calls
      BY EventAssumption DEF Flags!Calls
    <2>4. CallOf[t] = Flags!NoCall /\ CallOf' = [CallOf EXCEPT ![t] = k]
      BY <2>1, <2>2 DEF CallEvReceive, Goto, CallOf, Flags!NoCall, TypeOK, Receiving
    <2>5. got' = [got EXCEPT ![t] = {}]
      BY <2>1 DEF CallEvReceive
    <2>6. Flags!Ask(t)
      BY <2>2, <2>3, <2>4, <2>5 DEF Flags!Ask, CallOf
    <2> QED BY <2>6 DEF Flags!FNext
  <1>4. ASSUME NEW t \in Tasks, EvOr(t) PROVE [Flags!FNext]_(Flags!fvars)
    <2>1. CallOf' = CallOf
      BY <1>4, SameCall DEF EvOr, Goto, TypeOK, Receiving
    <2>2. dest[t] \in Tasks /\ post[t] \in SUBSET Bits
      BY DEF TypeOK
    <2>3. Flags!Post(dest[t], post[t])
      BY <1>4, <2>1 DEF EvOr, Flags!Post, CallOf
    <2> QED BY <2>2, <2>3 DEF Flags!FNext
  <1>5. ASSUME NEW t \in Tasks, EvWake(t) PROVE [Flags!FNext]_(Flags!fvars)
    <2>1. CallOf' = CallOf
      BY <1>5 DEF EvWake, TypeOK, Receiving, CallOf
    <2> QED BY <1>0, <1>5, <2>1 DEF EvWake
  <1>6. ASSUME NEW t \in Tasks,
               TakeToken(t) \/ GoBlock(t) \/ FutexWait(t) \/ Disturbed(t)
        PROVE  [Flags!FNext]_(Flags!fvars)
    <2>1. /\ pc[t] \in Receiving /\ pc'[t] \in Receiving
          /\ \A u \in Tasks : u # t => pc'[u] = pc[u]
          /\ UNCHANGED <<events, want, cond, timeout, got>>
      BY <1>6 DEF TakeToken, GoBlock, FutexWait, Disturbed, Goto, TypeOK, Untaken, Receiving
    <2>2. CallOf' = CallOf
      BY <2>1, SameCall
    <2> QED BY <1>0, <2>1, <2>2
  <1>7. ASSUME NEW t \in Tasks, Load(t) PROVE [Flags!FNext]_(Flags!fvars)
    <2>1. pc[t] \in Receiving /\ UNCHANGED <<events, want, cond, timeout>>
      BY <1>7 DEF Load, Receiving
    <2>2. CASE /\ pc' \in {[pc EXCEPT ![t] = "take"], [pc EXCEPT ![t] = "level"]}
               /\ UNCHANGED got
      <3>1. CallOf' = CallOf
        BY <2>1, <2>2 DEF CallOf, TypeOK, Receiving
      <3> QED BY <1>0, <2>1, <2>2, <3>1
    <2>3. CASE timeout[t] = "none" /\ ~ Satisfies(t, events[t]) /\ ReturnBits(t, {})
      <3>1. /\ CallOf[t] = [want |-> want[t], cond |-> cond[t], timeout |-> timeout[t]]
            /\ CallOf[t] # Flags!NoCall
            /\ CallOf' = [CallOf EXCEPT ![t] = Flags!NoCall]
            /\ got' = [got EXCEPT ![t] = {}]
        BY <2>1, <2>3, LeaveCall
      <3>2. Flags!Nothing(t)
        BY <2>1, <2>3, <3>1 DEF Flags!Nothing, Flags!Satisfied, Satisfies, CallOf
      <3> QED BY <3>2 DEF Flags!FNext
    <2> QED BY <1>7, <2>2, <2>3 DEF Load, Goto
  <1>8. ASSUME NEW t \in Tasks, Take(t) PROVE [Flags!FNext]_(Flags!fvars)
    <2>0. PICK B : B = cur[t] \cap want[t]
      OBVIOUS
    <2>1. /\ pc[t] \in Receiving /\ ReturnBits(t, B) /\ UNCHANGED <<want, cond, timeout>>
          /\ events' = [events EXCEPT ![t] = @ \ B]
      BY <1>8, <2>0 DEF Take, Receiving
    <2>2. B \subseteq events[t] \cap want[t] /\ B \in SUBSET Bits /\ Satisfies(t, B)
      BY <1>8, <2>0 DEF Take, Untaken, Satisfies, TypeOK
    <2>3. /\ CallOf[t] = [want |-> want[t], cond |-> cond[t], timeout |-> timeout[t]]
          /\ CallOf[t] # Flags!NoCall
          /\ CallOf' = [CallOf EXCEPT ![t] = Flags!NoCall]
          /\ got' = [got EXCEPT ![t] = B]
      BY <2>1, LeaveCall
    <2>4. Flags!Answer(t, B)
      BY <2>1, <2>2, <2>3 DEF Flags!Answer, Flags!Satisfied, Satisfies, CallOf
    <2> QED BY <2>2, <2>4 DEF Flags!FNext
  <1>9. ASSUME NEW t \in Tasks, Expire(t) PROVE [Flags!FNext]_(Flags!fvars)
    <2> DEFINE B == events[t] \cap want[t]
    <2>1. /\ pc[t] \in Receiving /\ ReturnBits(t, B) /\ timeout[t] = "finite"
          /\ UNCHANGED <<events, want, cond, timeout>>
      BY <1>9 DEF Expire, Receiving
    <2>2. /\ CallOf[t] = [want |-> want[t], cond |-> cond[t], timeout |-> timeout[t]]
          /\ CallOf' = [CallOf EXCEPT ![t] = Flags!NoCall]
          /\ got' = [got EXCEPT ![t] = B]
      BY <2>1, LeaveCall
    <2>3. Flags!Peek(t)
      BY <2>1, <2>2 DEF Flags!Peek, CallOf
    <2> QED BY <2>3 DEF Flags!FNext
  <1> QED BY <1>1, <1>2, <1>3, <1>4, <1>5, <1>6, <1>7, <1>8, <1>9 DEF EvNext, EvStep

(* The event calls are event flags, whatever the tasks and their calls.    *)
THEOREM EvImplements == EvSpec => ImplementsFlags
  <1>1. Init => Flags!FInit /\ Untaken
    BY FlagsInit, UntakenInit
  <1>2. TypeOK /\ Untaken /\ [EvNext]_evVars => Untaken' /\ [Flags!FNext]_(Flags!fvars)
    BY UntakenStep, FlagsStep
  <1> QED BY <1>1, <1>2, EvTyped, PTL DEF EvSpec, ImplementsFlags, Flags!FSpec
=============================================================================
