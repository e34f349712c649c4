-------------------------- MODULE EventBridgeProofs --------------------------
(***************************************************************************)
(* Proofs about EventBridge for every set of tasks, devices and bits: the  *)
(* bridge leaves the event calls what they are, and it does not leave a    *)
(* pipe readable without a reason.                                         *)
(***************************************************************************)
EXTENDS EventBridge, HerosEventProofs

-----------------------------------------------------------------------------
(* Every step of the bridge is a step of HerosEvent or none.               *)

LEMMA EventSteps == [Next]_vars => [EvNext]_evVars
  <1> SUFFICES ASSUME [Next]_vars PROVE [EvNext]_evVars
    OBVIOUS
  <1> USE BridgeAssumption
  <1>1. CASE UNCHANGED vars
    BY <1>1 DEF vars
  <1>2. ASSUME NEW t \in Senders, CallSend(t) PROVE EvNext
    BY <1>2 DEF CallSend, EvNext
  <1>3. ASSUME NEW t \in Tasks, TaskStep(t) PROVE [EvNext]_evVars
    BY <1>3 DEF TaskStep, Wake, Caught, Look, OtherStep, SettleTask, EvNext, EvStep
  <1>4. ASSUME NEW t \in Tasks, Reconcile(t) PROVE UNCHANGED evVars
    BY <1>4 DEF Reconcile
  <1>5. ASSUME NEW t \in Openers, Register(t) \/ SetMask(t) PROVE UNCHANGED evVars
    BY <1>5 DEF Register, SetMask
  <1>6. ASSUME NEW g \in Gui, Handle(g) PROVE EvNext
    <2>1. g \in Tasks /\ g \in Receivers
      OBVIOUS
    <2>2. Ev_receive(g)
      BY <1>6, <2>1 DEF Handle, Free, Ev_receive, bridgeVars
    <2> QED BY <2>1, <2>2 DEF EvNext
  <1>7. ASSUME NEW d \in Openers, WatchStep(d) \/ WatchTick(d) PROVE UNCHANGED evVars
    BY <1>7 DEF WatchStep, WatchStart, WatchLoad, WatchEnter, WatchSettle, WatchWait, WatchTick
  <1> QED BY <1>1, <1>2, <1>3, <1>4, <1>5, <1>6, <1>7 DEF Next

(* The event calls keep their specification under the bridge.              *)
THEOREM Keeps == Spec => KeepsEvents
  <1>1. BridgeInit => Init
    BY DEF BridgeInit
  <1> QED BY <1>1, EventSteps, PTL DEF Spec, KeepsEvents, EvSpec

(* With the bridge as without it, no event is posted unnoticed between the *)
(* test of a word and the sleep on it.                                     *)
THEOREM StillNothingMissed == Spec => []NoMissedEvent
  BY Keeps, NoEventMissed, PTL DEF KeepsEvents

-----------------------------------------------------------------------------
(* Types                                                                   *)

LEMMA TypesInit == BridgeInit => BridgeTypeOK
  <1> SUFFICES ASSUME BridgeInit PROVE BridgeTypeOK
    OBVIOUS
  <1>1. TypeOK
    BY EvInitInv DEF BridgeInit, EvIInv
  <1> QED BY <1>1 DEF BridgeInit, BridgeTypeOK, Watching

LEMMA EnterTyped ==
    ASSUME NEW d \in Openers, NEW by \in Local \cup {<<e>> : e \in Openers},
           NEW mask, Enter(by, d, mask)
    PROVE  cs' \in Sections
  <1>1. Wanted(d, mask) \in BOOLEAN
    BY DEF Wanted
  <1> QED BY <1>1 DEF Enter, Sections

LEMMA SettleTyped ==
    ASSUME BridgeTypeOK, NEW by, Settle(by)
    PROVE  signaled' \in [Openers -> BOOLEAN]
  <1>1. cs \in Sections
    BY DEF Settle, BridgeTypeOK
  <1>2. cs.want \in BOOLEAN
    BY <1>1 DEF Sections
  <1> QED BY <1>2 DEF Settle, BridgeTypeOK

(* Only tasks of the process reconcile.                                    *)
OwedHere == \A t \in Tasks : owed[t] # None => t \in Local

LEMMA TypesStep == BridgeTypeOK /\ OwedHere /\ [Next]_vars => BridgeTypeOK' /\ OwedHere'
  <1> SUFFICES ASSUME BridgeTypeOK, OwedHere, [Next]_vars PROVE BridgeTypeOK' /\ OwedHere'
    OBVIOUS
  <1>a. TypeOK'
    BY EvTypeStep, EventSteps DEF BridgeTypeOK
  <1> USE BridgeAssumption, <1>a DEF BridgeTypeOK, OwedHere, bridgeVars
  <1>1. CASE UNCHANGED vars
    BY <1>1 DEF vars
  <1>2. ASSUME NEW t \in Senders, CallSend(t) PROVE BridgeTypeOK' /\ OwedHere'
    BY <1>2 DEF CallSend
  <1>3. ASSUME NEW t \in Tasks, TaskStep(t) PROVE BridgeTypeOK' /\ OwedHere'
    <2>1. CASE Wake(t)        BY <2>1 DEF Wake, Owe, Watching, TypeOK
    <2>2. CASE Caught(t)      BY <2>2 DEF Caught, Owe
    <2>3. CASE Look(t)        BY <2>3 DEF Look, Owe
    <2>4. CASE OtherStep(t)   BY <2>4 DEF OtherStep
    <2>5. CASE SettleTask(t)  BY <2>5, SettleTyped DEF SettleTask, Settle
    <2> QED BY <1>3, <2>1, <2>2, <2>3, <2>4, <2>5 DEF TaskStep
  <1>4. ASSUME NEW t \in Tasks, Reconcile(t) PROVE BridgeTypeOK' /\ OwedHere'
    <2>1. t \in Local
      BY <1>4 DEF Reconcile
    <2>2. CASE owed[t] \in opened
      BY <1>4, <2>1, <2>2, EnterTyped DEF Reconcile
    <2>3. CASE owed[t] \notin opened
      BY <1>4, <2>3 DEF Reconcile
    <2> QED BY <2>2, <2>3
  <1>5. ASSUME NEW t \in Openers, Register(t) PROVE BridgeTypeOK' /\ OwedHere'
    BY <1>5 DEF Register, Watching
  <1>6. ASSUME NEW t \in Openers, SetMask(t) PROVE BridgeTypeOK' /\ OwedHere'
    <2>1. PICK M \in Masks : /\ sysmask' = [sysmask EXCEPT ![t] = M]
                             /\ Enter(t, t, M)
      BY <1>6 DEF SetMask
    <2>2. cs' \in Sections
      BY <2>1, EnterTyped
    <2> QED BY <1>6, <2>1, <2>2 DEF SetMask
  <1>7. ASSUME NEW g \in Gui, Handle(g) PROVE BridgeTypeOK' /\ OwedHere'
    BY <1>7 DEF Handle
  <1>8. ASSUME NEW d \in Openers, WatchStep(d) \/ WatchTick(d) PROVE BridgeTypeOK' /\ OwedHere'
    <2> USE DEF Goes, Watching
    <2>1. CASE WatchStart(d)   BY <2>1 DEF WatchStart
    <2>2. CASE WatchLoad(d)    BY <2>2 DEF WatchLoad, TypeOK
    <2>3. CASE WatchEnter(d)   BY <2>3, EnterTyped DEF WatchEnter
    <2>4. CASE WatchSettle(d)  BY <2>4, SettleTyped DEF WatchSettle, Settle
    <2>5. CASE WatchWait(d)    BY <2>5 DEF WatchWait
    <2>6. CASE WatchTick(d)    BY <2>6 DEF WatchTick
    <2> QED BY <1>8, <2>1, <2>2, <2>3, <2>4, <2>5, <2>6 DEF WatchStep
  <1> QED BY <1>1, <1>2, <1>3, <1>4, <1>5, <1>6, <1>7, <1>8 DEF Next

(* The bridge keeps its types; in particular no thread writes to the pipe  *)
(* of another process.                                                     *)
THEOREM BridgeTyped == Spec => []BridgeTypeOK
  <1>1. BridgeInit => BridgeTypeOK /\ OwedHere
    BY TypesInit DEF BridgeInit, OwedHere
  <1> QED BY <1>1, TypesStep, PTL DEF Spec

-----------------------------------------------------------------------------
(* No idle spin.  A reconciliation reads the event words and touches the   *)
(* pipe in two steps, so the invariant speaks of the one in progress too.  *)

Has(d)    == events[d] \cap Enabled(sysmask[d]) # {}
Coming(d) == owed[d] = d \/ watch[d] \in {"start", "load", "lock"}

\* A call reconciles at its end.
Last == \A t \in Tasks : owed[t] # None => pc[t] = "idle"

\* The environment is read before any watcher looks at a pipe.
Fresh == sibling = "unread" => \A d \in opened : watch[d] = "start"

\* The table holds what is reconciled; a device not in it has neither byte
\* nor watcher.
Listed == /\ cs # None => cs.dev \in opened
          /\ \A d \in Openers \ opened : ~ signaled[d] /\ watch[d] = "off"

\* What the reconciliation in progress has read is true or will be corrected.
Reading == cs # None /\ cs.want /\ sibling = "off" => Has(cs.dev) \/ Coming(cs.dev)

Reasons ==
    \A d \in opened :
        sibling = "off" /\ signaled[d]
            => Has(d) \/ Coming(d) \/ (cs # None /\ cs.dev = d)

SpinInv == BridgeTypeOK /\ OwedHere /\ Last /\ Fresh /\ Listed /\ Reading /\ Reasons

LEMMA SpinInit == BridgeInit => SpinInv
  <1> SUFFICES ASSUME BridgeInit PROVE SpinInv
    OBVIOUS
  <1>1. BridgeTypeOK
    BY TypesInit
  <1> QED
    BY <1>1 DEF BridgeInit, SpinInv, OwedHere, Last, Fresh, Listed, Reading, Reasons

LEMMA LastStep == BridgeTypeOK /\ Last /\ [Next]_vars => Last'
  <1> SUFFICES ASSUME BridgeTypeOK, Last, [Next]_vars PROVE Last'
    OBVIOUS
  <1> USE BridgeAssumption DEF BridgeTypeOK, TypeOK, Last, bridgeVars, Goto
  <1>1. CASE UNCHANGED vars
    BY <1>1 DEF vars, evVars
  <1>2. ASSUME NEW t \in Senders, CallSend(t) PROVE Last'
    BY <1>2 DEF CallSend, Ev_send, CallEvSend, Free
  <1>3. ASSUME NEW t \in Tasks, TaskStep(t) PROVE Last'
    <2>1. CASE Wake(t)        BY <2>1 DEF Wake, EvWake, Owe
    <2>2. CASE Caught(t)      BY <2>2 DEF Caught, Take, ReturnBits, Owe
    <2>3. CASE Look(t)        BY <2>3 DEF Look, Load, ReturnBits, Owe
    <2>4. CASE OtherStep(t)   BY <2>4 DEF OtherStep, EvOr, TakeToken, ReturnBits
    <2>5. CASE SettleTask(t)  BY <2>5 DEF SettleTask, evVars
    <2> QED BY <1>3, <2>1, <2>2, <2>3, <2>4, <2>5 DEF TaskStep
  <1>4. ASSUME NEW t \in Tasks, Reconcile(t) PROVE Last'
    BY <1>4 DEF Reconcile, evVars
  <1>5. ASSUME NEW t \in Openers, Register(t) \/ SetMask(t) PROVE Last'
    BY <1>5 DEF Register, SetMask, evVars
  <1>6. ASSUME NEW g \in Gui, Handle(g) PROVE Last'
    BY <1>6 DEF Handle, CallEvReceive, Free
  <1>7. ASSUME NEW d \in Openers, WatchStep(d) \/ WatchTick(d) PROVE Last'
    BY <1>7 DEF WatchStep, WatchStart, WatchLoad, WatchEnter, WatchSettle, WatchWait,
                WatchTick, evVars
  <1> QED BY <1>1, <1>2, <1>3, <1>4, <1>5, <1>6, <1>7 DEF Next

(* A reconciliation that starts while siblings do not count reads the      *)
(* truth.                                                                  *)
LEMMA EnterReads ==
    ASSUME NEW by, NEW d \in opened, Enter(by, d, sysmask'[d]), UNCHANGED <<events, sibling>>
    PROVE  /\ cs'.dev = d
           /\ cs'.want /\ sibling' = "off" => Has(d)'
  BY DEF Enter, Wanted, Has

(* One that ends takes what it read to the pipe.                           *)
LEMMA SettleWrites ==
    ASSUME SpinInv, NEW by, Settle(by),
           UNCHANGED <<events, owed, opened, sysmask, sibling>>,
           \A d \in Openers \ opened : watch'[d] = watch[d],
           \A d \in opened : Coming(d) => Coming(d)'
    PROVE  Listed' /\ Reading' /\ Reasons'
  <1> USE DEF SpinInv, BridgeTypeOK, Settle, Has
  <1>1. cs.dev \in opened /\ cs.dev \in Openers /\ cs' = None
    BY DEF Listed
  <1>2. Listed'
    BY <1>1 DEF Listed
  <1>3. Reasons'
    BY <1>1 DEF Reasons, Reading
  <1> QED BY <1>1, <1>2, <1>3 DEF Reading

(* A step that leaves the devices alone and takes away no reason.          *)
LEMMA OtherKeeps ==
    ASSUME SpinInv, UNCHANGED <<opened, signaled, sibling, cs>>,
           \A d \in Openers \ opened : watch'[d] = watch[d],
           \A d \in opened : Has(d) \/ Coming(d) => Has(d)' \/ Coming(d)'
    PROVE  Listed' /\ Reading' /\ Reasons'
  BY DEF SpinInv, Listed, Reading, Reasons

LEMMA FreshStep == SpinInv /\ [Next]_vars => Fresh'
  <1> SUFFICES ASSUME SpinInv, [Next]_vars PROVE Fresh'
    OBVIOUS
  <1> USE BridgeAssumption DEF SpinInv, BridgeTypeOK, Fresh, bridgeVars
  <1>1. CASE UNCHANGED vars
    BY <1>1 DEF vars
  <1>2. ASSUME NEW t \in Senders, CallSend(t) PROVE Fresh'
    BY <1>2 DEF CallSend
  <1>3. ASSUME NEW t \in Tasks, TaskStep(t) PROVE Fresh'
    BY <1>3 DEF TaskStep, Wake, Caught, Look, OtherStep, SettleTask
  <1>4. ASSUME NEW t \in Tasks, Reconcile(t) PROVE Fresh'
    BY <1>4 DEF Reconcile
  <1>5. ASSUME NEW t \in Openers, Register(t) \/ SetMask(t) PROVE Fresh'
    BY <1>5 DEF Register, SetMask
  <1>6. ASSUME NEW g \in Gui, Handle(g) PROVE Fresh'
    BY <1>6 DEF Handle
  <1>7. ASSUME NEW d \in Openers, WatchStep(d) \/ WatchTick(d) PROVE Fresh'
    <2> USE DEF Goes
    <2>1. CASE WatchStart(d)
      BY <2>1 DEF WatchStart
    <2>2. CASE ~ WatchStart(d)
      BY <1>7, <2>2 DEF WatchStep, WatchLoad, WatchEnter, WatchSettle, WatchWait, WatchTick
    <2> QED BY <2>1, <2>2
  <1> QED BY <1>1, <1>2, <1>3, <1>4, <1>5, <1>6, <1>7 DEF Next

LEMMA TaskStepKeeps ==
    ASSUME SpinInv, NEW t \in Tasks, TaskStep(t)
    PROVE  Listed' /\ Reading' /\ Reasons'
  <1> USE BridgeAssumption DEF SpinInv, BridgeTypeOK, TypeOK, Has, Coming
  <1>1. CASE Wake(t)
    <2>1. owed[t] = None
      BY <1>1 DEF Wake, EvWake, Last
    <2>2. \A d \in opened : Has(d) \/ Coming(d) => Has(d)' \/ Coming(d)'
      BY <1>1, <2>1 DEF Wake, EvWake, Owe
    <2>3. \A d \in Openers \ opened : watch'[d] = watch[d]
      BY <1>1 DEF Wake, Listed
    <2>4. UNCHANGED <<opened, signaled, sibling, cs>>
      BY <1>1 DEF Wake
    <2> HIDE DEF SpinInv, Has, Coming
    <2> QED BY <2>2, <2>3, <2>4, OtherKeeps
  <1>2. CASE Caught(t)
    <2>1. owed[t] = None
      BY <1>2 DEF Caught, Take, Last
    <2>2. \A d \in opened : Has(d) \/ Coming(d) => Has(d)' \/ Coming(d)'
      BY <1>2, <2>1 DEF Caught, Take, Owe
    <2>3. UNCHANGED <<opened, signaled, sibling, cs, watch>>
      BY <1>2 DEF Caught
    <2> HIDE DEF SpinInv, Has, Coming
    <2> QED BY <2>2, <2>3, OtherKeeps
  <1>3. CASE Look(t)
    <2>1. owed[t] = None
      BY <1>3 DEF Look, Load, Last
    <2>2. \A d \in opened : Has(d) \/ Coming(d) => Has(d)' \/ Coming(d)'
      BY <1>3, <2>1 DEF Look, Load, Owe
    <2>3. UNCHANGED <<opened, signaled, sibling, cs, watch>>
      BY <1>3 DEF Look
    <2> HIDE DEF SpinInv, Has, Coming
    <2> QED BY <2>2, <2>3, OtherKeeps
  <1>4. CASE OtherStep(t)
    <2>1. UNCHANGED bridgeVars
      BY <1>4 DEF OtherStep
    <2>2. \A d \in opened : Has(d) => Has(d)'
      BY <1>4, <2>1 DEF OtherStep, EvOr, TakeToken, bridgeVars
    <2>3. \A d \in opened : Has(d) \/ Coming(d) => Has(d)' \/ Coming(d)'
      BY <2>1, <2>2 DEF bridgeVars
    <2>4. UNCHANGED <<opened, signaled, sibling, cs, watch>>
      BY <2>1 DEF bridgeVars
    <2> HIDE DEF SpinInv, Has, Coming
    <2> QED BY <2>3, <2>4, OtherKeeps
  <1>5. CASE SettleTask(t)
    <2>1. /\ Settle(t)
          /\ UNCHANGED <<events, owed, opened, sysmask, sibling, watch>>
      BY <1>5 DEF SettleTask, evVars
    <2>2. \A d \in opened : Coming(d) => Coming(d)'
      BY <2>1
    <2> HIDE DEF SpinInv, Has, Coming
    <2> QED BY <2>1, <2>2, SettleWrites
  <1> QED BY <1>1, <1>2, <1>3, <1>4, <1>5 DEF TaskStep

LEMMA WatchStepKeeps ==
    ASSUME SpinInv, NEW d \in Openers, WatchStep(d) \/ WatchTick(d)
    PROVE  Listed' /\ Reading' /\ Reasons'
  <1> USE DEF SpinInv, BridgeTypeOK, TypeOK, Has, Coming, Goes
  <1>a. d \in opened
    BY DEF WatchStep, WatchStart, WatchLoad, WatchEnter, WatchSettle, WatchWait,
           WatchTick, Listed
  <1>1. CASE WatchStart(d)
    <2>1. /\ watch' = [watch EXCEPT ![d] = "load"]
          /\ UNCHANGED <<events, opened, sysmask, signaled, owed, cs>>
          /\ sibling # "unread" => sibling' = sibling
      BY <1>1 DEF WatchStart, evVars
    <2>2. \A e \in opened : /\ Has(e) => Has(e)'
                            /\ Coming(e) => Coming(e)'
      BY <1>1, <2>1 DEF WatchStart
    <2>3. CASE sibling = "unread"
      <3>1. \A e \in opened : Coming(e)'
        BY <1>a, <2>1, <2>2, <2>3 DEF Fresh
      <3> QED BY <1>a, <2>1, <3>1 DEF Listed, Reading, Reasons
    <2>4. CASE sibling # "unread"
      <3>1. UNCHANGED <<opened, signaled, sibling, cs>>
        BY <2>1, <2>4
      <3>2. \A e \in Openers \ opened : watch'[e] = watch[e]
        BY <1>a, <2>1
      <3> HIDE DEF SpinInv, Has, Coming
      <3> QED BY <2>2, <3>1, <3>2, OtherKeeps
    <2> QED BY <2>3, <2>4
  <1>2. CASE WatchLoad(d) \/ WatchWait(d) \/ WatchTick(d)
    <2>1. UNCHANGED <<events, opened, sysmask, signaled, sibling, owed, cs>>
      BY <1>2 DEF WatchLoad, WatchWait, WatchTick, evVars
    <2>2. \A e \in Openers \ opened : watch'[e] = watch[e]
      BY <1>2, <1>a DEF WatchLoad, WatchWait, WatchTick
    <2>3. \A e \in opened : Has(e) \/ Coming(e) => Has(e)' \/ Coming(e)'
      BY <1>2, <2>1 DEF WatchLoad, WatchWait, WatchTick
    <2> HIDE DEF SpinInv, Has, Coming
    <2> QED BY <2>1, <2>2, <2>3, OtherKeeps
  <1>3. CASE WatchEnter(d)
    <2>1. /\ Enter(<<d>>, d, sysmask'[d])
          /\ watch' = [watch EXCEPT ![d] = "settle"]
          /\ UNCHANGED <<events, opened, sysmask, signaled, sibling, owed>>
      BY <1>3 DEF WatchEnter, evVars
    <2>2. cs'.dev = d /\ (cs'.want /\ sibling' = "off" => Has(d)')
      <3> HIDE DEF SpinInv, Has, Coming
      <3> QED BY <1>a, <2>1, EnterReads
    <2>3. Reading'
      BY <2>2 DEF Reading
    <2>4. cs' # None
      BY <2>1, EnterTyped, BridgeAssumption
    <2>5. Reasons'
      BY <2>1, <2>2, <2>4 DEF Reasons, Enter
    <2> QED BY <1>a, <2>1, <2>2, <2>3, <2>5 DEF Listed
  <1>4. CASE WatchSettle(d)
    <2>1. /\ Settle(<<d>>)
          /\ watch[d] = "settle" /\ watch' = [watch EXCEPT ![d] = "block"]
          /\ UNCHANGED <<events, owed, opened, sysmask, sibling>>
      BY <1>4 DEF WatchSettle, evVars
    <2>2. \A e \in opened : Coming(e) => Coming(e)'
      BY <2>1
    <2>3. \A e \in Openers \ opened : watch'[e] = watch[e]
      BY <1>a, <2>1
    <2> HIDE DEF SpinInv, Has, Coming
    <2> QED BY <2>1, <2>2, <2>3, SettleWrites
  <1> QED BY <1>1, <1>2, <1>3, <1>4 DEF WatchStep

(* The calls that reconcile, and the ioctl.                                *)
LEMMA EnterKeeps ==
    ASSUME SpinInv, NEW t \in Local, NEW d \in opened, Enter(t, d, sysmask'[d]),
           UNCHANGED <<events, opened, signaled, sibling, watch>>,
           \A e \in opened : e # d /\ owed[e] = e => owed'[e] = e,
           \A e \in opened : e # d => sysmask'[e] = sysmask[e]
    PROVE  Listed' /\ Reading' /\ Reasons'
  <1>1. cs'.dev = d /\ (cs'.want /\ sibling' = "off" => Has(d)')
    BY EnterReads
  <1>2. cs = None /\ cs' # None
    BY EnterTyped, BridgeAssumption DEF Enter, SpinInv, BridgeTypeOK
  <1>3. Listed'
    BY <1>1 DEF Listed, SpinInv
  <1>4. Reading'
    BY <1>1 DEF Reading
  <1>5. Reasons'
    BY <1>1, <1>2 DEF Reasons, SpinInv, Has, Coming
  <1> QED BY <1>3, <1>4, <1>5

LEMMA SpinStep == SpinInv /\ [Next]_vars => SpinInv'
  <1> SUFFICES ASSUME SpinInv, [Next]_vars PROVE SpinInv'
    OBVIOUS
  <1> USE BridgeAssumption
  <1>a. BridgeTypeOK' /\ OwedHere' /\ Last' /\ Fresh'
    BY TypesStep, LastStep, FreshStep DEF SpinInv
  <1>b. SUFFICES Listed' /\ Reading' /\ Reasons'
    BY <1>a DEF SpinInv
  <1>1. CASE UNCHANGED <<events, bridgeVars>>
    BY <1>1, OtherKeeps DEF bridgeVars, Has, Coming
  <1>2. ASSUME NEW t \in Senders, CallSend(t) PROVE UNCHANGED <<events, bridgeVars>>
    BY <1>2 DEF CallSend, Ev_send
  <1>3. ASSUME NEW t \in Tasks, TaskStep(t) PROVE Listed' /\ Reading' /\ Reasons'
    BY <1>3, TaskStepKeeps
  <1>4. ASSUME NEW t \in Tasks, Reconcile(t) PROVE Listed' /\ Reading' /\ Reasons'
    <2>1. /\ UNCHANGED <<events, opened, sysmask, signaled, sibling, watch>>
          /\ owed' = [owed EXCEPT ![t] = None]
      BY <1>4 DEF Reconcile, evVars
    <2>2. CASE owed[t] \in opened
      <3>1. Enter(t, owed[t], sysmask'[owed[t]])
        BY <1>4, <2>1, <2>2 DEF Reconcile
      <3>2. t \in Local
        BY <1>4 DEF Reconcile, SpinInv, OwedHere
      <3>3. \A e \in opened : e # owed[t] /\ owed[e] = e => owed'[e] = e
        BY <2>1 DEF SpinInv, BridgeTypeOK
      <3> QED BY <2>1, <2>2, <3>1, <3>2, <3>3, EnterKeeps
    <2>3. CASE owed[t] \notin opened
      <3>1. cs' = cs
        BY <1>4, <2>3 DEF Reconcile
      <3>2. \A d \in opened : Has(d) \/ Coming(d) => Has(d)' \/ Coming(d)'
        BY <2>1, <2>3 DEF SpinInv, BridgeTypeOK, Has, Coming
      <3> QED BY <2>1, <3>1, <3>2, OtherKeeps
    <2> QED BY <2>2, <2>3
  <1>5. ASSUME NEW t \in Openers, Register(t) PROVE Listed' /\ Reading' /\ Reasons'
    BY <1>5 DEF Register, SpinInv, BridgeTypeOK, Listed, Reading, Reasons, Has, Coming, evVars
  <1>6. ASSUME NEW t \in Openers, SetMask(t) PROVE Listed' /\ Reading' /\ Reasons'
    <2>1. PICK M \in Masks : /\ sysmask' = [sysmask EXCEPT ![t] = M]
                             /\ Enter(t, t, M)
      BY <1>6 DEF SetMask
    <2>2. sysmask'[t] = M /\ \A e \in opened : e # t => sysmask'[e] = sysmask[e]
      BY <2>1 DEF SpinInv, BridgeTypeOK
    <2>3. /\ t \in opened
          /\ t \in Local
          /\ UNCHANGED <<events, opened, signaled, sibling, watch, owed>>
      BY <1>6 DEF SetMask, evVars
    <2> QED BY <2>1, <2>2, <2>3, EnterKeeps
  <1>7. ASSUME NEW g \in Gui, Handle(g) PROVE UNCHANGED <<events, bridgeVars>>
    BY <1>7 DEF Handle
  <1>8. ASSUME NEW d \in Openers, WatchStep(d) \/ WatchTick(d)
        PROVE  Listed' /\ Reading' /\ Reasons'
    BY <1>8, WatchStepKeeps
  <1>9. UNCHANGED vars => UNCHANGED <<events, bridgeVars>>
    BY DEF vars, evVars
  <1> QED BY <1>1, <1>2, <1>3, <1>4, <1>5, <1>6, <1>7, <1>8, <1>9 DEF Next

(* A pipe without a reason to be readable is drained: the dispatcher of a  *)
(* GUI thread does not spin.                                               *)
THEOREM NoSpin == Spec => []NoIdleSpin
  <1>1. SpinInv => NoIdleSpin
    BY DEF SpinInv, Reasons, NoIdleSpin, Has, Coming
  <1> QED BY <1>1, SpinInit, SpinStep, PTL DEF Spec
=============================================================================
