---------------------------- MODULE HerosEvOptions ----------------------------
(* ev_receive() of heros_rtos.c with its options, which stand in for what   *)
(* is not there to send an event: one task receives, others send to it.     *)
(* HEROSCALL_EV_FORCE_TASK/_BIT returns a bit at once, EV_UNBLOCK_MS gives  *)
(* an endless wait a deadline, EV_INJECT_WANT/_BIT names the wait and the   *)
(* bit for it, EV_TIMEOUT_CAP_MS shortens a long one, SYSEVENT_AUTOFIRE     *)
(* sets the system events a wait asks for, EV_NOWAIT_YIELD slows a poll.    *)
(* The rendezvous with a created task and the queues' level are in          *)
(* HerosEvent and HerosQueue.                                               *)
EXTENDS Naturals, FiniteSets

CONSTANTS EwBits,      \* the bits of the event word that are in use
          SysBits,     \* those among 16..23
          Rendezvous,  \* bit 19
          FireMask,    \* SYSEVENT_FIRE_MASK
          FireLimit,   \* SYSEVENT_FIRE_LIMIT, 0 for none
          ForceBit,    \* {} or the one bit of EV_FORCE_BIT, for this task
          InjectWant,  \* {} or the wait of EV_INJECT_WANT
          InjectBit,   \* {} or the one bit of EV_INJECT_BIT
          Unblock,     \* EV_UNBLOCK_MS is set
          YieldAfter,  \* EV_NOWAIT_YIELD_N
          MaxSent      \* bound on the events sent

ASSUME EwAssumption == /\ SysBits \subseteq EwBits /\ Rendezvous \in SysBits
                       /\ FireLimit \in Nat /\ Unblock \in BOOLEAN /\ YieldAfter \in Nat

VARIABLES ewEvents,  \* the event word
          ewAt,      \* where the task is
          ewWant, ewAll, ewTime,  \* the call: bits, all or any of them, none/finite/forever
          ewSynthetic,            \* the deadline is not the caller's
          ewFired,   \* autofire_n of the task
          ewMisses,  \* nowait_miss of the task
          ewElapsed, \* the injected wait has been awaited for EV_UNBLOCK_MS
          ewSent, ewGot, ewN      \* bits sent so far, bits returned, sends

ewCall == <<ewWant, ewAll, ewTime, ewSynthetic>>
ewVars == <<ewEvents, ewAt, ewCall, ewFired, ewMisses, ewElapsed, ewSent, ewGot, ewN>>

EwInit == /\ ewEvents = {} /\ ewAt = "out"
          /\ ewWant = {} /\ ewAll = FALSE /\ ewTime = "none" /\ ewSynthetic = FALSE
          /\ ewFired = 0 /\ ewMisses = 0 /\ ewElapsed = FALSE
          /\ ewSent = {} /\ ewGot = {} /\ ewN = 0

EwNoCall == /\ ewWant' = {} /\ ewAll' = FALSE /\ ewTime' = "none" /\ ewSynthetic' = FALSE

EwReturn(bits) == ewAt' = "out" /\ ewGot' = ewGot \cup bits /\ EwNoCall

EwSend(B) ==
    /\ B # {} /\ ewN < MaxSent
    /\ ewEvents' = ewEvents \cup B
    /\ ewSent' = ewSent \cup B /\ ewN' = ewN + 1
    /\ ewAt' = IF ewAt = "asleep" THEN "look" ELSE ewAt
    /\ UNCHANGED <<ewCall, ewFired, ewMisses, ewElapsed, ewGot>>

\* The call: a forced bit is taken and returned; the options set the deadline.
EwReceive(W, all, time) ==
    /\ ewAt = "out" /\ W # {}
    /\ IF W \cap ForceBit # {}
       THEN ewEvents' = ewEvents \ (W \cap ForceBit) /\ EwReturn(W \cap ForceBit)
       ELSE /\ ewAt' = "inject" /\ ewWant' = W /\ ewAll' = all
            /\ ewSynthetic' = (Unblock /\ time = "forever" /\ InjectWant \in {{}, W})
            /\ ewTime' = IF ewSynthetic' THEN "finite" ELSE time
            /\ UNCHANGED <<ewEvents, ewGot>>
    /\ UNCHANGED <<ewFired, ewMisses, ewElapsed, ewSent, ewN>>

\* The wait that has lasted long enough, over all of its calls, returns the
\* injected bit.
EwInject ==
    /\ ewAt = "inject"
    /\ IF ewWant = InjectWant /\ InjectBit # {} /\ Unblock /\ ewElapsed
       THEN EwReturn(ewWant \cap InjectBit)
       ELSE ewAt' = "look" /\ UNCHANGED <<ewGot, ewCall>>
    /\ UNCHANGED <<ewEvents, ewFired, ewMisses, ewElapsed, ewSent, ewN>>

EwSatisfied == IF ewAll THEN ewWant \subseteq ewEvents ELSE ewWant \cap ewEvents # {}

EwCatch ==
    /\ ewAt = "look" /\ EwSatisfied
    /\ ewEvents' = ewEvents \ ewWant
    /\ EwReturn(ewEvents \cap ewWant)
    /\ ewMisses' = 0
    /\ UNCHANGED <<ewFired, ewElapsed, ewSent, ewN>>

\* A poll that misses returns nothing, after a pause if it has often missed.
EwPoll ==
    /\ ewAt = "look" /\ ~EwSatisfied /\ ewTime = "none"
    /\ ewMisses' = IF ewMisses <= YieldAfter THEN ewMisses + 1 ELSE ewMisses
    /\ EwReturn({})
    /\ UNCHANGED <<ewEvents, ewFired, ewElapsed, ewSent, ewN>>

\* Mutant of FireBits: the rendezvous bit is fired like the others.
FireBitsAll == ewWant \cap SysBits \cap FireMask

\* The system events an endless wait asks for, but for the rendezvous bit.
FireBits == (ewWant \cap SysBits \cap FireMask) \ {Rendezvous}

MayFire == /\ ewTime = "forever" /\ (FireLimit = 0 \/ ewFired < FireLimit)
           /\ FireBits # {} /\ ewEvents \cap FireBits = {}

EwFire ==
    /\ ewAt = "look" /\ ~EwSatisfied /\ MayFire
    /\ ewFired' = IF FireLimit = 0 THEN ewFired ELSE ewFired + 1
    /\ ewEvents' = ewEvents \cup FireBits
    /\ UNCHANGED <<ewAt, ewCall, ewMisses, ewElapsed, ewSent, ewGot, ewN>>

\* The task sleeps unless the word has changed, and sleeps until it does.
EwSleep ==
    /\ ewAt = "look" /\ ~EwSatisfied /\ ewTime # "none" /\ ~MayFire
    /\ ewAt' = "asleep"
    /\ UNCHANGED <<ewEvents, ewCall, ewFired, ewMisses, ewElapsed, ewSent, ewGot, ewN>>

\* Mutant of EwExpire: the bits returned are taken, the wanted ones only.
EwExpireTake ==
    /\ ewAt \in {"look", "asleep"} /\ ewTime = "finite"
    /\ EwReturn({}) /\ ewEvents' = ewEvents \ ewWant
    /\ UNCHANGED <<ewFired, ewMisses, ewElapsed, ewSent, ewN>>

\* The deadline is over: an artificial one returns the injected bit, or all of
\* the bits; the caller's own returns what is there and takes none of it.
EwExpire ==
    /\ ewAt \in {"look", "asleep"} /\ ewTime = "finite"
    /\ ewAt = "look" => ~EwSatisfied
    /\ EwReturn(IF ewSynthetic THEN (IF InjectBit # {} THEN ewWant \cap InjectBit ELSE ewWant)
                               ELSE ewEvents \cap ewWant)
    /\ UNCHANGED <<ewEvents, ewFired, ewMisses, ewElapsed, ewSent, ewN>>

EwElapse == /\ ~ewElapsed /\ ewAt # "out" /\ ewWant = InjectWant /\ ewElapsed' = TRUE
            /\ UNCHANGED <<ewEvents, ewAt, ewCall, ewFired, ewMisses, ewSent, ewGot, ewN>>

EwNext == \/ \E B \in SUBSET EwBits : EwSend(B)
          \/ \E W \in SUBSET EwBits, all \in BOOLEAN, time \in {"none", "finite", "forever"} :
                EwReceive(W, all, time)
          \/ EwInject \/ EwCatch \/ EwPoll \/ EwFire \/ EwSleep \/ EwExpire \/ EwElapse

EwSpec == EwInit /\ [][EwNext]_ewVars

\* Whatever stands in for an event, none that was sent is lost: it has been
\* returned or is still pending; and a task that waits for the one it has
\* created is never told that it is there unless it was.
StandInsHonest ==
    /\ ewSent \subseteq ewGot \cup ewEvents
    /\ (Rendezvous \in ewGot /\ Rendezvous \notin ForceBit \cup InjectBit) => Rendezvous \in ewSent
=============================================================================
