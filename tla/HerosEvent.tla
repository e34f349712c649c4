------------------------------ MODULE HerosEvent ------------------------------
(***************************************************************************)
(* Task events of the runtime (heros_rtos.c, ev_send() and ev_receive()).  *)
(*                                                                         *)
(* A task's event word is a futex word in the shared segment.  ev_send()   *)
(* ORs bits into it and then wakes whoever sleeps on it; ev_receive()      *)
(* loads it, decides, and either clears what it caught with a second       *)
(* atomic operation or sleeps for as long as the word still has the loaded *)
(* value.  None of this is under the global lock.                          *)
(*                                                                         *)
(* A word is a set of bits.  RBit is bit 0x80000, on which the parent of a *)
(* new task waits: ev_receive() also answers it from the pool of orphan    *)
(* rendezvous tokens (see HerosTask, which fills the pool).                *)
(***************************************************************************)
EXTENDS Naturals

CONSTANTS
    Tasks,      \* the tasks of all processes: registered once, never freed
    Receivers,  \* the tasks that call Ev_receive
    Bits,       \* the bits of an event word that are in use
    RBit,       \* the t_create rendezvous bit 0x80000
    Wants,      \* the masks that Ev_receive is called with
    Posts,      \* the masks that Ev_send is called with
    Timeouts    \* "none" (0), "finite" and "forever" (0xffffffff)

ASSUME EventAssumption ==
    /\ Receivers \subseteq Tasks
    /\ RBit \in Bits
    /\ Wants \subseteq (SUBSET Bits) \ {{}}
    /\ Posts \subseteq SUBSET Bits
    /\ Timeouts \subseteq {"none", "finite", "forever"}

VARIABLES
    events,     \* tasks[t].events
    want,       \* tasks[t].last_ev_want, and ev_receive's argument
    cond,       \* ev_receive's cond: "all" or "any"
    timeout,    \* ev_receive's timeout
    cur,        \* the value of the word ev_receive loaded
    got,        \* what t's last ev_receive returned
    orphan,     \* C->orphan_tc
    dest,       \* ev_send's arguments: the task,
    post,       \* and the bits
    pc          \* where each task is

recvVars == <<want, cond, timeout, cur, got>>
sendVars == <<dest, post>>
evVars   == <<events, recvVars, orphan, sendVars, pc>>

Receiving == {"token", "load", "take", "level", "block", "asleep"}
Sending   == {"or", "wake"}

Init ==
    /\ events = [t \in Tasks |-> {}]
    /\ want = [t \in Tasks |-> {}]
    /\ cond = [t \in Tasks |-> "any"]
    /\ timeout = [t \in Tasks |-> "none"]
    /\ cur = [t \in Tasks |-> {}]
    /\ got = [t \in Tasks |-> {}]
    /\ orphan = 0
    /\ dest = [t \in Tasks |-> t]
    /\ post = [t \in Tasks |-> {}]
    /\ pc = [t \in Tasks |-> "idle"]

Goto(t, l) == pc' = [pc EXCEPT ![t] = l]

-----------------------------------------------------------------------------
(* ev_send()                                                               *)

\* Enter ev_send(u, B); the caller is at some label of its own.
CallEvSend(t, u, B) ==
    /\ dest' = [dest EXCEPT ![t] = u]
    /\ post' = [post EXCEPT ![t] = B]
    /\ Goto(t, "or")

\* Tm_evafter and Tm_evevery do not wait: they send their bits to the caller.
Ev_send(t) ==
    /\ pc[t] = "idle"
    /\ \E u \in Receivers, B \in Posts : CallEvSend(t, u, B)
    /\ UNCHANGED <<events, recvVars, orphan>>

EvOr(t) ==
    /\ pc[t] = "or"
    /\ events' = [events EXCEPT ![dest[t]] = @ \cup post[t]]
    /\ Goto(t, "wake")
    /\ UNCHANGED <<recvVars, orphan, sendVars>>

\* Mutant of EvWake: the FUTEX_WAKE is missing.
EvWakeNobody(t) ==
    /\ pc[t] = "wake"
    /\ Goto(t, "idle")
    /\ dest' = [dest EXCEPT ![t] = t]
    /\ post' = [post EXCEPT ![t] = {}]
    /\ UNCHANGED <<events, recvVars, orphan>>

\* FUTEX_WAKE: a sleeper goes back to the head of ev_receive's loop.
EvWake(t) ==
    /\ pc[t] = "wake"
    /\ pc' = [u \in Tasks |->
                IF u = t THEN "idle"
                ELSE IF u = dest[t] /\ pc[u] = "asleep" THEN "token"
                ELSE pc[u]]
    /\ dest' = [dest EXCEPT ![t] = t]
    /\ post' = [post EXCEPT ![t] = {}]
    /\ UNCHANGED <<events, recvVars, orphan>>

-----------------------------------------------------------------------------
(* ev_receive()                                                            *)

Satisfies(t, S) == IF cond[t] = "all" THEN want[t] \subseteq S
                                      ELSE want[t] \cap S # {}

\* Leave ev_receive with the bits B.
ReturnBits(t, B) ==
    /\ got' = [got EXCEPT ![t] = B]
    /\ cur' = [cur EXCEPT ![t] = {}]
    /\ Goto(t, "idle")

CallEvReceive(t, W, c, m) ==
    /\ want' = [want EXCEPT ![t] = W]
    /\ cond' = [cond EXCEPT ![t] = c]
    /\ timeout' = [timeout EXCEPT ![t] = m]
    /\ got' = [got EXCEPT ![t] = {}]
    /\ Goto(t, "token")
    /\ UNCHANGED cur

Ev_receive(t) ==
    /\ t \in Receivers
    /\ pc[t] = "idle"
    /\ \E W \in Wants, c \in {"all", "any"}, m \in Timeouts : CallEvReceive(t, W, c, m)
    /\ UNCHANGED <<events, orphan, sendVars>>

\* Mutant of TakeToken: the pool is not tested.
TakeTokenUnchecked(t) ==
    /\ pc[t] = "token"
    /\ IF RBit \in want[t]
       THEN /\ orphan' = orphan - 1
            /\ ReturnBits(t, {RBit})
       ELSE /\ Goto(t, "load")
            /\ UNCHANGED <<orphan, cur, got>>
    /\ UNCHANGED <<events, want, cond, timeout, sendVars>>

\* Mutant of TakeToken: the token stays in the pool.
TakeTokenKeep(t) ==
    /\ pc[t] = "token"
    /\ IF RBit \in want[t] /\ orphan > 0
       THEN ReturnBits(t, {RBit})
       ELSE Goto(t, "load") /\ UNCHANGED <<cur, got>>
    /\ UNCHANGED <<events, want, cond, timeout, orphan, sendVars>>

\* The head of the loop: a waiter for RBit takes an orphan token if there is one.
TakeToken(t) ==
    /\ pc[t] = "token"
    /\ IF RBit \in want[t] /\ orphan > 0
       THEN /\ orphan' = orphan - 1
            /\ ReturnBits(t, {RBit})
       ELSE /\ Goto(t, "load")
            /\ UNCHANGED <<orphan, cur, got>>
    /\ UNCHANGED <<events, want, cond, timeout, sendVars>>

\* Load the word and decide; a poll that finds nothing returns 0.
Load(t) ==
    /\ pc[t] = "load"
    /\ IF Satisfies(t, events[t])
       THEN cur' = [cur EXCEPT ![t] = events[t]] /\ Goto(t, "take") /\ UNCHANGED got
       ELSE IF timeout[t] = "none"
       THEN ReturnBits(t, {})
       ELSE cur' = [cur EXCEPT ![t] = events[t]] /\ Goto(t, "level") /\ UNCHANGED got
    /\ UNCHANGED <<events, want, cond, timeout, orphan, sendVars>>

\* Mutant of Take: the word is stored back from the loaded copy.
TakeStore(t) ==
    /\ pc[t] = "take"
    /\ events' = [events EXCEPT ![t] = cur[t] \ want[t]]
    /\ ReturnBits(t, cur[t] \cap want[t])
    /\ UNCHANGED <<want, cond, timeout, orphan, sendVars>>

\* Clear what was caught, and only that, with an atomic AND.
Take(t) ==
    /\ pc[t] = "take"
    /\ LET caught == cur[t] \cap want[t]
       IN  /\ events' = [events EXCEPT ![t] = @ \ caught]
           /\ ReturnBits(t, caught)
    /\ UNCHANGED <<want, cond, timeout, orphan, sendVars>>

\* The deadline of a finite wait has passed: the call returns whatever wanted
\* bits the word holds now, satisfying or not, and clears nothing.
Expire(t) ==
    /\ pc[t] = "level"
    /\ timeout[t] = "finite"
    /\ ReturnBits(t, events[t] \cap want[t])
    /\ UNCHANGED <<events, want, cond, timeout, orphan, sendVars>>

\* Without HEROSCALL_QNOTIFY_LEVEL and the injectors, nothing else happens
\* between the failed test and the wait.
GoBlock(t) ==
    /\ pc[t] = "level"
    /\ Goto(t, "block")
    /\ UNCHANGED <<events, recvVars, orphan, sendVars>>

\* Mutant of FutexWait: the word is not compared again.
WaitUnchecked(t) ==
    /\ pc[t] = "block"
    /\ Goto(t, "asleep")
    /\ cur' = [cur EXCEPT ![t] = {}]
    /\ UNCHANGED <<events, want, cond, timeout, got, orphan, sendVars>>

FutexWait(t) ==
    /\ pc[t] = "block"
    /\ Goto(t, IF cur[t] = events[t] THEN "asleep" ELSE "token")
    /\ cur' = [cur EXCEPT ![t] = {}]
    /\ UNCHANGED <<events, want, cond, timeout, got, orphan, sendVars>>

\* FUTEX_WAIT also ends at the deadline and with EINTR (SIGUSR1 of As_send).
Disturbed(t) ==
    /\ pc[t] = "asleep"
    /\ Goto(t, "token")
    /\ UNCHANGED <<events, recvVars, orphan, sendVars>>

-----------------------------------------------------------------------------
EvStep(t) ==
    \/ EvOr(t) \/ EvWake(t)
    \/ TakeToken(t) \/ Load(t) \/ Take(t) \/ Expire(t) \/ GoBlock(t) \/ FutexWait(t)

EvNext == \E t \in Tasks : Ev_send(t) \/ Ev_receive(t) \/ EvStep(t) \/ Disturbed(t)

EvSpec == Init /\ [][EvNext]_evVars

\* A task inside a call keeps running; nothing makes the guest call, and
\* nothing makes a signal arrive.
EvFairSpec == EvSpec /\ \A t \in Tasks : WF_evVars(EvStep(t))

-----------------------------------------------------------------------------
TypeOK ==
    /\ events \in [Tasks -> SUBSET Bits]
    /\ want \in [Tasks -> SUBSET Bits]
    /\ cond \in [Tasks -> {"all", "any"}]
    /\ timeout \in [Tasks -> {"none", "finite", "forever"}]
    /\ cur \in [Tasks -> SUBSET Bits]
    /\ got \in [Tasks -> SUBSET Bits]
    /\ orphan \in Nat
    /\ dest \in [Tasks -> Tasks]
    /\ post \in [Tasks -> SUBSET Bits]
    /\ pc \in [Tasks -> {"idle"} \cup Receiving \cup Sending]

(* A task asleep in ev_receive() while its word satisfies the call is about *)
(* to be woken: some ev_send() has ORed its bits and not yet done its       *)
(* FUTEX_WAKE.  No event can be posted between test and sleep unnoticed.    *)
NoMissedEvent ==
    \A t \in Tasks :
        pc[t] = "asleep" /\ Satisfies(t, events[t])
            => \E s \in Tasks : pc[s] = "wake" /\ dest[s] = t

(* A wait for ever whose condition is met is answered.                      *)
Delivered ==
    \A t \in Tasks :
        (pc[t] \in Receiving /\ Satisfies(t, events[t])) ~> (pc[t] = "idle")

(* The event calls implement EventFlags: they take effect at the atomic OR, *)
(* the atomic AND, and the load of a poll that finds nothing.               *)
Flags == INSTANCE EventFlags
    WITH flags <- events,
         call <- [t \in Tasks |->
                    IF pc[t] \in Receiving
                    THEN [want |-> want[t], cond |-> cond[t], timeout |-> timeout[t]]
                    ELSE [want |-> {}, cond |-> "any", timeout |-> "none"]],
         caught <- got

ImplementsFlags == Flags!FSpec
=============================================================================
