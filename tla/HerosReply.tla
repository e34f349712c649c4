------------------------------ MODULE HerosReply ------------------------------
(***************************************************************************)
(* Which queue a reply reaches, and which of its readers (heros_rtos.c):   *)
(* CFG_REPLY_ROUTE of q_send(), which sends on the replies ConfigServer    *)
(* puts into the queue with the empty name, and RTS_FAMILY_ROUTE of        *)
(* q_read(), with which the readers of a shared queue "Rts<X>" take only   *)
(* replies of the family of their own last request, in any order.          *)
(***************************************************************************)
EXTENDS Naturals, FiniteSets, SequencesExt

CONSTANTS
    RpReaders,      \* the tasks that share the queue "Rts<X>"
    RpFamilies,     \* the families of requests: of ConfigServer, of the softkeys
    RpPlain,        \* the readers that never send a request
    MaxRequests     \* bound: the requests of the readers

VARIABLES
    last,       \* tasks[t].last_req_family
    due,        \* the replies the servers owe, a sequence of families
    box,        \* the messages of "Rts<X>", the oldest first
    rpTail,     \* its tail, the futex word of its readers
    rpAt,       \* where t is in its q_read()
    rpSeen,     \* the tail t found when there was nothing for it
    rpGot,      \* the reply t was given
    waking,     \* is a sender between its store and its FUTEX_WAKE ?
    asked,      \* the number of requests
    ackOn,      \* HEROSCALL_INJECT_ACK
    connects,   \* the steps of one connect request that are done
    client,     \* the messages of the client's own queue
    nameless    \* the messages of the queue with the empty name

rtsVars == <<last, due, box, rpTail, rpAt, rpSeen, rpGot, waking, asked>>
cfgVars == <<ackOn, connects, client, nameless>>
rpVars  == <<rtsVars, cfgVars>>

NoReply == "none"

ASSUME ReplyAssumption == NoReply \notin RpFamilies

RpInit ==
    /\ last = [t \in RpReaders |-> NoReply]
    /\ due = <<>> /\ box = <<>> /\ rpTail = 0
    /\ rpAt = [t \in RpReaders |-> "idle"]
    /\ rpSeen = [t \in RpReaders |-> 0]
    /\ rpGot = [t \in RpReaders |-> NoReply]
    /\ waking = FALSE /\ asked = 0
    /\ ackOn \in BOOLEAN
    /\ connects = 0 /\ client = <<>> /\ nameless = <<>>

-----------------------------------------------------------------------------
(* The shared queue                                                        *)

\* q_send() to a server notes the family of the request; the caller then reads.
RpRequest(t, f) ==
    /\ t \notin RpPlain /\ rpAt[t] = "idle" /\ asked < MaxRequests
    /\ last' = [last EXCEPT ![t] = f]
    /\ due' = Append(due, f) /\ asked' = asked + 1
    /\ rpAt' = [rpAt EXCEPT ![t] = "read"]
    /\ rpGot' = [rpGot EXCEPT ![t] = NoReply]
    /\ UNCHANGED <<box, rpTail, rpSeen, waking, cfgVars>>

RpReadOnly(t) ==
    /\ t \in RpPlain /\ rpAt[t] = "idle" /\ asked < MaxRequests
    /\ rpAt' = [rpAt EXCEPT ![t] = "read"]
    /\ UNCHANGED <<last, due, box, rpTail, rpSeen, rpGot, waking, asked, cfgVars>>

\* The servers answer in any order; the reply is stored, then sleepers are woken.
RpAnswer ==
    /\ ~ waking
    /\ \E i \in DOMAIN due :
         /\ box' = Append(box, due[i])
         /\ due' = RemoveAt(due, i)
    /\ rpTail' = rpTail + 1 /\ waking' = TRUE
    /\ UNCHANGED <<last, rpAt, rpSeen, rpGot, asked, cfgVars>>

RpWake ==
    /\ waking /\ waking' = FALSE
    /\ rpAt' = [t \in RpReaders |-> IF rpAt[t] = "asleep" THEN "read" ELSE rpAt[t]]
    /\ UNCHANGED <<last, due, box, rpTail, rpSeen, rpGot, asked, cfgVars>>

\* Mutant of Mine: every reader takes the head.
MineAny(t) == DOMAIN box

\* The messages t may take: all, until it has sent a request.
Mine(t) == {i \in DOMAIN box : last[t] \in {NoReply, box[i]}}

\* q_read() finds the first message of its own.  One behind the head is taken
\* out by moving the later ones down: head stays, and tail is counted back.
RpTake(t) ==
    /\ rpAt[t] = "read" /\ Mine(t) # {}
    /\ LET i == CHOOSE i \in Mine(t) : \A j \in Mine(t) : i <= j
       IN  /\ rpGot' = [rpGot EXCEPT ![t] = box[i]]
           /\ box' = RemoveAt(box, i)
           /\ rpTail' = IF i = 1 THEN rpTail ELSE rpTail - 1
    /\ rpAt' = [rpAt EXCEPT ![t] = "idle"]
    /\ UNCHANGED <<last, due, rpSeen, waking, asked, cfgVars>>

\* There is none of its own: it keeps the tail, gives the lock up, and sleeps
\* if the tail is still the same.
RpMiss(t) ==
    /\ rpAt[t] = "read" /\ Mine(t) = {}
    /\ rpSeen' = [rpSeen EXCEPT ![t] = rpTail]
    /\ rpAt' = [rpAt EXCEPT ![t] = "block"]
    /\ UNCHANGED <<last, due, box, rpTail, rpGot, waking, asked, cfgVars>>

RpSleep(t) ==
    /\ rpAt[t] = "block"
    /\ rpAt' = [rpAt EXCEPT ![t] = IF rpTail = rpSeen[t] THEN "asleep" ELSE "read"]
    /\ UNCHANGED <<last, due, box, rpTail, rpSeen, rpGot, waking, asked, cfgVars>>

-----------------------------------------------------------------------------
(* The queue with the empty name                                           *)

\* Mutant of CfgTarget: the acknowledgement is sent on too.
CfgTargetAll(m) == "client"

\* A message with a reply-to name goes to the queue of that name; with
\* INJECT_ACK the acknowledgement of the connect stays.
CfgTarget(m) == IF ackOn /\ m = "ack" THEN "" ELSE "client"

\* ConfigServer acknowledges the connect and sends its data, both to "";
\* with INJECT_ACK q_send() has answered the connect itself before.
CfgConnect ==
    /\ connects = 0 /\ connects' = 1
    /\ client' = IF ackOn THEN Append(client, "ack") ELSE client
    /\ UNCHANGED <<rtsVars, ackOn, nameless>>

CfgReply ==
    /\ connects \in {1, 2} /\ connects' = connects + 1
    /\ LET m == IF connects = 1 THEN "ack" ELSE "data"
       IN  IF CfgTarget(m) = ""
           THEN nameless' = Append(nameless, m) /\ UNCHANGED client
           ELSE client' = Append(client, m) /\ UNCHANGED nameless
    /\ UNCHANGED <<rtsVars, ackOn>>

-----------------------------------------------------------------------------
RpNext ==
    \/ \E t \in RpReaders :
         \/ \E f \in RpFamilies : RpRequest(t, f)
         \/ RpReadOnly(t) \/ RpTake(t) \/ RpMiss(t) \/ RpSleep(t)
    \/ RpAnswer \/ RpWake \/ CfgConnect \/ CfgReply

RpSpec == RpInit /\ [][RpNext]_rpVars

(* A synchronous caller gets a reply of the family it asked for, whoever    *)
(* shares its reply queue: "do NOT consume another waiter's reply".         *)
OwnReply ==
    \A t \in RpReaders \ RpPlain : rpGot[t] \in {NoReply, last[t]}

(* With INJECT_ACK and without, the client is sent one acknowledgement of   *)
(* its connect, and before the data: "so the client does not get a          *)
(* duplicate ack ahead of the data reply".                                  *)
AckThenData ==
    client \in {<<>>, <<"ack">>, <<"ack", "data">>}

RepliesRouted == OwnReply /\ AckThenData

(* "The futex wake on q->tail re-checks on every send": no reader sleeps    *)
(* while a reply of its own is there, unless its sender is about to wake    *)
(* the readers.                                                             *)
FamilyReaderWoken ==
    \A t \in RpReaders : rpAt[t] = "asleep" /\ Mine(t) # {} => waking
=============================================================================
