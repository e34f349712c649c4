---------------------------- MODULE HerosQueueTable ----------------------------
(***************************************************************************)
(* The table of message queues (heros_rtos.c, q_create(), q_ident() and    *)
(* q_delete()).                                                            *)
(*                                                                         *)
(* Queues are global and named.  Whoever creates a name first makes the    *)
(* queue; whoever creates it later with notify bits takes a queue without  *)
(* any over.  A lookup of a missing name makes a sink for the absent peer, *)
(* marked synth, so that the sender can go on.                             *)
(*                                                                         *)
(* The name a lookup is given has up to two parts, "<base>.<rest>":        *)
(* q_basename() keeps the base, and the rest may name the queue that is    *)
(* really meant.  ".<rest>" has the base Empty.                            *)
(*                                                                         *)
(* Each access to the table is one critical section of the global lock     *)
(* (see HerosLock); q_ident() has up to four of them.                      *)
(***************************************************************************)
EXTENDS Integers, FiniteSets, FiniteSetsExt

CONSTANTS
    Clients,    \* the tasks that use queues
    Names,      \* the names of queues
    Empty,      \* the empty name, one of Names
    None,       \* no name, no task, no rest of an address
    Probes,     \* the names of which q_is_probe_name() is true
    HostFrames, \* the addresses that contain "mmi.qHF"
    Addresses,  \* what Q_ident is asked for: records of a base and a rest
    Masks,      \* the notify bits Q_create is called with
    MAXQ,
    MaxId       \* bound: no more than MaxId queues are ever made

ASSUME TableAssumption ==
    /\ MAXQ \in Nat \ {0}
    /\ MaxId \in Nat
    /\ None \notin Names \cup Clients
    /\ Probes \subseteq Names
    /\ Addresses \subseteq [base : Names, rest : Names \cup {None}]
    /\ HostFrames \subseteq Addresses

VARIABLES
    qname,      \* queues[i].name, None while the slot is not used
    qid,        \* queues[i].id, 0 while the slot is not used
    synth,      \* queues[i].synth
    owner,      \* queues[i].owner
    notify,     \* queues[i].notify_bits
    next_q,     \* C->next_q
    created,    \* history: has a task called Q_create for the queue in slot i ?
    op,         \* where t is in q_ident()
    addr,       \* the address it looks for
    found,      \* the id q_ident() has found so far
    handle      \* the id t was last answered, 0 for none

slotVars  == <<qname, qid, synth, owner, notify, created>>
identVars == <<op, addr, found>>
tableVars == <<slotVars, next_q, identVars, handle>>

Slots     == 1..MAXQ
NoAddress == [base |-> None, rest |-> None]

TableInit ==
    /\ qname = [i \in Slots |-> None]
    /\ qid = [i \in Slots |-> 0]
    /\ synth = [i \in Slots |-> FALSE]
    /\ owner = [i \in Slots |-> None]
    /\ notify = [i \in Slots |-> {}]
    /\ next_q = 1
    /\ created = [i \in Slots |-> FALSE]
    /\ op = [t \in Clients |-> "idle"]
    /\ addr = [t \in Clients |-> NoAddress]
    /\ found = [t \in Clients |-> 0]
    /\ handle = [t \in Clients |-> 0]

-----------------------------------------------------------------------------
Used          == {i \in Slots : qname[i] # None}
SlotsNamed(n) == {i \in Slots : qname[i] = n}
SlotsOf(id)   == {i \in Used : qid[i] = id}

\* q_find_slot() and the id at it, or 0.
IdOf(n) == IF SlotsNamed(n) = {} THEN 0 ELSE qid[Min(SlotsNamed(n))]

Answer(t, id) == handle' = [handle EXCEPT ![t] = id]

\* Mutant of NewQueue: the slot is used before it has a name.
NewQueueUnnamed(t, n, B, real) ==
    /\ SlotsNamed(None) # {}
    /\ next_q <= MaxId
    /\ qid' = [qid EXCEPT ![Min(SlotsNamed(None))] = next_q]
    /\ next_q' = next_q + 1
    /\ Answer(t, next_q)
    /\ UNCHANGED <<qname, synth, owner, notify, created>>

\* Take the first free slot; the table full is answered 0.
NewQueue(t, n, B, real) ==
    IF SlotsNamed(None) = {}
    THEN Answer(t, 0) /\ UNCHANGED <<slotVars, next_q>>
    ELSE /\ next_q <= MaxId
         /\ LET i == Min(SlotsNamed(None))
            IN  /\ qname' = [qname EXCEPT ![i] = n]
                /\ qid' = [qid EXCEPT ![i] = next_q]
                /\ synth' = [synth EXCEPT ![i] = FALSE]
                /\ owner' = [owner EXCEPT ![i] = t]
                /\ notify' = [notify EXCEPT ![i] = B]
                /\ created' = [created EXCEPT ![i] = real]
         /\ next_q' = next_q + 1
         /\ Answer(t, next_q)

\* Mutant of Adopt: every Q_create with notify bits takes the queue over.
AdoptAlways(t, i, B, real) ==
    /\ owner' = [owner EXCEPT ![i] = t]
    /\ notify' = [notify EXCEPT ![i] = B]
    /\ synth' = [synth EXCEPT ![i] = FALSE]
    /\ created' = [created EXCEPT ![i] = @ \/ real]
    /\ Answer(t, qid[i])
    /\ UNCHANGED <<qname, qid, next_q>>

\* A name that exists: a queue without notify bits is taken over by one who
\* brings some, and a sink becomes a queue.
Adopt(t, i, B, real) ==
    /\ IF B # {} /\ notify[i] = {}
       THEN /\ owner' = [owner EXCEPT ![i] = t]
            /\ notify' = [notify EXCEPT ![i] = B]
       ELSE UNCHANGED <<owner, notify>>
    /\ synth' = [synth EXCEPT ![i] = FALSE]
    /\ created' = [created EXCEPT ![i] = @ \/ real]
    /\ Answer(t, qid[i])
    /\ UNCHANGED <<qname, qid, next_q>>

\* Mutant of Create: the name is not looked for.
CreateBlindly(t, n, B, real) == NewQueue(t, n, B, real)

\* q_create(), for the guest (real) or for q_ident().  The flush of buffered
\* events into a new queue, HEROS_EVT_RELAY, is off by default and left out.
Create(t, n, B, real) ==
    IF SlotsNamed(n) # {} THEN Adopt(t, Min(SlotsNamed(n)), B, real)
                          ELSE NewQueue(t, n, B, real)

Q_create(t) ==
    /\ op[t] = "idle"
    /\ \E n \in Names, B \in Masks : Create(t, n, B, TRUE)
    /\ UNCHANGED identVars

Free(i) ==
    /\ qname' = [qname EXCEPT ![i] = None]
    /\ qid' = [qid EXCEPT ![i] = 0]
    /\ synth' = [synth EXCEPT ![i] = FALSE]
    /\ owner' = [owner EXCEPT ![i] = None]
    /\ notify' = [notify EXCEPT ![i] = {}]
    /\ created' = [created EXCEPT ![i] = FALSE]

\* q_delete(), up to the wake of its readers.
Q_delete(t) ==
    /\ op[t] = "idle"
    /\ \E i \in SlotsOf(handle[t]) : Free(i)
    /\ UNCHANGED <<next_q, identVars, handle>>

-----------------------------------------------------------------------------
(* q_ident()                                                               *)

\* Leave q_ident() with id.
Return(t, id) ==
    /\ Answer(t, id)
    /\ op' = [op EXCEPT ![t] = "idle"]
    /\ addr' = [addr EXCEPT ![t] = NoAddress]
    /\ found' = [found EXCEPT ![t] = 0]

Proceed(t, l, a, id) ==
    /\ op' = [op EXCEPT ![t] = l]
    /\ addr' = [addr EXCEPT ![t] = a]
    /\ found' = [found EXCEPT ![t] = id]
    /\ UNCHANGED handle

\* The end of q_ident(): what is missing is made, unless its absence is the
\* answer the control looks for.
Conclude(t, a, id) ==
    IF id # 0 \/ a \in HostFrames \/ a.base \in Probes
    THEN Return(t, id)
    ELSE Proceed(t, "create", a, id)

\* Look for the base, and tell a sink from a queue.
Q_ident(t) ==
    /\ op[t] = "idle"
    /\ \E a \in Addresses :
         LET id      == IdOf(a.base)
             sink    == \E i \in SlotsNamed(a.base) : synth[i]
             missing == id = 0 /\ a \notin HostFrames
         IN  IF a.rest = None                THEN Conclude(t, a, id)
             ELSE IF a.base = Empty          THEN Proceed(t, "leading dot", a, id)
             ELSE IF sink \/ missing         THEN Proceed(t, "compound", a, id)
             ELSE Conclude(t, a, id)
    /\ UNCHANGED <<slotVars, next_q>>

\* ".<rest>": the rest, if there is such a queue or sink.
LeadingDot(t) ==
    /\ op[t] = "leading dot"
    /\ LET id == IdOf(addr[t].rest)
       IN  IF id # 0 THEN Return(t, id) ELSE Conclude(t, addr[t], found[t])
    /\ UNCHANGED <<slotVars, next_q>>

\* "<base>.<rest>": the rest, if there is such a queue, but never a sink.
Compound(t) ==
    /\ op[t] = "compound"
    /\ LET real == {i \in SlotsNamed(addr[t].rest) : ~ synth[i]}
       IN  IF real # {} THEN Return(t, qid[Min(real)])
                        ELSE Conclude(t, addr[t], found[t])
    /\ UNCHANGED <<slotVars, next_q>>

\* The name is missing: q_create() it, in a critical section of its own ...
MakeSink(t) ==
    /\ op[t] = "create"
    /\ Create(t, addr[t].base, {}, FALSE)
    /\ op' = [op EXCEPT ![t] = "mark"]
    /\ UNCHANGED <<addr, found>>

\* Mutant of MarkSink: the mark goes to no one.
MarkNothing(t) ==
    /\ op[t] = "mark"
    /\ Return(t, handle[t])
    /\ UNCHANGED <<slotVars, next_q>>

\* ... and mark what was answered in the next one.
MarkSink(t) ==
    /\ op[t] = "mark"
    /\ synth' = [i \in Slots |-> synth[i] \/ i \in SlotsOf(handle[t])]
    /\ Return(t, handle[t])
    /\ UNCHANGED <<qname, qid, owner, notify, created, next_q>>

-----------------------------------------------------------------------------
IdentStep(t) == LeadingDot(t) \/ Compound(t) \/ MakeSink(t) \/ MarkSink(t)

TableNext ==
    \E t \in Clients : Q_create(t) \/ Q_delete(t) \/ Q_ident(t) \/ IdentStep(t)

TableSpec == TableInit /\ [][TableNext]_tableVars

-----------------------------------------------------------------------------
TableTypeOK ==
    /\ qname \in [Slots -> Names \cup {None}]
    /\ qid \in [Slots -> 0..MaxId]
    /\ synth \in [Slots -> BOOLEAN]
    /\ owner \in [Slots -> Clients \cup {None}]
    /\ notify \in [Slots -> Masks \cup {{}}]
    /\ next_q \in 1..MaxId + 1
    /\ created \in [Slots -> BOOLEAN]
    /\ op \in [Clients -> {"idle", "leading dot", "compound", "create", "mark"}]
    /\ addr \in [Clients -> Addresses \cup {NoAddress}]
    /\ found \in [Clients -> 0..MaxId]
    /\ handle \in [Clients -> 0..MaxId]
    /\ \A i \in Slots : qname[i] = None <=> qid[i] = 0

(* A name is one queue and an id is one queue, however many tasks create    *)
(* the name, look it up and so make it, or delete it at the same time; and  *)
(* no id that was ever given out, even of a deleted queue, is given again.  *)
OneQueuePerName ==
    /\ \A i, j \in Used : (qname[i] = qname[j] \/ qid[i] = qid[j]) => i = j
    /\ \A t \in Clients : handle[t] < next_q
    /\ \A i \in Used : qid[i] < next_q

(* Once a task has registered notify bits for a queue, nobody who creates   *)
(* or looks up the same name diverts the notifications from it: the         *)
(* takeover of a placeholder happens once.                                  *)
NotifyOwnerStays ==
    [][\A i \in Slots :
         notify[i] # {} /\ qid'[i] = qid[i]
             => owner'[i] = owner[i] /\ notify'[i] = notify[i]]_tableVars

(* synth marks what "the emulator AUTO-CREATED", "not a queue the guest     *)
(* ever Q_create'd": such a stand-in must not win over the real queue.      *)
SinksAreNotQueues == \A i \in Slots : ~ (synth[i] /\ created[i])

(* A queue that no task has created is marked, or the task whose lookup     *)
(* made it is about to mark it: a stand-in is not taken for a queue for     *)
(* longer than that.                                                        *)
StandInsAreMarked ==
    \A i \in Used :
        created[i] \/ synth[i] \/ \E t \in Clients : op[t] = "mark" /\ handle[t] = qid[i]
=============================================================================
