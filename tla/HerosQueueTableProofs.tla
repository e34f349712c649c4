------------------------- MODULE HerosQueueTableProofs -------------------------
(***************************************************************************)
(* Proofs about HerosQueueTable for every set of tasks and of names, every *)
(* set of addresses and every size of the table.                           *)
(***************************************************************************)
EXTENDS HerosQueueTable, WellFoundedInduction, TLAPS

(* A task inside q_ident() keeps the address it was called with, and what  *)
(* it has found so far was the id of some queue.                           *)
Asking == \A t \in Clients : op[t] # "idle" => addr[t] \in Addresses
Finding == \A t \in Clients : found[t] < next_q

TableIInv == TableTypeOK /\ Asking /\ Finding /\ OneQueuePerName /\ StandInsAreMarked

LEMMA IdBounds == MaxId \in Nat /\ 0 \in 0..MaxId /\ \A k \in 0..MaxId : k \in Nat
  <1>1. MaxId \in Nat
    BY TableAssumption
  <1> QED BY <1>1

LEMMA TableInitInv == TableInit => TableIInv
  BY TableAssumption
  DEF TableInit, TableIInv, TableTypeOK, Asking, Finding, OneQueuePerName, StandInsAreMarked,
      Slots, Used, NoAddress

\* The order by which slots are searched.
Below == {pair \in Nat \X Nat : pair[1] < pair[2]}

(* A search from slot 0 upwards in which some slot qualifies finds the first *)
(* one that does.                                                            *)
LEMMA FirstSlot ==
    ASSUME NEW S, S \subseteq Nat, S # {}
    PROVE  Min(S) \in S /\ \A j \in S : Min(S) <= j
  <1>1. OpToRel(<, Nat) = Below
    BY DEF OpToRel, Below
  <1>2. IsWellFoundedOn(Below, Nat)
    BY <1>1, NatLessThanWellFounded, Zenon
  <1>3. PICK i \in S : \A j \in S : ~ (<<j, i>> \in Below)
    BY <1>2, WFMin
  <1>4. ASSUME NEW j \in S PROVE i <= j
    <2>1. <<j, i>> \in Nat \X Nat /\ ~ (<<j, i>> \in Below)
      BY <1>3
    <2>2. ~ (j < i)
      BY <2>1 DEF Below
    <2> QED BY <2>1, <2>2
  <1> QED BY <1>4 DEF Min

(* The first slot of a search is one of those searched for.                *)
LEMMA FoundSlot ==
    ASSUME NEW n, SlotsNamed(n) # {}
    PROVE  Min(SlotsNamed(n)) \in Slots /\ qname[Min(SlotsNamed(n))] = n
  <1>1. SlotsNamed(n) \subseteq Nat
    BY TableAssumption DEF SlotsNamed, Slots
  <1>2. Min(SlotsNamed(n)) \in SlotsNamed(n)
    BY <1>1, FirstSlot
  <1> QED BY <1>2 DEF SlotsNamed

(* What a lookup answers is the id of a slot, or 0.                        *)
LEMMA FoundId ==
    ASSUME TableTypeOK, NEW n
    PROVE  IdOf(n) \in 0..MaxId
  <1>1. CASE SlotsNamed(n) = {}
    BY <1>1, TableAssumption DEF IdOf
  <1>2. CASE SlotsNamed(n) # {}
    BY <1>2, FoundSlot DEF IdOf, TableTypeOK
  <1> QED BY <1>1, <1>2

-----------------------------------------------------------------------------
(* q_create() either adopts a slot with the name, or takes a free slot     *)
(* while no slot has the name, or finds the table full.                    *)
SlotAdopted(t, i, n, B, real) == qname[i] = n /\ Adopt(t, i, B, real)

SlotTaken(t, i, n, B, real) ==
    /\ qname[i] = None
    /\ \A j \in Slots : qname[j] # n
    /\ next_q <= MaxId
    /\ qname' = [qname EXCEPT ![i] = n]
    /\ qid' = [qid EXCEPT ![i] = next_q]
    /\ synth' = [synth EXCEPT ![i] = FALSE]
    /\ owner' = [owner EXCEPT ![i] = t]
    /\ notify' = [notify EXCEPT ![i] = B]
    /\ created' = [created EXCEPT ![i] = real]
    /\ next_q' = next_q + 1
    /\ handle' = [handle EXCEPT ![t] = next_q]

TableFull(t) == handle' = [handle EXCEPT ![t] = 0] /\ UNCHANGED <<slotVars, next_q>>

LEMMA CreateCases ==
    ASSUME NEW t, NEW n, NEW B, NEW real, Create(t, n, B, real)
    PROVE  \/ \E i \in Slots : SlotAdopted(t, i, n, B, real)
           \/ \E i \in Slots : SlotTaken(t, i, n, B, real)
           \/ TableFull(t)
  <1>1. CASE SlotsNamed(n) # {}
    <2> DEFINE i == Min(SlotsNamed(n))
    <2>1. i \in Slots /\ qname[i] = n
      BY <1>1, FoundSlot
    <2>2. Adopt(t, i, B, real)
      BY <1>1 DEF Create
    <2> QED BY <2>1, <2>2 DEF SlotAdopted
  <1>2. CASE SlotsNamed(n) = {} /\ SlotsNamed(None) = {}
    BY <1>2 DEF Create, NewQueue, TableFull, Answer
  <1>3. CASE SlotsNamed(n) = {} /\ SlotsNamed(None) # {}
    <2> DEFINE i == Min(SlotsNamed(None))
    <2>1. i \in Slots /\ qname[i] = None
      BY <1>3, FoundSlot
    <2>2. \A j \in Slots : qname[j] # n
      BY <1>3 DEF SlotsNamed
    <2>3. SlotTaken(t, i, n, B, real)
      BY <1>3, <2>1, <2>2 DEF Create, NewQueue, SlotTaken, Answer
    <2> QED BY <2>1, <2>3
  <1> QED BY <1>1, <1>2, <1>3

(* The table's share of the type invariant.                                *)
SlotTypeOK ==
    /\ qname \in [Slots -> Names \cup {None}]
    /\ qid \in [Slots -> 0..MaxId]
    /\ synth \in [Slots -> BOOLEAN]
    /\ owner \in [Slots -> Clients \cup {None}]
    /\ notify \in [Slots -> Masks \cup {{}}]
    /\ next_q \in 1..MaxId + 1
    /\ created \in [Slots -> BOOLEAN]
    /\ handle \in [Clients -> 0..MaxId]
    /\ \A i \in Slots : qname[i] = None <=> qid[i] = 0

\* OneQueuePerName, without the set of used slots.
DistinctQueues ==
    /\ \A i, j \in Slots :
         qname[i] # None /\ qname[j] # None /\ (qname[i] = qname[j] \/ qid[i] = qid[j])
           => i = j
    /\ \A t \in Clients : handle[t] < next_q
    /\ \A i \in Slots : qname[i] # None => qid[i] < next_q

LEMMA DistinctIs == OneQueuePerName <=> DistinctQueues
  BY DEF OneQueuePerName, DistinctQueues, Used

LEMMA CreateStep ==
    ASSUME SlotTypeOK, DistinctQueues, NEW t \in Clients, NEW n \in Names,
           NEW B \in Masks \cup {{}}, NEW real \in BOOLEAN, Create(t, n, B, real)
    PROVE  SlotTypeOK' /\ DistinctQueues' /\ next_q <= next_q'
  <1> USE TableAssumption
  <1>1. ASSUME NEW i \in Slots, SlotAdopted(t, i, n, B, real)
        PROVE  SlotTypeOK' /\ DistinctQueues' /\ next_q <= next_q'
    <2>1. qid[i] \in 0..MaxId /\ qid[i] < next_q /\ next_q \in Nat
      BY <1>1 DEF SlotAdopted, SlotTypeOK, DistinctQueues
    <2>2. SlotTypeOK'
      BY <1>1, <2>1 DEF SlotAdopted, Adopt, Answer, SlotTypeOK
    <2>3. DistinctQueues'
      BY <1>1, <2>1 DEF SlotAdopted, Adopt, Answer, SlotTypeOK, DistinctQueues
    <2>4. next_q <= next_q'
      BY <1>1, <2>1 DEF SlotAdopted, Adopt
    <2> QED BY <2>2, <2>3, <2>4
  <1>2. ASSUME NEW i \in Slots, SlotTaken(t, i, n, B, real)
        PROVE  SlotTypeOK' /\ DistinctQueues' /\ next_q <= next_q'
    <2>1. next_q \in 1..MaxId /\ n # None
      BY <1>2 DEF SlotTaken, SlotTypeOK
    <2>2. SlotTypeOK'
      BY <1>2, <2>1 DEF SlotTaken, SlotTypeOK
    <2>3. ASSUME NEW j \in Slots, NEW k \in Slots, qname'[j] # None, qname'[k] # None,
                 qname'[j] = qname'[k] \/ qid'[j] = qid'[k]
          PROVE  j = k
      <3>1. CASE j = i
        BY <1>2, <2>1, <2>3, <3>1 DEF SlotTaken, SlotTypeOK, DistinctQueues
      <3>2. CASE k = i
        BY <1>2, <2>1, <2>3, <3>2 DEF SlotTaken, SlotTypeOK, DistinctQueues
      <3>3. CASE j # i /\ k # i
        BY <1>2, <2>3, <3>3 DEF SlotTaken, SlotTypeOK, DistinctQueues
      <3> QED BY <3>1, <3>2, <3>3
    <2>4. \A u \in Clients : handle'[u] < next_q'
      BY <1>2, <2>1 DEF SlotTaken, SlotTypeOK, DistinctQueues
    <2>5. \A j \in Slots : qname'[j] # None => qid'[j] < next_q'
      BY <1>2, <2>1 DEF SlotTaken, SlotTypeOK, DistinctQueues
    <2>6. next_q <= next_q'
      BY <1>2, <2>1 DEF SlotTaken
    <2> QED BY <2>2, <2>3, <2>4, <2>5, <2>6 DEF DistinctQueues
  <1>3. CASE TableFull(t)
    <2>1. UNCHANGED <<slotVars, next_q>> /\ next_q \in Nat
      BY <1>3 DEF TableFull, SlotTypeOK
    <2>2. SlotTypeOK' /\ DistinctQueues'
      BY <1>3 DEF TableFull, slotVars, SlotTypeOK, DistinctQueues
    <2> QED BY <2>1, <2>2
  <1>4. \/ \E i \in Slots : SlotAdopted(t, i, n, B, real)
        \/ \E i \in Slots : SlotTaken(t, i, n, B, real)
        \/ TableFull(t)
    BY CreateCases, Zenon
  <1> QED BY <1>1, <1>2, <1>3, <1>4, Zenon

-----------------------------------------------------------------------------
(* The part of the type invariant that q_ident() has to itself.            *)
IdentTypeOK ==
    /\ op \in [Clients -> {"idle", "leading dot", "compound", "create", "mark"}]
    /\ addr \in [Clients -> Addresses \cup {NoAddress}]
    /\ found \in [Clients -> 0..MaxId]
    /\ Asking

LEMMA TableParts == (TableTypeOK /\ Asking) <=> (SlotTypeOK /\ IdentTypeOK)
  BY DEF TableTypeOK, SlotTypeOK, IdentTypeOK

LEMMA NextQ == SlotTypeOK => next_q \in Nat /\ 0 < next_q
  <1>1. ASSUME NEW k \in 1..MaxId + 1 PROVE k \in Nat /\ 0 < k
    BY IdBounds
  <1> QED BY <1>1 DEF SlotTypeOK

(* A lookup leaves the table as it is until it has to make a sink.         *)
LEMMA LookupStep ==
    ASSUME SlotTypeOK, IdentTypeOK, Finding, DistinctQueues, NEW t \in Clients,
           NEW a \in Addresses, NEW id \in 0..MaxId, id < next_q,
           NEW l \in {"leading dot", "compound", "create"},
           Return(t, id) \/ Proceed(t, l, a, id),
           UNCHANGED <<slotVars, next_q>>
    PROVE  SlotTypeOK' /\ IdentTypeOK' /\ Finding' /\ DistinctQueues'
  <1>0. 0 \in 0..MaxId /\ next_q \in Nat /\ 0 < next_q /\ next_q' = next_q
    BY IdBounds, NextQ
  <1>1. CASE Return(t, id)
    <2>1. SlotTypeOK'
      BY <1>1 DEF Return, Answer, slotVars, SlotTypeOK
    <2>2. IdentTypeOK'
      BY <1>0, <1>1 DEF Return, IdentTypeOK, Asking
    <2>3. Finding'
      <3> SUFFICES ASSUME NEW u \in Clients PROVE found'[u] < next_q'
        BY DEF Finding
      <3>1. found'[u] = found[u] \/ found'[u] = 0
        BY <1>1 DEF Return, IdentTypeOK
      <3>2. found[u] < next_q
        BY DEF Finding
      <3> QED BY <1>0, <3>1, <3>2
    <2>4. DistinctQueues'
      BY <1>1 DEF Return, Answer, slotVars, SlotTypeOK, DistinctQueues
    <2> QED BY <2>1, <2>2, <2>3, <2>4
  <1>2. CASE Proceed(t, l, a, id)
    <2>1. SlotTypeOK'
      BY <1>2 DEF Proceed, slotVars, SlotTypeOK
    <2>2. IdentTypeOK'
      BY <1>2 DEF Proceed, IdentTypeOK, Asking
    <2>3. Finding'
      BY IdBounds, <1>0, <1>2 DEF Proceed, IdentTypeOK, Finding
    <2>4. DistinctQueues'
      BY <1>2 DEF Proceed, slotVars, SlotTypeOK, DistinctQueues
    <2> QED BY <2>1, <2>2, <2>3, <2>4
  <1> QED BY <1>1, <1>2

(* Conclude(), with the id the lookup has.                                 *)
LEMMA ConcludeStep ==
    ASSUME SlotTypeOK, IdentTypeOK, Finding, DistinctQueues, NEW t \in Clients,
           NEW a \in Addresses, NEW id \in 0..MaxId, id < next_q,
           Conclude(t, a, id), UNCHANGED <<slotVars, next_q>>
    PROVE  SlotTypeOK' /\ IdentTypeOK' /\ Finding' /\ DistinctQueues'
  <1>1. Return(t, id) \/ Proceed(t, "create", a, id)
    BY DEF Conclude
  <1> QED BY <1>1, LookupStep

(* Every id a lookup finds was given out before.                           *)
LEMMA IdOfOld ==
    ASSUME SlotTypeOK, DistinctQueues, NEW n
    PROVE  IdOf(n) \in 0..MaxId /\ IdOf(n) < next_q
  <1>0. 0 \in 0..MaxId /\ 0 < next_q
    BY TableAssumption DEF SlotTypeOK
  <1>1. CASE SlotsNamed(n) = {}
    BY <1>0, <1>1 DEF IdOf
  <1>2. CASE SlotsNamed(n) # {}
    <2> DEFINE i == Min(SlotsNamed(n))
    <2>1. i \in Slots /\ IdOf(n) = qid[i]
      BY <1>2, FoundSlot DEF IdOf
    <2> HIDE DEF i
    <2> QED BY <1>0, <2>1 DEF SlotTypeOK, DistinctQueues
  <1> QED BY <1>1, <1>2

(* Every step preserves the types and the distinctness of the queues.      *)
LEMMA TableStep ==
    SlotTypeOK /\ IdentTypeOK /\ Finding /\ DistinctQueues /\ [TableNext]_tableVars
        => SlotTypeOK' /\ IdentTypeOK' /\ Finding' /\ DistinctQueues'
  <1> SUFFICES ASSUME SlotTypeOK, IdentTypeOK, Finding, DistinctQueues, [TableNext]_tableVars
               PROVE  SlotTypeOK' /\ IdentTypeOK' /\ Finding' /\ DistinctQueues'
    OBVIOUS
  <1> USE TableAssumption
  <1>1. CASE UNCHANGED tableVars
    BY <1>1 DEF tableVars, slotVars, identVars, SlotTypeOK, IdentTypeOK, Asking, Finding,
                DistinctQueues
  <1>2. ASSUME NEW t \in Clients, Q_create(t)
        PROVE  SlotTypeOK' /\ IdentTypeOK' /\ Finding' /\ DistinctQueues'
    <2>1. PICK n \in Names, B \in Masks : Create(t, n, B, TRUE)
      BY <1>2 DEF Q_create
    <2>2. SlotTypeOK' /\ DistinctQueues' /\ next_q <= next_q'
      BY <2>1, CreateStep
    <2>3. IdentTypeOK'
      BY <1>2 DEF Q_create, identVars, IdentTypeOK, Asking
    <2>4. Finding'
      <3>1. found' = found /\ next_q \in Nat /\ next_q' \in Nat
        BY <1>2, <2>2 DEF Q_create, identVars, SlotTypeOK
      <3> SUFFICES ASSUME NEW u \in Clients PROVE found'[u] < next_q'
        BY DEF Finding
      <3>2. found[u] < next_q /\ found[u] \in Nat
        BY IdBounds DEF Finding, IdentTypeOK
      <3> QED BY <2>2, <3>1, <3>2
    <2> QED BY <2>2, <2>3, <2>4
  <1>3. ASSUME NEW t \in Clients, Q_delete(t)
        PROVE  SlotTypeOK' /\ IdentTypeOK' /\ Finding' /\ DistinctQueues'
    <2>1. PICK i \in Slots : Free(i)
      BY <1>3 DEF Q_delete, SlotsOf, Used
    <2>2. UNCHANGED <<next_q, identVars, handle>>
      BY <1>3 DEF Q_delete
    <2>3. SlotTypeOK'
      BY <2>1, <2>2 DEF Free, SlotTypeOK
    <2>4. DistinctQueues'
      BY <2>1, <2>2 DEF Free, DistinctQueues, SlotTypeOK
    <2> QED BY <2>2, <2>3, <2>4 DEF identVars, IdentTypeOK, Asking, Finding
  <1>4. ASSUME NEW t \in Clients, Q_ident(t)
        PROVE  SlotTypeOK' /\ IdentTypeOK' /\ Finding' /\ DistinctQueues'
    <2>1. PICK a \in Addresses :
            \/ Conclude(t, a, IdOf(a.base))
            \/ Proceed(t, "leading dot", a, IdOf(a.base))
            \/ Proceed(t, "compound", a, IdOf(a.base))
      BY <1>4 DEF Q_ident
    <2>2. IdOf(a.base) \in 0..MaxId /\ IdOf(a.base) < next_q
      BY <2>1, IdOfOld
    <2> QED BY <1>4, <2>1, <2>2, LookupStep, ConcludeStep DEF Q_ident
  <1>5. ASSUME NEW t \in Clients, LeadingDot(t)
        PROVE  SlotTypeOK' /\ IdentTypeOK' /\ Finding' /\ DistinctQueues'
    <2> DEFINE a == addr[t]
               id == IdOf(a.rest)
    <2>1. a \in Addresses /\ found[t] \in 0..MaxId /\ found[t] < next_q
      BY <1>5 DEF LeadingDot, IdentTypeOK, Asking, Finding
    <2>2. CASE Conclude(t, a, found[t])
      BY <1>5, <2>1, <2>2, ConcludeStep DEF LeadingDot
    <2>3. CASE Return(t, id)
      <3>1. id \in 0..MaxId /\ id < next_q
        BY IdOfOld
      <3> QED BY <1>5, <2>1, <2>3, <3>1, LookupStep DEF LeadingDot
    <2> QED BY <1>5, <2>2, <2>3 DEF LeadingDot
  <1>6. ASSUME NEW t \in Clients, Compound(t)
        PROVE  SlotTypeOK' /\ IdentTypeOK' /\ Finding' /\ DistinctQueues'
    <2> DEFINE a == addr[t]
               real == {i \in SlotsNamed(a.rest) : ~ synth[i]}
    <2>1. a \in Addresses /\ found[t] \in 0..MaxId /\ found[t] < next_q
      BY <1>6 DEF Compound, IdentTypeOK, Asking, Finding
    <2>2. CASE Conclude(t, a, found[t])
      BY <1>6, <2>1, <2>2, ConcludeStep DEF Compound
    <2>3. CASE real # {} /\ Return(t, qid[Min(real)])
      <3>1. real \subseteq Slots /\ real \subseteq Nat
        BY DEF SlotsNamed, Slots
      <3>2. Min(real) \in Slots
        BY <2>3, <3>1, FirstSlot
      <3>3. qid[Min(real)] \in 0..MaxId /\ qid[Min(real)] < next_q
        BY <3>2 DEF SlotTypeOK, DistinctQueues
      <3> QED BY <1>6, <2>1, <2>3, <3>3, LookupStep DEF Compound
    <2> QED BY <1>6, <2>2, <2>3 DEF Compound
  <1>7. ASSUME NEW t \in Clients, MakeSink(t)
        PROVE  SlotTypeOK' /\ IdentTypeOK' /\ Finding' /\ DistinctQueues'
    <2>1. addr[t].base \in Names
      BY <1>7 DEF MakeSink, IdentTypeOK, Asking
    <2>2. SlotTypeOK' /\ DistinctQueues' /\ next_q <= next_q'
      BY <1>7, <2>1, CreateStep DEF MakeSink
    <2>3. IdentTypeOK'
      BY <1>7 DEF MakeSink, IdentTypeOK, Asking
    <2>4. Finding'
      <3>1. found' = found /\ next_q \in Nat /\ next_q' \in Nat
        BY <1>7, <2>2 DEF MakeSink, SlotTypeOK
      <3> SUFFICES ASSUME NEW u \in Clients PROVE found'[u] < next_q'
        BY DEF Finding
      <3>2. found[u] < next_q /\ found[u] \in Nat
        BY IdBounds DEF Finding, IdentTypeOK
      <3> QED BY <2>2, <3>1, <3>2
    <2> QED BY <2>2, <2>3, <2>4
  <1>8. ASSUME NEW t \in Clients, MarkSink(t)
        PROVE  SlotTypeOK' /\ IdentTypeOK' /\ Finding' /\ DistinctQueues'
    <2>1. handle' = handle
      BY <1>8 DEF MarkSink, Return, Answer, SlotTypeOK
    <2>2. SlotTypeOK'
      BY <1>8, <2>1 DEF MarkSink, SlotTypeOK
    <2>3. IdentTypeOK'
      BY IdBounds, <1>8 DEF MarkSink, Return, IdentTypeOK, Asking
    <2>4. Finding'
      <3> SUFFICES ASSUME NEW u \in Clients PROVE found'[u] < next_q'
        BY DEF Finding
      <3>1. found'[u] = found[u] \/ found'[u] = 0
        BY <1>8 DEF MarkSink, Return, IdentTypeOK
      <3>2. next_q' = next_q /\ 0 < next_q
        BY <1>8, IdBounds DEF MarkSink, SlotTypeOK
      <3> QED BY <3>1, <3>2 DEF Finding
    <2>5. DistinctQueues'
      BY <1>8, <2>1 DEF MarkSink, DistinctQueues
    <2> QED BY <2>2, <2>3, <2>4, <2>5
  <1> QED BY <1>1, <1>2, <1>3, <1>4, <1>5, <1>6, <1>7, <1>8 DEF TableNext, IdentStep

-----------------------------------------------------------------------------
\* What makes slot i an honest one.
SlotMarked(i) ==
    created[i] \/ synth[i] \/ \E t \in Clients : op[t] = "mark" /\ handle[t] = qid[i]

LEMMA MarkedIs == StandInsAreMarked <=> \A i \in Slots : qname[i] # None => SlotMarked(i)
  BY DEF StandInsAreMarked, SlotMarked, Used

(* A slot that q_create() touches is marked: by the guest's call itself,   *)
(* or because the lookup that made it is about to mark it.                 *)
LEMMA CreateMarks ==
    ASSUME SlotTypeOK, IdentTypeOK, \A i \in Slots : qname[i] # None => SlotMarked(i),
           NEW t \in Clients, NEW n, NEW B, NEW real \in BOOLEAN,
           Create(t, n, B, real), op[t] # "mark",
           IF real THEN op' = op ELSE op' = [op EXCEPT ![t] = "mark"],
           NEW i \in Slots, qname'[i] # None
    PROVE  SlotMarked(i)'
  <1>1. ASSUME NEW u \in Clients, op[u] = "mark" PROVE op'[u] = "mark" /\ u # t
    BY <1>1 DEF IdentTypeOK
  <1>2. real \/ op'[t] = "mark"
    BY DEF IdentTypeOK
  <1>3. ASSUME NEW k \in Slots, SlotAdopted(t, k, n, B, real) PROVE SlotMarked(i)'
    <2>1. CASE i = k
      BY <1>2, <1>3, <2>1 DEF SlotAdopted, Adopt, Answer, SlotTypeOK, SlotMarked
    <2>2. CASE i # k
      <3>1. SlotMarked(i) /\ UNCHANGED <<created[i], synth[i], qid[i]>>
        BY <1>3, <2>2 DEF SlotAdopted, Adopt, SlotTypeOK
      <3>2. \A u \in Clients : u # t => handle'[u] = handle[u]
        BY <1>3 DEF SlotAdopted, Adopt, Answer, SlotTypeOK
      <3> QED BY <1>1, <3>1, <3>2 DEF SlotMarked
    <2> QED BY <2>1, <2>2
  <1>4. ASSUME NEW k \in Slots, SlotTaken(t, k, n, B, real) PROVE SlotMarked(i)'
    <2>1. CASE i = k
      BY <1>2, <1>4, <2>1 DEF SlotTaken, SlotTypeOK, SlotMarked
    <2>2. CASE i # k
      <3>1. SlotMarked(i) /\ UNCHANGED <<created[i], synth[i], qid[i]>>
        BY <1>4, <2>2 DEF SlotTaken, SlotTypeOK
      <3>2. \A u \in Clients : u # t => handle'[u] = handle[u]
        BY <1>4 DEF SlotTaken, SlotTypeOK
      <3> QED BY <1>1, <3>1, <3>2 DEF SlotMarked
    <2> QED BY <2>1, <2>2
  <1>5. CASE TableFull(t)
    <2>1. SlotMarked(i) /\ UNCHANGED <<created, synth, qid>>
      BY <1>5 DEF TableFull, slotVars
    <2>2. \A u \in Clients : u # t => handle'[u] = handle[u]
      BY <1>5 DEF TableFull, SlotTypeOK
    <2> QED BY <1>1, <2>1, <2>2 DEF SlotMarked
  <1>6. \/ \E k \in Slots : SlotAdopted(t, k, n, B, real)
        \/ \E k \in Slots : SlotTaken(t, k, n, B, real)
        \/ TableFull(t)
    BY CreateCases, Zenon
  <1> QED BY <1>3, <1>4, <1>5, <1>6

(* No step leaves a slot behind that is neither a queue nor a marked       *)
(* stand-in.                                                               *)
LEMMA MarkStep ==
    ASSUME SlotTypeOK, IdentTypeOK, StandInsAreMarked, [TableNext]_tableVars
    PROVE  StandInsAreMarked'
  <1> SUFFICES ASSUME NEW i \in Slots, qname'[i] # None PROVE SlotMarked(i)'
    BY DEF StandInsAreMarked, SlotMarked, Used
  <1>0. \A k \in Slots : qname[k] # None => SlotMarked(k)
    BY MarkedIs
  <1>1. CASE UNCHANGED tableVars
    BY <1>0, <1>1 DEF tableVars, slotVars, identVars, SlotMarked
  <1>2. ASSUME NEW t \in Clients, Q_create(t) PROVE SlotMarked(i)'
    <2>1. PICK n \in Names, B \in Masks : Create(t, n, B, TRUE)
      BY <1>2 DEF Q_create
    <2>2. op[t] # "mark" /\ op' = op
      BY <1>2 DEF Q_create, identVars
    <2> QED BY <1>0, <2>1, <2>2, CreateMarks
  <1>3. ASSUME NEW t \in Clients, Q_delete(t) PROVE SlotMarked(i)'
    <2>1. PICK k \in Slots : Free(k)
      BY <1>3 DEF Q_delete, SlotsOf, Used
    <2>2. UNCHANGED <<op, handle>>
      BY <1>3 DEF Q_delete, identVars
    <2>3. i # k /\ qname[i] # None /\ UNCHANGED <<created[i], synth[i], qid[i]>>
      BY <2>1 DEF Free, SlotTypeOK
    <2> QED BY <1>0, <2>2, <2>3 DEF SlotMarked
  <1>4. ASSUME NEW t \in Clients, MakeSink(t) PROVE SlotMarked(i)'
    BY <1>0, <1>4, CreateMarks DEF MakeSink
  <1>5. ASSUME NEW t \in Clients, MarkSink(t) PROVE SlotMarked(i)'
    <2>1. handle' = handle /\ qname' = qname /\ qid' = qid /\ created' = created
      BY <1>5 DEF MarkSink, Return, Answer, SlotTypeOK
    <2>2. \A u \in Clients : u # t => op'[u] = op[u]
      BY <1>5 DEF MarkSink, Return, IdentTypeOK
    <2>3. synth'[i] <=> synth[i] \/ qid[i] = handle[t]
      BY <1>5, <2>1 DEF MarkSink, SlotsOf, Used
    <2>4. SlotMarked(i)
      BY <1>0, <2>1
    <2> QED BY <2>1, <2>2, <2>3, <2>4 DEF SlotMarked
  <1>6. ASSUME NEW t \in Clients, Q_ident(t) \/ LeadingDot(t) \/ Compound(t)
        PROVE  SlotMarked(i)'
    <2>1. op[t] # "mark" /\ UNCHANGED <<qname, qid, synth, created>>
      BY <1>6 DEF Q_ident, LeadingDot, Compound, slotVars
    <2>2. ASSUME NEW l, NEW a, NEW id, Return(t, id) \/ Proceed(t, l, a, id)
          PROVE  \A u \in Clients : u # t => op'[u] = op[u] /\ handle'[u] = handle[u]
      BY <2>2 DEF Return, Proceed, Answer, IdentTypeOK, SlotTypeOK
    <2>3. \E l, a, id : Return(t, id) \/ Proceed(t, l, a, id)
      BY <1>6 DEF Q_ident, LeadingDot, Compound, Conclude
    <2>4. \A u \in Clients : u # t => op'[u] = op[u] /\ handle'[u] = handle[u]
      BY <2>2, <2>3
    <2>5. SlotMarked(i)
      BY <1>0, <2>1
    <2> QED BY <2>1, <2>4, <2>5 DEF SlotMarked
  <1> QED BY <1>1, <1>2, <1>3, <1>4, <1>5, <1>6 DEF TableNext, IdentStep

-----------------------------------------------------------------------------
LEMMA TableIInvIs ==
    TableIInv <=> SlotTypeOK /\ IdentTypeOK /\ Finding /\ DistinctQueues /\ StandInsAreMarked
  BY TableParts, DistinctIs, Zenon DEF TableIInv

LEMMA TableIInvStep == TableIInv /\ [TableNext]_tableVars => TableIInv'
  <1> SUFFICES ASSUME TableIInv, [TableNext]_tableVars PROVE TableIInv'
    OBVIOUS
  <1>1. SlotTypeOK /\ IdentTypeOK /\ Finding /\ DistinctQueues /\ StandInsAreMarked
    BY TableIInvIs
  <1>2. SlotTypeOK' /\ IdentTypeOK' /\ Finding' /\ DistinctQueues'
    BY <1>1, TableStep
  <1>3. StandInsAreMarked'
    BY <1>1, MarkStep
  <1>4. OneQueuePerName'
    BY <1>2 DEF OneQueuePerName, DistinctQueues, Used
  <1>5. TableTypeOK' /\ Asking'
    BY <1>2 DEF TableTypeOK, SlotTypeOK, IdentTypeOK
  <1> QED BY <1>2, <1>3, <1>4, <1>5 DEF TableIInv

(* Notify bits change hands only where there were none: a slot that is     *)
(* taken or freed changes its id.                                          *)
LEMMA OwnerStep ==
    ASSUME SlotTypeOK, [TableNext]_tableVars, NEW i \in Slots,
           notify[i] # {}, qid'[i] = qid[i]
    PROVE  owner'[i] = owner[i] /\ notify'[i] = notify[i]
  <1> DEFINE Stays == owner'[i] = owner[i] /\ notify'[i] = notify[i]
  <1>1. ASSUME NEW t, NEW n, NEW B, NEW real, Create(t, n, B, real) PROVE Stays
    <2>1. ASSUME NEW k \in Slots, SlotAdopted(t, k, n, B, real) PROVE Stays
      BY <2>1 DEF SlotAdopted, Adopt, SlotTypeOK
    <2>2. ASSUME NEW k \in Slots, SlotTaken(t, k, n, B, real) PROVE Stays
      <3>1. qid[k] = 0 /\ qid'[k] = next_q /\ next_q # 0
        BY <2>2, NextQ DEF SlotTaken, SlotTypeOK
      <3>2. k # i
        BY <3>1
      <3> QED BY <2>2, <3>2 DEF SlotTaken, SlotTypeOK
    <2>3. CASE TableFull(t)
      BY <2>3 DEF TableFull, slotVars
    <2>4. \/ \E k \in Slots : SlotAdopted(t, k, n, B, real)
          \/ \E k \in Slots : SlotTaken(t, k, n, B, real)
          \/ TableFull(t)
      BY <1>1, CreateCases, Zenon
    <2> QED BY <2>1, <2>2, <2>3, <2>4
  <1>2. CASE UNCHANGED tableVars
    BY <1>2 DEF tableVars, slotVars
  <1>3. ASSUME NEW t \in Clients, Q_create(t) PROVE Stays
    BY <1>1, <1>3 DEF Q_create
  <1>4. ASSUME NEW t \in Clients, Q_delete(t) PROVE Stays
    <2>1. PICK k \in Slots : qname[k] # None /\ Free(k)
      BY <1>4 DEF Q_delete, SlotsOf, Used
    <2>2. k # i
      BY <2>1 DEF Free, SlotTypeOK
    <2> QED BY <2>1, <2>2 DEF Free, SlotTypeOK
  <1>5. ASSUME NEW t \in Clients, MakeSink(t) PROVE Stays
    BY <1>1, <1>5 DEF MakeSink
  <1>6. ASSUME NEW t \in Clients, Q_ident(t) \/ LeadingDot(t) \/ Compound(t) \/ MarkSink(t)
        PROVE  Stays
    BY <1>6 DEF Q_ident, LeadingDot, Compound, MarkSink, slotVars
  <1> QED BY <1>2, <1>3, <1>4, <1>5, <1>6 DEF TableNext, IdentStep

-----------------------------------------------------------------------------
(* The inductive invariant holds in every reachable state.                 *)
THEOREM TableInvariance == TableSpec => []TableIInv
  BY TableInitInv, TableIInvStep, PTL DEF TableSpec

(* The table of queues and the lookups keep their types.                   *)
THEOREM TableTyped == TableSpec => []TableTypeOK
  <1>1. TableIInv => TableTypeOK
    BY DEF TableIInv
  <1> QED BY <1>1, TableInvariance, PTL

(* However many tasks create, look up and delete queues at once, a name is *)
(* one queue and no id is given twice.                                     *)
THEOREM OneQueue == TableSpec => []OneQueuePerName
  <1>1. TableIInv => OneQueuePerName
    BY DEF TableIInv
  <1> QED BY <1>1, TableInvariance, PTL

(* What a lookup made is marked, or about to be.                           *)
THEOREM StandInsMarked == TableSpec => []StandInsAreMarked
  <1>1. TableIInv => StandInsAreMarked
    BY DEF TableIInv
  <1> QED BY <1>1, TableInvariance, PTL

(* Notifications registered for a queue are never diverted.                *)
THEOREM OwnerStays == TableSpec => NotifyOwnerStays
  <1>1. TableIInv /\ [TableNext]_tableVars
          => [\A i \in Slots :
                notify[i] # {} /\ qid'[i] = qid[i]
                    => owner'[i] = owner[i] /\ notify'[i] = notify[i]]_tableVars
    <2>1. TableIInv => SlotTypeOK
      BY TableIInvIs
    <2> QED BY <2>1, OwnerStep
  <1> QED BY <1>1, TableInvariance, PTL DEF TableSpec, NotifyOwnerStays
=============================================================================
