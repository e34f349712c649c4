----------------------------- MODULE HerosConnect -----------------------------
(* The answers the emulator injects for servers that are not there, after   *)
(* q_send has stored a request: the acknowledgement of a connect, remembered*)
(* per reply queue so that a request sent again is not answered twice, and  *)
(* forgotten on a disconnect; the answers of peers, remembered per peer;    *)
(* and the answer to an event error request, held back until the client has *)
(* read the configuration it depends on.  The tables belong to a process.   *)
EXTENDS Naturals, Sequences, SequencesExt, FiniteSetsExt

CONSTANTS Replies,    \* the reply queues of a process
          Embedding,  \* those whose clients embed the name in a longer text
          Inside,     \* Inside[q]: the queues whose names occur in q's text
          NameLen,    \* NameLen[q]: the length of a queue's name
          Notifying,  \* the queues with a notification
          HrMmi,      \* QueueHrMmi
          Peers,      \* the peers P[] has an answer for
          AckSlots,   \* entries of acked_qids, evt_acked_qids and peer_acked
          MaxAcks,    \* bound on the acknowledgements a client leaves unread
          MaxAnswers  \* limit on EvtAnsErrorRequest and GmBroadcastRegisterResp

ASSUME ConnectAssumption ==
    /\ IsFiniteSet(Replies) /\ Embedding \subseteq Replies /\ HrMmi \in Replies
    /\ Peers \cap {"cfg", "evt"} = {}
    /\ \A q \in Embedding : Inside[q] \subseteq Replies /\ Inside[q] # {}
    /\ AckSlots \in Nat \ {0} /\ MaxAcks \in Nat /\ MaxAnswers \in Nat

Servers == {"cfg", "evt"} \cup Peers

VARIABLES cnTable,    \* the queues answered, for "cfg", "evt" and the peers
          cnClient,   \* cnClient[s][q]: "closed", "asked" or "open"
          cnAcks,     \* cnAcks[s][q]: the acknowledgements on q not yet read
          cnDeferred, \* deferred_evterr_rqid, as a set of at most one queue
          cnAnswers,  \* n_evterr_replied
          cnHandwheel,\* active_hw_done
          cnTarget,   \* the client has read HrMmiCfgGlobal
          cnResponses \* cnResponses[q]: the GmBroadcastRegisterResp posted to q

cnVars == <<cnTable, cnClient, cnAcks, cnDeferred, cnAnswers, cnHandwheel, cnTarget,
            cnResponses>>
cnError == <<cnDeferred, cnAnswers, cnHandwheel, cnTarget>>

CnInit ==
    /\ cnTable = [table \in {"cfg", "evt", "peer"} |-> <<>>]
    /\ cnClient = [s \in Servers |-> [q \in Replies |-> "closed"]]
    /\ cnAcks = [s \in Servers |-> [q \in Replies |-> 0]]
    /\ cnDeferred = {} /\ cnAnswers = 0 /\ cnHandwheel = FALSE /\ cnTarget = FALSE
    /\ cnResponses = [q \in Replies |-> 0]

\* The peers share a table, in which an entry is a queue and the peer.
TableOf(s) == IF s \in Peers THEN "peer" ELSE s
Key(s, q)  == IF s \in Peers THEN <<q, s>> ELSE q
Known(s, q) == Key(s, q) \in ToSet(cnTable[TableOf(s)])

Longest(qs) == CHOOSE q \in qs : \A r \in qs : NameLen[r] <= NameLen[q]

\* The name in a connect is looked for among the queues; if none has it, the
\* queue with the longest name that occurs in the text is taken, one with a
\* notification before one without.
Resolve(q) == IF q \notin Embedding THEN q
              ELSE Longest(IF Inside[q] \cap Notifying # {} THEN Inside[q] \cap Notifying
                           ELSE Inside[q])

\* Mutant of Answer: a queue known already is answered again.
AnswerAlways(s, q) ==
    /\ cnTable' = [cnTable EXCEPT ![TableOf(s)] = IF Len(@) < AckSlots THEN Append(@, Key(s, q)) ELSE @]
    /\ cnAcks' = [cnAcks EXCEPT ![s][q] = @ + 1]

\* A full table takes no more queues, and answers them every time.
Answer(s, q) ==
    IF Known(s, q) THEN UNCHANGED <<cnTable, cnAcks>>
    ELSE /\ cnTable' = [cnTable EXCEPT ![TableOf(s)] =
                            IF Len(@) < AckSlots THEN Append(@, Key(s, q)) ELSE @]
         /\ cnAcks' = [cnAcks EXCEPT ![s][q] = @ + 1]

\* inject_connect_ack, inject_evt_connect_ack and inject_peer_connect_ack: a
\* client connects, or sends its request again while it waits.
Connect(s, q) ==
    /\ cnClient[s][q] # "open" /\ cnAcks[s][Resolve(q)] < MaxAcks
    /\ Answer(s, Resolve(q))
    /\ cnClient' = [cnClient EXCEPT ![s][q] = "asked"]
    /\ UNCHANGED <<cnError, cnResponses>>

\* Acknowledgements of a request that was sent again are read and ignored.
ReadAck(s, q) ==
    /\ cnAcks[s][q] > 0
    /\ cnAcks' = [cnAcks EXCEPT ![s][q] = @ - 1]
    /\ cnClient' = [cnClient EXCEPT ![s][q] = IF @ = "asked" THEN "open" ELSE @]
    /\ UNCHANGED <<cnTable, cnError, cnResponses>>

\* Mutant of Forget: nothing takes the place, the last entry is dropped.
ForgetLast(tab, q) == IF q \in ToSet(tab) THEN Front(tab) ELSE tab

\* The last entry takes the place of the one that goes.
Forget(tab, q) ==
    LET i == CHOOSE i \in DOMAIN tab : tab[i] = q
    IN IF q \in ToSet(tab) THEN Front([tab EXCEPT ![i] = Last(tab)]) ELSE tab

\* inject_forget_ack: a client of the configuration server disconnects.  The
\* queue is the one with exactly the name the client gives; there is no
\* search for a name embedded in it.
Disconnect(q) ==
    /\ cnClient["cfg"][q] = "open"
    /\ cnClient' = [cnClient EXCEPT !["cfg"][q] = "closed"]
    /\ cnTable' = IF q \in Embedding THEN cnTable
                  ELSE [cnTable EXCEPT !["cfg"] = Forget(@, q)]
    /\ UNCHANGED <<cnAcks, cnError, cnResponses>>

-----------------------------------------------------------------------------
\* post_evt_ans_error, which adds the active handwheel to the first answer.
PostAnswer ==
    IF cnAnswers < MaxAnswers
    THEN cnAnswers' = cnAnswers + 1 /\ cnHandwheel' = TRUE
    ELSE UNCHANGED <<cnAnswers, cnHandwheel>>

\* Mutant of EvtErrorRequest: the answer is not held back.
EvtErrorRequestNow ==
    /\ cnTable["evt"] # <<>>
    /\ PostAnswer
    /\ UNCHANGED <<cnTable, cnClient, cnAcks, cnTarget, cnDeferred, cnResponses>>

\* inject_evt_error_reply: the answer is for the queue that connected first,
\* and a second request replaces the one that is held back.
EvtErrorRequest ==
    /\ cnTable["evt"] # <<>>
    /\ cnDeferred' = {Head(cnTable["evt"])}
    /\ UNCHANGED <<cnTable, cnClient, cnAcks, cnAnswers, cnHandwheel, cnTarget, cnResponses>>

\* q_read returns HrMmiCfgGlobal, which sets the client's target, and lets the
\* answer go.
ReadCfgGlobal ==
    /\ cnTarget' = TRUE
    /\ IF cnDeferred # {} THEN PostAnswer ELSE UNCHANGED <<cnAnswers, cnHandwheel>>
    /\ cnDeferred' = {}
    /\ UNCHANGED <<cnTable, cnClient, cnAcks, cnResponses>>

\* inject_broadcast_register_reply: of names that occur in the text only those
\* of queues with a notification count, and QueueHrMmi has to do without.
BroadcastRegister(q) ==
    LET called == IF q \notin Embedding THEN {q} ELSE Inside[q] \cap Notifying
        to     == IF called = {} THEN HrMmi ELSE Longest(called)
    IN /\ MapThenSumSet(LAMBDA r : cnResponses[r], Replies) < MaxAnswers
       /\ cnResponses' = [cnResponses EXCEPT ![to] = @ + 1]
       /\ UNCHANGED <<cnTable, cnClient, cnAcks, cnError>>

CnNext == \/ \E s \in Servers, q \in Replies : Connect(s, q) \/ ReadAck(s, q)
          \/ \E q \in Replies : Disconnect(q) \/ BroadcastRegister(q)
          \/ EvtErrorRequest \/ ReadCfgGlobal

CnSpec == CnInit /\ [][CnNext]_cnVars

-----------------------------------------------------------------------------
Waiting(q) == cnClient["cfg"][q] = "asked" /\ cnAcks["cfg"][q] = 0

\* A client of the configuration server that waits for its connect to be
\* acknowledged finds the acknowledgement on its queue, on the first connect
\* and on every one after a disconnect ("so the next connect is acked again").
ConnectAcked == \A q \in Replies : ~Waiting(q)

\* The same, for clients that give just the name of their queue.
NamedConnectAcked == \A q \in Replies \ Embedding : ~Waiting(q)

\* With room for every queue in the table, an acknowledgement that waits to be
\* read is the only one: neither a request sent again nor the disconnect of
\* another client brings a second.
OneAckPerConnect ==
    Cardinality(Replies) <= AckSlots => \A q \in Replies : cnAcks["cfg"][q] <= 1

\* The answer to an event error request drains the client's last counter, so
\* it must not come before the target is set, which happens only once.
AnswerAfterTarget == cnAnswers > 0 => cnTarget
=============================================================================
