------------------------------ MODULE HerosRunup ------------------------------
(***************************************************************************)
(* The run-up of ConfigServer in heros_rtos.c: the stub that answers for   *)
(* the hardware server, the two places that find the run-up complete, the  *)
(* marker the run scripts wait for, the UpdNewState posted then, and the   *)
(* record of the messages ConfigServer sent itself before, replayed after  *)
(* the first connect it reads.  All flags belong to ConfigServer's         *)
(* process; its threads share them without a lock.                         *)
(***************************************************************************)
EXTENDS Naturals, Sequences, FiniteSets

CONSTANTS
    RuPosters,      \* threads that send ConfigServer's messages to itself
    RuAskers,       \* threads that send GetData to QHWServer
    RuServer,       \* the dispatch thread, which serves CfgServerQueue
    RuClients,      \* processes launched when the marker is seen
    CFGQ_CAP,       \* 128: the records there are
    RuReread        \* HEROSCALL_INJECT_REREAD

ASSUME RunupAssumption ==
    /\ IsFiniteSet(RuPosters) /\ IsFiniteSet(RuAskers) /\ RuPosters \cap RuAskers = {}
    /\ RuServer \notin RuPosters \cup RuAskers
    /\ RuClients \cap (RuPosters \cup RuAskers \cup {RuServer}) = {}
    /\ CFGQ_CAP \in Nat /\ RuReread \in BOOLEAN

RuThreads == RuPosters \cup RuAskers \cup {RuServer}

VARIABLES
    replay_trigger, inject_upd,   \* the two gates, read from the environment
    runup_done, trigger_replayed, reread_injected, cfgq_n,
    cfgq_rec,       \* the records: a message, or "empty" as long as it is not filled
    hwserver_alive, \* set by the real hardware server
    marker,         \* RUNUP_COMPLETE was printed
    cfgq,           \* CfgServerQueue
    ruPc,           \* where a thread is
    ruAt,           \* the record a poster fills, the next one the server replays
    ruLog           \* history: everything that was put on CfgServerQueue

ruGates == <<replay_trigger, inject_upd>>
ruVars == <<ruGates, runup_done, trigger_replayed, reread_injected, cfgq_n, cfgq_rec,
            hwserver_alive, marker, cfgq, ruPc, ruAt, ruLog>>

RuInit ==
    /\ replay_trigger \in BOOLEAN /\ inject_upd \in BOOLEAN
    /\ runup_done = FALSE /\ trigger_replayed = FALSE /\ reread_injected = FALSE
    /\ cfgq_n = 0 /\ cfgq_rec = [i \in 0 .. CFGQ_CAP - 1 |-> "empty"]
    /\ hwserver_alive = FALSE /\ marker = FALSE
    /\ cfgq = <<>> /\ ruLog = <<>>
    /\ ruPc = [t \in RuThreads \cup RuClients |-> "start"]
    /\ ruAt = [t \in RuPosters \cup {RuServer} |-> 0]

RuGo(t, s) == ruPc' = [ruPc EXCEPT ![t] = s]
Put(m) == cfgq' = Append(cfgq, m) /\ ruLog' = Append(ruLog, m)

----------------------------------------------------------------------------
\* q_send() of a poster: the message is stored, recorded as long as the run-up
\* lasts, in a place that is reserved first and filled then.

RuPost(t) ==
    /\ t \in RuPosters /\ ruPc[t] = "start"
    /\ Put("self")
    /\ RuGo(t, IF replay_trigger THEN "check" ELSE "done")
    /\ UNCHANGED <<ruGates, runup_done, trigger_replayed, reread_injected, cfgq_n, cfgq_rec,
                   hwserver_alive, marker, ruAt>>

Reserve(t) ==
    /\ t \in RuPosters /\ ruPc[t] = "check"
    /\ IF runup_done THEN RuGo(t, "done") /\ UNCHANGED <<cfgq_n, ruAt>>
       ELSE /\ cfgq_n' = IF cfgq_n < CFGQ_CAP THEN cfgq_n + 1 ELSE CFGQ_CAP
            /\ ruAt' = [ruAt EXCEPT ![t] = cfgq_n]
            /\ RuGo(t, IF cfgq_n < CFGQ_CAP THEN "fill" ELSE "done")
    /\ UNCHANGED <<ruGates, runup_done, trigger_replayed, reread_injected, cfgq_rec,
                   hwserver_alive, marker, cfgq, ruLog>>

Fill(t) ==
    /\ t \in RuPosters /\ ruPc[t] = "fill"
    /\ cfgq_rec' = [cfgq_rec EXCEPT ![ruAt[t]] = "self"]
    /\ RuGo(t, "done")
    /\ UNCHANGED <<ruGates, runup_done, trigger_replayed, reread_injected, cfgq_n,
                   hwserver_alive, marker, cfgq, ruAt, ruLog>>

----------------------------------------------------------------------------
\* The end of the run-up: hws_autoreply() after a GetData the real server does
\* not take, or the dispatch thread's first wait for ever.

HwsAlive ==
    /\ ~ hwserver_alive /\ hwserver_alive' = TRUE
    /\ UNCHANGED <<ruGates, runup_done, trigger_replayed, reread_injected, cfgq_n, cfgq_rec,
                   marker, cfgq, ruPc, ruAt, ruLog>>

HwsAutoreply(t) ==
    /\ t \in RuAskers /\ ruPc[t] = "start"
    /\ IF hwserver_alive THEN RuGo(t, "done") /\ UNCHANGED runup_done
       ELSE RuGo(t, "mark") /\ runup_done' = TRUE
    /\ UNCHANGED <<ruGates, trigger_replayed, reread_injected, cfgq_n, cfgq_rec,
                   hwserver_alive, marker, cfgq, ruAt, ruLog>>

ServeLoop ==
    /\ ruPc[RuServer] = "start"
    /\ IF runup_done THEN RuGo(RuServer, "serve") /\ UNCHANGED runup_done
       ELSE RuGo(RuServer, "mark") /\ runup_done' = TRUE
    /\ UNCHANGED <<ruGates, trigger_replayed, reread_injected, cfgq_n, cfgq_rec,
                   hwserver_alive, marker, cfgq, ruAt, ruLog>>

RuAfter(t) == IF t = RuServer THEN "serve" ELSE "done"

Mark(t) ==
    /\ t \in RuThreads /\ ruPc[t] = "mark"
    /\ marker' = TRUE /\ RuGo(t, "reread")
    /\ UNCHANGED <<ruGates, runup_done, trigger_replayed, reread_injected, cfgq_n, cfgq_rec,
                   hwserver_alive, cfgq, ruAt, ruLog>>

\* post_inject_reread(): a plain flag is tested, set after the queue was looked
\* for, and followed by the message.
PostReread(t) ==
    /\ t \in RuThreads /\ ruPc[t] = "reread"
    /\ RuGo(t, IF RuReread /\ ~ reread_injected THEN "claim" ELSE RuAfter(t))
    /\ UNCHANGED <<ruGates, runup_done, trigger_replayed, reread_injected, cfgq_n, cfgq_rec,
                   hwserver_alive, marker, cfgq, ruAt, ruLog>>

ClaimReread(t) ==
    /\ t \in RuThreads /\ ruPc[t] = "claim"
    /\ reread_injected' = TRUE /\ RuGo(t, "load")
    /\ UNCHANGED <<ruGates, runup_done, trigger_replayed, cfgq_n, cfgq_rec,
                   hwserver_alive, marker, cfgq, ruAt, ruLog>>

PostLoad(t) ==
    /\ t \in RuThreads /\ ruPc[t] = "load"
    /\ Put("upd") /\ RuGo(t, RuAfter(t))
    /\ UNCHANGED <<ruGates, runup_done, trigger_replayed, reread_injected, cfgq_n, cfgq_rec,
                   hwserver_alive, marker, ruAt>>

----------------------------------------------------------------------------
\* A client is launched on the marker and connects.
RuConnect(c) ==
    /\ c \in RuClients /\ ruPc[c] = "start" /\ marker
    /\ Put("connect") /\ RuGo(c, "done")
    /\ UNCHANGED <<ruGates, runup_done, trigger_replayed, reread_injected, cfgq_n, cfgq_rec,
                   hwserver_alive, marker, ruAt>>

\* Mutant of AfterConnect: the flag that is set is not the one that is tested.
AfterConnectAgain ==
    IF ~ runup_done THEN "serve"
    ELSE IF replay_trigger THEN "replay"
    ELSE IF inject_upd THEN "upd" ELSE "serve"

\* What the read of a connect is followed by.
AfterConnect ==
    IF ~ runup_done \/ trigger_replayed THEN "serve"
    ELSE IF replay_trigger THEN "replay"
    ELSE IF inject_upd THEN "upd" ELSE "serve"

RuRead ==
    /\ ruPc[RuServer] = "serve" /\ cfgq # <<>>
    /\ cfgq' = Tail(cfgq)
    /\ LET next == IF Head(cfgq) = "connect" THEN AfterConnect ELSE "serve"
       IN  /\ RuGo(RuServer, next)
           /\ trigger_replayed' = (trigger_replayed \/ next # "serve")
    /\ UNCHANGED <<ruGates, runup_done, reread_injected, cfgq_n, cfgq_rec,
                   hwserver_alive, marker, ruAt, ruLog>>

Replay ==
    /\ ruPc[RuServer] = "replay"
    /\ IF ruAt[RuServer] < cfgq_n
       THEN /\ Put(cfgq_rec[ruAt[RuServer]])
            /\ ruAt' = [ruAt EXCEPT ![RuServer] = @ + 1] /\ UNCHANGED ruPc
       ELSE /\ RuGo(RuServer, "serve")
            /\ ruAt' = [ruAt EXCEPT ![RuServer] = 0] /\ UNCHANGED <<cfgq, ruLog>>
    /\ UNCHANGED <<ruGates, runup_done, trigger_replayed, reread_injected, cfgq_n, cfgq_rec,
                   hwserver_alive, marker>>

InjectUpd ==
    /\ ruPc[RuServer] = "upd"
    /\ Put("upd") /\ RuGo(RuServer, "serve")
    /\ UNCHANGED <<ruGates, runup_done, trigger_replayed, reread_injected, cfgq_n, cfgq_rec,
                   hwserver_alive, marker, ruAt>>

----------------------------------------------------------------------------
RuServe == ServeLoop \/ Mark(RuServer) \/ PostReread(RuServer) \/ ClaimReread(RuServer)
             \/ PostLoad(RuServer) \/ RuRead \/ Replay \/ InjectUpd

RuStep(t) == RuPost(t) \/ Reserve(t) \/ Fill(t) \/ HwsAutoreply(t)
               \/ (t \in RuAskers /\ (Mark(t) \/ PostReread(t) \/ ClaimReread(t) \/ PostLoad(t)))

RuNext == \/ HwsAlive \/ RuServe
          \/ \E t \in RuThreads : RuStep(t)
          \/ \E c \in RuClients : RuConnect(c)

RuFair == WF_ruVars(RuServe) /\ \A t \in RuThreads : WF_ruVars(RuStep(t))

RuSpec == RuInit /\ [][RuNext]_ruVars

Puts(m) == Cardinality({i \in DOMAIN ruLog : ruLog[i] = m})

(* The startup messages ConfigServer sent itself are replayed once at the  *)
(* most, however many clients connect and whatever is recorded meanwhile,  *)
(* and so is the state of INJECT_UPD, next to those of the run-up's ends.  *)
ReplaysOnce ==
    /\ Puts("self") + Puts("empty") <= Cardinality(RuPosters) + CFGQ_CAP
    /\ Puts("upd") <= Cardinality(RuAskers) + (IF inject_upd THEN 2 ELSE 1)

(* "Idempotent": both ends of the run-up post the state only once.  They do *)
(* not when a thread tests the flag before another one has set it.          *)
RereadOnce == ~ inject_upd => Puts("upd") <= 1

(* Whichever thread finds the run-up complete, and whoever overtakes it,   *)
(* the state that makes ConfigServer load its data is posted: LoadDue      *)
(* leads to LoadPosted.                                                    *)
LoadDue    == RuReread /\ Puts("upd") = 0
LoadPosted == Puts("upd") > 0

(* The comment at the marker: a coordinator waits for it "so ConfigServer's *)
(* run-up + the INJECT_REREAD config-data load complete BEFORE a client's   *)
(* messages arrive".                                                        *)
LoadBeforeClients ==
    RuReread => \A i \in DOMAIN ruLog : ruLog[i] = "connect" =>
                  \E j \in 1 .. i : ruLog[j] = "upd"
===============================================================================
