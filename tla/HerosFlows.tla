------------------------------ MODULE HerosFlows ------------------------------
(* What the emulator does in place of programs that are not there once      *)
(* certain queues exist: a thread of every process posts the login, the menu *)
(* and the activation of a soft key (sk_flow_thread_fn), another one hides   *)
(* the start-up picture, activates the window manager and brings a screen to *)
(* the foreground (wm_activate_thread_fn).  All processes are started with   *)
(* the same options; a word of the shared segment decides which of them does *)
(* it.                                                                       *)
EXTENDS Naturals, FiniteSets, Sequences, SequencesExt

CONSTANTS FlProcesses,  \* processes that run the threads
          FlPromHide,   \* INJECT_PROM_HIDE
          FlPromNotify, \* INJECT_PROM_ACTIVATE
          FlSelect,     \* WMACT_SELECT
          FlRounds,     \* 14, or 1 with WMACT_ONCE
          FlHold,       \* PROM_ACT_REMAP_HOLD
          FlFiles,      \* the wire files that can be read
          FlTries       \* how often a thread looks for a queue

ASSUME FlowAssumption ==
    /\ FlPromHide \in BOOLEAN /\ FlPromNotify \in BOOLEAN /\ FlSelect \in BOOLEAN
    /\ FlRounds \in Nat \ {0} /\ FlHold \in Nat /\ FlTries \in Nat \ {0}
    /\ FlFiles \subseteq {"login", "menu", "activate"}

FlQueues == {"skmgr", "viewer", "wmgr", "editor"}

VARIABLES flUp,      \* the queues that exist
          skPosted,  \* C->sk_flow_posted
          skTask,    \* the soft-key thread of each process
          skSent,    \* what the soft-key threads have posted
          waPosted,  \* C->wm_activate_posted
          waTask,    \* the window-manager thread of each process
          waSent     \* what the window-manager threads have posted

skVars == <<skPosted, skTask, skSent>>
waVars == <<waPosted, waTask, waSent>>
flVars == <<flUp, skVars, waVars>>

WaStart == [at |-> IF FlPromHide THEN "hide" ELSE "rounds",
            tries |-> 0, rounds |-> 0, claimed |-> FALSE]

FlInit ==
    /\ flUp = {} /\ skPosted = FALSE /\ waPosted = FALSE /\ skSent = <<>> /\ waSent = <<>>
    /\ skTask = [p \in FlProcesses |-> [at |-> "look", tries |-> 0, todo |-> <<>>]]
    /\ waTask = [p \in FlProcesses |-> WaStart]

\* A program creates its queue.
FlCreate(q) == /\ q \notin flUp /\ flUp' = flUp \cup {q}
               /\ UNCHANGED <<skVars, waVars>>

-----------------------------------------------------------------------------
(* The soft-key flow.                                                       *)

\* inject_sk_flow: the wire files; unless all three are there everything is
\* posted once more, in the form that is built in.
SkMessages ==
    LET all     == <<"login", "menu", "activate">>
        Wire(m) == IF m \in FlFiles THEN <<m>> ELSE <<>>
    IN Wire("login") \o Wire("menu") \o Wire("activate")
       \o (IF FlFiles = ToSet(all) THEN <<>> ELSE all)

\* Mutant of SkLook: the claim is made before the queue is there.
SkLookClaim(p) ==
    /\ skTask[p].at = "look"
    /\ skPosted' = TRUE
    /\ skTask' = [skTask EXCEPT ![p] =
          IF ~skPosted /\ "skmgr" \in flUp THEN [@ EXCEPT !.at = "post", !.todo = SkMessages]
                                           ELSE [@ EXCEPT !.at = "done"]]
    /\ UNCHANGED <<flUp, skSent, waVars>>

\* Every second the queue is looked for; the first process that finds it posts.
SkLook(p) ==
    LET t == skTask[p]
    IN /\ t.at = "look"
       /\ IF "skmgr" \in flUp
          THEN /\ skPosted' = TRUE
               /\ skTask' = [skTask EXCEPT ![p] =
                     IF skPosted THEN [t EXCEPT !.at = "done"]
                     ELSE [t EXCEPT !.at = "post", !.todo = SkMessages]]
          ELSE /\ skTask' = [skTask EXCEPT ![p] =
                     [t EXCEPT !.tries = @ + 1,
                               !.at = IF t.tries + 1 = FlTries THEN "done" ELSE "look"]]
               /\ UNCHANGED skPosted
       /\ UNCHANGED <<flUp, skSent, waVars>>

SkPost(p) ==
    LET todo == skTask[p].todo
    IN /\ skTask[p].at = "post"
       /\ skSent' = Append(skSent, [by |-> p, m |-> Head(todo)])
       /\ skTask' = [skTask EXCEPT ![p].todo = Tail(todo),
                                   ![p].at = IF Len(todo) = 1 THEN "done" ELSE "post"]
       /\ UNCHANGED <<flUp, skPosted, waVars>>

-----------------------------------------------------------------------------
(* The window manager's thread, phase by phase.                             *)

WaGo(p, t) == waTask' = [waTask EXCEPT ![p] = t]
WaTo(t, at) == [t EXCEPT !.at = at, !.tries = 0]
WaTell(p, ms) == waSent' = waSent \o [i \in DOMAIN ms |-> [by |-> p, m |-> ms[i]]]

\* post_wm_select_inline, twice: the window manager tells of a change only when
\* another screen was in front.
Selects(b) == IF b THEN <<"other", "target">> ELSE <<>>

\* Mutant of WaMay: a process that lost goes on.
WaMayAlways(t) == TRUE

\* The exchange on wm_activate_posted, unless this thread has won it before.
WaMay(t) == t.claimed \/ ~waPosted

\* post_prom_hide_startup, if the viewer comes up in time.
WaHide(p) ==
    LET t == waTask[p]
    IN /\ t.at = "hide"
       /\ IF "viewer" \notin flUp
          THEN /\ WaGo(p, IF t.tries + 1 = FlTries THEN WaTo(t, "rounds")
                          ELSE [t EXCEPT !.tries = @ + 1])
               /\ UNCHANGED <<waPosted, waSent>>
          ELSE /\ waPosted' = TRUE
               /\ IF WaMay(t)
                  THEN /\ WaGo(p, [WaTo(t, "rounds") EXCEPT !.claimed = TRUE])
                       /\ WaTell(p, <<"hide">>)
                  ELSE WaGo(p, WaTo(t, "done")) /\ UNCHANGED waSent
       /\ UNCHANGED <<flUp, skVars>>

WaAfterRounds == IF FlPromNotify THEN "claim" ELSE "done"

\* inject_wmgr_activate, some rounds of it.
WaRound(p) ==
    LET t    == waTask[p]
        last == t.tries + 1 = FlTries
    IN /\ t.at = "rounds"
       /\ IF "wmgr" \notin flUp
          THEN /\ WaGo(p, IF last THEN WaTo(t, WaAfterRounds) ELSE [t EXCEPT !.tries = @ + 1])
               /\ UNCHANGED <<waPosted, waSent>>
          ELSE /\ waPosted' = TRUE
               /\ IF WaMay(t)
                  THEN LET u == [t EXCEPT !.claimed = TRUE, !.rounds = @ + 1, !.tries = @ + 1]
                       IN /\ WaGo(p, IF last \/ u.rounds = FlRounds
                                     THEN WaTo(u, WaAfterRounds) ELSE u)
                          /\ WaTell(p, Selects(FlSelect) \o <<"activate">>)
                  ELSE WaGo(p, WaTo(t, "done")) /\ UNCHANGED waSent
       /\ UNCHANGED <<flUp, skVars>>

WaClaim(p) ==
    LET t == waTask[p]
    IN /\ t.at = "claim"
       /\ waPosted' = TRUE
       /\ WaGo(p, IF WaMay(t) THEN [WaTo(t, "notify") EXCEPT !.claimed = TRUE] ELSE WaTo(t, "done"))
       /\ UNCHANGED <<flUp, waSent, skVars>>

\* post_prom_activate_notify, if the editor comes up in time ...
WaNotify(p) ==
    LET t    == waTask[p]
        next == WaTo(t, IF FlSelect THEN "remap" ELSE "done")
    IN /\ t.at = "notify"
       /\ IF "editor" \in flUp
          THEN WaGo(p, next) /\ WaTell(p, <<"notify">>)
          ELSE /\ WaGo(p, IF t.tries + 1 = FlTries THEN next ELSE [t EXCEPT !.tries = @ + 1])
               /\ UNCHANGED waSent
       /\ UNCHANGED <<flUp, waPosted, skVars>>

\* ... and the screen once more, which is then held in front for a while.
WaRemap(p) ==
    LET t == waTask[p]
    IN /\ t.at = "remap"
       /\ IF "wmgr" \in flUp
          THEN /\ WaGo(p, WaTo(t, IF FlHold = 0 THEN "done" ELSE "hold"))
               /\ WaTell(p, Selects(TRUE))
          ELSE /\ WaGo(p, IF t.tries + 1 = FlTries THEN WaTo(t, "done")
                          ELSE [t EXCEPT !.tries = @ + 1])
               /\ UNCHANGED waSent
       /\ UNCHANGED <<flUp, waPosted, skVars>>

WaHold(p) ==
    LET t == waTask[p]
    IN /\ t.at = "hold"
       /\ WaTell(p, <<"target">> \o Selects(t.tries % 8 = 0))
       /\ WaGo(p, IF t.tries + 1 = FlHold THEN WaTo(t, "done") ELSE [t EXCEPT !.tries = @ + 1])
       /\ UNCHANGED <<flUp, waPosted, skVars>>

-----------------------------------------------------------------------------
WaStep(p) == WaHide(p) \/ WaRound(p) \/ WaClaim(p) \/ WaNotify(p) \/ WaRemap(p) \/ WaHold(p)

FlNext == \/ \E q \in FlQueues : FlCreate(q)
          \/ \E p \in FlProcesses : SkLook(p) \/ SkPost(p) \/ WaStep(p)

FlFairness == \A p \in FlProcesses : WF_flVars(SkLook(p) \/ SkPost(p)) /\ WF_flVars(WaStep(p))

FlSpec == FlInit /\ [][FlNext]_flVars /\ FlFairness

-----------------------------------------------------------------------------
\* However many processes run the threads, one of them posts the soft-key flow
\* and one acts for the window manager; when the flow is complete it ends with
\* the login, the menu and the activation in this order, whatever files there
\* were; and whenever another screen was brought to the foreground, the wanted one
\* was brought there after it.
OneProcessActs ==
    LET done == skSent # <<>> /\ \A p \in FlProcesses : skTask[p].at # "post"
        Messages(seq) == [i \in DOMAIN seq |-> seq[i].m]
    IN /\ \A sent \in {skSent, waSent} : Cardinality({r.by : r \in ToSet(sent)}) <= 1
       /\ done => IsSuffix(<<"login", "menu", "activate">>, Messages(skSent))
       /\ \A i \in DOMAIN waSent :
            waSent[i].m = "other" => \E j \in i..Len(waSent) : waSent[j].m = "target"

\* If the soft-key manager's queue is there while some process still looks for
\* it, the flow is posted: the claim is never made by a process that posts
\* nothing.  FlowDue leads to FlowPosted.
FlowDue    == "skmgr" \in flUp /\ \E p \in FlProcesses : skTask[p].at = "look"
FlowPosted == skSent # <<>>
=============================================================================
