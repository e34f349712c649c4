------------------------------ MODULE MCServices ------------------------------
(* Instances for TLC of what works on its own, beside the guest's calls: the *)
(* threads that post the soft-key and window-manager flows, winmgr's timers, *)
(* ConfigServer's run-up, the dispatcher behind the device shim and the      *)
(* helpers that lay windows out.  A behaviour is one of a single part.       *)
EXTENDS HerosFlows, HerosWm, HerosRunup, FakeDevices, WindowAids

CONSTANTS Parts, p, q, r, s, a, b, h, d
VARIABLE part

MCInit ==
    /\ part \in Parts
    /\ FlInit /\ WmInit /\ RuInit /\ FdInit /\ XwInit
    /\ part # "run-up" => replay_trigger /\ inject_upd

FlowPart   == /\ part = "flows" /\ FlNext
              /\ UNCHANGED <<part, wmVars, ruVars, fdVars, xwVars>>
WmgrPart   == /\ part = "winmgr" /\ WmNext
              /\ UNCHANGED <<part, flVars, ruVars, fdVars, xwVars>>
RunupPart  == /\ part = "run-up" /\ RuNext
              /\ UNCHANGED <<part, flVars, wmVars, fdVars, xwVars>>
DevicePart == /\ part = "devices" /\ FdNext
              /\ UNCHANGED <<part, flVars, wmVars, ruVars, xwVars>>
WindowPart == /\ part = "windows" /\ XwNext
              /\ UNCHANGED <<part, flVars, wmVars, ruVars, fdVars>>

MCNext == FlowPart \/ WmgrPart \/ RunupPart \/ DevicePart \/ WindowPart

MCSpec == MCInit /\ [][MCNext]_<<part, flVars, wmVars, ruVars, fdVars, xwVars>>

\* The variables of the part that moves, and its steps that the fairness of
\* its module is about, at most eleven.
Moving == CASE part = "flows"   -> flVars
            [] part = "winmgr"  -> wmVars
            [] part = "run-up"  -> ruVars
            [] part = "devices" -> fdVars
            [] part = "windows" -> xwVars

FairStep(k) ==
    /\ UNCHANGED part
    /\ CASE part = "flows" ->
              (CASE k = 1 -> SkLook(p) \/ SkPost(p) [] k = 2 -> SkLook(q) \/ SkPost(q)
                 [] k = 3 -> WaStep(p)              [] k = 4 -> WaStep(q)
                 [] OTHER -> FALSE)
         [] part = "winmgr" ->
              (CASE k = 1 -> WmReceive(r) [] k = 2 -> WmPoll(r) [] k = 3 -> WmStart(r)
                 [] k = 4 -> WmTick(r)    [] k = 5 -> WmEnter(s) \/ WmShift(s) \/ WmStore(s)
                 [] k = 6 -> WmPeriod     [] k = 7 -> WmSettle
                 [] k = 8 -> WmServe("connect") [] k = 9 -> WmServe("screens")
                 [] k = 10 -> WmServe("sync")   [] k = 11 -> WmServe("area"))
         [] part = "run-up" ->
              (CASE k = 1 -> RuServe [] k = 2 -> RuStep(a) [] k = 3 -> RuStep(b)
                 [] k = 4 -> RuStep(h) [] k = 5 -> RuStep(d) [] OTHER -> FALSE)
         [] part = "devices" -> k = 1 /\ Elapse
         [] part = "windows" ->
              (CASE k = 1 -> EmbedPass [] k = 2 -> BarPass [] k = 3 -> AdoptPass
                 [] OTHER -> FALSE)

MCFairSpec == MCSpec /\ \A k \in 1..11 : WF_Moving(FairStep(k))

Due == CASE part = "flows"   -> FlowDue
         [] part = "winmgr"  -> TickDue
         [] part = "run-up"  -> LoadDue
         [] part = "devices" -> Notified
         [] part = "windows" -> ~ Placed

Came == CASE part = "flows"   -> FlowPosted
          [] part = "winmgr"  -> TickCame
          [] part = "run-up"  -> LoadPosted
          [] part = "devices" -> ~ Notified
          [] part = "windows" -> Placed

(* What somebody waits for comes: the soft-key flow once the manager is     *)
(* there, the tick of an armed timer, ConfigServer's data load, the end of  *)
(* a select() with a notification, and every window's place (the named      *)
(* conditions are of HerosFlows, HerosWm, HerosRunup, FakeDevices,          *)
(* WindowAids).                                                             *)
DueComes == Due ~> Came
(* A message on behalf of every process is posted by one of them, and once  *)
(* (HerosFlows, HerosRunup).                                                *)
PostedOnce == OneProcessActs /\ ReplaysOnce

(* The serial numbers of the window manager's messages have no gap, and the *)
(* table of its timers is what its clients asked for (HerosWm).             *)
WmAgrees == WmSerialsContiguous /\ WmTimersAgree
=============================================================================
