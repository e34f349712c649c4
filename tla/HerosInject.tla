----------------------------- MODULE HerosInject -----------------------------
(* Messages the runtime makes up: how they are built, and when the softkey  *)
(* activation is injected.                                                  *)
EXTENDS Integers, Sequences, SequencesExt

------------------------------------------------------------------------------
(* The messages the emulator makes up itself (heros_rtos.c, gm_str() to     *)
(* inject_fmload_set() and the acknowledgements): what the attribute        *)
(* serialiser writes is compared with a reader of the wire format.          *)
(* A message is a sequence of its 32-bit words and of the bytes of its      *)
(* texts; a word with the top bit set is written as a negative number.      *)

CONSTANTS GmTexts  \* texts that occur as arguments, sequences of bytes

\* An argument that may be NULL is a set of at most one value.
NoText    == {}
GmOpt   == {NoText} \cup {{s} : s \in GmTexts}
GmOnly(x) == CHOOSE v \in x : TRUE

GMC_STRING == \hE7
GMC_INT    == \h63
GMC_LIST   == \h18C
GMC_BOOL   == \hC6
GMC_UINT   == \h84
GMC_PTR    == \h1EF
GMC_ENUM_SUBSYS_TYPE   == \hC8014B
GMC_ENUM_SUBSYS_ACTION == \hCA004B

VARIABLE gmCall  \* the message built: its kind and the arguments

-----------------------------------------------------------------------------
gm_str(s)        == <<GMC_STRING, Len(s)>> \o s
gm_absent(code)  == <<-code>>
gm_scalar(code, v) == <<code, v>>
gm_int(v)        == gm_scalar(GMC_INT, v)
gm_list_empty(code)  == <<code, 0>>
gm_opt(s) == IF s = NoText THEN gm_absent(GMC_STRING) ELSE gm_str(GmOnly(s))

gm_build_fmloadprocess(procName, cmdOpts, imagePath, present) ==
    <<\hC80161>> \o gm_opt(procName) \o gm_opt(cmdOpts)
    \o gm_list_empty(GMC_LIST) \o gm_absent(GMC_STRING) \o gm_opt(imagePath)
    \o (IF present THEN gm_scalar(GMC_ENUM_SUBSYS_TYPE, 0) \o gm_int(0)
                   ELSE gm_absent(GMC_ENUM_SUBSYS_TYPE) \o gm_absent(GMC_INT))

gm_build_fmsubsystemaction(action, name, procedure) ==
    <<\hCA0060>> \o gm_scalar(GMC_ENUM_SUBSYS_ACTION, action) \o gm_opt(name)
    \o (IF procedure = {<<>>} THEN gm_absent(GMC_STRING) ELSE gm_opt(procedure))

gm_build_fmloadsubsystem(name, localNS, procName, imagePath, present) ==
    <<\hC80181>> \o gm_str(name) \o gm_str(localNS)
    \o gm_absent(GMC_STRING) \o gm_absent(GMC_ENUM_SUBSYS_TYPE)
    \o <<GMC_LIST, 1>> \o gm_build_fmloadprocess(procName, NoText, imagePath, present)
    \o gm_absent(GMC_INT)

\* The acknowledgements of connect requests; cid is the name of the client.
CfgClientIsConnected(cid) ==
    <<\h170100>> \o gm_str(cid) \o gm_absent(GMC_INT) \o gm_scalar(\h1700EB, 0)
EvtClientIsConnected == <<\h3200A0>> \o gm_int(0) \o gm_int(0) \o gm_int(0)
EvtAnsErrorRequest   == <<\h320601>> \o gm_scalar(\h3205EB, 1) \o gm_list_empty(GMC_LIST)

\* inject_peer_connect_ack: the reply and the fields of each peer; the pairs
\* are attributes, with a value or absent.  Axis 'C' grants only if it is told to.
PeerReply == [I |-> \h41A90080, P |-> \h12F0180, C |-> \h41CC05E1]
PeerFields(peer, grant) ==
    CASE peer = "I" -> <<<<\h1A9006B, NoText>>, <<\h63, NoText>>, <<\hE7, NoText>>, <<\h63, NoText>>>>
      [] peer = "P" -> <<<<\h12F0024, NoText>>, <<\h12F006B, NoText>>, <<\h84, NoText>>>>
      [] peer = "C" -> <<<<\h1C20503, NoText>>, <<\h1C20503, NoText>>,
                         <<\h1CC058B, IF grant THEN {1} ELSE NoText>>, <<\h1CC058B, NoText>>,
                         <<\h1AD, IF grant THEN {1} ELSE NoText>>, <<\hC6, NoText>>>>
PeerAck(peer, grant) ==
    FoldLeft(LAMBDA m, f : m \o (IF f[2] = NoText THEN gm_absent(f[1])
                                                ELSE gm_scalar(f[1], GmOnly(f[2]))),
             <<PeerReply[peer]>>, PeerFields(peer, grant))

\* The softkey flow that is posted if the wire files are missing; 13 is the handle.
SkMgrLogin(cli) ==
    <<\h28A0120>> \o gm_scalar(GMC_UINT, 0) \o gm_absent(GMC_PTR) \o gm_str(cli)
SkMgrSetMenu(spj) ==
    <<\h28A02C0>> \o gm_scalar(GMC_UINT, 13) \o gm_scalar(GMC_UINT, 0) \o gm_scalar(GMC_BOOL, 1)
    \o gm_str(spj) \o gm_scalar(\h28A006B, 4) \o gm_scalar(\h28A028B, 0) \o gm_scalar(\h28A00CB, 0)
SkMgrActivate ==
    <<\h28A0200>> \o gm_scalar(GMC_UINT, 1) \o gm_scalar(GMC_UINT, 13) \o gm_scalar(\h28A006B, 4)
    \o gm_scalar(\h28A004B, 1) \o gm_scalar(GMC_BOOL, 1) \o gm_scalar(\h28A00E0, 0)

\* CfgActiveHandwheel: its enumerations and lists are present, the rest is not.
HandwheelCodes == <<\hE7, \hE7, \h63, \h63, \h66008B, \h66008B, \h1AD, \hE7, \h1AD, \h66008B,
                    \h1AD, \h84, \h63, \h63, \h63, \h63, \h18C, \hA5, \h18C, \hA5>>
CfgActiveHandwheel ==
    FoldLeft(LAMBDA m, c : m \o (IF c \in {\h66008B, \h18C, \hA5} THEN gm_scalar(c, 0)
                                                                 ELSE gm_absent(c)),
             <<\h660801>>, HandwheelCodes)
GmBroadcastRegisterResp == <<\h43340280>> \o gm_absent(\h334020B) \o gm_absent(GMC_INT) \o gm_absent(GMC_INT)

-----------------------------------------------------------------------------
(* The reader, by the schema of a message: a field is its code and, for a   *)
(* list, the schema of an element.  A list is never absent; a text has its  *)
(* length.  What remains of the message is returned, or Bad.                *)

Bad == <<0>>
Plain(code) == [code |-> code, of |-> <<>>]
Fields(codes) == [i \in DOMAIN codes |-> Plain(codes[i])]

LoadProcess == Fields(<<GMC_STRING, GMC_STRING, GMC_LIST, GMC_STRING, GMC_STRING,
                        GMC_ENUM_SUBSYS_TYPE, GMC_INT>>)
Schema(type) ==
    CASE type = \hC80161 -> LoadProcess
      [] type = \hCA0060 -> Fields(<<GMC_ENUM_SUBSYS_ACTION, GMC_STRING, GMC_STRING>>)
      [] type = \hC80181 -> Fields(<<GMC_STRING, GMC_STRING, GMC_STRING, GMC_ENUM_SUBSYS_TYPE>>)
                            \o <<[code |-> GMC_LIST, of |-> LoadProcess]>> \o Fields(<<GMC_INT>>)
      [] type = \h170100 -> Fields(<<GMC_STRING, GMC_INT, \h1700EB>>)
      [] type = \h3200A0 -> Fields(<<GMC_INT, GMC_INT, GMC_INT>>)
      [] type = \h320601 -> Fields(<<\h3205EB, GMC_LIST>>)
      [] type = \h28A0120 -> Fields(<<GMC_UINT, GMC_PTR, GMC_STRING>>)
      [] type = \h28A02C0 -> Fields(<<GMC_UINT, GMC_UINT, GMC_BOOL, GMC_STRING, \h28A006B, \h28A028B, \h28A00CB>>)
      [] type = \h28A0200 -> Fields(<<GMC_UINT, GMC_UINT, \h28A006B, \h28A004B, GMC_BOOL, \h28A00E0>>)
      [] type = \h660801 -> Fields(HandwheelCodes)
      [] type = \h43340280 -> Fields(<<\h334020B, GMC_INT, GMC_INT>>)
      [] type = \h41A90080 -> Fields(<<\h1A9006B, GMC_INT, GMC_STRING, GMC_INT>>)
      [] type = \h12F0180 -> Fields(<<\h12F0024, \h12F006B, GMC_UINT>>)
      [] type = \h41CC05E1 -> Fields(<<\h1C20503, \h1C20503, \h1CC058B, \h1CC058B, \h1AD, GMC_BOOL>>)

Drop(m, n) == IF Len(m) < n THEN Bad ELSE SubSeq(m, n + 1, Len(m))

ReadPlain(m, f) ==
    CASE m = Bad \/ m = <<>> -> Bad
      [] Head(m) = -f.code /\ f.code # GMC_LIST -> Tail(m)
      [] Head(m) = f.code /\ Len(m) > 1 -> Drop(m, 2 + (IF f.code = GMC_STRING THEN m[2] ELSE 0))
      [] OTHER -> Bad
ReadElement(m, f) == IF m = Bad \/ m = <<>> THEN Bad ELSE FoldLeft(ReadPlain, Tail(m), f.of)
ReadField(m, f) ==
    IF f.of = <<>> THEN ReadPlain(m, f)
    ELSE IF Len(m) < 2 \/ Head(m) # f.code THEN Bad
    ELSE FoldLeft(LAMBDA r, k : ReadElement(r, f), Drop(m, 2), [k \in 1..m[2] |-> k])
ReadMessage(m) == FoldLeft(ReadField, Tail(m), Schema(Head(m)))

GmMessage(c) ==
    CASE c.kind = "process"   -> gm_build_fmloadprocess(c.a, c.b, c.c, c.flag)
      [] c.kind = "action"    -> gm_build_fmsubsystemaction(0, c.a, c.b)
      [] c.kind = "subsystem" -> gm_build_fmloadsubsystem(GmOnly(c.a), GmOnly(c.b), c.a, c.c, c.flag)
      [] c.kind = "connected" -> CfgClientIsConnected(GmOnly(c.a))
      [] c.kind = "peers"     -> PeerAck(c.peer, c.flag)
      [] c.kind = "login"     -> SkMgrLogin(GmOnly(c.a))
      [] c.kind = "menu"      -> SkMgrSetMenu(GmOnly(c.a))
      [] c.kind = "fixed"     -> <<EvtClientIsConnected, EvtAnsErrorRequest, SkMgrActivate,
                                   CfgActiveHandwheel, GmBroadcastRegisterResp>>[c.n]

GmInit == gmCall \in
    [kind : {"process", "action"}, a : GmOpt, b : GmOpt, c : GmOpt, flag : BOOLEAN]
    \cup [kind : {"subsystem"}, a : GmOpt \ {NoText}, b : GmOpt \ {NoText}, c : GmOpt, flag : BOOLEAN]
    \cup [kind : {"connected", "login", "menu"}, a : GmOpt \ {NoText}]
    \cup [kind : {"peers"}, peer : {"I", "P", "C"}, flag : BOOLEAN]
    \cup [kind : {"fixed"}, n : 1..5]
GmSpec == GmInit /\ [][UNCHANGED gmCall]_gmCall

\* A message is read to its end by the schema of its type, whatever arguments
\* are NULL or empty: no word is missing or left over, which the reader of the
\* control answers with a corrupted heap.
MessagesParse == ReadMessage(GmMessage(gmCall)) = <<>>

------------------------------------------------------------------------------
(* What q_send posts of its own accord on the way of a message, by calling  *)
(* q_send: the activation of a soft key (INJECT_SK_ACTIVATE) before the     *)
(* message is stored, and after it the synthetic state of the window        *)
(* manager (INJECT_WINMGR) and the programs to start (INJECT_FMLOAD) once a *)
(* process state goes to AppStartMaster.  A call inside q_send is a call    *)
(* like any other: it counts, and may post again.                           *)

CONSTANTS SaThreshold,  \* SK_ACT_THRESH, of information responses
          SaSettle      \* SK_ACT_LOGIN_SETTLE, of messages since the login

ASSUME InjectAssumption == SaThreshold \in Nat \ {0} /\ SaSettle \in Nat \ {0}

VARIABLES saUp,      \* Q_SkMgr or Q_SkMgrCtrl exists
          saScreen,  \* sk_act_screen is known
          saCount,   \* sk_act_count, up to the threshold
          saSeen,    \* sk_login_seen
          saSettled, \* sk_login_settle
          saFired,   \* sk_act_fired
          saStates,  \* winmgr_injected and fmload_injected
          saCalls,   \* the calls of q_send, the innermost first
          saPosted   \* what they have posted of their own accord

saVars == <<saUp, saScreen, saCount, saSeen, saSettled, saFired, saStates, saCalls, saPosted>>

SaInit == /\ saUp = FALSE /\ saScreen = FALSE /\ saCount = 0 /\ saSeen = FALSE
          /\ saSettled = 0 /\ saFired = FALSE /\ saStates = {} /\ saCalls = <<>>
          /\ saPosted = <<>>

SaMessages == {"menu", "info", "login", "state"}
SaCall(m)  == [m |-> m, at |-> "enter"]

\* A program sends a message, or creates the soft-key manager's queue.
SaSend(m) ==
    /\ saCalls = <<>> /\ saCalls' = <<SaCall(m)>>
    /\ UNCHANGED <<saUp, saScreen, saCount, saSeen, saSettled, saFired, saStates, saPosted>>

SaCreate ==
    /\ ~saUp /\ saUp' = TRUE
    /\ UNCHANGED <<saScreen, saCount, saSeen, saSettled, saFired, saStates, saCalls, saPosted>>

\* Mutant of SaFire: the flag is set when the call that posts is back.
SaFireLate == saFired' = (saFired \/ "activation" \in ToSet(saPosted)) /\ UNCHANGED saPosted

SaFire == saFired' = TRUE /\ saPosted' = Append(saPosted, "activation")

\* A screen is known, and enough answers, or enough messages since the login,
\* have passed; without a queue to post to the next message tries again.
SaGate == /\ saScreen' /\ saUp /\ ~saFired
          /\ saCount' >= SaThreshold \/ (saSeen' /\ saSettled' >= SaSettle)

\* Before the message is stored.
SaEnter ==
    /\ saCalls # <<>> /\ Head(saCalls).at = "enter"
    /\ LET m     == Head(saCalls).m
           after == [saCalls EXCEPT ![1].at = "stored"]
       IN /\ saScreen' = (saScreen \/ m = "menu")
          /\ saCount' = IF m = "info" /\ saCount < SaThreshold THEN saCount + 1 ELSE saCount
          /\ saSeen' = (saSeen \/ m = "login")
          /\ saSettled' = IF saSeen' /\ ~saFired /\ saSettled < SaSettle
                          THEN saSettled + 1 ELSE saSettled
          /\ IF SaGate
             THEN SaFire /\ saCalls' = <<SaCall("activation")>> \o after
             ELSE saCalls' = after /\ UNCHANGED <<saFired, saPosted>>
    /\ UNCHANGED <<saUp, saStates>>

\* After it: a process state is followed by the synthetic one, and either of
\* them by the programs to start.
SaStored ==
    /\ saCalls # <<>> /\ Head(saCalls).at = "stored"
    /\ LET left == {"winmgr", "fmload"} \ saStates
           next == IF "winmgr" \in left THEN "winmgr" ELSE "fmload"
       IN IF Head(saCalls).m \in {"state", "winmgr"} /\ left # {}
          THEN /\ saStates' = saStates \cup {next}
               /\ saPosted' = Append(saPosted, next)
               /\ saCalls' = <<SaCall(next)>> \o saCalls
          ELSE saCalls' = Tail(saCalls) /\ UNCHANGED <<saStates, saPosted>>
    /\ UNCHANGED <<saUp, saScreen, saCount, saSeen, saSettled, saFired>>

SaNext == (\E m \in SaMessages : SaSend(m)) \/ SaCreate \/ SaEnter \/ SaStored

SaSpec == SaInit /\ [][SaNext]_saVars

\* The calls of q_send inside q_send come to an end, and each thing is posted
\* at most once, although what is posted runs the same tests again: the
\* programs to start follow the window manager's state.
InjectsOnce ==
    /\ IsInjective(saPosted) /\ Len(saCalls) <= 4
    /\ "fmload" \in ToSet(saPosted) => "winmgr" \in ToSet(saPosted)
==============================================================================
