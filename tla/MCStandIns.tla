------------------------------ MODULE MCStandIns ------------------------------
(* Instances for TLC of what stands in for something that is missing: the   *)
(* answers the runtime gives for servers and the messages it makes up, the  *)
(* preloaded shims, and the recompiled libraries.  A behaviour is one of a  *)
(* single part; the parts without state try functions on one argument.      *)
EXTENDS HerosConnect, HerosRelay, HerosReply, HerosInject, HerosTrace,
        Shims, Dkomp, PlcLibs, TLC

CONSTANTS Parts, None
VARIABLES part, arg, head

-----------------------------------------------------------------------------
(* Values of the constants                                                  *)

\* "Client" embeds its queue's name and that of "a" in a longer text.
MCInside  == [q \in {"c"} |-> {"a", "c"}]
MCNameLen == [q \in {"a", "c"} |-> IF q = "a" THEN 1 ELSE 2]

MCRlProcess == [t \in {"b1", "b2", "b3", "cr"} |->
                  CASE t \in {"b1", "b2"} -> 1 [] t = "b3" -> 2 [] OTHER -> 3]

\* A chain after a stale word, one that is cut short, none, one at the end.
MCStacks == {<<6, 4, 0, 6, Return, 8, Return, 0, Return>>,
             <<2, 4, Return, 6, Return, 0, Return, 0, 0>>,
             <<0, 2, 2, Return, 0, 0, 0, 0, 0>>,
             <<9, 5, Return, 0, 8, Return, 0, 4, Return>>}

\* hwforce's places share pages, and two of them are far from the others.
MCSitesOf == "cfgfix" :> <<"full">> @@ "hwforce" :> <<"uses", "valid", "move1", "move2">>
MCSpan == "full" :> {1} @@ "uses" :> {11, 12} @@ "valid" :> {17, 18}
          @@ "move1" :> {13, 14} @@ "move2" :> {14, 15}
MCRegionOf == <<"r1", "r1", "r2">>

\* Families that find their containers under different slots.
MCSlot(f, s) == CASE f = "huelle" /\ s = 255 -> "c1"
                  [] f \in {"hilf", "rot3D"} /\ s = 0 -> "c1"
                  [] f = "box3D" /\ s = 0 -> "c2"
                  [] OTHER -> Null
MCEdges(s) == CASE s = 0   -> [container |-> "c1", start |-> 2, end |-> 3]
                [] s = 255 -> [container |-> "c2", start |-> 1, end |-> 4]
                [] OTHER   -> Null

Record(sel, zero, val) == [sel |-> sel, zero |-> zero, val |-> val]
File(magic, len, records, tblLen, codeSize) ==
    [exists |-> TRUE, magic |-> magic, length |-> len, codeOff |-> 150, codeSize |-> codeSize,
     tblOff |-> 80, tblLen |-> tblLen, records |-> records]

\* Tables with an entry twice, with an unknown and a foreign one, with one
\* that is not zero where it must be; a file that is too short, one of no
\* known version, and none.
MCPbFiles ==
    {File(200, 154, <<Record(0, 0, 9), Record(1, 0, 6), Record(0, 0, 7)>>, 66, 3),
     File(100, 152, <<Record(13, 0, 3), Record(-1, 0, 6), Record(35, 0, 7)>>, 50, 3),
     File(100, 154, <<Record(1, 0, 3), Record(2, 1, 6)>>, 44, 0),
     File(200, 44, <<>>, 0, 3), File(7, 154, <<>>, 0, 3),
     [File(200, 44, <<>>, 0, 3) EXCEPT !.exists = FALSE]}

MCGmTexts == {<<>>, <<1>>, <<2, 231>>}

Characters == {0, 4, 9, 38, 39, 40, 43, 46, 47, 64, 65, 90, 91, 92, 96, 97, 122, 123, 128,
               159, 255}
MCTexts ==
    [s : {<<>>, <<48, 48>>, <<37, 49, 48, 49>>, <<49, 32, 49, 50>>, <<239, 187, 191, 66>>,
          <<49, 49, 49, 49, 48, 49, 49, 49, 49, 49, 49>>}, c : {4}, v : {0}]
    \cup [s : {<<>>}, c : Characters, v : {0, 77, 255}]
    \cup [s : {<<>>}, c : {4}, v : -512 .. 511]

-----------------------------------------------------------------------------
(* The arguments of the classifiers, the tables and the geometry            *)

TagFlags == SUBSET {"safety", "referenced", "bit30", "absPos", "tested"}
MCTags ==
    [code : 0 .. 80, v : {3}, lo : {0}, hi : {9}, flags : {{}}]
    \cup [code : {1}, v : {3}, lo : {0}, hi : {9}, flags : TagFlags]
    \cup [code : {1}, v : {0, 1, 2, 5, 255, 256, 300, 511, 512, 800, 1023}, lo : {0},
          hi : {9}, flags : {{}}]
    \cup [code : 0 .. 9, v : {0, 3, 255, 300, 600, 1023}, lo : {0, 3, 700},
          hi : {9, 400, 900}, flags : {{}, {"sign"}}]

\* Around the ends of the tables, and every half millimetre in between.
MCLengths == {-10000, -1, 0, 1, 1999, 2001, 15999, 16009, 16010, 24995, 59999, 800000, 900000}
             \cup {500 * k : k \in 1 .. 200}

\* Inch threads whose depth rises with the diameter, fine ones of one depth.
MCCores == {[type |-> 9, cmp |-> [i \in 1 .. 20 |-> 800 * i], factor |-> 2, pitch |-> 1],
            [type |-> 15, cmp |-> [i \in 1 .. 27 |-> 600], factor |-> 6, pitch |-> 2]}

Ct == INSTANCE ControlTags
        WITH tag <- arg, length <- arg, Tags <- MCTags, Lengths <- MCLengths,
             Cores <- MCCores, NoRow <- None, Word <- 1024

\* A bare element, with one field or mark after the other changed.
Bare == [tag |-> 1, is |-> {}, def |-> {}, next |-> None, radius |-> 0, feed |-> 12,
          reversed |-> FALSE, start |-> "s", end |-> "e",
          coord |-> [m \in {14, 15, 21, 22} |-> {1, 7}]]
Coordinates == SUBSET {1, 2, 5, 8, 9}
MCElements ==
    {[Bare EXCEPT !.tag = t] : t \in 0 .. 21}
    \cup {[Bare EXCEPT !.is = m, !.radius = r] : m \in SUBSET {1, 3, 4, 5, 6, 12}, r \in {-2, 0, 1}}
    \cup {[Bare EXCEPT !.def = {15}, !.is = m, !.coord = [@ EXCEPT ![15] = c]] :
             m \in {{}, {15}}, c \in Coordinates}
    \cup {[Bare EXCEPT !.feed = n, !.reversed = TRUE] : n \in {0, 1, 9, 10, 19, 20, 255}}

Node(t, child, second, group) == [typ |-> t, child |-> child, second |-> second, group |-> group]
MCHeads == {Node(0, Node(t, Node(l, None, None, 0), None, 0), second, group) :
               t \in {0, 1, 21}, l \in {0, 6, 7, 11, 20, 58, 59},
               second \in {None, Node(1, None, None, 0)}, group \in {5, 6, 36}}

MCAngles == {100 * k + d : k \in 0 .. 15, d \in {0, 1}}
MCPoints == (-2 .. 2) \X (-2 .. 2)
MCSets == [a : MCAngles, b : MCAngles, p : {<<1, 2>>}, q : {<<0, 1>>}]
          \cup [a : {0, 101, 300}, b : {1}, p : MCPoints, q : MCPoints]

Geo == INSTANCE Geometry
        WITH geo <- arg, Angles <- MCAngles, Points <- MCPoints, Sets <- MCSets,
             Elements <- MCElements, Heads <- MCHeads

-----------------------------------------------------------------------------
(* The parts                                                                *)

\* The argument of a part without state.
ArgInit ==
    /\ IF part = "texts" THEN GmInit ELSE gmCall = None
    /\ IF part = "values" THEN TextInit ELSE text = None
    /\ CASE part = "tags"    -> Ct!TagInit /\ head = None
         [] part = "lengths" -> Ct!DinInit /\ head = None
         [] part = "figures" -> /\ Geo!GeoInit
                                /\ arg = Bare \/ head = Node(0, None, None, 0)
         [] part = "angles"  -> Geo!GmInit /\ head = None
         [] OTHER -> arg = None /\ head = None

\* The parts that do not move start in one state.
MCInit ==
    /\ part \in Parts
    /\ CnInit /\ RlInit /\ SaInit /\ SpInit /\ KInit /\ PbInit /\ StkInit
    /\ RpInit /\ (part # "replies" => ackOn)
    /\ TrInit /\ (part # "traces" => "t1" \in trLive)
    /\ PtInit /\ (part # "patches" => /\ \A x \in Patchers : image[x]
                                      /\ \A s \in Sites : code[s] = "old"
                                      /\ failing = {})
    /\ GfInit /\ (part # "files" => repaired /\ ill = 0 /\ dead)
    /\ FfInit /\ (part # "frees" => filter = "none" /\ inFred)
    /\ ArgInit

serverVars == <<cnVars, rlVars, rpVars, saVars, trVars>>
shimVars   == <<spVars, ptVars, gfVars, ffVars>>
libVars    == <<kvars, pbvars, stkvars>>
argVars    == <<part, gmCall, text, arg, head>>

ServerParts ==
    /\ UNCHANGED <<argVars, shimVars, libVars>>
    /\ \/ part = "connects" /\ CnNext /\ UNCHANGED <<rlVars, rpVars, saVars, trVars>>
       \/ part = "relay"    /\ RlNext /\ UNCHANGED <<cnVars, rpVars, saVars, trVars>>
       \/ part = "replies"  /\ RpNext /\ UNCHANGED <<cnVars, rlVars, saVars, trVars>>
       \/ part = "injects"  /\ SaNext /\ UNCHANGED <<cnVars, rlVars, rpVars, trVars>>
       \/ part = "traces"   /\ TrNext /\ UNCHANGED <<cnVars, rlVars, rpVars, saVars>>

ShimParts ==
    /\ UNCHANGED <<argVars, serverVars, libVars>>
    /\ \/ part = "spawns"  /\ SpNext /\ UNCHANGED <<ptVars, gfVars, ffVars>>
       \/ part = "patches" /\ PtNext /\ UNCHANGED <<spVars, gfVars, ffVars>>
       \/ part = "files"   /\ GfNext /\ UNCHANGED <<spVars, ptVars, ffVars>>
       \/ part = "frees"   /\ FfNext /\ UNCHANGED <<spVars, ptVars, gfVars>>

LibParts ==
    /\ UNCHANGED <<argVars, serverVars, shimVars>>
    /\ \/ part = "cursors"  /\ KStep   /\ UNCHANGED <<pbvars, stkvars>>
       \/ part = "binaries" /\ PbStep  /\ UNCHANGED <<kvars, stkvars>>
       \/ part = "stack"    /\ StkStep /\ UNCHANGED <<kvars, pbvars>>

MCNext == ServerParts \/ ShimParts \/ LibParts

MCSpec == MCInit /\ [][MCNext]_<<serverVars, shimVars, libVars, argVars>>

-----------------------------------------------------------------------------
(* A connect by the queue's own name is acknowledged, and once; the answer  *)
(* to an event error request comes when its counter is set (HerosConnect).  *)
ConnectsAnswered == NamedConnectAcked /\ OneAckPerConnect /\ AnswerAfterTarget

(* Nothing the runtime makes up is posted twice or malformed, and a trace   *)
(* shows the frames that are live (HerosInject, HerosTrace).                *)
MadeUpRight ==
    /\ InjectsOnce /\ ReportsLive
    /\ part = "texts" => MessagesParse

(* The shims patch, repair and withhold what they are for and nothing else  *)
(* (Shims).                                                                 *)
ShimsSafe == PatchedExactly /\ FilesSurvive /\ FreesFiltered

(* The libraries with state keep it: cursors on their lists, the place in   *)
(* the code of a binary, the values on the stack (Dkomp, PlcLibs).          *)
LibrariesKeep == DkompWalks /\ CodeExact /\ StackIsLifo

(* The leaves of the libraries do what their callers take them for          *)
(* (ControlTags, Geometry, PlcLibs).                                        *)
LeavesHold ==
    CASE part = "values"   -> LeavesAgree
      [] part = "binaries" -> InfoExact
      [] part = "tags"     -> Ct!TagsAgree
      [] part = "lengths"  -> Ct!TablesFound
      [] part = "figures"  -> Geo!GeoTagsAgree
      [] part = "angles"   -> Geo!GeometryHolds
      [] OTHER -> TRUE
=============================================================================
