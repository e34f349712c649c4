----------------------------- MODULE ControlTags -----------------------------
(* The recompiled libraries that classify a code or look a row up.          *)
EXTENDS Integers, Sequences, FiniteSets, FiniteSetsExt

------------------------------------------------------------------------------
(* The classifiers and accessors of the control libraries that read one    *)
(* field: error classes (errplib), products (libProductId), axis states    *)
(* (qsipo), drilling tools (bohrcyc), input types (libhdhinput), image     *)
(* headers (bmx), window handles (winmgr), values (libtncMetaValue).  A    *)
(* word has the width given; a word of flags is the set of its bits.       *)

CONSTANTS
    Tags,          \* the arguments tried: a code and a word v, a byte b,
                   \* bounds lo and hi, and flags
    Word           \* 2^32 of the code, a multiple of 2^8

VARIABLE tag       \* the arguments the leaves are tried on

Signed(v) == IF v >= Word \div 2 THEN v - Word ELSE v

\* setcc writes the low byte of the register only: the rest of e leaks.
Leak(e, hit) == ((e % Word) \div 256) * 256 + (IF hit THEN 1 ELSE 0)

\* What a caller that tests the bool sees of it.
AsBool(u) == u % 256 # 0

----------------------------------------------------------------------------
\* errplib.

ERR_IsSystemWarning(cls) == cls = 2
ERR_IsInternWarning(cls, flag) == cls = 1 /\ flag % 256 # 0
ERR_IsExternWarning(cls, flag) == cls = 1 /\ flag % 256 = 0
ERR_IsUserWarning(cls) == cls = 1
ERR_IsWarning(cls) == Leak(cls - 1, (cls - 1) % Word <= 1)

ERR_IsSystemError(cls) == cls = 4
ERR_IsInternError(cls, flag) == cls = 3 /\ flag % 256 # 0
ERR_IsExternError(cls, flag) == cls = 3 /\ flag % 256 = 0
ERR_IsUserError(cls) == cls = 3
ERR_IsError(cls) == Leak(cls - 3, (cls - 3) % Word <= 1)

\* The upper half of the entries of the table that are not zero.
FacilityAt(i) ==
    CASE i = 0 -> 12 [] i = 9 -> 5 [] i = 11 -> 82
      [] i \in 46 .. 61 -> <<80, 0, 10, 2, 11, 1, 7, 8, 15, 16, 6, 3, 9, 4, 33, 21>>[i - 45]
      [] i \in 63 .. 65 -> <<85, 86, 14>>[i - 62]
      [] i \in 67 .. 71 -> <<6, 6, 6, 13, 18>>[i - 66]
      [] OTHER -> -1

\* -1 stands for the 0 of an unknown number, n for 0x06nn0000.
ERRPLIB_GetFacilityID(errnum) ==
    IF (errnum - 4) % Word > 71 THEN -1 ELSE FacilityAt((errnum - 4) % Word)

\* libProductId, from the control mark.
IsTurningProduct(info) == (info - 11) % Word < 2
IsCncPilotProduct(info) == info = 12
IsManualPlusProduct(info) == info = 11
IsMillTurnProduct(info) == info \in {16, 22}
IsAnalogProduct(info) == (info - 6) % Word < 3
IsTNC7Generation(info) == info \notin {0, 6, 7, 8, 11, 12, 14, 16, 20, 26, 27}

\* Mutant of doesAxisRequireChecking: an axis tested already is asked for.
doesAxisRequireCheckingAgain(f) ==
    {"safety", "referenced", "bit30", "absPos"} \subseteq f

\* qsipo: the flags of an axis, bits 31, 28, 30 and 29 of the first word and
\* bit 27 of the second.
doesAxisRequireChecking(f) ==
    {"safety", "referenced", "bit30", "absPos"} \subseteq f /\ "tested" \notin f

hasAxisBeenChecked(f) == {"safety", "referenced", "tested", "absPos"} \subseteq f

\* bohrcyc: the tool type and the driven tools.
BCYC_Typisiere_Werkzeug(v) == <<Signed(v) \div 256, (v \div 16) % 16>>

BCYC_Angetr_Werkz(b) ==
    LET e == Leak(b - 1, (b - 1) % 256 <= 1)
    IN  IF b = 5 THEN 2 * (e \div 2) + 1 ELSE e

----------------------------------------------------------------------------
\* libhdhinput: the descriptor has a type code t, flags and two bounds.

type_active(t) == t \in 1 .. 6 \/ t = 8
get_pzt_vorz(t, f) == type_active(t) /\ "sign" \in f
get_pzt_export(t, f) == type_active(t) /\ "export" \in f
get_pzt_feed(t, f) == t \in 1 .. 5 /\ "feed" \in f
get_pzt_mm_inch(t, f) == t \in {2, 3} /\ "inch" \in f
get_pzt_hex(t) == t \in {1, 4}
get_pzt_float(t) == t = 3

\* The digits before or after the point, by the unit.
get_pzt_komma(t, mode, mm, inch) ==
    IF ~type_active(t) THEN 0 ELSE IF mode = 0 THEN mm ELSE inch

\* The payload for a string, all ones for a number, zeros for the rest.
get_pzt_perm(t) ==
    IF t = 0 THEN "payload" ELSE IF type_active(t) THEN "ones" ELSE "zeros"

\* A character of a set of the 96 printable ones.
check_zt_char(set, c) == c \in 32 .. 127 /\ c - 32 \in set

CheckMinMax(v, lo, hi, t, f) ==
    IF get_pzt_vorz(t, f)
    THEN Signed(lo) <= Signed(v) /\ Signed(v) <= Signed(hi)
    ELSE lo <= v /\ v <= hi

\* Bit 30 of the magnitude; one up when negative.
xf_clear_bit30(v) ==
    LET quarter == Word \div 4
        Clear(m) == IF (m \div quarter) % 2 = 1 THEN m - quarter ELSE m
    IN  IF v < Word \div 2 THEN Clear(v) ELSE (-Clear(Word - v)) % Word

xf_inc_if_neg(v) == IF v >= Word \div 2 THEN (v + 1) % Word ELSE v

check_pzt_range(v, lo, hi, t, f) ==
    CASE t \in {0, 7} -> FALSE
      [] t \in {1, 2, 4, 5} -> CheckMinMax(v, lo, hi, t, f)
      [] t = 3 -> CheckMinMax(xf_clear_bit30(v), lo, hi, t, f)
      [] t = 6 -> CheckMinMax(xf_inc_if_neg(v), lo, hi, t, f)
      [] t = 8 -> v = 255 \/ (v + 1) % Word < 2
      [] OTHER -> TRUE

\* bmx: the size of an image of rows of 3 bytes a pixel, in whole words.
CheckSizeImage(width, height) ==
    LET c == width * 3
        e == IF c >= 1 THEN c - 1 ELSE c + 2
    IN  (((e \div 4) + 1) * height * 4) % Word

\* winmgr: the window counter wraps, the error is read once.
AllocWindow(count) == (count + 1) % Word
WmGetLastError(err) == [returned |-> err, left |-> 0]
CheckWindow(win, out) ==
    IF win.kind = 0 /\ win.id = out.id THEN [out EXCEPT !.value = win.value] ELSE out

----------------------------------------------------------------------------
\* libtncMetaValue: unit factors as a quotient, the object's format and impl.

InchPrecision(b, d) == b /\ d > 1
ToMetricFeedValue(m) == IF m THEN <<254, 100>> ELSE <<1, 1>>
ToMetricPosValue(m) == IF m THEN <<254, 10>> ELSE <<1, 1>>
ToNonMetricFeedValue(m) == <<ToMetricFeedValue(m)[2], ToMetricFeedValue(m)[1]>>
ToNonMetricPosValue(m) == <<ToMetricPosValue(m)[2], ToMetricPosValue(m)[1]>>
CycIsSigned(d) == d < 0
TncIsSigned(impl, f) == impl /\ "signed" \in f
TncIsSignedQ(impl, t, f) == impl /\ t = 6 /\ "signed" \in f
TncGetArraySize(impl) == IF impl THEN 1 ELSE 0

TagInit == tag \in Tags

----------------------------------------------------------------------------

(* Every classifier agrees with its neighbours on every argument, as far   *)
(* as a caller that tests the bool can tell: a warning or an error is the  *)
(* user's or the system's, and a user's is intern or extern; a product has *)
(* one generation; an axis is never both to be checked and checked; a      *)
(* number is accepted only for a type that is one, by its bounds, with the *)
(* same answer signed or not where sign bits do not differ; image rows are *)
(* the least whole number of words.                                        *)
TagsAgree ==
    LET cls == tag.code  v == tag.v  f == tag.flags
        lo == tag.lo  hi == tag.hi  b == tag.v % 256 IN
    /\ AsBool(ERR_IsWarning(cls)) = (ERR_IsUserWarning(cls) \/ ERR_IsSystemWarning(cls))
    /\ AsBool(ERR_IsError(cls)) = (ERR_IsUserError(cls) \/ ERR_IsSystemError(cls))
    /\ ERR_IsUserWarning(cls) = (ERR_IsInternWarning(cls, v) # ERR_IsExternWarning(cls, v))
    /\ ERR_IsUserError(cls) = (ERR_IsInternError(cls, v) # ERR_IsExternError(cls, v))
    /\ ~(AsBool(ERR_IsWarning(cls)) /\ AsBool(ERR_IsError(cls)))
    /\ \A other \in 0 .. 90 :
          /\ ERRPLIB_GetFacilityID(cls) = ERRPLIB_GetFacilityID(other)
          /\ ERRPLIB_GetFacilityID(cls) \notin {-1, 6}
          => cls = other
    /\ IsTurningProduct(cls) = (IsCncPilotProduct(cls) # IsManualPlusProduct(cls))
    /\ IsTurningProduct(cls) \/ IsAnalogProduct(cls) => ~IsTNC7Generation(cls)
    /\ ~(IsTurningProduct(cls) /\ (IsAnalogProduct(cls) \/ IsMillTurnProduct(cls)))
    /\ ~(doesAxisRequireChecking(f) /\ hasAxisBeenChecked(f))
    /\ {"safety", "referenced", "bit30", "absPos"} \subseteq f =>
          doesAxisRequireChecking(f) \/ hasAxisBeenChecked(f)
    /\ LET w == BCYC_Typisiere_Werkzeug(v) IN
       w[1] * 256 + w[2] * 16 + (v % 16) = Signed(v)
    /\ AsBool(BCYC_Angetr_Werkz(b)) <=> b \in {1, 2, 5}
    /\ cls \in 0 .. 8 /\ check_pzt_range(v, lo, hi, cls, f) => get_pzt_perm(cls) = "ones"
    /\ get_pzt_hex(cls) \/ get_pzt_float(cls) \/ get_pzt_feed(cls, f)
          \/ get_pzt_mm_inch(cls, f) => type_active(cls)
    /\ v < Word \div 2 /\ lo < Word \div 2 /\ hi < Word \div 2 =>
          CheckMinMax(v, lo, hi, cls, f \cup {"sign"})
             = CheckMinMax(v, lo, hi, cls, f \ {"sign"})
    /\ \A c \in {31, 32, 127, 128} : check_zt_char({c - 32}, c) = (c \in {32, 127})
    /\ Signed(xf_clear_bit30(v)) * Signed(v) >= 0
    /\ LET s == CheckSizeImage((lo % 16) + 1, 3) IN
       s % 12 = 0 /\ 9 * ((lo % 16) + 1) <= s /\ s < 9 * ((lo % 16) + 1) + 12
    /\ AllocWindow(v) # v
    /\ WmGetLastError(WmGetLastError(v).left).returned = 0
    /\ \A m \in BOOLEAN :
          ToMetricPosValue(m)[1] * ToNonMetricPosValue(m)[1]
             = ToMetricPosValue(m)[2] * ToNonMetricPosValue(m)[2]
    /\ \A impl \in BOOLEAN :
          TncIsSignedQ(impl, cls, f) =>
             TncIsSigned(impl, f) /\ TncGetArraySize(impl) = 1

------------------------------------------------------------------------------
(* The DIN tables of libEp90_Dintabs: the scans of the relief tables and   *)
(* the nominal diameters of the threads.  Lengths are integers, in tenths  *)
(* of a micrometre; of a relief row only the key that is scanned is kept.  *)

CONSTANTS
    Lengths,       \* the lengths looked up
    Cores,         \* the types of thread, core depths and factors of calls of
                   \* NenndTblVgl
    NoRow

VARIABLE length    \* the length looked up

DAT_freistich_tol == 10
DAT_nenndtbl_eps == 500

frei_g_werte ==
    <<0, 2000, 2500, 3000, 3500, 4000, 4500, 5000, 6000, 7000, 7500, 8000,
      10000, 12500, 15000, 17500, 20000, 25000, 30000, 35000, 40000, 45000,
      50000, 55000, 60000>>

frei_ef_werte ==
    <<0, 16000, 30000, 100000, 180000, 800000>>

frei_cd_werte ==
    <<10000, 16000, 25000>>

frei_ab_werte ==
    <<10000, 20000, 40000, 60000>>

NennDIN259 ==
    <<97280, 131570, 166620, 209550, 229110, 264410, 302010, 332490,
      378970, 419100, 443230, 478030, 537460, 596140, 657100, 751840,
      815340, 878840, 939800, 1003300, 1066800, 1130300, 1257300, 1384300,
      1511300, 1638300>>

NennNPSF ==
    <<79380, 102870, 137160, 171450, 213360, 266700, 334010>>

NennNPSC ==
    <<102870, 137160, 171450, 213360, 266700, 334010, 421640, 482600,
      603250, 730250, 889000, 1010000, 6000000, 1143000>>

NennNPTF ==
    <<79380, 102870, 137160, 171450, 213360, 266700, 334010, 421640,
      482600, 603250, 730250, 889000>>

NennNPT ==
    <<79380, 102870, 137160, 171450, 213360, 266700, 334010, 421640,
      482600, 603250, 730250, 889000, 1016000, 1143000, 1413000, 1682750,
      2190750, 2730500, 3238500, 3556000, 4064000, 4572000, 5080000,
      6096000>>

NennUNEF ==
    <<54864, 63500, 79375, 95250, 111125, 127000, 142875, 158750, 174625,
      190500, 206375, 222250, 238125, 254000, 269875, 285750, 301625,
      317500, 333375, 349250, 365125, 381000, 396875, 412750, 428625,
      444500, 508000>>

NennUNF ==
    <<15240, 18542, 21844, 25146, 28448, 31750, 35052, 41656, 48260, 54864,
      63500, 79375, 95250, 111125, 127000, 142875, 158750, 190500, 222250,
      254000, 254000, 285750, 317500, 349250, 381000>>

NennUNC ==
    <<18542, 21844, 25146, 28448, 31750, 35052, 41656, 48260, 54864, 63500,
      79375, 95250, 111125, 127000, 142875, 158750, 190500, 222250, 254000,
      285750, 317500, 349250, 381000, 444500, 508000, 571500, 635000,
      698500, 762000, 825500, 889000, 952500, 1016000>>

NennDIN11 ==
    <<63500, 79380, 95250, 111130, 127000, 158760, 190510, 222260, 254010,
      285760, 317510, 349260, 381010, 412770, 444520, 476270, 508020,
      571520, 635020, 698530>>

NennDIN2999 ==
    <<77230, 97280, 131570, 166620, 209550, 264410, 332490, 419100, 478030,
      596140, 751840, 878840, 1130300, 1384300, 1638300>>

GetNennd(type) ==
    CASE type = 9 -> NennDIN11 [] type = 10 -> NennDIN2999
      [] type = 11 -> NennDIN259 [] type = 13 -> NennUNC
      [] type = 14 -> NennUNF [] type = 15 -> NennUNEF [] type = 16 -> NennNPT
      [] type = 17 -> NennNPTF [] type = 18 -> NennNPSC [] type = 19 -> NennNPSF
      [] OTHER -> <<0>>

----------------------------------------------------------------------------

AbsLen(x) == IF x < 0 THEN -x ELSE x

\* Ascending: the first row whose key is nearer than the tolerance.
FirstNear(keys, x) ==
    LET near == {i \in DOMAIN keys : AbsLen(x - keys[i]) < DAT_freistich_tol}
    IN  IF near = {} THEN NoRow ELSE Min(near)

hole_din_werte_freistich_ab(x) == FirstNear(frei_ab_werte, x)
hole_din_werte_freistich_cd(x) == FirstNear(frei_cd_werte, x)

\* Mutant of LastAtMost: the scan goes up instead of down.
LastAtMostUp(keys, x) ==
    LET hits == {i \in DOMAIN keys : keys[i] <= x}
    IN  IF hits = {} THEN NoRow ELSE Min(hits)

\* Descending: the first row, from the last, whose key is not above x.
LastAtMost(keys, x) ==
    LET hits == {i \in DOMAIN keys : keys[i] <= x}
    IN  IF hits = {} THEN NoRow ELSE Max(hits)

hole_din_werte_freistich_ef(x) == LastAtMost(frei_ef_werte, x)
hole_din_werte_freistich_g(x) == LastAtMost(frei_g_werte, x)

\* The walk stops at the first entry whose core is out of reach and returns
\* the entry before it, the first one at the least.
NenndTblVgl(tol, p, factor, tbl, cmp) ==
    LET pitch == IF p = 0 THEN 1 ELSE p
        Beyond(i) ==
            tbl[i] - 2 * ((cmp[i] * factor) \div pitch) >= tol + DAT_nenndtbl_eps
        beyond == {i \in DOMAIN tbl : Beyond(i)}
    IN  IF beyond = {} THEN tbl[Len(tbl)]
        ELSE tbl[Max({1, Min(beyond) - 1})]

DinInit == length \in Lengths

----------------------------------------------------------------------------

(* A relief is looked up to the row of the greatest key not above the      *)
(* length, so the keys must rise, and to no more than one row where it is  *)
(* looked up by nearness; the nominal diameters never fall as the index    *)
(* rises and the pipe threads share their sizes.  The table of NPSC breaks *)
(* both at its end, where 101.6 mm reads 101.0 and 600.0.  A comparison of *)
(* cores returns the greatest nominal diameter in reach.                   *)
TablesFound ==
    /\ \A keys \in {frei_g_werte, frei_ef_werte} :
          LET row == LastAtMost(keys, length) IN
          IF length < 0 THEN row = NoRow
          ELSE /\ keys[row] <= length
               /\ \A i \in DOMAIN keys : keys[i] <= length => keys[i] <= keys[row]
    /\ \A keys \in {frei_ab_werte, frei_cd_werte} :
          \A i \in DOMAIN keys :
             AbsLen(length - keys[i]) < DAT_freistich_tol => FirstNear(keys, length) = i
    /\ \A type \in 9 .. 19 \ {18} :
          \A i \in 1 .. Len(GetNennd(type)) - 1 :
             GetNennd(type)[i] <= GetNennd(type)[i + 1]
    /\ \A i \in DOMAIN NennNPSF : NennNPSF[i] = NennNPTF[i]
    /\ \A i \in DOMAIN NennNPTF : NennNPTF[i] = NennNPT[i]
    /\ \A i \in 1 .. 11 : NennNPSC[i] = NennNPT[i + 1]
    /\ \A t \in Cores :
          LET tbl == GetNennd(t.type)
              Core(i) == tbl[i] - 2 * ((t.cmp[i] * t.factor) \div t.pitch)
              in == {tbl[i] : i \in {k \in DOMAIN tbl : Core(k) < length + DAT_nenndtbl_eps}}
          IN  NenndTblVgl(length, t.pitch, t.factor, tbl, t.cmp)
                 = IF in = {} THEN tbl[1] ELSE Max(in)
==============================================================================
