------------------------------ MODULE Geometry -------------------------------
(* The recompiled geometry libraries: plane geometry and contour elements.  *)
EXTENDS Integers, Sequences, FiniteSets

------------------------------------------------------------------------------
(* The geometry leaves of libEp90_Geolib, dmathe, Bohrcyc_fp, Anfahr and   *)
(* Cyckkorr over a lattice: coordinates are integers, a turn               *)
(* is 1600 units, sines are in thousandths.  The fixed slacks of the code  *)
(* (0.001, 1e-8, 2^-15) are below the step of the lattice, so that a test  *)
(* like a - b < 0.001 is a <= b here; tolerances that are arguments stay.  *)

CONSTANTS
    Angles,        \* angles tried, 0 .. Turn - 1
    Points,        \* points tried, pairs of integers
    Sets           \* the arguments tried: angles a and b, points p and q

VARIABLE arg

Turn == 1600
Half == 800
Quarter == 400
Tol == 2
SinTol == 8        \* sin(tol), in thousandths

AbsVal(x) == IF x < 0 THEN -x ELSE x
Square(x) == x * x

\* Sines of sixteenths of a turn, and of one unit (four thousandths) more.
Sixteenth(k) ==
    LET s == <<0, 383, 707, 924, 1000, 924, 707, 383>>
    IN  IF k % 16 < 8 THEN s[(k % 16) + 1] ELSE -s[(k % 16) - 7]
Sin(x) ==
    Sixteenth(x \div 100) + ((x % 100) * 4 * Sixteenth((x \div 100) + 4)) \div 1000
Cos(x) == Sin(x + Quarter)

----------------------------------------------------------------------------
\* geolib: distances, angles.

\* The square of abstand_pkt_pkt; the distances compared are not negative.
DistSq(p, q) == Square(q[1] - p[1]) + Square(q[2] - p[2])

\* In thousandths.
abstand_pkt_gerade(p, q, x) == Cos(x) * (p[2] - q[2]) - (p[1] - q[1]) * Sin(x)

norm_winkel(x, eps) ==
    LET r == x % Turn IN IF r < eps \/ Turn - r < eps THEN 0 ELSE r

compare_sinus_winkel(s1, c1, s2, c2, eps) ==
    IF AbsVal(c1 - c2) < eps /\ AbsVal(s1 - s2) < eps THEN 1
    ELSE IF eps <= AbsVal(c1 + c2) \/ eps <= AbsVal(s1 + s2) THEN 5
    ELSE 3

\* Mutant of compare_winkel: a quarter turn off is told in one direction only.
compare_winkelHalf(x, y) == compare_sinus_winkel(Sin(x), Cos(x), Sin(y), Cos(y), SinTol)

compare_winkel(x, y) ==
    LET r == compare_sinus_winkel(Sin(x), Cos(x), Sin(y), Cos(y), SinTol)
        z == y + Quarter
        r2 == compare_sinus_winkel(Sin(x), Cos(x), Sin(z), Cos(z), SinTol)
    IN  IF r \in {1, 3} THEN r
        ELSE IF r2 = 1 THEN 2 ELSE IF r2 = 3 THEN 4 ELSE 5

\* Turns are added until the angle is not below its bound.
Raised(x, bound) ==
    IF x >= bound THEN x ELSE x + Turn * ((bound - x + Turn - 1) \div Turn)

oeffnungswinkel(x, y, dir) ==
    IF compare_winkel(x, y) = 1 THEN 0
    ELSE IF dir <= 0 THEN y - Raised(x, y - Tol)
    ELSE Raised(y, x - Tol) - x

\* The exponent of the code: octant boundaries at 1/8 .. 7/8 of a turn.
GEOLIB_GetWinkelRichtung(x, eps) ==
    LET r == norm_winkel(x, eps)
        Passed(b) == (IF r >= b - eps THEN 1 ELSE 0) + (IF r >= b + eps THEN 1 ELSE 0)
    IN  IF r = 0 THEN 1
        ELSE 2 + Passed(200) + Passed(400) + Passed(600) + Passed(800)
               + Passed(1000) + Passed(1200) + Passed(1400)

wert_im_intervall(x, b, c, d) ==
    IF c <= b THEN c < x + d /\ x < d + b ELSE b < x + d /\ x < c + d
wert_im_offenen_intervall(x, b, c, d) ==
    IF c <= b THEN c + d <= x /\ d + x <= b ELSE b + d <= x /\ d + x <= c

\* Elements: start s and end e, for an arc radius r and centre c, for a line
\* its direction; near is <= tol, as tol + 2^-15 is for a lattice point.
Near(p, q, tol) == DistSq(p, q) <= Square(tol)
GEOLIB_IsGeoringBereich(g1, g2, tol) == g1 # g2 /\ DistSq(g1.s, g2.e) < Square(tol)
GEOLIB_IsStartpunkt(g, p, tol) == Near(g.s, p, tol)
GEOLIB_IsZielpunkt(g, p, tol) == Near(g.e, p, tol)
GEOLIB_IsIdentisch(g1, g2, tol) ==
    /\ g1.line = g2.line
    /\ Near(g1.s, g2.s, tol) /\ Near(g1.e, g2.e, tol)
    /\ ~g1.line => AbsVal(g1.r - g2.r) < tol /\ Near(g1.c, g2.c, tol)
GEOLIB_IsInvers(g1, g2, tol) ==
    /\ g1.line = g2.line
    /\ Near(g1.s, g2.e, tol) /\ Near(g1.e, g2.s, tol)
    /\ ~g1.line => AbsVal(g1.r + g2.r) < tol /\ Near(g1.c, g2.c, tol)
OnLine(g1, g2, tol) == AbsVal(abstand_pkt_gerade(g1.s, g2.s, g2.ang)) <= 1000 * tol
GEOLIB_IsMathIdentisch(g1, g2, tol) ==
    /\ g1.line = g2.line
    /\ IF g1.line THEN compare_winkel(g1.ang, g2.ang) = 1 /\ OnLine(g1, g2, tol)
       ELSE AbsVal(g1.r - g2.r) < tol /\ Near(g1.c, g2.c, tol)
GEOLIB_IsMathInvers(g1, g2, tol) ==
    /\ g1.line = g2.line
    /\ IF g1.line THEN compare_winkel(g1.ang, g2.ang) = 3 /\ OnLine(g1, g2, tol)
       ELSE AbsVal(g1.r + g2.r) < tol /\ Near(g1.c, g2.c, tol)

----------------------------------------------------------------------------
\* dmathe.

\* Rotation about (m5, m4) by the angle of cosine m2 and sine m3.
dmathe_PunktDrehen(p, m2, m3, m4, m5) ==
    <<m2 * (p[1] - m5) + m3 * (p[2] - m4) + m5,
      (p[2] - m4) * m2 + m4 - (p[1] - m5) * m3>>

\* x in units of 1/10, the result in units of 1/n: half away from zero.
dmathe_roundst(x, n) ==
    IF x <= 0 THEN -((-x * n + 5) \div 10) ELSE (x * n + 5) \div 10

dmathe_NormWinkel(x) == x % Turn
dmathe_Wirein(x) == LET r == x % Turn IN IF r > Half THEN r - Turn ELSE r

\* atan of the quotients -1, 0 and 1; angles run clockwise from the y axis.
dmathe_VectorWinkel(v) ==
    IF v[1] = 0 THEN (IF v[2] <= 0 THEN Half ELSE 0)
    ELSE LET t == 200 * (IF v[2] = 0 THEN 0 ELSE IF v[2] = v[1] THEN 1 ELSE -1)
         IN  IF v[1] > 0 THEN Quarter - t ELSE Half + Quarter - t
dmathe_Winkelstrecke(p, q) == dmathe_VectorWinkel(<<q[1] - p[1], q[2] - p[2]>>)

dmathe_Turn180Degree(v, x) ==
    <<-v[1], -v[2], IF x + Half > Turn THEN x + Half - Turn ELSE x + Half>>

dmathe_CalcOeffWinkel(x, y, flag) ==
    IF flag = 1 THEN (IF x > y THEN y + Turn - x ELSE y - x)
    ELSE (IF y <= x THEN y - x ELSE y - (x + Turn))

\* The roots of a polynomial k (x - m)(x - n), given by its coefficients; the
\* square root of a perfect square.
dmathe_QuadGl(k, b, c) ==
    LET disc == b * b - 4 * k * c
        root == CHOOSE s \in 0 .. 40 : s * s = disc
    IN  IF k = 0 \/ disc < 0 THEN {}
        ELSE {(-b + root) \div (2 * k), (-b - root) \div (2 * k)}

dmathe_InIntervall(x, b, c) ==
    IF c <= b THEN x >= c /\ b >= x ELSE x >= b /\ c >= x

dmathe_wlinks(x, y) ==
    IF Half <= y THEN (IF y - Half <= x THEN x > y ELSE TRUE)
    ELSE (IF x <= y THEN y + Half > x ELSE TRUE)
dmathe_wrechts(x, y) ==
    IF Half <= y THEN x > y - Half /\ y > x
    ELSE y > x /\ x > y + Half

dmathe_antiparallel(x, y) ==
    LET d == AbsVal(x - dmathe_NormWinkel(y + Half))
    IN  d = 0 \/ (IF Turn <= d THEN d - Turn = 0 ELSE Turn - d = 0)

dmathe_SpGreater0(v, w, u) ==
    LET dot == w[1] * v[1] + w[2] * v[2]
    IN  (IF dot = 0 THEN v[1] * u[1] + v[2] * u[2] ELSE dot) > 0

dmathe_RadAufBogen(start, end, dir, x) ==
    LET from == IF dir = -1 THEN end ELSE start
        upto == IF dir = -1 THEN start ELSE end
        to == IF upto < from THEN upto + Turn ELSE upto
    IN  (from <= x /\ x <= to) \/ (from <= x + Turn /\ x + Turn <= to)

dmathe_KreisTangentenWinkel(flag, p, q) ==
    dmathe_NormWinkel(dmathe_Winkelstrecke(p, q)
                         + (IF flag = 1 THEN Quarter ELSE -Quarter))
dmathe_PktAufBogen(p, c, start, end, dir) ==
    dmathe_RadAufBogen(start, end, dir, dmathe_Winkelstrecke(c, p))
dmathe_PktAufStrecke(p, q, r) ==
    /\ dmathe_InIntervall(p[2], q[2], r[2])
    /\ dmathe_InIntervall(p[1], q[1], r[1])
    /\ (p[2] - q[2]) * (r[1] - q[1]) = (r[2] - q[2]) * (p[1] - q[1])

----------------------------------------------------------------------------
\* Bohrcyc_fp, Anfahr and Cyckkorr.

BCYC_EntnormiereWinkel(v, ref, range) ==
    IF range + Half > AbsVal(v - ref) THEN v
    ELSE IF v <= ref THEN v + Turn ELSE v - Turn
BCYC_WinkelGleich(x, y) ==
    AbsVal(Sin(x) - Sin(y)) < SinTol /\ AbsVal(Cos(x) - Cos(y)) < SinTol

EckenWinkel(x, y, ecke) ==
    LET diff == AbsVal(x - y) IN
    IF ecke = 32 THEN Half
    ELSE IF (ecke < 32 /\ Half < diff) \/ (ecke > 32 /\ diff < Half)
    THEN Turn - diff ELSE diff
Lesser(x, y) == IF x > y THEN y ELSE x
get_einfahr_radius(p1, p2, p3) ==
    IF p1 <= p3 THEN Lesser(5, 3 * p2)
    ELSE IF p1 < p3 + 3 * p2 THEN Lesser(2 * p1, 3 * p2) ELSE p1

\* The sines and cosines of the four quadrants, the residuals of the code as 0.
renormiere_punkt(p, quad, flag) ==
    LET k == (quad + (IF flag = 1 THEN 2 ELSE 0)) % 4
        c == CASE k = 1 -> 1 [] k = 3 -> -1 [] OTHER -> 0
        s == CASE quad = 2 -> 1 [] quad = 4 -> -1 [] OTHER -> 0
    IN  IF quad \notin 1 .. 4 THEN p
        ELSE <<IF flag = 1 THEN s * p[2] - c * p[1] ELSE c * p[1] - s * p[2],
               s * p[1] + c * p[2]>>

GmInit == arg \in Sets

----------------------------------------------------------------------------

(* Angles and directions are told as they lie on the circle, whatever turn *)
(* and whichever of the two sides they are given from.                     *)
AnglesLie ==
    LET x == arg.a  y == arg.b
        d == ((x \div 100) - (y \div 100)) % 16 IN
    /\ compare_winkel(x, y) = CASE d = 0 -> 1 [] d = 8 -> 3 [] d = 4 -> 2
                                [] d = 12 -> 4 [] OTHER -> 5
    /\ BCYC_WinkelGleich(x, y) = (compare_winkel(x, y) = 1)
    /\ GEOLIB_GetWinkelRichtung(x, Tol) =
          IF ((x + 1) % 200) <= 2 THEN 2 * (((x + 1) % Turn) \div 200) + 1
          ELSE 2 * (x \div 200) + 2
    /\ \A dir \in {-1, 1} :
          LET o == oeffnungswinkel(x, y, dir) IN
          /\ d # 0 => (o - (y - x)) % Turn = 0
          /\ dir * o >= -Tol /\ dir * o < Turn
    /\ \A flag \in {0, 1} :
          LET o == dmathe_CalcOeffWinkel(x, y, flag) IN
          /\ (o - (y - x)) % Turn = 0 /\ AbsVal(o) < Turn
          /\ IF flag = 1 THEN o >= 0 ELSE o <= 0
    /\ dmathe_Wirein(x - y) \in -Half + 1 .. Half
    /\ dmathe_antiparallel(x, y) = ((x - y) % Turn = Half)
    /\ \A z \in Angles :
          /\ dmathe_RadAufBogen(x, y, 1, z) = ((z - x) % Turn <= (y - x) % Turn)
          /\ dmathe_RadAufBogen(x, y, -1, z) = dmathe_RadAufBogen(y, x, 1, z)
    /\ x # y => EckenWinkel(x, y, 1) + EckenWinkel(x, y, 64) = Turn \/ AbsVal(x - y) = Half
    /\ AbsVal(BCYC_EntnormiereWinkel(x, y, 0) - y) <= Half

(* Points, intervals and elements keep their relations: turning a point    *)
(* keeps its distance and four quarters bring it back, an interval may be  *)
(* given from either end, an element is the inverse of another when it is  *)
(* identical to that one reversed, and a vector points along its angle.    *)
PlacesKept ==
    LET p == arg.p  q == arg.q  x == arg.a
        R1(v) == dmathe_PunktDrehen(v, 0, 1, q[2], q[1])
        el == [line |-> arg.b % 200 < 100, s |-> p, e |-> q, r |-> 3, c |-> q, ang |-> x]
        re == [el EXCEPT !.s = q, !.e = p, !.r = -3, !.ang = (x + Half) % Turn]
    IN
    /\ R1(R1(R1(R1(p)))) = p
    /\ DistSq(R1(p), q) = DistSq(p, q)
    /\ \A quad \in 1 .. 4 :
          /\ renormiere_punkt(renormiere_punkt(p, quad, 1), quad, 1) = p
          /\ renormiere_punkt(renormiere_punkt(p, quad, 0), 1 + ((5 - quad) % 4), 0) = p
    /\ \A v \in {<<p[1] - q[1], p[2] - q[2]>>} :
          v # <<0, 0>> /\ (v[1] = 0 \/ v[2] = 0 \/ AbsVal(v[1]) = AbsVal(v[2])) =>
             LET w == dmathe_Winkelstrecke(q, p) IN
             /\ Sin(w) * v[2] = Cos(w) * v[1]
             /\ Sin(w) * v[1] >= 0 /\ Cos(w) * v[2] >= 0
             /\ (dmathe_KreisTangentenWinkel(1, q, p) - dmathe_KreisTangentenWinkel(0, q, p)) % Turn = Half
    /\ \A b, c, t \in {p[1], p[2], q[1], q[2]} :
          /\ wert_im_intervall(t, b, c, 1) = wert_im_intervall(t, c, b, 1)
          /\ dmathe_InIntervall(t, b, c) = wert_im_intervall(t, b, c, 1)
          /\ wert_im_offenen_intervall(t, b, c, 0) = dmathe_InIntervall(t, c, b)
    /\ GEOLIB_IsInvers(el, re, 1) /\ GEOLIB_IsMathInvers(el, re, 10)
    /\ GEOLIB_IsIdentisch(el, el, 1) /\ GEOLIB_IsMathIdentisch(el, el, 1)
    /\ \A tol \in 1 .. 3 :
          GEOLIB_IsIdentisch(el, re, tol) => GEOLIB_IsInvers(re, re, tol)
    /\ dmathe_PktAufStrecke(p, p, q) /\ dmathe_PktAufStrecke(q, p, q)
    /\ dmathe_QuadGl(2, -2 * (p[1] + q[1]), 2 * p[1] * q[1]) = {p[1], q[1]}
    /\ \A n \in {1, 5} : AbsVal(10 * dmathe_roundst(p[1], n) - n * p[1]) <= 5
    /\ p[1] >= 0 /\ q[1] >= 0 =>
          get_einfahr_radius(p[1], q[1], p[2]) <= (IF p[1] > 3 * q[1] THEN p[1] ELSE 3 * q[1])

GeometryHolds == AnglesLie /\ PlacesKept

(* An angle is to the right of another when it lies in the half turn       *)
(* before it, whatever the other is: turning both changes nothing.         *)
RightOf ==
    dmathe_wrechts(arg.a, arg.b) = ((arg.b - arg.a) % Turn \in 1 .. Half - 1)

------------------------------------------------------------------------------
(* The classifiers of the EP90 geometry libraries: what a geotec element,  *)
(* an akopf node or a tool code is (gtlib, gtlib2, geometri, aeplib,       *)
(* drehcyc, gewcyc, wznorm).  An element is a record of the fields they    *)
(* read; a word of flags is the set of its bits; None is the null pointer. *)

CONSTANTS
    Elements,      \* the geotec elements tried
    Heads,         \* the akopf nodes tried
    None

VARIABLES geo, head    \* the element and the node the leaves are tried on

\* 0xd2800 and 0x646.
Figures == {11, 13, 16, 18, 19}
Spindles == {1, 2, 6, 9, 10}

----------------------------------------------------------------------------
\* gtlib on a geotec; tag is the field at 0x54, is the one at 0x5c, def 0x58.

IsTag(e, t) == e # None /\ e.tag = t
GTFIND_IsBohrung(e) == IsTag(e, 21)
GTFIND_IsFasRun(e) == IsTag(e, 8)
GTFIND_IsFreistich(e) == IsTag(e, 10)
GTFIND_IsEinstich(e) == IsTag(e, 9)
GTFIND_IsGewinde(e) == IsTag(e, 4)
GTFIND_IsFigurRucksack(e) == e # None /\ e.tag \in Figures
GTFIND_IsPkt(e) == IsTag(e, 1) /\ 4 \in e.is
GTFIND_IsTanZiel(e) == IsTag(e, 1) /\ e.next # None /\ 12 \in e.is
GTFIND_IsDefTanZiel(e) == IsTag(e, 1) /\ 12 \in e.def
GTFIND_IsUeberlagerung(e) ==
    \/ GTFIND_IsFasRun(e)
    \/ GTFIND_IsFreistich(e)
    \/ GTFIND_IsEinstich(e)
    \/ GTFIND_IsBohrung(e)
GTFIND_IsCirc(e) == IsTag(e, 1) /\ 6 \in e.is
GTFIND_IsDefCir(e) == IsTag(e, 1) /\ 6 \in e.def
GTFIND_IsCirCW(e) == GTFIND_IsCirc(e) /\ e.radius < 0
GTFIND_IsCirCCW(e) == GTFIND_IsCirc(e) /\ e.radius > 0
IsGeoKomplett(e) == IsTag(e, 1) /\ 1 \in e.is
IsGeoError(e) == IsTag(e, 1) /\ 3 \in e.is
IsLine(e) == IsTag(e, 1) /\ 5 \in e.is
GTFIND_IsYEbene(p) == p \in {4, 5, 13, 14}
GTFIND_IsMantel(p) == p \in {3, 5, 12, 13}

\* gtlib2 on an akopf: two links down, or one; group is the field at 28.
Leaf(n) == IF n = None \/ n.child = None THEN None ELSE n.child.child
LeafIs(n, t) == Leaf(n) # None /\ Leaf(n).typ = t
IsAbflach(n) == LeafIs(n, 59)
IsMehrkant(n) == LeafIs(n, 58)
IsMuster(n) == LeafIs(n, 20)
IsFigur(n) == Leaf(n) # None /\ Leaf(n).typ \in Figures
IsBohrungHead(n) == n # None /\ n.child # None /\ n.child.typ = 21

\* Mutant of IsRohr: the group of the head is not looked at.
IsRohrAny(n) == LeafIs(n, 6) \/ LeafIs(n, 7)

IsRohr(n) == n # None /\ n.group \in {36, 6} /\ LeafIs(n, 6)
IsStange(n) == n # None /\ n.group \in {36, 6} /\ LeafIs(n, 7)
IsTasche(n) ==
    /\ n # None
    /\ n.child # None
    /\ n.second # None
    /\ n.child.typ = 1
    /\ ~IsFigur(n) /\ ~IsAbflach(n) /\ ~IsMehrkant(n)
IsRucksackTyp(n, bv) == n # None /\ n.child # None /\ n.child.typ = bv

\* geometri: the coordinate's own field, when the element defines it and has
\* not computed it yet; 0x126 keeps bits 1, 2, 5 and 8.
geo_coord_field(mask, e) ==
    IF mask \in e.is \/ mask \notin e.def \/ mask \notin {14, 15, 21, 22}
    THEN {-1}
    ELSE e.coord[mask] \cap {1, 2, 5, 8}
IsPolareLaenge(mask, e) == geo_coord_field(mask, e) = {2}
IsCartInkrement(mask, e) == geo_coord_field(mask, e) = {1}
IsPolarerWinkel(mask, e) == geo_coord_field(mask, e) = {5}

----------------------------------------------------------------------------
\* aeplib: small sets, the feed byte of an element, marks along a list.

SchlittenInKanal(b) ==
    LET bits[n \in Nat] == IF n = 0 THEN 0 ELSE 1 + bits[n \div 2] IN bits[b]
MehrSpindler(b) == b \in Spindles
AEP_VorschubTyp(e) == IF IsTag(e, 1) THEN e.feed % 10 ELSE 0
AEP_ElementNichtBearbeiten(e) == IsTag(e, 1) /\ e.feed \in 10 .. 19

\* The walk from node i over a list that is cut behind node j for the while:
\* it ends at j, or at the end of the list when j comes before i.
Marked(bam, i, j) == IF i <= j THEN i .. j ELSE i .. Len(bam)
AEP_SetBam(bam, i, j, m) == [k \in DOMAIN bam |-> IF k \in Marked(bam, i, j) THEN m ELSE bam[k]]
AEP_AddBam(bam, i, j, m) ==
    [k \in DOMAIN bam |-> IF k \in Marked(bam, i, j) THEN bam[k] \cup m ELSE bam[k]]
AEP_DelBam(bam, i, j, m) ==
    [k \in DOMAIN bam |-> IF k \in Marked(bam, i, j) THEN bam[k] \ m ELSE bam[k]]

\* drehcyc: an allowance counts from the tolerance on.
Abs(x) == IF x < 0 THEN -x ELSE x
is_aufmass_aktiv(flag, m1, m2, tol) ==
    flag \cap {4, 5} # {} /\ (IF Abs(m1) < tol THEN tol <= Abs(m2) ELSE TRUE)

\* gewcyc: the ends of an element in the direction of the thread.
GCYC_Geostart(e) == IF e.reversed THEN e.end ELSE e.start
GCYC_Geoziel(e) == IF e.reversed THEN e.start ELSE e.end

\* wznorm: a tool code packs main type, sub type and variant; the decimal
\* form writes them as digits.
GeotecToIntWkzTyp(code) ==
    (code \div 256) * 100 + ((code % 256) \div 16) * 10 + (code % 16)
IntToGeotecWkzTyp(v) == (((v % 100) \div 10) + (v \div 100) * 16) * 16 + (v % 10)
AsciiToGeotecWkzTyp(v) == IF v \in 11 .. 999 THEN IntToGeotecWkzTyp(v) ELSE 0
WerkzeugTyp(code) ==
    LET main == code \div 256  sub == (code % 256) \div 16
    IN  <<main, sub, code % 16, IF main = 0 THEN sub ELSE main>>

\* The variants of a type that make an inner tool.
InnerVariants(main, sub) ==
    CASE main = 1 /\ sub \in {1, 2} -> 5 .. 7
      [] main = 1 /\ sub \in {4, 5} -> {5, 7}
      [] main = 2 /\ sub = 1 -> 5 .. 7
      [] main = 2 /\ sub \in {6, 7} -> {5, 7}
      [] main = 3 /\ sub \in 1 .. 7 -> {6}
      [] main = 4 /\ sub \in {2, 3, 4, 7, 8, 9} -> {6}
      [] main = 5 /\ sub \in {1, 2, 6} -> {6}
      [] main = 6 /\ sub \in {1, 3, 4, 6, 7} -> {6}
      [] OTHER -> {}
WZ_IsAussenWkz(code) ==
    LET w == WerkzeugTyp(code) IN w[3] \notin InnerVariants(w[1], w[2])

GeoInit == geo \in Elements /\ head \in Heads

----------------------------------------------------------------------------

(* The two libraries that classify the same element agree, and classes     *)
(* that exclude each other do: a head is a pocket or a figure, a tube or a *)
(* bar; an arc turns one way; a coordinate has one encoding; the ends of a *)
(* reversed thread are the ends of the element swapped; a tool code reads  *)
(* back as the number it came from, and marks set along a stretch of the   *)
(* list are taken off again with the rest of the list as it was.           *)
GeoTagsAgree ==
    /\ ~(GTFIND_IsCirCW(geo) /\ GTFIND_IsCirCCW(geo))
    /\ GTFIND_IsCirCW(geo) \/ GTFIND_IsCirCCW(geo) => GTFIND_IsCirc(geo)
    /\ GTFIND_IsPkt(geo) => ~GTFIND_IsUeberlagerung(geo) /\ ~GTFIND_IsGewinde(geo)
    /\ GTFIND_IsFigurRucksack(geo) => ~GTFIND_IsUeberlagerung(geo)
    /\ IsGeoKomplett(geo) \/ IsGeoError(geo) \/ IsLine(geo) =>
          ~GTFIND_IsUeberlagerung(geo) /\ ~GTFIND_IsFigurRucksack(geo)
    /\ ~(IsRohr(head) /\ IsStange(head))
    /\ IsRohr(head) => head.group \in {6, 36} /\ ~IsFigur(head)
    /\ ~(IsFigur(head) /\ (IsTasche(head) \/ IsAbflach(head) \/ IsMuster(head)))
    /\ IsBohrungHead(head) => ~IsTasche(head)
    /\ \A mask \in 14 .. 22 :
          Cardinality({k \in 1 .. 3 :
             <<IsPolareLaenge(mask, geo), IsCartInkrement(mask, geo),
               IsPolarerWinkel(mask, geo)>>[k]}) <= 1
    /\ AEP_ElementNichtBearbeiten(geo) => AEP_VorschubTyp(geo) = geo.feed - 10
    /\ \A b \in 0 .. 31 :
          b < 2 ^ SchlittenInKanal(b) /\ (b > 0 => 2 ^ (SchlittenInKanal(b) - 1) <= b)
    /\ GCYC_Geostart(geo) = GCYC_Geoziel([geo EXCEPT !.reversed = ~@])
    /\ is_aufmass_aktiv({4}, geo.radius, geo.feed, 2)
          = (Abs(geo.radius) >= 2 \/ Abs(geo.feed) >= 2)
    /\ \A v \in 11 .. 30 \cup {geo.feed} :
          v >= 11 =>
             /\ GeotecToIntWkzTyp(AsciiToGeotecWkzTyp(v)) = v
             /\ ~WZ_IsAussenWkz(AsciiToGeotecWkzTyp(v)) => v % 10 \in 5 .. 7
    /\ \A i, j \in 1 .. 3 :
          LET bam == <<{1}, {}, {2}>> IN
          /\ AEP_DelBam(AEP_AddBam(bam, i, j, {5}), i, j, {5}) = bam
          /\ i <= j => \A k \in 1 .. 3 \ (i .. j) : AEP_SetBam(bam, i, j, {5})[k] = bam[k]
==============================================================================
