---------------------------- MODULE Dkomp -----------------------------
(***************************************************************************)
(* The list navigators of libEp90_Dm: a container keeps the head, the tail *)
(* and one cursor of a doubly linked list; four families of navigators     *)
(* move that cursor, and the edge navigators walk a piece of the list from *)
(* a node the caller passes in, moving the same cursor as they go.         *)
(***************************************************************************)
EXTENDS Integers, Sequences

CONSTANTS
    Families,      \* navigator families: each resolves its own slots
    Channels,      \* channel numbers, 0 .. 255
    Containers,
    Null,
    Length,        \* the list of every container is the nodes 1 .. Length
    Slot(_, _),    \* the container a family finds under a slot, or Null
    Edges(_)       \* the edge descriptor under a slot, or Null

ASSUME LengthAssumption == Length \in Nat \ {0}

VARIABLES
    cursor,        \* the node each container is at
    node,          \* the node the edge walker holds, 0 before and after
    edge,          \* the channel of its walk
    seen,          \* what next has returned since first, by container
    mixed          \* the containers whose cursor something else has moved since

kvars == <<cursor, node, edge, seen, mixed>>

Nodes == 1 .. Length

\* slots[(unsigned char)(ch - 1)].
SlotOf(ch) == (ch - 1) % 256

ContainerAt(f, ch) == Slot(f, SlotOf(ch))

\* An edge is a piece of the list of its container, in the list's order.
ASSUME ListAssumption ==
    /\ {"huelle", "hilf", "rot3D", "box3D"} \subseteq Families
    /\ \A f \in Families, ch \in Channels : ContainerAt(f, ch) \in Containers \cup {Null}
    /\ Null \notin Containers
    /\ \A ch \in Channels : Edges(SlotOf(ch)) # Null =>
          LET d == Edges(SlotOf(ch)) IN
          /\ d.container \in Containers
          /\ d.start \in Nodes /\ d.end \in Nodes /\ d.start <= d.end

\* node->next and node->prev; 0 is the null pointer.
NextOf(n) == IF n = Length THEN 0 ELSE n + 1
PrevOf(n) == n - 1

\* A navigator that returned n, with the cursor left at n.
MoveTo(c, n) ==
    /\ cursor' = [cursor EXCEPT ![c] = n]
    /\ UNCHANGED <<node, edge>>

NavFirst(f, ch) ==
    LET c == ContainerAt(f, ch) IN
    /\ c # Null
    /\ MoveTo(c, 1)
    /\ seen' = [seen EXCEPT ![c] = <<1>>]
    /\ mixed' = mixed \ {c}

NavLast(f, ch) ==
    LET c == ContainerAt(f, ch) IN
    /\ c # Null
    /\ MoveTo(c, Length)
    /\ mixed' = mixed \cup {c}
    /\ UNCHANGED seen

\* Next at the tail returns 0 and leaves the cursor: a 0 is put into seen once.
NavNext(f, ch) ==
    LET c == ContainerAt(f, ch)
        n == NextOf(cursor[c]) IN
    /\ c # Null
    /\ MoveTo(c, IF n # 0 THEN n ELSE cursor[c])
    /\ seen' = IF c \in mixed \/ seen[c][Len(seen[c])] = 0
               THEN seen
               ELSE [seen EXCEPT ![c] = Append(@, n)]
    /\ UNCHANGED mixed

NavPrev(f, ch) ==
    LET c == ContainerAt(f, ch)
        n == PrevOf(cursor[c]) IN
    /\ c # Null
    /\ n # 0
    /\ MoveTo(c, n)
    /\ mixed' = mixed \cup {c}
    /\ UNCHANGED seen

Navigate(f) ==
    \E ch \in Channels :
        \/ NavFirst(f, ch)
        \/ NavLast(f, ch)
        \/ NavNext(f, ch)
        \/ NavPrev(f, ch)

HuelleStep == Navigate("huelle")
HilfStep == Navigate("hilf")
Rot3DStep == Navigate("rot3D")
Box3DStep == Navigate("box3D")

\* An edge navigator that returns n: the caller keeps it, the cursor follows.
Along(d, n) ==
    /\ node' = n
    /\ cursor' = [cursor EXCEPT ![d.container] = n]
    /\ mixed' = mixed \cup {d.container}
    /\ UNCHANGED seen

EdgeStart(ch) ==
    LET d == Edges(SlotOf(ch)) IN
    /\ d # Null
    /\ Along(d, d.start)
    /\ edge' = ch

EdgeEnd(ch) ==
    LET d == Edges(SlotOf(ch)) IN
    /\ d # Null
    /\ Along(d, d.end)
    /\ edge' = ch

\* Mutant of EdgeNext: the walk does not stop at the end of the edge.
EdgeNextOn ==
    LET d == Edges(SlotOf(edge)) IN
    /\ node # 0
    /\ Along(d, NextOf(node))
    /\ UNCHANGED edge

\* The walk ends, and the cursor stays, when the node is the end of the edge.
EdgeNext ==
    LET d == Edges(SlotOf(edge)) IN
    /\ node # 0
    /\ node # d.end
    /\ Along(d, NextOf(node))
    /\ UNCHANGED edge

EdgePrev ==
    LET d == Edges(SlotOf(edge)) IN
    /\ node # 0
    /\ node # d.start
    /\ Along(d, PrevOf(node))
    /\ UNCHANGED edge

KInit ==
    /\ cursor = [c \in Containers |-> 1]
    /\ node = 0
    /\ edge = 0
    /\ seen = [c \in Containers |-> <<1>>]
    /\ mixed = Containers

EdgeStep ==
    \/ \E ch \in Channels : EdgeStart(ch) \/ EdgeEnd(ch)
    \/ EdgeNext
    \/ EdgePrev

KStep == HuelleStep \/ HilfStep \/ Rot3DStep \/ Box3DStep \/ EdgeStep

KSpec == KInit /\ [][KStep]_kvars

----------------------------------------------------------------------------

(* Every cursor is at a node of its list, which is what the next navigator *)
(* dereferences without a test: no navigator leaves the null pointer that  *)
(* it returns at an end of the list, nor does a walk along an edge.        *)
CursorsOnList == \A c \in Containers : cursor[c] \in Nodes

(* A pass with next returns every node once, in order, and 0 only after    *)
(* the tail, unless another navigator moved the cursor it shares in the    *)
(* middle; a walk along an edge keeps its place in the node its caller     *)
(* holds, so it stays on the edge whatever moves the cursor.               *)
WalksExact ==
    /\ \A c \in Containers \ mixed :
          \A i \in DOMAIN seen[c] :
             seen[c][i] = IF i <= Length THEN i ELSE 0
    /\ node # 0 =>
          LET d == Edges(SlotOf(edge)) IN node \in d.start .. d.end

DkompWalks == CursorsOnList /\ WalksExact
========================================================================
