------------------------------ MODULE WindowAids ------------------------------
(***************************************************************************)
(* The helpers that place windows where no window manager runs: wmembed.c  *)
(* enlarges the client windows under the root, barcopy.c brings the two    *)
(* windows the softkey bar is drawn into up to the root, reparentwin.c     *)
(* puts the OEM window under the screen window.  Each does so over and     *)
(* over, because the toolkit changes the windows meanwhile.                *)
(*                                                                         *)
(* A helper makes a fixed number of passes, 9000 for wmembed: the model    *)
(* lets it go on, and bounds the toolkit's changes instead.                *)
(***************************************************************************)
EXTENDS Naturals

CONSTANTS
    Clients,        \* top-level windows of clients
    Targets,        \* the windows with the softkey bar
    Oem, Screen,    \* the OEM window and the screen window
    MaxChanges      \* bound: the changes the toolkit makes

Windows == Clients \cup Targets \cup {Oem, Screen}

VARIABLES
    exists,     \* the windows that were created
    under,      \* under[w]: the parent of w, "root" or "none" or a window
    size,       \* size[w]: a 1x1 "helper", "small" or "full"
    shown,      \* the mapped windows
    changes     \* the changes the toolkit has made

xwVars == <<exists, under, size, shown, changes>>

XwInit ==
    /\ exists = {Screen} /\ shown = {} /\ changes = 0
    /\ under = [w \in Windows |-> IF w \in Targets THEN "none" ELSE "root"]
    /\ size = [w \in Windows |-> IF w = Screen THEN "helper" ELSE "small"]

\* The guest creates a window, or lays one out, hides it, or takes a bar
\* window back to where it was.
ToolkitChanges ==
    /\ changes < MaxChanges /\ changes' = changes + 1
    /\ \E w \in Windows :
         \/ /\ w \notin exists /\ exists' = exists \cup {w}
            /\ UNCHANGED <<under, size, shown>>
         \/ /\ w \in exists /\ size' = [size EXCEPT ![w] = "small"]
            /\ UNCHANGED <<exists, under, shown>>
         \/ w \in shown /\ shown' = shown \ {w} /\ UNCHANGED <<exists, under, size>>
         \/ /\ w \in exists \cap Targets /\ under' = [under EXCEPT ![w] = "none"]
            /\ UNCHANGED <<exists, size, shown>>

\* Mutant of EmbedPass: the pass is made once.
EmbedFirst ==
    /\ changes = 0 /\ size' = [w \in Windows |-> "full"] /\ UNCHANGED <<exists, under, shown, changes>>

\* wmembed: every child of the root that is neither tiny nor of full size.
EmbedPass ==
    LET hits == {w \in exists : under[w] = "root" /\ size[w] = "small"}
    IN  /\ hits # {}
        /\ size' = [w \in Windows |-> IF w \in hits THEN "full" ELSE size[w]]
        /\ shown' = shown \cup hits
        /\ UNCHANGED <<exists, under, changes>>

\* barcopy: each of the two windows that exists.
BarPass ==
    LET hits == exists \cap Targets
    IN  /\ ~ (hits \subseteq shown /\ \A w \in hits : under[w] = "root")
        /\ under' = [w \in Windows |-> IF w \in hits THEN "root" ELSE under[w]]
        /\ shown' = shown \cup hits
        /\ UNCHANGED <<exists, size, changes>>

\* reparentwin: when the OEM window and the screen window are there.
AdoptPass ==
    /\ Oem \in exists /\ ~ ({Oem, Screen} \subseteq shown /\ under[Oem] = Screen)
    /\ under' = [under EXCEPT ![Oem] = Screen]
    /\ shown' = shown \cup {Oem, Screen}
    /\ UNCHANGED <<exists, size, changes>>

XwNext == ToolkitChanges \/ EmbedPass \/ BarPass \/ AdoptPass

XwSpec == XwInit /\ [][XwNext]_xwVars
          /\ WF_xwVars(EmbedPass) /\ WF_xwVars(BarPass) /\ WF_xwVars(AdoptPass)

(* "looping so a later GTK size re-allocation cannot shrink it back": when  *)
(* the toolkit leaves the tree alone, every window gets where its helper    *)
(* puts it, though all three work on the same tree, and stays there.        *)
Placed ==
    /\ \A w \in exists \cap (Clients \cup Targets) : under[w] = "root" /\ size[w] = "full"
    /\ exists \cap Targets \subseteq shown
    /\ Oem \in exists => under[Oem] = Screen /\ {Oem, Screen} \subseteq shown
=============================================================================
