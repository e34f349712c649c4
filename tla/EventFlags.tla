------------------------------ MODULE EventFlags ------------------------------
(***************************************************************************)
(* What the event calls of the runtime promise to the guest, whatever they *)
(* do to keep it: every task has a set of event flags, anybody may post    *)
(* flags to it, and a receive call answers with flags that were set and    *)
(* meet its condition, which it clears in the same moment.  A poll may     *)
(* answer nothing, and a finite wait may end by telling what is set.       *)
(***************************************************************************)
EXTENDS FiniteSets

CONSTANTS Tasks, Bits

VARIABLES
    flags,      \* flags[t]: the events pending at task t
    call,       \* call[t]: the receive call t is in, or NoCall
    caught      \* caught[t]: what t's last receive call answered

fvars == <<flags, call, caught>>

NoCall == [want |-> {}, cond |-> "any", timeout |-> "none"]
Calls  == [want : (SUBSET Bits) \ {{}}, cond : {"all", "any"},
           timeout : {"none", "finite", "forever"}]

\* Does the set S of pending flags satisfy the call c ?
Satisfied(c, S) ==
    IF c.cond = "all" THEN c.want \subseteq S ELSE c.want \cap S # {}

FInit ==
    /\ flags = [t \in Tasks |-> {}]
    /\ call = [t \in Tasks |-> NoCall]
    /\ caught = [t \in Tasks |-> {}]

Post(t, B) ==
    /\ flags' = [flags EXCEPT ![t] = @ \cup B]
    /\ UNCHANGED <<call, caught>>

Ask(t) ==
    /\ call[t] = NoCall
    /\ \E c \in Calls : call' = [call EXCEPT ![t] = c]
    /\ caught' = [caught EXCEPT ![t] = {}]
    /\ UNCHANGED flags

Answer(t, B) ==
    /\ call[t] # NoCall
    /\ B \subseteq flags[t] \cap call[t].want
    /\ Satisfied(call[t], B)
    /\ flags' = [flags EXCEPT ![t] = @ \ B]
    /\ caught' = [caught EXCEPT ![t] = B]
    /\ call' = [call EXCEPT ![t] = NoCall]

\* A poll answers nothing when its condition is not met.
Nothing(t) ==
    /\ call[t].timeout = "none"
    /\ call[t] # NoCall
    /\ ~ Satisfied(call[t], flags[t])
    /\ caught' = [caught EXCEPT ![t] = {}]
    /\ call' = [call EXCEPT ![t] = NoCall]
    /\ UNCHANGED flags

\* A finite wait may end by reporting what is set without clearing it.
Peek(t) ==
    /\ call[t].timeout = "finite"
    /\ caught' = [caught EXCEPT ![t] = flags[t] \cap call[t].want]
    /\ call' = [call EXCEPT ![t] = NoCall]
    /\ UNCHANGED flags

FNext ==
    \E t \in Tasks :
        \/ \E B \in SUBSET Bits : Post(t, B)
        \/ Ask(t)
        \/ \E B \in SUBSET Bits : Answer(t, B)
        \/ Nothing(t)
        \/ Peek(t)

FSpec == FInit /\ [][FNext]_fvars
=============================================================================
