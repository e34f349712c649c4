--------------------------- MODULE CountingSemaphore ---------------------------
(***************************************************************************)
(* What the semaphore calls promise to the guest: a request for u units is *)
(* granted when u units are there, and takes exactly those in the same     *)
(* moment; a release adds its units; a request that may not wait is        *)
(* refused only when the units are not there.                              *)
(***************************************************************************)
EXTENDS Integers

CONSTANTS
    Threads,
    Sems,
    Impatient   \* threads that are let through after a while, units or not

VARIABLES
    value,      \* value[s]: the units semaphore s has, or -1 before it exists
    ask         \* ask[t]: the request t is in

svars == <<value, ask>>

NoAsk == [sem |-> 0, units |-> 0, mayWait |-> FALSE]

SInit ==
    /\ value = [s \in Sems |-> -1]
    /\ ask = [t \in Threads |-> NoAsk]

Exists(s) == value[s] >= 0

\* A semaphore comes into being with some units, or none.
Make(s) ==
    /\ ~ Exists(s)
    /\ Exists(s)'
    /\ value' = [value EXCEPT ![s] = value'[s]]
    /\ UNCHANGED ask

Request(t) ==
    /\ ask[t] = NoAsk
    /\ ask' # ask
    /\ \A u \in Threads \ {t} : ask'[u] = ask[u]
    /\ Exists(ask'[t].sem)
    /\ ask'[t].units > 0
    /\ UNCHANGED value

Grant(t) ==
    /\ ask[t] # NoAsk
    /\ value[ask[t].sem] >= ask[t].units
    /\ value' = [value EXCEPT ![ask[t].sem] = @ - ask[t].units]
    /\ ask' = [ask EXCEPT ![t] = NoAsk]

Refuse(t) ==
    /\ ask[t] # NoAsk
    /\ ~ ask[t].mayWait
    /\ value[ask[t].sem] < ask[t].units
    /\ ask' = [ask EXCEPT ![t] = NoAsk]
    /\ UNCHANGED value

LetThrough(t) ==
    /\ t \in Impatient
    /\ ask[t] # NoAsk
    /\ ask' = [ask EXCEPT ![t] = NoAsk]
    /\ UNCHANGED value

Release(s) ==
    /\ Exists(s)
    /\ value'[s] > value[s]
    /\ value' = [value EXCEPT ![s] = value'[s]]
    /\ UNCHANGED ask

SNext ==
    \/ \E s \in Sems : Make(s) \/ Release(s)
    \/ \E t \in Threads : Request(t) \/ Grant(t) \/ Refuse(t) \/ LetThrough(t)

SSpec == SInit /\ [][SNext]_svars
=============================================================================
