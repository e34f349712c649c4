------------------------------ MODULE HerosAsync ------------------------------
(* Async signals of a task (heros_rtos.c, as_send(), as_mask_op() and       *)
(* as_read()): a word of pending bits and a mask of enabled ones, both      *)
(* changed under the global lock, and SIGUSR1 as the carrier, raised after  *)
(* the lock is gone.  The handler of the carrier (libheros' as_catch) reads *)
(* with the request 0, "all of mask".                                       *)
EXTENDS FiniteSets

CONSTANTS AsSenders,  \* tasks that call As_send for AsTarget
          AsTarget,   \* the task they signal; it calls As_mask and As_read
          AsBits,     \* the bits in use
          AsForced,   \* AS_FORCED, always enabled for sending and reading
          AsForcedMask \* AS_FORCED_MASK, looked at when the mask changes

ASSUME AsAssumption == AsForcedMask \subseteq AsForced /\ AsTarget \notin AsSenders

VARIABLES asPending,  \* as_pending of AsTarget
          asMask,     \* as_mask of AsTarget
          asCarrier,  \* SIGUSR1 is pending for the thread of AsTarget
          asHandling, \* AsTarget is in the handler, before its As_read
          asKick      \* the tasks between unlock() and as_kick()

asVars == <<asPending, asMask, asCarrier, asHandling, asKick>>

AsInit == /\ asPending = {} /\ asMask = {}
          /\ asCarrier = FALSE /\ asHandling = FALSE /\ asKick = {}

\* Mutant of AsTrig: a signal for enabled bits only, the forced ones are not.
AsTrigMasked(bits) == asMask \cap (bits \ asPending)

\* The signal is raised for bits that were not pending and are enabled.
AsTrig(bits) == (asMask \cup AsForced) \cap (bits \ asPending)

As_send(t, bits) ==
    /\ t \notin asKick
    /\ asPending' = asPending \cup bits
    /\ asKick' = IF AsTrig(bits) # {} THEN asKick \cup {t} ELSE asKick
    /\ UNCHANGED <<asMask, asCarrier, asHandling>>

\* Mutant of MaskTrig: enabling bits does not look at what is pending.
MaskTrigNever(op, in) == {}

\* Only what the mask enables now is looked for in what is pending.
MaskTrig(op, in) ==
    CASE op = "add"   -> IF in \subseteq asMask THEN {}
                         ELSE ((in \ asMask) \cup AsForcedMask) \cap asPending
      [] op = "set"   -> (in \cup AsForcedMask) \cap asPending
      [] op = "clear" -> {}

As_mask(op, in) ==
    /\ ~asHandling /\ AsTarget \notin asKick
    /\ asMask' = CASE op = "add"   -> asMask \cup in
                   [] op = "set"   -> in
                   [] op = "clear" -> asMask \ in
    /\ asKick' = IF MaskTrig(op, in) # {} THEN asKick \cup {AsTarget} ELSE asKick
    /\ UNCHANGED <<asPending, asCarrier, asHandling>>

\* A request of no bits stands for the mask.
AsCaught(req) == ((IF req = {} THEN asMask ELSE req) \cup AsForced) \cap asPending

As_read(req) ==
    /\ ~asHandling /\ AsTarget \notin asKick
    /\ asPending' = asPending \ AsCaught(req)
    /\ UNCHANGED <<asMask, asCarrier, asHandling, asKick>>

AsKick(t) ==
    /\ t \in asKick
    /\ asKick' = asKick \ {t}
    /\ asCarrier' = TRUE
    /\ UNCHANGED <<asPending, asMask, asHandling>>

\* The kernel runs the handler; signals that arrive meanwhile stay pending.
AsDeliver ==
    /\ asCarrier /\ ~asHandling
    /\ asCarrier' = FALSE /\ asHandling' = TRUE
    /\ UNCHANGED <<asPending, asMask, asKick>>

AsCatch ==
    /\ asHandling
    /\ asPending' = asPending \ AsCaught({})
    /\ asHandling' = FALSE
    /\ UNCHANGED <<asMask, asCarrier, asKick>>

AsNext == \/ \E t \in AsSenders, bits \in SUBSET AsBits : As_send(t, bits)
          \/ \E op \in {"add", "set", "clear"}, in \in SUBSET AsBits : As_mask(op, in)
          \/ \E req \in SUBSET AsBits : As_read(req)
          \/ \E t \in AsSenders \cup {AsTarget} : AsKick(t)
          \/ AsDeliver \/ AsCatch

AsSpec == AsInit /\ [][AsNext]_asVars

\* No enabled signal is lost: while an enabled bit is pending, the carrier is
\* on its way, or the handler is about to read.
NoLostAsync ==
    (asMask \cup AsForced) \cap asPending # {} => asKick # {} \/ asCarrier \/ asHandling
=============================================================================
