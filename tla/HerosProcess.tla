---------------------------- MODULE HerosProcess -----------------------------
(* A process under the runtime: how it is set up once, and how a fatal      *)
(* signal ends it.                                                          *)
EXTENDS Naturals, FiniteSets

------------------------------------------------------------------------------
(* ensure_init() of heros_rtos.c: the first system calls of a process and  *)
(* its constructor race to set the process up, behind a guard that is      *)
(* taken with an exchange, and every process sees whether the real         *)
(* hardware server has come up.                                            *)

CONSTANTS
    IiThreads,     \* the threads that call
    iiProcess,     \* iiProcess[t]: its process
    HwServer       \* the process named hwserver

IiProcesses == {iiProcess[t] : t \in IiThreads}

VARIABLES
    iiPc,          \* where a thread is in its call
    g_inited, g_guard,
    settings,      \* settings[p]: the gates of p were read from its environment
    control,       \* control[p]: ctl_init() has mapped the control segment
    alive,         \* hwserver_alive, in the segment
    runs           \* history: how often p was set up

iiVars == <<iiPc, g_inited, g_guard, settings, control, alive, runs>>

IiInit ==
    /\ iiPc = [t \in IiThreads |-> "call"]
    /\ g_inited = [p \in IiProcesses |-> FALSE] /\ g_guard = [p \in IiProcesses |-> 0]
    /\ settings = g_inited /\ control = g_inited
    /\ alive = FALSE /\ runs = g_guard

IiGo(t, s) == iiPc' = [iiPc EXCEPT ![t] = s]

\* The fast path.
IiLook(t) ==
    /\ iiPc[t] = "call"
    /\ IiGo(t, IF g_inited[iiProcess[t]] THEN "done" ELSE "spin")
    /\ UNCHANGED <<g_inited, g_guard, settings, control, alive, runs>>

IiSpin(t) ==
    /\ iiPc[t] = "spin"
    /\ g_guard' = [g_guard EXCEPT ![iiProcess[t]] = 1]
    /\ g_guard[iiProcess[t]] = 0 /\ IiGo(t, "again")
    /\ UNCHANGED <<g_inited, settings, control, alive, runs>>

\* Mutant of IiAgain: under the guard the flag is not looked at again.
IiAgainNot(t) ==
    /\ iiPc[t] = "again" /\ IiGo(t, "read")
    /\ UNCHANGED <<g_inited, g_guard, settings, control, alive, runs>>

IiAgain(t) ==
    /\ iiPc[t] = "again"
    /\ IiGo(t, IF g_inited[iiProcess[t]] THEN "leave" ELSE "read")
    /\ UNCHANGED <<g_inited, g_guard, settings, control, alive, runs>>

IiRead(t) ==
    /\ iiPc[t] = "read"
    /\ settings' = [settings EXCEPT ![iiProcess[t]] = TRUE]
    /\ runs' = [runs EXCEPT ![iiProcess[t]] = @ + 1]
    /\ IiGo(t, "map")
    /\ UNCHANGED <<g_inited, g_guard, control, alive>>

\* ctl_init(), and the flag of the hardware server.
IiMap(t) ==
    /\ iiPc[t] = "map"
    /\ control' = [control EXCEPT ![iiProcess[t]] = TRUE]
    /\ alive' = (alive \/ iiProcess[t] = HwServer)
    /\ IiGo(t, "set")
    /\ UNCHANGED <<g_inited, g_guard, settings, runs>>

IiSet(t) ==
    /\ iiPc[t] = "set"
    /\ g_inited' = [g_inited EXCEPT ![iiProcess[t]] = TRUE]
    /\ IiGo(t, "leave")
    /\ UNCHANGED <<g_guard, settings, control, alive, runs>>

IiLeave(t) ==
    /\ iiPc[t] = "leave"
    /\ g_guard' = [g_guard EXCEPT ![iiProcess[t]] = 0]
    /\ IiGo(t, "done")
    /\ UNCHANGED <<g_inited, settings, control, alive, runs>>

IiStep(t) == IiLook(t) \/ IiSpin(t) \/ IiAgain(t) \/ IiRead(t) \/ IiMap(t)
               \/ IiSet(t) \/ IiLeave(t)

IiNext == \E t \in IiThreads : IiStep(t)

IiFair == \A t \in IiThreads : WF_iiVars(IiStep(t))

(* A process is set up once, no call of it goes on before, and whoever     *)
(* calls after the real hardware server did finds it alive.                *)
SetUpOnce ==
    /\ \A p \in IiProcesses : runs[p] <= 1
    /\ \A t \in IiThreads : iiPc[t] = "done" =>
         /\ settings[iiProcess[t]] /\ control[iiProcess[t]]
         /\ iiProcess[t] = HwServer => alive

(* The guard is given back: every call goes on.                            *)
AllSetUp == \A t \in IiThreads : <>(iiPc[t] = "done")

------------------------------------------------------------------------------
(* A fatal signal in a process that is watched: HEROSCALL_BTRACE=1 of the   *)
(* emulator (sigaction() and signal() of heros_rtos.c, crash_locate()), or  *)
(* the preload segvbt.so.  Either interposes the guest's installation of a  *)
(* handler, dumps the fault first and then goes on the way the guest asked  *)
(* for.  One signal and one thread; the instruction that faulted faults     *)
(* again whenever it is resumed.                                            *)

VARIABLES sgLayer,    \* "rtos" or "segvbt", whichever is in the process
          sgReadable, \* every address the dump reads unchecked can be read
          sgWant,    \* what is recorded as the guest's wish: ctrl_h, guest_sa
          sgKernel,  \* the disposition the kernel has, with SA_NODEFER
          sgDepth,   \* crash_depth
          sgPending, \* raised again while the handler blocks it
          sgFaulted, \* the instruction to resume is one that faults
          sgAt       \* where the thread is

sgVars == <<sgLayer, sgReadable, sgWant, sgKernel, sgDepth, sgPending, sgFaulted, sgAt>>

Wishes == {"dfl", "ign", "fn"}

SgInit == /\ sgLayer \in {"rtos", "segvbt"} /\ sgReadable \in BOOLEAN
          /\ sgWant = "dfl" /\ sgKernel = [is |-> "dfl", nodefer |-> FALSE]
          /\ sgDepth = 0 /\ sgPending = FALSE /\ sgFaulted = FALSE /\ sgAt = "run"

\* rtos: sigaction() installs crash_locate for any wish, the default too;
\* signal() for a function only.
SgInstallRtos(call, wish, nodefer) ==
    IF call = "sigaction" \/ wish = "fn"
    THEN /\ sgWant' = wish
         /\ sgKernel' = [is |-> "dump", nodefer |-> nodefer]
    ELSE /\ sgKernel' = [is |-> wish, nodefer |-> FALSE]
         /\ UNCHANGED sgWant

\* segvbt: signal() goes through sigaction(), which installs the wrapper for
\* any wish.
SgInstallSegvbt(wish, nodefer) ==
    /\ sgWant' = wish
    /\ sgKernel' = [is |-> "dump", nodefer |-> nodefer]

\* The guest installs a handler.  signal() has no SA_NODEFER.
SgInstall(call, wish, nodefer) ==
    /\ sgAt = "run" /\ ~sgFaulted
    /\ call = "signal" => ~nodefer
    /\ IF sgLayer = "rtos" THEN SgInstallRtos(call, wish, nodefer)
                           ELSE SgInstallSegvbt(wish, nodefer)
    /\ UNCHANGED <<sgDepth, sgPending, sgFaulted, sgAt>>

\* Mutant of SgEnter: crash_locate without its guard.
SgEnterAgain == /\ sgAt' = "dump" /\ UNCHANGED sgDepth

\* The dump starts; crash_locate dumps once and ends the process if it is
\* entered again.
SgEnter ==
    IF sgLayer = "segvbt" THEN sgAt' = "dump" /\ UNCHANGED sgDepth
    ELSE /\ sgAt' = (IF sgDepth = 0 THEN "dump" ELSE "gone")
         /\ sgDepth' = sgDepth + 1

\* A fault cannot be ignored; the guest's handler ends the process.
SgFault ==
    /\ sgAt = "run" /\ sgFaulted' = TRUE
    /\ IF sgKernel.is = "dump" THEN SgEnter
                               ELSE sgAt' = "gone" /\ UNCHANGED sgDepth
    /\ UNCHANGED <<sgWant, sgKernel, sgPending>>

\* The dump reads an address that cannot be read: the kernel ends the process
\* unless SA_NODEFER has left the signal open, and then the handler is entered
\* again.
SgDumpFault ==
    /\ sgAt = "dump" /\ ~sgReadable
    /\ IF sgKernel.nodefer THEN SgEnter ELSE sgAt' = "gone" /\ UNCHANGED sgDepth
    /\ UNCHANGED <<sgWant, sgKernel, sgPending, sgFaulted>>

\* The dump is written: registers, frames, stack, maps.
SgDump == /\ sgAt = "dump" /\ sgReadable /\ sgAt' = "chain"
          /\ UNCHANGED <<sgWant, sgKernel, sgDepth, sgPending, sgFaulted>>

\* crash_locate calls the guest's handler and ends the process in any case.
SgChainRtos == sgAt' = "gone" /\ UNCHANGED <<sgWant, sgKernel, sgPending>>

\* The wrapper returns if the guest ignores the signal; for the default it
\* calls signal(), its own, and raises the signal, blocked until it returns.
SgChainSegvbt ==
    CASE sgWant = "fn"  -> sgAt' = "gone" /\ UNCHANGED <<sgWant, sgKernel, sgPending>>
      [] sgWant = "ign" -> sgAt' = "run"  /\ UNCHANGED <<sgWant, sgKernel, sgPending>>
      [] sgWant = "dfl" -> sgAt' = "run"  /\ SgInstallSegvbt("dfl", FALSE) /\ sgPending' = TRUE

SgChain ==
    /\ sgAt = "chain"
    /\ IF sgLayer = "rtos" THEN SgChainRtos ELSE SgChainSegvbt
    /\ UNCHANGED <<sgDepth, sgFaulted>>

\* The handler has returned and the raised signal is delivered.
SgRaised ==
    /\ sgAt = "run" /\ sgPending
    /\ sgPending' = FALSE
    /\ SgEnter
    /\ UNCHANGED <<sgWant, sgKernel, sgFaulted>>

SgNext ==
    /\ UNCHANGED <<sgLayer, sgReadable>>
    /\ \/ \E call \in {"sigaction", "signal"}, wish \in Wishes, nodefer \in BOOLEAN :
                SgInstall(call, wish, nodefer)
       \/ SgFault \/ SgDumpFault \/ SgDump \/ SgChain \/ SgRaised

SgStep == /\ sgFaulted /\ UNCHANGED <<sgLayer, sgReadable>>
          /\ (SgFault \/ SgDumpFault \/ SgDump \/ SgChain \/ SgRaised)

SgSpec == SgInit /\ [][SgNext]_sgVars /\ WF_sgVars(SgStep)

\* A fault ends the process: under the emulator always, whatever the guest has
\* installed and whatever the dump runs into; under segvbt if the guest has a
\* handler of its own and the dump can be written.
FaultEnds == /\ sgFaulted /\ sgLayer = "rtos" ~> sgAt = "gone"
             /\ sgFaulted /\ sgWant = "fn" /\ sgReadable ~> sgAt = "gone"

\* A process that has asked for the default dies of the signal as usual.
DefaultDies == sgFaulted /\ sgReadable /\ sgWant = "dfl" ~> sgAt = "gone"
==============================================================================
