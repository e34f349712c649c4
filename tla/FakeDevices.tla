------------------------------ MODULE FakeDevices ------------------------------
(***************************************************************************)
(* The descriptors of herosapi_shim.c: its open() answers for the HeROS    *)
(* devices with a memory file, or with a pipe for /dev/events, and notes   *)
(* the descriptor; ioctl() answers for the noted descriptors, and select() *)
(* and ppoll() shorten the wait of a dispatcher that watches one, because  *)
(* another process that notifies the dispatcher cannot make its pipe       *)
(* readable.  close() is the C library's own.                              *)
(***************************************************************************)
EXTENDS Naturals, FiniteSets, Sequences, Functions

CONSTANTS
    Fds,            \* the descriptor numbers
    MAX_FAKE,       \* the descriptors that are noted
    CapOn,          \* is HEROSCALL_SELECT_CAP_MS set ?
    PipeOn,         \* HEROS_EVENTS_PIPE
    MaxOpens        \* bound: the calls of open()

ASSUME DevicesAssumption ==
    /\ Fds \subseteq Nat \ {0} /\ MAX_FAKE \in Nat /\ MaxOpens \in Nat
    /\ CapOn \in BOOLEAN /\ PipeOn \in BOOLEAN

VARIABLES
    file,       \* file[fd]: what fd is open on: "free", "file", "memory", "pipe"
    fake,       \* fake_fds
    opens,      \* the calls of open() that were made
    reply,      \* the last ioctl(): what was it for, and who answered ?
    events,     \* the dispatcher's own descriptor of /dev/events, 0 before
    watch,      \* where the dispatcher is: "out", or in select() with a timeout
    notified    \* has another process notified the dispatcher ?

fdVars == <<file, fake, opens, reply, events, watch, notified>>

NoIoctl == [on |-> "free", by |-> "nobody", known |-> FALSE]

FdInit ==
    /\ file = [fd \in Fds |-> "free"] /\ fake = <<>> /\ opens = 0
    /\ reply = NoIoctl
    /\ events = 0 /\ watch = "out" /\ notified = FALSE

\* The descriptor the kernel gives out.
Lowest(fd) == file[fd] = "free" /\ \A g \in Fds : file[g] = "free" => fd <= g

\* Mutant of Remember: a descriptor of a pipe is not noted.
RememberFiles(fd, k) ==
    fake' = IF k = "memory" /\ Len(fake) < MAX_FAKE THEN Append(fake, fd) ELSE fake

\* remember(): a descriptor that does not fit is not noted.
Remember(fd, k) ==
    fake' = IF k \in {"memory", "pipe"} /\ Len(fake) < MAX_FAKE THEN Append(fake, fd) ELSE fake

IsFake(fd) == fd \in Range(fake)

Open(fd, k) ==
    /\ opens < MaxOpens /\ opens' = opens + 1
    /\ Lowest(fd)
    /\ file' = [file EXCEPT ![fd] = k]
    /\ Remember(fd, k)

OpenOther ==
    /\ \E fd \in Fds, k \in {"file", "memory"} : Open(fd, k)
    /\ UNCHANGED <<reply, events, watch, notified>>

OpenEvents ==
    /\ events = 0
    /\ \E fd \in Fds : Open(fd, IF PipeOn THEN "pipe" ELSE "memory") /\ events' = fd
    /\ UNCHANGED <<reply, watch, notified>>

CloseFd ==
    /\ \E fd \in Fds \ {events} :
         file[fd] # "free" /\ file' = [file EXCEPT ![fd] = "free"]
    /\ UNCHANGED <<fake, opens, reply, events, watch, notified>>

Ioctl ==
    /\ \E fd \in Fds :
         /\ file[fd] # "free"
         /\ reply' = [on |-> file[fd], by |-> IF IsFake(fd) THEN "shim" ELSE "kernel",
                      known |-> opens <= MAX_FAKE]
    /\ UNCHANGED <<file, fake, opens, events, watch, notified>>

\* Mutant of Timeout: a wait without a timeout is not shortened.
TimeoutKept(to) == IF CapOn /\ IsFake(events) /\ to = "long" THEN "cap" ELSE to

\* The timeout select() passes on, of a caller that watches its /dev/events.
Timeout(to) == IF CapOn /\ IsFake(events) /\ to \in {"none", "long"} THEN "cap" ELSE to

Select ==
    /\ events # 0 /\ watch = "out" /\ ~ notified
    /\ \E to \in {"none", "long"} : watch' = Timeout(to)
    /\ UNCHANGED <<file, fake, opens, reply, events, notified>>

\* The dispatcher comes back, looks for events itself, and waits again.
Elapse ==
    /\ watch \in {"cap", "long"} /\ watch' = "out" /\ notified' = FALSE
    /\ UNCHANGED <<file, fake, opens, reply, events>>

NotifyFromOutside ==
    /\ watch # "out" /\ ~ notified /\ notified' = TRUE
    /\ UNCHANGED <<file, fake, opens, reply, events, watch>>

FdNext ==
    \/ OpenOther \/ OpenEvents \/ CloseFd \/ Ioctl
    \/ Select \/ Elapse \/ NotifyFromOutside

\* A timeout that was given to the kernel elapses.
FdSpec == FdInit /\ [][FdNext]_fdVars /\ WF_fdVars(Elapse)

(* "Answer every ioctl on a faked device fd with success": as long as no    *)
(* more devices were opened than can be noted, the kernel never sees an     *)
(* ioctl for a device, whatever was closed and opened again in between.     *)
DevicesAnswered ==
    reply.on \in {"memory", "pipe"} /\ reply.known => reply.by = "shim"

(* A dispatcher whose /dev/events is noted sees a notification of another   *)
(* process: "the dispatcher then wakes every SELECT_CAP_MS".  Notified      *)
(* leads to its end.                                                        *)
Notified == notified /\ IsFake(events)
=============================================================================
