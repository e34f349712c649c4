---------------------------- MODULE ServicesProofs ----------------------------
(***************************************************************************)
(* Proofs about what works beside the guest's calls: the noted descriptors *)
(* of the device shim, for every number of them and of calls; the numbers  *)
(* and timers of the window manager's messages, for every set of threads   *)
(* and of timers and every size of the ring; the flows that are posted on  *)
(* behalf of all processes, for every set of them; and ConfigServer's      *)
(* run-up, for every set of threads and of clients.                        *)
(***************************************************************************)
EXTENDS MCServices, FiniteSetTheorems, SequenceTheorems, TLAPS

-----------------------------------------------------------------------------
(* The device shim                                                         *)

Devices == {"memory", "pipe"}

\* Until more is opened than can be noted, what is open on a device is noted.
Noted ==
    opens <= MAX_FAKE => \A fd \in Fds : file[fd] \in Devices => IsFake(fd)

FdInv ==
    /\ file \in [Fds -> {"free", "file"} \cup Devices]
    /\ opens \in Nat /\ fake \in Seq(Fds) /\ Len(fake) <= opens
    /\ Noted /\ DevicesAnswered

(* A descriptor that is noted stays so, and one that fits is.              *)
LEMMA NotedToo ==
    ASSUME fake \in Seq(Fds), NEW fd \in Fds, NEW k, Remember(fd, k)
    PROVE  /\ fake' \in Seq(Fds) /\ Len(fake') <= Len(fake) + 1
           /\ \A g \in Fds : IsFake(g) => IsFake(g)'
           /\ k \in Devices /\ Len(fake) < MAX_FAKE => IsFake(fd)'
  <1>1. CASE k \in Devices /\ Len(fake) < MAX_FAKE
    <2>1. fake' = Append(fake, fd)
      BY <1>1 DEF Remember, Devices
    <2>2. /\ fake' \in Seq(Fds) /\ Len(fake') = Len(fake) + 1
          /\ DOMAIN fake = 1..Len(fake) /\ DOMAIN fake' = 1..Len(fake')
      BY <2>1
    <2>3. fake'[Len(fake')] = fd /\ \A i \in DOMAIN fake : fake'[i] = fake[i]
      BY <2>1, <2>2
    <2>4. \A g \in Fds : IsFake(g) => IsFake(g)'
      BY <2>2, <2>3 DEF IsFake, Range
    <2>5. IsFake(fd)'
      BY <2>2, <2>3 DEF IsFake, Range
    <2> QED BY <2>2, <2>4, <2>5
  <1>2. CASE ~ (k \in Devices /\ Len(fake) < MAX_FAKE)
    <2>1. fake' = fake
      BY <1>2 DEF Remember, Devices
    <2> QED BY <1>2, <2>1 DEF IsFake
  <1> QED BY <1>1, <1>2

(* open() keeps every device noted, as long as all of them fit.            *)
LEMMA OpenNotes ==
    ASSUME FdInv, NEW fd \in Fds, NEW k \in {"file"} \cup Devices, Open(fd, k), UNCHANGED reply
    PROVE  FdInv'
  <1> USE DevicesAssumption
  <1>1. /\ opens' = opens + 1 /\ file' = [file EXCEPT ![fd] = k]
        /\ opens \in Nat /\ fake \in Seq(Fds) /\ Len(fake) <= opens
    BY DEF Open, FdInv
  <1>2. /\ fake' \in Seq(Fds) /\ Len(fake') <= Len(fake) + 1
        /\ \A g \in Fds : IsFake(g) => IsFake(g)'
        /\ k \in Devices /\ Len(fake) < MAX_FAKE => IsFake(fd)'
    BY <1>1, NotedToo DEF Open
  <1>3. file' \in [Fds -> {"free", "file"} \cup Devices]
    BY <1>1 DEF FdInv
  <1>4. ASSUME opens' <= MAX_FAKE, NEW g \in Fds, file'[g] \in Devices PROVE IsFake(g)'
    <2>1. opens <= MAX_FAKE /\ Len(fake) < MAX_FAKE
      BY <1>1, <1>4
    <2>2. CASE g = fd
      BY <1>1, <1>2, <1>4, <2>1, <2>2 DEF FdInv
    <2>3. CASE g # fd
      BY <1>1, <1>2, <1>4, <2>1, <2>3 DEF FdInv, Noted
    <2> QED BY <2>2, <2>3
  <1>5. Len(fake') <= opens' /\ opens' \in Nat
    BY <1>1, <1>2
  <1>6. DevicesAnswered'
    BY DEF FdInv, DevicesAnswered
  <1> QED BY <1>2, <1>3, <1>4, <1>5, <1>6 DEF FdInv, Noted

LEMMA FdInvInit == FdInit => FdInv
  BY DEF FdInit, FdInv, Noted, DevicesAnswered, NoIoctl, Devices

LEMMA FdInvStep == FdInv /\ [FdNext]_fdVars => FdInv'
  <1> SUFFICES ASSUME FdInv, [FdNext]_fdVars PROVE FdInv'
    OBVIOUS
  <1>1. CASE OpenOther
    BY <1>1, OpenNotes DEF OpenOther, Devices
  <1>2. CASE OpenEvents
    BY <1>2, OpenNotes DEF OpenEvents, Devices
  <1>3. CASE CloseFd
    BY <1>3 DEF CloseFd, FdInv, Noted, DevicesAnswered, IsFake, Devices
  <1>4. CASE Ioctl
    <2>1. PICK fd \in Fds :
            reply' = [on |-> file[fd], by |-> IF IsFake(fd) THEN "shim" ELSE "kernel",
                      known |-> opens <= MAX_FAKE]
      BY <1>4 DEF Ioctl
    <2>2. DevicesAnswered'
      BY <2>1 DEF DevicesAnswered, FdInv, Noted, Devices
    <2> QED BY <1>4, <2>2 DEF Ioctl, FdInv, Noted, IsFake
  <1>5. CASE Select \/ Elapse \/ NotifyFromOutside \/ UNCHANGED fdVars
    BY <1>5 DEF Select, Elapse, NotifyFromOutside, fdVars, FdInv, Noted, DevicesAnswered, IsFake
  <1> QED BY <1>1, <1>2, <1>3, <1>4, <1>5 DEF FdNext

-----------------------------------------------------------------------------
(* The window manager's timers                                             *)

(* The array of timers has no lock.                                        *)
OneSender == \A t, u \in WmSenders : t = u

WmThreads == WmReaders \cup WmPosters \cup WmSenders

UsedBy(n) == {wmTimers[i] : i \in 1..n}

\* With n entries the array is what the client has armed, once each.
Agrees(n) ==
    /\ \A i, j \in 1..n : wmTimers[i] = wmTimers[j] => i = j
    /\ UsedBy(n) \subseteq wmArmed
    /\ Cardinality(TimerIds) <= MaxTimers => UsedBy(n) = wmArmed

\* What a thread of the client is doing that changes nothing in the array.
Aside(w) ==
    \/ w = Idle
    \/ \E n \in Nat : w = [at |-> "due", n |-> n]
    \/ \E n, i \in Nat : w = [at |-> "post", n |-> n, i |-> i]

\* What a sender is doing that does: it holds the count that is in force, or
\* the one it is about to put in force.
Inside(w) ==
    \/ \E id \in TimerIds \ wmArmed : w = [at |-> "start", id |-> id, n |-> wmCount]
    \/ \E id \in wmArmed : w = [at |-> "stop", id |-> id, n |-> wmCount]
    \/ \E n \in 0..MaxTimers : w = [at |-> "store", n |-> n] /\ Agrees(n)

TimerInv ==
    /\ wmTimers \in [1..MaxTimers -> TimerIds \cup {NoTimer}]
    /\ wmCount \in 0..MaxTimers /\ wmArmed \subseteq TimerIds
    /\ DOMAIN wmTask = WmThreads
    /\ \A t \in WmThreads : Aside(wmTask[t]) \/ (t \in WmSenders /\ Inside(wmTask[t]))
    /\ (\A t \in WmSenders : wmTask[t].at # "store") => Agrees(wmCount)

LEMMA TimerInit == WmInit => TimerInv
  <1> SUFFICES ASSUME WmInit PROVE TimerInv
    OBVIOUS
  <1> USE WmAssumption
  <1>1. /\ wmTimers = [i \in 1..MaxTimers |-> NoTimer] /\ wmCount = 0 /\ wmArmed = {}
        /\ wmTask = [t \in WmThreads |-> Idle]
    BY DEF WmInit, WmThreads
  <1>2. Agrees(0)
    BY <1>1 DEF Agrees, UsedBy
  <1> QED BY <1>1, <1>2 DEF TimerInv, Aside

(* As many entries as are in use are timers: none is there twice.          *)
LEMMA UsedCount ==
    ASSUME TimerInv, NEW n \in 0..MaxTimers, Agrees(n)
    PROVE  /\ IsFiniteSet(UsedBy(n)) /\ Cardinality(UsedBy(n)) = n
           /\ UsedBy(n) \subseteq TimerIds
  <1> DEFINE g == [i \in 1..n |-> wmTimers[i]]
  <1>1. n \in Nat /\ IsFiniteSet(TimerIds) /\ wmArmed \subseteq TimerIds
    BY WmAssumption DEF TimerInv
  <1>2. UsedBy(n) \subseteq TimerIds /\ IsFiniteSet(UsedBy(n))
    BY <1>1, FS_Subset DEF Agrees
  <1>3. g \in [1..n -> UsedBy(n)] /\ \A i, j \in 1..n : g[i] = g[j] => i = j
    BY DEF UsedBy, Agrees
  <1>4. \A x \in UsedBy(n) : \E i \in 1..n : g[i] = x
    BY DEF UsedBy
  <1>5. DOMAIN g = 1..n
    OBVIOUS
  <1> HIDE DEF g
  <1>6. g \in Injection(1..n, UsedBy(n)) /\ g \in Surjection(1..n, UsedBy(n))
    BY <1>3, <1>4, <1>5 DEF Injection, IsInjective, Surjection
  <1>7. Cardinality(1..n) = Cardinality(UsedBy(n))
    BY <1>2, <1>6, FS_Injection
  <1>8. Cardinality(1..n) = IF 1 > n THEN 0 ELSE n - 1 + 1
    BY <1>1, FS_Interval
  <1> QED BY <1>1, <1>2, <1>7, <1>8

LEMMA TimersSound == TimerInv => WmTimersAgree
  <1> SUFFICES ASSUME TimerInv, \A t \in WmSenders : wmTask[t] = Idle
               PROVE  /\ Cardinality(UsedBy(wmCount)) = wmCount
                      /\ UsedBy(wmCount) \subseteq wmArmed
                      /\ Cardinality(TimerIds) <= MaxTimers => UsedBy(wmCount) = wmArmed
    BY DEF WmTimersAgree, UsedBy
  <1>1. \A t \in WmSenders : wmTask[t].at # "store"
    BY DEF Idle
  <1>2. Agrees(wmCount) /\ wmCount \in 0..MaxTimers
    BY <1>1 DEF TimerInv
  <1> QED BY <1>2, UsedCount DEF Agrees

\* What the label of a thread says.
LEMMA Labels ==
    ASSUME NEW w
    PROVE  /\ Inside(w) => w.at \in {"start", "stop", "store"}
           /\ Aside(w) => w.at \in {"idle", "due", "post"}
           /\ Aside(w) /\ w.at = "due" => \E n \in Nat : w = [at |-> "due", n |-> n]
           /\ Aside(w) /\ w.at = "post"
                => \E n, i \in Nat : w = [at |-> "post", n |-> n, i |-> i]
           /\ Inside(w) /\ w.at = "start"
                => \E id \in TimerIds \ wmArmed : w = [at |-> "start", id |-> id, n |-> wmCount]
           /\ Inside(w) /\ w.at = "stop"
                => \E id \in wmArmed : w = [at |-> "stop", id |-> id, n |-> wmCount]
           /\ Inside(w) /\ w.at = "store"
                => \E n \in 0..MaxTimers : w = [at |-> "store", n |-> n] /\ Agrees(n)
  <1>1. ASSUME Inside(w) PROVE w.at \in {"start", "stop", "store"}
    <2>1. CASE \E id \in TimerIds \ wmArmed : w = [at |-> "start", id |-> id, n |-> wmCount]
      BY <2>1
    <2>2. CASE \E id \in wmArmed : w = [at |-> "stop", id |-> id, n |-> wmCount]
      BY <2>2
    <2>3. CASE \E n \in 0..MaxTimers : w = [at |-> "store", n |-> n] /\ Agrees(n)
      BY <2>3
    <2> QED BY <1>1, <2>1, <2>2, <2>3 DEF Inside
  <1>2. Idle.at = "idle"
    BY DEF Idle
  <1>3. (\E n \in Nat : w = [at |-> "due", n |-> n]) => w.at = "due"
    OBVIOUS
  <1>4. (\E n, i \in Nat : w = [at |-> "post", n |-> n, i |-> i]) => w.at = "post"
    OBVIOUS
  <1>5. Aside(w) => w.at \in {"idle", "due", "post"}
    BY <1>2, <1>3, <1>4, Zenon DEF Aside
  <1>6. "idle" # "due" /\ "idle" # "post" /\ "due" # "post"
    OBVIOUS
  <1>7. Aside(w) /\ w.at = "due" => \E n \in Nat : w = [at |-> "due", n |-> n]
    BY <1>2, <1>4, <1>6, Zenon DEF Aside
  <1>8. Aside(w) /\ w.at = "post" => \E n, i \in Nat : w = [at |-> "post", n |-> n, i |-> i]
    BY <1>2, <1>3, <1>6, Zenon DEF Aside
  <1>9. /\ (\E id \in TimerIds \ wmArmed : w = [at |-> "start", id |-> id, n |-> wmCount])
             => w.at = "start"
        /\ (\E id \in wmArmed : w = [at |-> "stop", id |-> id, n |-> wmCount]) => w.at = "stop"
        /\ (\E n \in 0..MaxTimers : w = [at |-> "store", n |-> n] /\ Agrees(n)) => w.at = "store"
    OBVIOUS
  <1>10. "start" # "stop" /\ "start" # "store" /\ "stop" # "store"
    OBVIOUS
  <1>11. Inside(w) /\ w.at = "start"
          => \E id \in TimerIds \ wmArmed : w = [at |-> "start", id |-> id, n |-> wmCount]
    BY <1>9, <1>10, Zenon DEF Inside
  <1>12. Inside(w) /\ w.at = "stop"
          => \E id \in wmArmed : w = [at |-> "stop", id |-> id, n |-> wmCount]
    BY <1>9, <1>10, Zenon DEF Inside
  <1>13. Inside(w) /\ w.at = "store"
          => \E n \in 0..MaxTimers : w = [at |-> "store", n |-> n] /\ Agrees(n)
    BY <1>9, <1>10, Zenon DEF Inside
  <1> QED BY <1>1, <1>5, <1>7, <1>8, <1>11, <1>12, <1>13

(* Steps beside the array keep it, and so do the threads that wait and     *)
(* post.                                                                   *)
LEMMA BesideTimers ==
    ASSUME TimerInv, UNCHANGED wmTable, NEW t \in WmThreads, NEW w, Aside(w),
           Aside(wmTask[t]), wmTask' = [wmTask EXCEPT ![t] = w]
    PROVE  TimerInv'
  <1>1. \A n : Agrees(n)' <=> Agrees(n)
    BY DEF Agrees, UsedBy, wmTable
  <1>2. \A u \in WmThreads : wmTask'[u] = wmTask[u] /\ Inside(wmTask[u]) => Inside(wmTask[u])'
    BY <1>1 DEF Inside, wmTable
  <1>3. \A u \in WmThreads : wmTask'[u] = IF u = t THEN w ELSE wmTask[u]
    BY DEF TimerInv
  <1>4. wmTask[t].at # "store"
    BY Labels
  <1>5. (\A u \in WmSenders : wmTask'[u].at # "store")
          => \A u \in WmSenders : wmTask[u].at # "store"
    BY <1>3, <1>4 DEF WmThreads
  <1>6. \A u \in WmThreads : Aside(wmTask'[u]) \/ (u \in WmSenders /\ Inside(wmTask[u])')
    BY <1>2, <1>3 DEF TimerInv
  <1> QED BY <1>1, <1>5, <1>6 DEF TimerInv, wmTable

LEMMA ReaderTimers ==
    ASSUME TimerInv, NEW t \in WmThreads,
           WmPoll(t) \/ WmStart(t) \/ WmPosterWakes(t) \/ WmTick(t)
    PROVE  TimerInv'
  <1>1. UNCHANGED wmTable /\ wmCount \in Nat
    BY DEF WmPoll, WmStart, WmPosterWakes, WmTick, TimerInv
  <1>2. Aside(wmTask[t]) \/ Inside(wmTask[t])
    BY DEF TimerInv
  <1>3. Inside(wmTask[t]) => wmTask[t].at \in {"start", "stop", "store"}
    BY Labels
  <1>4. CASE WmPoll(t) \/ WmPosterWakes(t)
    <2>1. PICK w : w \in {[at |-> "due", n |-> wmCount], [at |-> "post", n |-> wmCount, i |-> 1]}
                   /\ wmTask' = [wmTask EXCEPT ![t] = w] /\ wmTask[t] = Idle
      BY <1>4 DEF WmPoll, WmPosterWakes
    <2>2. Aside(w) /\ Aside(wmTask[t])
      BY <1>1, <2>1 DEF Aside
    <2> QED BY <1>1, <2>1, <2>2, BesideTimers
  <1>5. CASE WmStart(t)
    <2>1. wmTask[t].at = "due"
      BY <1>5 DEF WmStart
    <2>2. PICK n \in Nat : wmTask[t] = [at |-> "due", n |-> n]
      BY <1>2, <1>3, <2>1, Labels
    <2>3. wmTask' = [wmTask EXCEPT ![t] = [at |-> "post", n |-> n, i |-> 1]]
      BY <1>5, <2>2 DEF WmStart, TimerInv
    <2>4. Aside([at |-> "post", n |-> n, i |-> 1]) /\ Aside(wmTask[t])
      BY <2>2 DEF Aside
    <2> QED BY <1>1, <2>3, <2>4, BesideTimers
  <1>6. CASE WmTick(t)
    <2>1. wmTask[t].at = "post"
      BY <1>6 DEF WmTick
    <2>2. PICK n \in Nat, i \in Nat : wmTask[t] = [at |-> "post", n |-> n, i |-> i]
      BY <1>2, <1>3, <2>1, Labels
    <2> DEFINE w == IF i = n THEN Idle ELSE [at |-> "post", n |-> n, i |-> i + 1]
    <2>3. wmTask' = [wmTask EXCEPT ![t] = w]
      <3>1. /\ wmTask[t].i = i /\ wmTask[t].n = n
            /\ [wmTask[t] EXCEPT !.i = wmTask[t].i + 1] = [at |-> "post", n |-> n, i |-> i + 1]
        BY <2>2
      <3>2. wmTask' = [wmTask EXCEPT ![t] = IF wmTask[t].i = wmTask[t].n THEN Idle
                                            ELSE [wmTask[t] EXCEPT !.i = wmTask[t].i + 1]]
        BY <1>6 DEF WmTick, WmNextTick
      <3> QED BY <3>1, <3>2
    <2>4. Aside(w) /\ Aside(wmTask[t])
      BY <2>2 DEF Aside
    <2> HIDE DEF w
    <2> QED BY <1>1, <2>3, <2>4, BesideTimers
  <1> QED BY <1>4, <1>5, <1>6

(* A step of the only sender keeps the array when what it goes on with is  *)
(* right.                                                                  *)
LEMMA BySender ==
    ASSUME TimerInv, OneSender, NEW t \in WmSenders, NEW w,
           wmTask' = [wmTask EXCEPT ![t] = w], Aside(w) \/ Inside(w)',
           wmTimers' \in [1..MaxTimers -> TimerIds \cup {NoTimer}],
           wmCount' \in 0..MaxTimers, wmArmed' \subseteq TimerIds,
           w.at # "store" => Agrees(wmCount)'
    PROVE  TimerInv'
  <1>1. t \in WmThreads
    BY DEF WmThreads
  <1>2. \A u \in WmThreads : wmTask'[u] = IF u = t THEN w ELSE wmTask[u]
    BY DEF TimerInv
  <1>3. wmTask'[t] = w
    BY <1>1, <1>2
  <1>4. ASSUME NEW u \in WmThreads, u # t PROVE Aside(wmTask'[u])
    <2>1. u \notin WmSenders
      BY <1>4 DEF OneSender
    <2>2. Aside(wmTask[u]) /\ wmTask'[u] = wmTask[u]
      BY <1>2, <1>4, <2>1 DEF TimerInv
    <2> QED BY <2>2
  <1>5. Aside(wmTask'[t]) \/ (t \in WmSenders /\ Inside(wmTask[t])')
    BY <1>3
  <1>6. \A u \in WmThreads : Aside(wmTask'[u]) \/ (u \in WmSenders /\ Inside(wmTask[u])')
    BY <1>4, <1>5
  <1>7. (\A u \in WmSenders : wmTask'[u].at # "store") => Agrees(wmCount)'
    BY <1>3
  <1>8. DOMAIN wmTask' = WmThreads
    BY DEF TimerInv
  <1> QED BY <1>6, <1>7, <1>8 DEF TimerInv

LEMMA OpenTimers ==
    ASSUME TimerInv, OneSender, NEW t \in WmSenders, NEW op \in {"start", "stop"},
           NEW id \in TimerIds, WmOpen(t, op, id)
    PROVE  TimerInv'
  <1>0. PICK n : n = wmCount
    OBVIOUS
  <1> DEFINE w == [at |-> op, id |-> id, n |-> n]
  <1>1. /\ wmTask[t] = Idle /\ wmTask' = [wmTask EXCEPT ![t] = w] /\ UNCHANGED wmTable
        /\ op = "start" <=> id \notin wmArmed
    BY <1>0 DEF WmOpen
  <1>2. \A u \in WmSenders : wmTask[u].at # "store"
    BY <1>1 DEF OneSender, Idle
  <1>3. Agrees(wmCount)'
    BY <1>1, <1>2 DEF TimerInv, Agrees, UsedBy, wmTable
  <1>4. Inside(w)'
    <2>1. n = wmCount' /\ wmArmed' = wmArmed
      BY <1>0, <1>1 DEF wmTable
    <2>2. CASE op = "start"
      BY <1>1, <2>1, <2>2 DEF Inside
    <2>3. CASE op = "stop"
      BY <1>1, <2>1, <2>3 DEF Inside
    <2> QED BY <2>2, <2>3
  <1>5. wmTimers' \in [1..MaxTimers -> TimerIds \cup {NoTimer}] /\ wmCount' \in 0..MaxTimers /\ wmArmed' \subseteq TimerIds
    BY <1>1 DEF TimerInv, wmTable
  <1> HIDE DEF w
  <1> QED BY <1>1, <1>3, <1>4, <1>5, BySender

(* StartTimer: an id that is not armed is not in the array, and when there *)
(* are entries for all there is one left.                                  *)
LEMMA EnterTimers ==
    ASSUME TimerInv, OneSender, NEW t \in WmSenders, WmEnter(t)
    PROVE  TimerInv'
  <1>1. t \in WmThreads
    BY DEF WmThreads
  <1>2. wmTask[t].at = "start"
    BY DEF WmEnter
  <1>3. Inside(wmTask[t])
    <2>1. ~ Aside(wmTask[t])
      BY <1>2, Labels
    <2> QED BY <1>1, <2>1 DEF TimerInv
  <1>4. PICK id \in TimerIds \ wmArmed : wmTask[t] = [at |-> "start", id |-> id, n |-> wmCount]
    BY <1>2, <1>3, Labels
  <1>5. wmTask[t].id = id /\ wmTask[t].n = wmCount
    BY <1>4
  <1>6. \A u \in WmSenders : wmTask[u].at # "store"
    BY <1>2 DEF OneSender
  <1>7. Agrees(wmCount) /\ wmCount \in 0..MaxTimers /\ wmCount \in Nat /\ MaxTimers \in Nat
    BY <1>6, WmAssumption DEF TimerInv
  <1>8. WmPlaces(t) = {} /\ id \notin UsedBy(wmCount)
    BY <1>4, <1>5, <1>7 DEF WmPlaces, Agrees, UsedBy
  <1>9. wmArmed' = wmArmed \cup {id} /\ wmCount' = wmCount
    BY <1>5 DEF WmEnter
  <1>10. wmArmed' \subseteq TimerIds
    BY <1>9 DEF TimerInv
  <1>11. CASE wmCount < MaxTimers
    <2>0. PICK n \in Nat : n = wmCount + 1
      BY <1>7
    <2> DEFINE w == [at |-> "store", n |-> n]
    <2>1. wmTimers' = [wmTimers EXCEPT ![n] = id] /\ wmTask' = [wmTask EXCEPT ![t] = w]
      BY <1>5, <1>8, <1>11, <2>0 DEF WmEnter
    <2>2. n \in 1..MaxTimers /\ 1..n = 1..wmCount \cup {n} /\ n \notin 1..wmCount
      BY <1>7, <1>11, <2>0
    <2>3. wmTimers'[n] = id /\ \A i \in 1..wmCount : wmTimers'[i] = wmTimers[i]
      BY <1>7, <2>1, <2>2 DEF TimerInv
    <2>4. wmTimers' \in [1..MaxTimers -> TimerIds \cup {NoTimer}]
      BY <2>1, <2>2 DEF TimerInv
    <2>5. UsedBy(n)' = UsedBy(wmCount) \cup {id}
      BY <2>2, <2>3 DEF UsedBy
    <2>6. \A i, j \in 1..n : wmTimers'[i] = wmTimers'[j] => i = j
      BY <1>7, <1>8, <2>2, <2>3 DEF Agrees, UsedBy
    <2>7. Agrees(n)'
      BY <1>7, <1>9, <2>5, <2>6 DEF Agrees
    <2>8. Inside(w)' /\ w.at = "store"
      BY <2>2, <2>7 DEF Inside
    <2> HIDE DEF w
    <2> QED BY <1>7, <1>9, <1>10, <2>1, <2>4, <2>8, BySender
  <1>12. CASE ~ (wmCount < MaxTimers)
    <2>1. wmTask' = [wmTask EXCEPT ![t] = Idle] /\ UNCHANGED wmTimers
      BY <1>5, <1>8, <1>12 DEF WmEnter
    <2>2. ~ (Cardinality(TimerIds) <= MaxTimers)
      <3>1. /\ IsFiniteSet(UsedBy(wmCount)) /\ Cardinality(UsedBy(wmCount)) = wmCount
            /\ UsedBy(wmCount) \subseteq TimerIds \ {id}
        BY <1>7, <1>8, UsedCount
      <3>2. IsFiniteSet(TimerIds) /\ id \in TimerIds
        BY WmAssumption
      <3>3. /\ IsFiniteSet(TimerIds \ {id})
            /\ Cardinality(TimerIds \ {id}) = Cardinality(TimerIds) - 1
        BY <3>2, FS_RemoveElement
      <3>4. Cardinality(UsedBy(wmCount)) <= Cardinality(TimerIds \ {id})
        BY <3>1, <3>3, FS_Subset
      <3>5. Cardinality(TimerIds) \in Nat
        BY <3>2, FS_CardinalityType
      <3> QED BY <1>7, <1>12, <3>1, <3>3, <3>4, <3>5
    <2>3. Agrees(wmCount)'
      BY <1>7, <1>9, <2>1, <2>2 DEF Agrees, UsedBy
    <2>4. Aside(Idle)
      BY DEF Aside
    <2>5. wmTimers' \in [1..MaxTimers -> TimerIds \cup {NoTimer}] /\ wmCount' \in 0..MaxTimers
      BY <1>7, <1>9, <2>1 DEF TimerInv
    <2> QED BY <1>10, <2>1, <2>3, <2>4, <2>5, BySender
  <1> QED BY <1>11, <1>12

(* StopTimer: an id that is armed goes, and those after it move up.        *)
LEMMA ShiftTimers ==
    ASSUME TimerInv, OneSender, NEW t \in WmSenders, WmShift(t)
    PROVE  TimerInv'
  <1>1. t \in WmThreads
    BY DEF WmThreads
  <1>2. wmTask[t].at = "stop"
    BY DEF WmShift
  <1>3. Inside(wmTask[t])
    <2>1. ~ Aside(wmTask[t])
      BY <1>2, Labels
    <2> QED BY <1>1, <2>1 DEF TimerInv
  <1>4. PICK id \in wmArmed : wmTask[t] = [at |-> "stop", id |-> id, n |-> wmCount]
    BY <1>2, <1>3, Labels
  <1>5. wmTask[t].id = id /\ wmTask[t].n = wmCount
    BY <1>4
  <1>6. \A u \in WmSenders : wmTask[u].at # "store"
    BY <1>2 DEF OneSender
  <1>7. Agrees(wmCount) /\ wmCount \in 0..MaxTimers /\ wmCount \in Nat /\ MaxTimers \in Nat
    BY <1>6, WmAssumption DEF TimerInv
  <1>8. wmArmed' = wmArmed \ {id} /\ wmCount' = wmCount
    BY <1>5 DEF WmShift
  <1>9. wmArmed' \subseteq TimerIds
    BY <1>8 DEF TimerInv
  <1>10. WmPlaces(t) = {i \in 1..wmCount : wmTimers[i] = id}
    BY <1>5 DEF WmPlaces
  <1>11. CASE WmPlaces(t) = {}
    <2>1. wmTask' = [wmTask EXCEPT ![t] = Idle] /\ UNCHANGED wmTimers
      BY <1>11 DEF WmShift
    <2>2. id \notin UsedBy(wmCount)
      BY <1>10, <1>11 DEF UsedBy
    <2>3. Agrees(wmCount)'
      BY <1>4, <1>7, <1>8, <2>1, <2>2 DEF Agrees, UsedBy
    <2>4. Aside(Idle)
      BY DEF Aside
    <2>5. wmTimers' \in [1..MaxTimers -> TimerIds \cup {NoTimer}] /\ wmCount' \in 0..MaxTimers
      BY <1>7, <1>8, <2>1 DEF TimerInv
    <2> QED BY <1>9, <2>1, <2>3, <2>4, <2>5, BySender
  <1>12. CASE WmPlaces(t) # {}
    <2>1. PICK k \in WmPlaces(t) : TRUE
      BY <1>12
    <2>2. WmPlaces(t) = {k} /\ k \in 1..wmCount /\ wmTimers[k] = id
      BY <1>7, <1>10, <2>1 DEF Agrees
    <2>3. (CHOOSE i \in WmPlaces(t) : \A j \in WmPlaces(t) : i <= j) = k
      BY <1>7, <2>2
    <2>0. PICK n \in Nat : wmCount = n + 1
      BY <1>7, <2>2
    <2> DEFINE w == [at |-> "store", n |-> n]
    <2>4. /\ wmTimers' = [i \in 1..MaxTimers |-> IF i \in k..n THEN wmTimers[i + 1] ELSE wmTimers[i]]
          /\ wmTask' = [wmTask EXCEPT ![t] = w]
      <3>1. wmTask[t].n - 1 = n
        BY <1>5, <1>7, <2>0
      <3>2. /\ wmTimers' = [i \in 1..MaxTimers |-> IF i \in k..(wmTask[t].n - 1)
                                                  THEN wmTimers[i + 1] ELSE wmTimers[i]]
            /\ wmTask' = [wmTask EXCEPT ![t] = [at |-> "store", n |-> wmTask[t].n - 1]]
        BY <1>12, <2>3, Zenon DEF WmShift
      <3> QED BY <3>1, <3>2, Zenon
    <2>5. n \in 0..MaxTimers /\ n \in Nat /\ \A i \in 1..n : i \in 1..MaxTimers /\ i + 1 \in 1..wmCount
      BY <1>7, <2>0, <2>2
    <2>6. wmTimers' \in [1..MaxTimers -> TimerIds \cup {NoTimer}]
      BY <1>7, <2>2, <2>4, <2>5 DEF TimerInv
    <2>7. \A i \in 1..n : wmTimers'[i] = wmTimers[IF i < k THEN i ELSE i + 1]
      BY <1>7, <2>2, <2>4, <2>5
    <2>8. wmCount = n + 1
      BY <2>0
    <2>9. ASSUME NEW x PROVE x \in UsedBy(n)' <=> x \in UsedBy(wmCount) \ {id}
      <3>1. ASSUME NEW i \in 1..n, x = wmTimers'[i] PROVE x \in UsedBy(wmCount) \ {id}
        <4> DEFINE j == IF i < k THEN i ELSE i + 1
        <4>1. j \in 1..wmCount /\ j # k /\ x = wmTimers[j]
          BY <1>7, <2>2, <2>5, <2>7, <2>8, <3>1
        <4>2. wmTimers[j] # wmTimers[k]
          BY <1>7, <2>2, <4>1 DEF Agrees
        <4> QED BY <2>2, <4>1, <4>2 DEF UsedBy
      <3>2. ASSUME NEW j \in 1..wmCount, x = wmTimers[j], x # id PROVE x \in UsedBy(n)'
        <4> DEFINE i == IF j < k THEN j ELSE j - 1
        <4>1. j # k
          BY <2>2, <3>2
        <4>2. i \in 1..n /\ wmTimers'[i] = wmTimers[j]
          BY <1>7, <2>2, <2>5, <2>7, <2>8, <4>1
        <4> QED BY <3>2, <4>2 DEF UsedBy
      <3> QED BY <3>1, <3>2 DEF UsedBy
    <2>10. UsedBy(n)' = UsedBy(wmCount) \ {id}
      BY <2>9
    <2>11. ASSUME NEW i \in 1..n, NEW j \in 1..n, wmTimers'[i] = wmTimers'[j] PROVE i = j
      BY <1>7, <2>2, <2>5, <2>7, <2>8, <2>11 DEF Agrees
    <2>12. Agrees(n)'
      BY <1>7, <1>8, <2>10, <2>11 DEF Agrees
    <2>13. Inside(w)' /\ w.at = "store"
      BY <2>5, <2>12 DEF Inside
    <2> HIDE DEF w
    <2> QED BY <1>7, <1>8, <1>9, <2>4, <2>6, <2>13, BySender
  <1> QED BY <1>11, <1>12

LEMMA StoreTimers ==
    ASSUME TimerInv, OneSender, NEW t \in WmSenders, WmStore(t)
    PROVE  TimerInv'
  <1>1. t \in WmThreads
    BY DEF WmThreads
  <1>2. wmTask[t].at = "store"
    BY DEF WmStore
  <1>3. Inside(wmTask[t])
    <2>1. ~ Aside(wmTask[t])
      BY <1>2, Labels
    <2> QED BY <1>1, <2>1 DEF TimerInv
  <1>4. PICK n \in 0..MaxTimers : wmTask[t] = [at |-> "store", n |-> n] /\ Agrees(n)
    BY <1>2, <1>3, Labels
  <1>5. /\ wmCount' = n /\ UNCHANGED <<wmTimers, wmArmed>>
        /\ wmTask' = [wmTask EXCEPT ![t] = Idle]
    BY <1>4 DEF WmStore
  <1>6. Agrees(wmCount)'
    BY <1>4, <1>5 DEF Agrees, UsedBy
  <1>7. Aside(Idle)
    BY DEF Aside
  <1>8. /\ wmTimers' \in [1..MaxTimers -> TimerIds \cup {NoTimer}]
        /\ wmCount' \in 0..MaxTimers /\ wmArmed' \subseteq TimerIds
    BY <1>5 DEF TimerInv
  <1> QED BY <1>5, <1>6, <1>7, <1>8, BySender

LEMMA TimerStep ==
    ASSUME OneSender, TimerInv, [WmNext]_wmVars
    PROVE  TimerInv'
  <1>1. CASE UNCHANGED <<wmTable, wmTask>>
    <2>1. Agrees(wmCount)' <=> Agrees(wmCount)
      BY <1>1 DEF Agrees, UsedBy, wmTable
    <2>2. \A t \in WmThreads : Inside(wmTask[t])' <=> Inside(wmTask[t])
      BY <1>1 DEF Inside, Agrees, UsedBy, wmTable
    <2> QED BY <1>1, <2>1, <2>2 DEF TimerInv, wmTable
  <1>3. ASSUME NEW t \in WmSenders, NEW rq, WmRequest(t, rq) PROVE UNCHANGED <<wmTable, wmTask>>
    BY <1>3 DEF WmRequest
  <1>4. ASSUME NEW rq, WmServe(rq) PROVE UNCHANGED <<wmTable, wmTask>>
    BY <1>4 DEF WmServe
  <1>5. WmPeriod \/ WmSettle \/ UNCHANGED wmVars => UNCHANGED <<wmTable, wmTask>>
    BY DEF WmPeriod, WmSettle, wmVars, wmTable
  <1>6. ASSUME NEW t \in WmSenders, WmSenderStep(t) PROVE TimerInv'
    BY <1>1, <1>3, <1>6, OpenTimers, EnterTimers, ShiftTimers, StoreTimers, Zenon
       DEF WmSenderStep
  <1>7. ASSUME NEW t \in WmThreads, WmReaderStep(t) \/ WmPosterStep(t) PROVE TimerInv'
    <2>1. CASE WmReceive(t)
      BY <1>1, <2>1 DEF WmReceive
    <2>2. CASE WmPoll(t) \/ WmStart(t) \/ WmPosterWakes(t) \/ WmTick(t)
      BY <2>2, ReaderTimers
    <2> QED BY <1>7, <2>1, <2>2 DEF WmReaderStep, WmPosterStep
  <1>8. \A t : t \in WmReaders \/ t \in WmPosters => t \in WmThreads
    BY DEF WmThreads
  <1> QED BY <1>1, <1>4, <1>5, <1>6, <1>7, <1>8 DEF WmNext

-----------------------------------------------------------------------------
(* The serial numbers                                                      *)

(* What the stub answers in winmgr's place is numbered by the client's own *)
(* count, the ticks in it: the shift by the ticks is right for winmgr only.*)
NoTicksWithStub == WmAck => TimerIds = {}

Event == [type : Requests \cup {"event", "tick"}, serial : Int]

\* The events on the queue bear the last serials.
Numbered ==
    /\ wmRing \in Seq(Event) /\ Len(wmRing) <= WmSlots
    /\ wmLast \in Int /\ wmOffset \in Int /\ wmServer \in Int /\ wmAccepted \in Int
    /\ \A i \in 1..Len(wmRing) : wmRing[i].serial = wmLast - Len(wmRing) + i
    /\ ~ wmDropped => wmAccepted = wmLast - Len(wmRing)

\* The stub answers one request after the other, and nothing else is posted.
StubAlone ==
    /\ wmOffset = 0 /\ ~ wmDropped /\ wmCount = 0
    /\ \A t \in WmThreads : wmTask[t] = Idle
    /\ wmRing = <<>> \/ (Len(wmRing) = 1 /\ wmRing[1].type = wmAsked /\ wmAsked # "none")

SerialInv ==
    /\ Numbered
    /\ ~ WmAck => wmLast = wmServer + wmOffset
    /\ WmAck => StubAlone

LEMMA SerialInit == WmInit => SerialInv
  <1> SUFFICES ASSUME WmInit PROVE SerialInv
    OBVIOUS
  <1>1. /\ wmRing = <<>> /\ wmLast = 0 /\ wmOffset = 0 /\ wmDropped = FALSE /\ wmCount = 0
        /\ wmServer = 0 /\ wmAccepted = 0 /\ wmTask = [t \in WmThreads |-> Idle]
    BY DEF WmInit, WmThreads
  <1>2. wmRing \in Seq(Event) /\ Len(wmRing) = 0
    BY <1>1
  <1>3. Numbered
    <2>1. WmSlots \in Nat /\ wmLast \in Int /\ wmOffset \in Int /\ wmServer \in Int /\ wmAccepted \in Int
      BY <1>1, WmAssumption
    <2>2. Len(wmRing) <= WmSlots /\ wmAccepted = wmLast - Len(wmRing)
      <3>1. wmLast = 0 /\ wmAccepted = 0 /\ Len(wmRing) = 0
        BY <1>1, <1>2, Zenon
      <3> QED BY <2>1, <3>1
    <2>3. \A i \in 1..Len(wmRing) : wmRing[i].serial = wmLast - Len(wmRing) + i
      BY <1>2
    <2> QED BY <1>2, <2>1, <2>2, <2>3 DEF Numbered
  <1>4. StubAlone
    BY <1>1 DEF StubAlone
  <1> QED BY <1>1, <1>3, <1>4 DEF SerialInv

LEMMA SerialsSound == SerialInv => WmSerialsContiguous
  <1> SUFFICES ASSUME SerialInv PROVE WmSerialsContiguous
    OBVIOUS
  <1>1. /\ wmRing \in Seq(Event) /\ Len(wmRing) \in Nat /\ wmLast \in Int
        /\ \A i \in 1..Len(wmRing) : wmRing[i].serial = wmLast - Len(wmRing) + i
        /\ ~ wmDropped => wmAccepted = wmLast - Len(wmRing)
    BY DEF SerialInv, Numbered
  <1>2. ASSUME NEW i \in 1..(Len(wmRing) - 1) PROVE wmRing[i + 1].serial = wmRing[i].serial + 1
    <2>1. i \in 1..Len(wmRing) /\ i + 1 \in 1..Len(wmRing)
      BY <1>1
    <2> QED BY <1>1, <2>1
  <1>3. ASSUME wmRing # <<>>
        PROVE  /\ wmRing[Len(wmRing)].serial = wmLast
               /\ ~ wmDropped => Head(wmRing).serial = wmAccepted + 1
    <2>1. 1 \in 1..Len(wmRing) /\ Len(wmRing) \in 1..Len(wmRing) /\ Head(wmRing) = wmRing[1]
      BY <1>1, <1>3
    <2>2. wmRing[Len(wmRing)].serial = wmLast /\ wmRing[1].serial = wmLast - Len(wmRing) + 1
      BY <1>1, <2>1
    <2> QED BY <1>1, <2>1, <2>2
  <1> QED BY <1>2, <1>3 DEF WmSerialsContiguous

(* An event that gets the next number is put where it belongs, whether the *)
(* oldest one has to go or not.                                            *)
LEMMA PostNumbers ==
    ASSUME Numbered, NEW type \in Requests \cup {"event", "tick"}, NEW orig \in Int,
           type # "tick" => orig + wmOffset = wmLast + 1,
           WmPost(type, orig), UNCHANGED <<wmAccepted>>, wmServer' \in Int
    PROVE  /\ Numbered' /\ wmLast' = wmLast + 1
           /\ wmOffset' = wmOffset + (IF type = "tick" THEN 1 ELSE 0)
           /\ wmRing = <<>> => /\ Len(wmRing') = 1 /\ wmRing'[1].type = type
                               /\ (~ wmDropped => ~ wmDropped')
  <1> DEFINE e == [type |-> type, serial |-> wmLast + 1]
             full == Len(wmRing) = WmSlots
             kept == IF full THEN Tail(wmRing) ELSE wmRing
  <1>1. /\ wmRing \in Seq(Event) /\ Len(wmRing) <= WmSlots /\ Len(wmRing) \in Nat
        /\ wmLast \in Int /\ wmOffset \in Int /\ wmAccepted \in Int
        /\ \A i \in 1..Len(wmRing) : wmRing[i].serial = wmLast - Len(wmRing) + i
        /\ ~ wmDropped => wmAccepted = wmLast - Len(wmRing)
        /\ WmSlots \in Nat \ {0}
    BY WmAssumption DEF Numbered
  <1>2. WmSerial(type, orig) = wmLast + 1
    BY <1>1 DEF WmSerial
  <1>3. /\ wmRing' = Append(kept, e) /\ wmDropped' = (wmDropped \/ full) /\ wmLast' = wmLast + 1
        /\ wmOffset' = wmOffset + (IF type = "tick" THEN 1 ELSE 0)
    BY <1>2 DEF WmPost
  <1>4. e \in Event /\ e.serial = wmLast + 1 /\ e.type = type
    BY <1>1 DEF Event
  <1>5. /\ kept \in Seq(Event) /\ Len(kept) \in Nat /\ Len(kept) < WmSlots
        /\ \A i \in 1..Len(kept) : kept[i].serial = wmLast - Len(kept) + i
        /\ ~ full => kept = wmRing
    <2>1. CASE full
      <3>1. wmRing # <<>>
        BY <1>1, <2>1
      <3>2. /\ Tail(wmRing) \in Seq(Event) /\ Len(Tail(wmRing)) = Len(wmRing) - 1
            /\ \A i \in 1..Len(wmRing) - 1 : Tail(wmRing)[i] = wmRing[i + 1]
        BY <1>1, <3>1
      <3>3. \A i \in 1..Len(wmRing) - 1 : i + 1 \in 1..Len(wmRing)
        BY <1>1
      <3>4. \A i \in 1..Len(wmRing) - 1 : Tail(wmRing)[i].serial = wmLast - (Len(wmRing) - 1) + i
        BY <1>1, <3>2, <3>3
      <3>5. kept = Tail(wmRing) /\ Len(wmRing) = WmSlots
        BY <1>1, <2>1
      <3> HIDE DEF kept
      <3> QED BY <1>1, <2>1, <3>2, <3>4, <3>5
    <2>2. CASE ~ full
      BY <1>1, <2>2
    <2> QED BY <2>1, <2>2
  <1> HIDE DEF e, kept
  <1>6. /\ wmRing' \in Seq(Event) /\ Len(wmRing') = Len(kept) + 1
        /\ wmRing'[Len(kept) + 1] = e
        /\ \A i \in 1..Len(kept) : wmRing'[i] = kept[i]
    BY <1>3, <1>4, <1>5
  <1>7. \A i \in 1..Len(wmRing') : wmRing'[i].serial = wmLast' - Len(wmRing') + i
    BY <1>1, <1>3, <1>4, <1>5, <1>6
  <1>8. ASSUME ~ wmDropped' PROVE wmAccepted' = wmLast' - Len(wmRing')
    <2>1. ~ wmDropped /\ ~ full
      BY <1>3, <1>8, Zenon
    <2>2. kept = wmRing /\ wmAccepted = wmLast - Len(wmRing)
      BY <1>1, <1>5, <2>1
    <2> QED BY <1>1, <1>3, <1>6, <2>2
  <1>9. Numbered'
    BY <1>1, <1>3, <1>5, <1>6, <1>7, <1>8 DEF Numbered
  <1>10. wmRing = <<>> => Len(wmRing') = 1 /\ wmRing'[1] = e /\ (~ wmDropped => ~ wmDropped')
    <2> SUFFICES ASSUME wmRing = <<>>
                 PROVE  Len(wmRing') = 1 /\ wmRing'[1] = e /\ (~ wmDropped => ~ wmDropped')
      OBVIOUS
    <2>1. Len(wmRing) = 0 /\ ~ full
      BY <1>1
    <2>2. kept = wmRing
      BY <1>5, <2>1
    <2>3. Len(wmRing') = 1 /\ wmRing'[1] = e
      BY <1>6, <2>1, <2>2
    <2>4. ~ wmDropped => ~ wmDropped'
      BY <1>3, <2>1, Zenon
    <2> QED BY <2>3, <2>4
  <1> QED BY <1>3, <1>4, <1>9, <1>10

(* What is read bears the number after the one that was accepted last.     *)
LEMMA ReceiveNumbers ==
    ASSUME SerialInv, NEW t \in WmThreads, WmReceive(t)
    PROVE  SerialInv'
  <1>1. /\ wmRing \in Seq(Event) /\ Len(wmRing) \in Nat /\ wmRing # <<>>
        /\ wmLast \in Int /\ wmOffset \in Int /\ wmAccepted \in Int /\ wmServer \in Int
        /\ \A i \in 1..Len(wmRing) : wmRing[i].serial = wmLast - Len(wmRing) + i
        /\ Len(wmRing) <= WmSlots /\ WmSlots \in Nat
    BY WmAssumption DEF SerialInv, Numbered, WmReceive
  <1>2. /\ wmRing' = Tail(wmRing) /\ wmAccepted' = Head(wmRing).serial
        /\ UNCHANGED <<wmLast, wmOffset, wmDropped, wmServer, wmCount, wmTask>>
        /\ wmAsked' = IF Head(wmRing).type = wmAsked THEN "none" ELSE wmAsked
    BY DEF WmReceive, wmTable
  <1>3. /\ wmRing' \in Seq(Event) /\ Len(wmRing') = Len(wmRing) - 1 /\ Head(wmRing) = wmRing[1]
        /\ \A i \in 1..Len(wmRing) - 1 : wmRing'[i] = wmRing[i + 1]
        /\ 1 \in 1..Len(wmRing) /\ \A i \in 1..Len(wmRing) - 1 : i + 1 \in 1..Len(wmRing)
    BY <1>1, <1>2
  <1>4. \A i \in 1..Len(wmRing') : wmRing'[i].serial = wmLast' - Len(wmRing') + i
    BY <1>1, <1>2, <1>3
  <1>5. wmAccepted' = wmLast' - Len(wmRing')
    BY <1>1, <1>2, <1>3
  <1>6. Numbered'
    BY <1>1, <1>2, <1>3, <1>4, <1>5 DEF Numbered
  <1>7. WmAck => StubAlone'
    <2>1. ASSUME WmAck PROVE wmRing' = <<>>
      BY <1>1, <1>3, <2>1 DEF SerialInv, StubAlone
    <2> QED BY <1>2, <2>1 DEF SerialInv, StubAlone
  <1>8. ~ WmAck => wmLast' = wmServer' + wmOffset'
    BY <1>2 DEF SerialInv
  <1> QED BY <1>6, <1>7, <1>8 DEF SerialInv

LEMMA RequestNumbers ==
    ASSUME SerialInv, NEW t \in WmThreads, NEW rq \in Requests, WmRequest(t, rq)
    PROVE  SerialInv'
  <1>1. /\ wmAsked = "none" /\ wmAsked' = rq
        /\ UNCHANGED <<wmAccepted, wmServer, wmCount, wmTask>>
    BY DEF WmRequest, wmTable
  <1>2. CASE WmAck
    <2>1. wmRing = <<>> /\ wmOffset = 0 /\ ~ wmDropped /\ Numbered /\ StubAlone
      BY <1>1, <1>2 DEF SerialInv, StubAlone
    <2>2. wmAccepted = wmLast /\ wmLast \in Int /\ wmServer \in Int /\ wmAccepted + 1 \in Int
      BY <2>1 DEF Numbered
    <2>3. WmPost(rq, wmAccepted + 1)
      BY <1>2 DEF WmRequest
    <2>4. rq # "tick" /\ rq # "none"
      BY DEF Requests
    <2>5. wmAccepted + 1 + wmOffset = wmLast + 1
      BY <2>1, <2>2
    <2>6. /\ Numbered' /\ wmOffset' = wmOffset + 0
          /\ Len(wmRing') = 1 /\ wmRing'[1].type = rq /\ (~ wmDropped => ~ wmDropped')
      BY <1>1, <2>1, <2>2, <2>3, <2>4, <2>5, PostNumbers
    <2>7. StubAlone'
      BY <1>1, <2>1, <2>4, <2>6 DEF StubAlone
    <2> QED BY <1>2, <2>6, <2>7 DEF SerialInv
  <1>3. CASE ~ WmAck
    <2>1. UNCHANGED wmQueue
      BY <1>3 DEF WmRequest
    <2> QED BY <1>1, <1>3, <2>1 DEF SerialInv, Numbered, wmQueue
  <1> QED BY <1>2, <1>3

LEMMA ServeNumbers ==
    ASSUME SerialInv, NEW rq \in Requests \cup {"event"}, WmServe(rq)
    PROVE  SerialInv'
  <1>1. /\ ~ WmAck /\ WmPost(rq, wmServer + 1) /\ wmServer' = wmServer + 1
        /\ UNCHANGED wmAccepted
    BY DEF WmServe
  <1>2. /\ Numbered /\ wmLast = wmServer + wmOffset
        /\ wmServer \in Int /\ wmOffset \in Int /\ wmLast \in Int
    BY <1>1 DEF SerialInv, Numbered
  <1>3. rq # "tick" /\ wmServer + 1 \in Int /\ wmServer + 1 + wmOffset = wmLast + 1
    BY <1>2 DEF Requests
  <1>4. Numbered' /\ wmLast' = wmLast + 1 /\ wmOffset' = wmOffset + 0
    BY <1>1, <1>2, <1>3, PostNumbers
  <1>5. wmLast' = wmServer' + wmOffset'
    BY <1>1, <1>2, <1>4
  <1> QED BY <1>1, <1>4, <1>5 DEF SerialInv

LEMMA TickNumbers ==
    ASSUME SerialInv, NEW t \in WmThreads, WmTick(t)
    PROVE  SerialInv'
  <1>1. /\ wmTask[t].at = "post" /\ WmPost("tick", wmRead + wmTask[t].i)
        /\ UNCHANGED <<wmServer, wmAccepted>>
    BY DEF WmTick
  <1>2. ~ WmAck
    BY <1>1 DEF SerialInv, StubAlone, Idle
  <1>3. WmPost("tick", 0)
    BY <1>1 DEF WmPost, WmSerial
  <1>4. /\ Numbered /\ wmLast = wmServer + wmOffset
        /\ wmServer \in Int /\ wmOffset \in Int /\ wmLast \in Int
    BY <1>2 DEF SerialInv, Numbered
  <1>5. Numbered' /\ wmLast' = wmLast + 1 /\ wmOffset' = wmOffset + 1
    <2>1. "tick" \in Requests \cup {"event", "tick"} /\ 0 \in Int /\ wmServer' \in Int
      BY <1>1, <1>4
    <2>2. /\ Numbered' /\ wmLast' = wmLast + 1
          /\ wmOffset' = wmOffset + (IF "tick" = "tick" THEN 1 ELSE 0)
      BY <1>1, <1>3, <1>4, <2>1, PostNumbers, Zenon
    <2> QED BY <2>2
  <1> QED BY <1>1, <1>2, <1>4, <1>5 DEF SerialInv

LEMMA SerialStep ==
    ASSUME NoTicksWithStub, SerialInv, [WmNext]_wmVars
    PROVE  SerialInv'
  <1>1. CASE UNCHANGED <<wmQueue, wmServer, wmAccepted, wmAsked, wmCount, wmTask>>
    BY <1>1 DEF SerialInv, Numbered, StubAlone, wmQueue
  <1>2. ASSUME UNCHANGED <<wmQueue, wmServer, wmAccepted>>, ~ WmAck PROVE SerialInv'
    BY <1>2 DEF SerialInv, Numbered, wmQueue
  <1>3. ASSUME NEW t \in WmThreads, WmPoll(t) \/ WmStart(t) \/ WmPosterWakes(t) PROVE SerialInv'
    <2>1. ~ WmAck
      <3> SUFFICES ASSUME WmAck PROVE FALSE
        OBVIOUS
      <3>1. wmTask[t] = Idle /\ wmCount = 0
        BY DEF SerialInv, StubAlone
      <3> QED BY <1>3, <3>1 DEF WmPoll, WmStart, WmPosterWakes, Idle
    <2> QED BY <1>2, <1>3, <2>1 DEF WmPoll, WmStart, WmPosterWakes
  <1>4. ASSUME NEW t \in WmSenders,
               (\E op \in {"start", "stop"}, id \in TimerIds : WmOpen(t, op, id))
               \/ WmEnter(t) \/ WmShift(t) \/ WmStore(t)
        PROVE  SerialInv'
    <2>1. ~ WmAck
      <3> SUFFICES ASSUME WmAck PROVE FALSE
        OBVIOUS
      <3>1. wmTask[t] = Idle /\ TimerIds = {}
        BY DEF SerialInv, StubAlone, WmThreads, NoTicksWithStub
      <3> QED BY <1>4, <3>1 DEF WmEnter, WmShift, WmStore, Idle
    <2>2. UNCHANGED <<wmQueue, wmServer, wmAccepted>>
      BY <1>4 DEF WmOpen, WmEnter, WmShift, WmStore
    <2> QED BY <1>2, <2>1, <2>2
  <1>5. WmPeriod \/ WmSettle \/ UNCHANGED wmVars
          => UNCHANGED <<wmQueue, wmServer, wmAccepted, wmAsked, wmCount, wmTask>>
    BY DEF WmPeriod, WmSettle, wmVars, wmTable, wmQueue
  <1>6. ASSUME NEW t \in WmThreads, WmReaderStep(t) \/ WmPosterStep(t) PROVE SerialInv'
    BY <1>3, <1>6, ReceiveNumbers, TickNumbers, Zenon DEF WmReaderStep, WmPosterStep
  <1>7. ASSUME NEW t \in WmSenders, WmSenderStep(t) PROVE SerialInv'
    <2>1. t \in WmThreads
      BY DEF WmThreads
    <2> QED BY <1>4, <1>7, <2>1, RequestNumbers, Zenon DEF WmSenderStep
  <1>8. \A t : t \in WmReaders \/ t \in WmPosters => t \in WmThreads
    BY DEF WmThreads
  <1> QED BY <1>1, <1>5, <1>6, <1>7, <1>8, ServeNumbers DEF WmNext

-----------------------------------------------------------------------------
(* The flows                                                               *)

Flow == {"login", "menu", "activate"}
FlowEnd == <<"login", "menu", "activate">>
Bare(seq) == [i \in DOMAIN seq |-> seq[i].m]

SkPosts == [by : FlProcesses, m : Flow]
SkTasks == [at : {"look", "post", "done"}, tries : Nat, todo : Seq(Flow)]
SkPosting(t) == skTask[t].at = "post"

\* The process that posts has posted what precedes what it has still to post.
SkInv ==
    /\ skTask \in [FlProcesses -> SkTasks] /\ skPosted \in BOOLEAN /\ skSent \in Seq(SkPosts)
    /\ ~ skPosted => skSent = <<>> /\ \A t \in FlProcesses : ~ SkPosting(t)
    /\ \A t, u \in FlProcesses : SkPosting(t) /\ SkPosting(u) => t = u
    /\ \A t \in FlProcesses : SkPosting(t) =>
         /\ skTask[t].todo # <<>> /\ Bare(skSent) \o skTask[t].todo = SkMessages
         /\ \A i \in 1..Len(skSent) : skSent[i].by = t
    /\ \A i, j \in 1..Len(skSent) : skSent[i].by = skSent[j].by
    /\ skSent # <<>> /\ (\A t \in FlProcesses : ~ SkPosting(t)) => Bare(skSent) = SkMessages

LEMMA Bares ==
    ASSUME NEW seq \in Seq(SkPosts)
    PROVE  /\ Bare(seq) \in Seq(Flow) /\ Len(Bare(seq)) = Len(seq)
           /\ \A i \in 1..Len(seq) : Bare(seq)[i] = seq[i].m
  <1>1. DOMAIN seq = 1..Len(seq) /\ Len(seq) \in Nat
    BY LenProperties
  <1>2. \A i \in 1..Len(seq) : seq[i].m \in Flow
    <2>1. \A i \in 1..Len(seq) : seq[i] \in SkPosts
      BY ElementOfSeq
    <2> QED BY <2>1 DEF SkPosts
  <1>3. Bare(seq) = [i \in 1..Len(seq) |-> seq[i].m]
    BY <1>1 DEF Bare
  <1> QED BY <1>1, <1>2, <1>3

(* What is put after anything else is its end.                             *)
LEMMA EndsWith ==
    ASSUME NEW u \in Seq(Flow)
    PROVE  u \o FlowEnd \in Seq(Flow) /\ u \o FlowEnd # <<>> /\ IsSuffix(FlowEnd, u \o FlowEnd)
  <1> DEFINE all == u \o FlowEnd
             n   == Len(all)
             ra  == Reverse(all)
             re  == Reverse(FlowEnd)
  <1>1. FlowEnd \in Seq(Flow) /\ Len(FlowEnd) = 3
    BY DEF FlowEnd, Flow
  <1>2. /\ all \in Seq(Flow) /\ n = Len(u) + 3 /\ Len(u) \in Nat
        /\ \A i \in 1..3 : all[Len(u) + i] = FlowEnd[i]
    <2>1. /\ all \in Seq(Flow) /\ Len(all) = Len(u) + Len(FlowEnd) /\ Len(u) \in Nat
          /\ \A i \in 1..Len(u) + Len(FlowEnd) :
                all[i] = IF i <= Len(u) THEN u[i] ELSE FlowEnd[i - Len(u)]
      BY <1>1, ConcatProperties, LenProperties
    <2> HIDE DEF all
    <2>2. ASSUME NEW i \in 1..3 PROVE all[Len(u) + i] = FlowEnd[i]
      <3>1. Len(u) + i \in 1..Len(u) + Len(FlowEnd) /\ ~ (Len(u) + i <= Len(u))
            /\ Len(u) + i - Len(u) = i
        BY <1>1, <2>1
      <3> QED BY <2>1, <3>1
    <2> QED BY <1>1, <2>1, <2>2
  <1> HIDE DEF all
  <1>3. /\ ra \in Seq(Flow) /\ Len(ra) = n /\ \A i \in 1..n : ra[i] = all[n - i + 1]
        /\ re \in Seq(Flow) /\ Len(re) = 3 /\ \A i \in 1..3 : re[i] = FlowEnd[3 - i + 1]
    BY <1>1, <1>2 DEF Reverse
  <1> HIDE DEF ra, re
  <1>4. ASSUME NEW i \in 1..3 PROVE ra[i] = re[i]
    <2>1. 3 - i + 1 \in 1..3 /\ Len(u) + (3 - i + 1) = n - i + 1 /\ i \in 1..n
      BY <1>2
    <2> QED BY <1>2, <1>3, <2>1
  <1>5. SubSeq(re, 1, 3) = SubSeq(ra, 1, 3)
    <2>1. /\ SubSeq(re, 1, 3) \in Seq(Flow) /\ Len(SubSeq(re, 1, 3)) = 3
          /\ \A i \in 1..3 : SubSeq(re, 1, 3)[i] = re[i]
      <3>1. \A i \in 1..3 : re[i] \in Flow
        BY <1>2, <1>3, ElementOfSeq
      <3>2. /\ SubSeq(re, 1, 3) \in Seq(Flow)
            /\ Len(SubSeq(re, 1, 3)) = IF 1 <= 3 THEN 3 - 1 + 1 ELSE 0
            /\ \A i \in 1..3 - 1 + 1 : SubSeq(re, 1, 3)[i] = re[1 + i - 1]
        BY <3>1, SubSeqProperties
      <3> QED BY <3>2
    <2>2. /\ SubSeq(ra, 1, 3) \in Seq(Flow) /\ Len(SubSeq(ra, 1, 3)) = 3
          /\ \A i \in 1..3 : SubSeq(ra, 1, 3)[i] = ra[i]
      <3>1. \A i \in 1..3 : ra[i] \in Flow
        BY <1>2, <1>3, ElementOfSeq
      <3>2. /\ SubSeq(ra, 1, 3) \in Seq(Flow)
            /\ Len(SubSeq(ra, 1, 3)) = IF 1 <= 3 THEN 3 - 1 + 1 ELSE 0
            /\ \A i \in 1..3 - 1 + 1 : SubSeq(ra, 1, 3)[i] = ra[1 + i - 1]
        BY <3>1, SubSeqProperties
      <3> QED BY <3>2
    <2>3. \A i \in 1..Len(SubSeq(re, 1, 3)) : SubSeq(re, 1, 3)[i] = SubSeq(ra, 1, 3)[i]
      BY <1>4, <2>1, <2>2
    <2> QED BY <2>1, <2>2, <2>3, SeqEqual
  <1>6. IsPrefix(re, ra)
    BY <1>2, <1>3, <1>5 DEF IsPrefix
  <1>7. all # <<>>
    BY <1>2
  <1> QED BY <1>2, <1>6, <1>7 DEF IsSuffix, all, ra, re

(* Whatever wire files there are, what is posted ends with the built-in    *)
(* flow, or is the flow.                                                   *)
LEMMA SkComplete ==
    SkMessages \in Seq(Flow) /\ SkMessages # <<>> /\ IsSuffix(FlowEnd, SkMessages)
  <1> DEFINE Wire(m) == IF m \in FlFiles THEN <<m>> ELSE <<>>
             u == Wire("login") \o Wire("menu") \o Wire("activate")
  <1>1. SkMessages = u \o (IF FlFiles = ToSet(FlowEnd) THEN <<>> ELSE FlowEnd)
    BY DEF SkMessages, FlowEnd
  <1>2. /\ Wire("login") \in Seq(Flow) /\ Wire("menu") \in Seq(Flow)
        /\ Wire("activate") \in Seq(Flow)
    <2>1. ASSUME NEW m \in Flow PROVE Wire(m) \in Seq(Flow)
      <3>1. <<m>> \in Seq(Flow) /\ <<>> \in Seq(Flow)
        OBVIOUS
      <3> QED BY <3>1
    <2>2. "login" \in Flow /\ "menu" \in Flow /\ "activate" \in Flow
      BY DEF Flow
    <2> HIDE DEF Wire
    <2> QED BY <2>1, <2>2
  <1>3. u \in Seq(Flow)
    BY <1>2
  <1>4. CASE FlFiles = ToSet(FlowEnd)
    <2>1. FlowEnd = [i \in 1..3 |-> IF i = 1 THEN "login" ELSE IF i = 2 THEN "menu" ELSE "activate"]
      BY DEF FlowEnd
    <2>2. {"login", "menu", "activate"} \subseteq FlFiles
      <3>1. DOMAIN FlowEnd = 1..3 /\ FlowEnd[1] = "login" /\ FlowEnd[2] = "menu"
            /\ FlowEnd[3] = "activate"
        BY DEF FlowEnd
      <3>2. 1 \in 1..3 /\ 2 \in 1..3 /\ 3 \in 1..3
        OBVIOUS
      <3> QED BY <1>4, <3>1, <3>2 DEF ToSet
    <2>3. u = <<"login">> \o <<"menu">> \o <<"activate">>
      BY <2>2
    <2>4. <<"login">> \o <<"menu">> \o <<"activate">> = FlowEnd
      <3> DEFINE k == <<"login">> \o <<"menu">>
                 l == k \o <<"activate">>
      <3>1. /\ <<"login">> \in Seq(Flow) /\ Len(<<"login">>) = 1 /\ <<"login">>[1] = "login"
            /\ <<"menu">> \in Seq(Flow) /\ Len(<<"menu">>) = 1 /\ <<"menu">>[1] = "menu"
            /\ <<"activate">> \in Seq(Flow) /\ Len(<<"activate">>) = 1
            /\ <<"activate">>[1] = "activate"
        BY DEF Flow
      <3>2. /\ k \in Seq(Flow) /\ Len(k) = 1 + 1
            /\ \A i \in 1..1 + 1 : k[i] = IF i <= 1 THEN <<"login">>[i] ELSE <<"menu">>[i - 1]
        BY <3>1, ConcatProperties
      <3> HIDE DEF k
      <3>3. /\ l \in Seq(Flow) /\ Len(l) = 2 + 1
            /\ \A i \in 1..2 + 1 : l[i] = IF i <= 2 THEN k[i] ELSE <<"activate">>[i - 2]
        <4>1. PICK x \in Seq(Flow) : x = k
          BY <3>2
        <4>2. PICK v \in Seq(Flow) : v = <<"activate">>
          BY <3>1
        <4>3. /\ x \o v \in Seq(Flow) /\ Len(x \o v) = Len(x) + Len(v)
              /\ \A i \in 1..Len(x) + Len(v) :
                    (x \o v)[i] = IF i <= Len(x) THEN x[i] ELSE v[i - Len(x)]
          BY ConcatProperties, Zenon
        <4>4. Len(x) = 2 /\ Len(v) = 1 /\ l = x \o v
          BY <3>1, <3>2, <4>1, <4>2
        <4>5. \A i \in 1..2 + 1 :
                (x \o v)[i] = IF i <= 2 THEN x[i] ELSE v[i - 2]
          BY <4>3, <4>4
        <4> HIDE DEF l
        <4> QED BY <4>1, <4>2, <4>3, <4>4, <4>5
      <3> HIDE DEF l
      <3>4. k[1] = "login" /\ k[2] = "menu"
        BY <3>1, <3>2
      <3>5. l[1] = "login" /\ l[2] = "menu" /\ l[3] = "activate"
        BY <3>1, <3>3, <3>4
      <3>6. FlowEnd \in Seq(Flow) /\ Len(FlowEnd) = 3
            /\ FlowEnd[1] = "login" /\ FlowEnd[2] = "menu" /\ FlowEnd[3] = "activate"
        BY DEF FlowEnd, Flow
      <3>7. \A i \in 1..Len(l) : l[i] = FlowEnd[i]
        BY <3>3, <3>5, <3>6
      <3>8. l = FlowEnd
        BY <3>3, <3>6, <3>7, SeqEqual
      <3> QED BY <3>8 DEF k, l
    <2>5. SkMessages = <<>> \o FlowEnd /\ <<>> \in Seq(Flow)
      <3>1. u \o <<>> = u
        BY <1>3
      <3>2. <<>> \o FlowEnd = FlowEnd
        BY DEF FlowEnd, Flow
      <3> QED BY <1>1, <1>4, <2>3, <2>4, <3>1, <3>2
    <2> QED BY <2>5, EndsWith
  <1>5. CASE FlFiles # ToSet(FlowEnd)
    <2>1. SkMessages = u \o FlowEnd
      BY <1>1, <1>5
    <2> HIDE DEF u
    <2> QED BY <1>3, <2>1, EndsWith
  <1> QED BY <1>4, <1>5

LEMMA SkInit == FlInit => SkInv
  <1> SUFFICES ASSUME FlInit PROVE SkInv
    OBVIOUS
  <1> DEFINE w == [at |-> "look", tries |-> 0, todo |-> <<>>]
  <1>1. skPosted = FALSE /\ skSent = <<>> /\ skTask = [t \in FlProcesses |-> w]
    BY DEF FlInit
  <1>2. w \in SkTasks /\ w.at # "post"
    BY DEF SkTasks, Flow
  <1> HIDE DEF w
  <1>3. skTask \in [FlProcesses -> SkTasks] /\ \A t \in FlProcesses : ~ SkPosting(t)
    BY <1>1, <1>2 DEF SkPosting
  <1>4. skSent \in Seq(SkPosts) /\ Len(skSent) = 0
    BY <1>1
  <1>5. \A i, j \in 1..Len(skSent) : skSent[i].by = skSent[j].by
    BY <1>4
  <1>6. ~ skPosted /\ skPosted \in BOOLEAN /\ skSent = <<>>
    BY <1>1
  <1> QED BY <1>3, <1>4, <1>5, <1>6, Zenon DEF SkInv

LEMMA SkFields ==
    ASSUME NEW w \in SkTasks, NEW at \in {"look", "post", "done"}, NEW n \in Nat
    PROVE  /\ [w EXCEPT !.tries = n, !.at = at] \in SkTasks
           /\ [w EXCEPT !.tries = n, !.at = at].at = at
  BY DEF SkTasks

LEMMA SkGoesOn ==
    ASSUME NEW w \in SkTasks, w.todo # <<>>
    PROVE  LET k == [w EXCEPT !.todo = Tail(w.todo),
                              !.at = IF Len(w.todo) = 1 THEN "done" ELSE "post"]
           IN  /\ k \in SkTasks /\ k.todo = Tail(w.todo)
               /\ k.at = IF Len(w.todo) = 1 THEN "done" ELSE "post"
  <1>1. PICK l \in Seq(Flow) : l = Tail(w.todo)
    <2>1. w.todo \in Seq(Flow)
      BY DEF SkTasks
    <2> QED BY <2>1, HeadTailProperties
  <1>2. PICK at \in {"look", "post", "done"} : at = IF Len(w.todo) = 1 THEN "done" ELSE "post"
    OBVIOUS
  <1>3. /\ [w EXCEPT !.todo = l, !.at = at] \in SkTasks
        /\ [w EXCEPT !.todo = l, !.at = at].at = at
        /\ [w EXCEPT !.todo = l, !.at = at].todo = l
    BY DEF SkTasks
  <1> QED BY <1>1, <1>2, <1>3

(* A thread that neither begins to post nor posts.                         *)
LEMMA SkAside ==
    ASSUME SkInv, NEW t \in FlProcesses, NEW w \in SkTasks, w.at # "post", ~ SkPosting(t),
           skTask' = [skTask EXCEPT ![t] = w], UNCHANGED <<skPosted, skSent>>
    PROVE  SkInv'
  <1>1. \A u \in FlProcesses : /\ SkPosting(u)' <=> SkPosting(u)
                               /\ SkPosting(u) => skTask'[u] = skTask[u]
    BY DEF SkInv, SkPosting
  <1>2. skTask' \in [FlProcesses -> SkTasks]
    BY DEF SkInv
  <1>3. /\ ~ skPosted => skSent = <<>> /\ \A u \in FlProcesses : ~ SkPosting(u)
        /\ \A u, x \in FlProcesses : SkPosting(u) /\ SkPosting(x) => u = x
        /\ \A i, j \in 1..Len(skSent) : skSent[i].by = skSent[j].by
        /\ skSent # <<>> /\ (\A u \in FlProcesses : ~ SkPosting(u)) => Bare(skSent) = SkMessages
        /\ skPosted \in BOOLEAN /\ skSent \in Seq(SkPosts)
    BY Zenon DEF SkInv
  <1>4. \A u \in FlProcesses : SkPosting(u)' =>
          /\ skTask'[u].todo # <<>> /\ Bare(skSent) \o skTask'[u].todo = SkMessages
          /\ \A i \in 1..Len(skSent) : skSent[i].by = u
    BY <1>1 DEF SkInv
  <1> QED BY <1>1, <1>2, <1>3, <1>4 DEF SkInv

LEMMA SkLookKeeps ==
    ASSUME SkInv, NEW t \in FlProcesses, SkLook(t)
    PROVE  SkInv'
  <1>1. /\ skTask[t] \in SkTasks /\ skTask[t].at = "look" /\ ~ SkPosting(t)
        /\ skSent' = skSent
    BY DEF SkInv, SkLook, SkPosting
  <1>2. CASE "skmgr" \in flUp /\ ~ skPosted
    <2> DEFINE w == [skTask[t] EXCEPT !.at = "post", !.todo = SkMessages]
    <2>1. skTask' = [skTask EXCEPT ![t] = w] /\ skPosted' = TRUE
      BY <1>2 DEF SkLook
    <2>2. w \in SkTasks /\ w.at = "post" /\ w.todo = SkMessages
      BY <1>1, SkComplete DEF SkTasks
    <2> HIDE DEF w
    <2>3. \A u \in FlProcesses : skTask'[u] = IF u = t THEN w ELSE skTask[u]
      BY <2>1 DEF SkInv
    <2>4. skSent = <<>> /\ \A u \in FlProcesses : skTask[u].at # "post"
      BY <1>2 DEF SkInv, SkPosting
    <2>5. \A u \in FlProcesses : SkPosting(u)' <=> u = t
      BY <2>2, <2>3, <2>4 DEF SkPosting
    <2>6. Bare(<<>>) \o SkMessages = SkMessages
      <3>1. Bare(<<>>) = <<>>
        BY DEF Bare
      <3> QED BY <3>1, SkComplete
    <2>7. skTask' \in [FlProcesses -> SkTasks]
      BY <2>1, <2>2 DEF SkInv
    <2>8. /\ skTask'[t].todo # <<>> /\ Bare(skSent') \o skTask'[t].todo = SkMessages
          /\ skSent' = <<>> /\ Len(skSent') = 0
      BY <1>1, <2>2, <2>3, <2>4, <2>6, SkComplete
    <2>9. skSent' \in Seq(SkPosts)
      BY <2>8
    <2> QED BY <2>1, <2>5, <2>7, <2>8, <2>9 DEF SkInv
  <1>3. CASE "skmgr" \in flUp /\ skPosted
    <2>1. skTask' = [skTask EXCEPT ![t] = [skTask[t] EXCEPT !.at = "done"]] /\ skPosted' = skPosted
      BY <1>3 DEF SkLook
    <2>2. [skTask[t] EXCEPT !.at = "done"] \in SkTasks /\ [skTask[t] EXCEPT !.at = "done"].at # "post"
      BY <1>1 DEF SkTasks
    <2> QED BY <1>1, <2>1, <2>2, SkAside
  <1>4. CASE "skmgr" \notin flUp
    <2> DEFINE w == [skTask[t] EXCEPT !.tries = skTask[t].tries + 1,
                        !.at = IF skTask[t].tries + 1 = FlTries THEN "done" ELSE "look"]
    <2>1. skTask' = [skTask EXCEPT ![t] = w] /\ skPosted' = skPosted
      BY <1>4 DEF SkLook
    <2>2. w \in SkTasks /\ w.at # "post"
      <3>1. skTask[t].tries + 1 \in Nat
        BY <1>1 DEF SkTasks
      <3>2. PICK n \in Nat : n = skTask[t].tries + 1
        BY <3>1
      <3>3. PICK at \in {"done", "look"} : at = IF n = FlTries THEN "done" ELSE "look"
        OBVIOUS
      <3>4. w = [skTask[t] EXCEPT !.tries = n, !.at = at]
        BY <3>2, <3>3
      <3>5. at \in {"look", "post", "done"} /\ at # "post"
        BY <3>3
      <3> HIDE DEF w
      <3> QED BY <1>1, <3>4, <3>5, SkFields, Zenon
    <2> HIDE DEF w
    <2> QED BY <1>1, <2>1, <2>2, SkAside
  <1> QED BY <1>2, <1>3, <1>4

(* Two sequences that differ in where the head of the second is.           *)
LEMMA HeadMoves ==
    ASSUME NEW S, NEW u \in Seq(S), NEW x \in Seq(S), NEW v \in Seq(S), v # <<>>,
           Len(x) = Len(u) + 1, x[Len(u) + 1] = Head(v), \A i \in 1..Len(u) : x[i] = u[i]
    PROVE  x \o Tail(v) = u \o v
  <1>1. /\ Tail(v) \in Seq(S) /\ Len(Tail(v)) = Len(v) - 1 /\ Len(v) \in Nat
        /\ \A i \in 1..Len(v) - 1 : Tail(v)[i] = v[i + 1]
        /\ Head(v) = v[1] /\ Len(v) >= 1 /\ Len(u) \in Nat
    OBVIOUS
  <1>2. PICK w \in Seq(S) : w = Tail(v)
    BY <1>1
  <1>3. /\ u \o v \in Seq(S) /\ Len(u \o v) = Len(u) + Len(v)
        /\ \A i \in 1..Len(u) + Len(v) :
              (u \o v)[i] = IF i <= Len(u) THEN u[i] ELSE v[i - Len(u)]
    BY ConcatProperties, Zenon
  <1>4. /\ x \o w \in Seq(S) /\ Len(x \o w) = Len(x) + Len(w)
        /\ \A i \in 1..Len(x) + Len(w) :
              (x \o w)[i] = IF i <= Len(x) THEN x[i] ELSE w[i - Len(x)]
    BY ConcatProperties, Zenon
  <1> DEFINE k == u \o v
             l == x \o w
  <1> HIDE DEF k, l
  <1>k. /\ k \in Seq(S) /\ Len(k) = Len(u) + Len(v)
        /\ \A i \in 1..Len(u) + Len(v) : k[i] = IF i <= Len(u) THEN u[i] ELSE v[i - Len(u)]
    BY <1>3, Zenon DEF k
  <1>l. /\ l \in Seq(S) /\ Len(l) = Len(x) + Len(w)
        /\ \A i \in 1..Len(x) + Len(w) : l[i] = IF i <= Len(x) THEN x[i] ELSE w[i - Len(x)]
    BY <1>4, Zenon DEF l
  <1>5. Len(l) = Len(k) /\ Len(k) = Len(u) + Len(v)
    BY <1>1, <1>2, <1>k, <1>l
  <1>6. ASSUME NEW i \in 1..Len(k) PROVE l[i] = k[i]
    <2>1. i \in 1..Len(u) + Len(v) /\ i \in 1..Len(x) + Len(w)
      BY <1>1, <1>2, <1>k, <1>l, <1>5
    <2>2. CASE i <= Len(u)
      BY <1>1, <1>k, <1>l, <2>1, <2>2
    <2>3. CASE i = Len(u) + 1
      <3>1. l[i] = x[Len(u) + 1] /\ i <= Len(x)
        BY <1>1, <1>l, <2>1, <2>3
      <3>2. k[i] = v[1]
        <4>1. i - Len(u) = 1 /\ ~ (i <= Len(u))
          BY <1>1, <2>3
        <4>2. k[i] = IF i <= Len(u) THEN u[i] ELSE v[i - Len(u)]
          BY <1>k, <2>1
        <4> QED BY <4>1, <4>2
      <3> QED BY <1>1, <3>1, <3>2
    <2>4. CASE i > Len(u) + 1
      <3>1. i - Len(x) \in 1..Len(v) - 1 /\ i - Len(x) + 1 = i - Len(u)
        BY <1>1, <2>1, <2>4
      <3> QED BY <1>1, <1>2, <1>k, <1>l, <2>1, <2>4, <3>1
    <2> QED BY <1>1, <2>1, <2>2, <2>3, <2>4
  <1>7. l = k
    BY <1>5, <1>6, <1>k, <1>l, SeqEqual
  <1> QED BY <1>2, <1>7 DEF k, l

LEMMA SkPostKeeps ==
    ASSUME SkInv, NEW t \in FlProcesses, SkPost(t)
    PROVE  SkInv'
  <1> DEFINE todo == skTask[t].todo
             e    == [by |-> t, m |-> Head(todo)]
             w    == [skTask[t] EXCEPT !.todo = Tail(todo),
                                       !.at = IF Len(todo) = 1 THEN "done" ELSE "post"]
  <1>1. /\ skTask[t] \in SkTasks /\ SkPosting(t) /\ todo # <<>> /\ skPosted
        /\ Bare(skSent) \o todo = SkMessages /\ skSent \in Seq(SkPosts)
        /\ \A i \in 1..Len(skSent) : skSent[i].by = t
        /\ \A u \in FlProcesses : SkPosting(u) => u = t
    BY DEF SkInv, SkPost, SkPosting
  <1>2. todo \in Seq(Flow) /\ skTask[t].at = "post"
    BY <1>1 DEF SkTasks, SkPosting
  <1>3. /\ skTask' = [skTask EXCEPT ![t] = w] /\ skSent' = Append(skSent, e)
        /\ skPosted' = skPosted
    BY <1>1 DEF SkPost, SkInv, SkTasks
  <1>4. w \in SkTasks /\ w.todo = Tail(todo) /\ w.at = (IF Len(todo) = 1 THEN "done" ELSE "post")
    <2>1. skTask[t] \in SkTasks /\ skTask[t].todo # <<>>
      BY <1>1
    <2> QED BY <2>1, SkGoesOn
  <1>5. e \in SkPosts /\ e.by = t /\ e.m = Head(todo)
    BY <1>1, <1>2 DEF SkPosts
  <1> HIDE DEF todo, e, w
  <1>6. /\ skSent' \in Seq(SkPosts) /\ Len(skSent') = Len(skSent) + 1 /\ Len(skSent) \in Nat
        /\ skSent'[Len(skSent) + 1] = e /\ \A i \in 1..Len(skSent) : skSent'[i] = skSent[i]
    BY <1>1, <1>3, <1>5
  <1>7. \A i \in 1..Len(skSent') : skSent'[i].by = t
    <2>1. \A i \in 1..Len(skSent) : skSent'[i].by = t
      BY <1>1, <1>6
    <2>2. skSent'[Len(skSent) + 1].by = t
      BY <1>5, <1>6
    <2>3. \A i \in 1..Len(skSent') : i \in 1..Len(skSent) \/ i = Len(skSent) + 1
      BY <1>6
    <2> QED BY <2>1, <2>2, <2>3
  <1>8. /\ Bare(skSent) \in Seq(Flow) /\ Len(Bare(skSent)) = Len(skSent)
        /\ \A i \in 1..Len(skSent) : Bare(skSent)[i] = skSent[i].m
    BY <1>1, Bares
  <1>9. /\ Bare(skSent') \in Seq(Flow) /\ Len(Bare(skSent')) = Len(skSent')
        /\ \A i \in 1..Len(skSent') : Bare(skSent')[i] = skSent'[i].m
    BY <1>6, Bares
  <1>10. Bare(skSent') \o Tail(todo) = Bare(skSent) \o todo
    <2>1. todo \in Seq(Flow) /\ todo # <<>> /\ Head(todo) = todo[1]
      BY <1>1, <1>2
    <2>2. PICK v \in Seq(Flow) : v = todo
      BY <2>1
    <2>3. PICK u \in Seq(Flow) : u = Bare(skSent)
      BY <1>8
    <2>4. PICK x \in Seq(Flow) : x = Bare(skSent')
      BY <1>9
    <2>5. v # <<>> /\ Len(u) = Len(skSent) /\ Len(x) = Len(u) + 1
      BY <1>6, <1>8, <1>9, <2>1, <2>2, <2>3, <2>4
    <2>6. x[Len(u) + 1] = Head(v)
      BY <1>5, <1>6, <1>9, <2>2, <2>4, <2>5
    <2>7. ASSUME NEW i \in 1..Len(u) PROVE x[i] = u[i]
      BY <1>6, <1>8, <1>9, <2>3, <2>4, <2>5
    <2>8. x \o Tail(v) = u \o v
      BY <2>5, <2>6, <2>7, HeadMoves
    <2> QED BY <2>2, <2>3, <2>4, <2>8
  <1>11. \A u \in FlProcesses : skTask'[u] = IF u = t THEN w ELSE skTask[u]
    BY <1>3 DEF SkInv
  <1>12. skTask' \in [FlProcesses -> SkTasks]
    BY <1>3, <1>4 DEF SkInv
  <1>13. CASE Len(todo) = 1
    <2>1. \A u \in FlProcesses : ~ SkPosting(u)'
      BY <1>1, <1>4, <1>11, <1>13 DEF SkPosting
    <2>2. Tail(todo) = <<>>
      <3>1. Tail(todo) \in Seq(Flow) /\ Len(Tail(todo)) = Len(todo) - 1
        BY <1>1, <1>2, HeadTailProperties
      <3>2. Len(Tail(todo)) = 0
        BY <1>13, <3>1
      <3> QED BY <3>1, <3>2, EmptySeq
    <2>3. Bare(skSent') = SkMessages
      <3>1. Bare(skSent') \o <<>> = Bare(skSent')
        BY <1>9, ConcatEmptySeq
      <3> QED BY <1>1, <1>10, <2>2, <3>1
    <2> QED BY <1>1, <1>3, <1>6, <1>7, <1>12, <2>1, <2>3 DEF SkInv
  <1>14. CASE Len(todo) # 1
    <2>1. \A u \in FlProcesses : SkPosting(u)' <=> u = t
      BY <1>1, <1>4, <1>11, <1>14 DEF SkPosting
    <2>2. skTask'[t].todo # <<>>
      <3>1. Len(Tail(todo)) = Len(todo) - 1 /\ Len(todo) \in Nat
        BY <1>1, <1>2, HeadTailProperties, LenProperties
      <3>2. Len(Tail(todo)) # 0
        BY <1>14, <3>1
      <3>3. Tail(todo) # <<>>
        BY <3>2, EmptySeq
      <3> QED BY <1>4, <1>11, <3>3
    <2>3. Bare(skSent') \o skTask'[t].todo = SkMessages
      BY <1>1, <1>4, <1>10, <1>11
    <2> QED BY <1>1, <1>3, <1>6, <1>7, <1>12, <2>1, <2>2, <2>3 DEF SkInv
  <1> QED BY <1>13, <1>14

LEMMA SkStep ==
    ASSUME SkInv, [FlNext]_flVars
    PROVE  SkInv'
  <1>1. CASE UNCHANGED skVars
    BY <1>1 DEF skVars, SkInv, SkPosting
  <1>2. ASSUME NEW x, FlCreate(x) PROVE UNCHANGED skVars
    BY <1>2 DEF FlCreate
  <1>3. ASSUME NEW t \in FlProcesses, WaStep(t) PROVE UNCHANGED skVars
    BY <1>3 DEF WaStep, WaHide, WaRound, WaClaim, WaNotify, WaRemap, WaHold
  <1>4. UNCHANGED flVars => UNCHANGED skVars
    BY DEF flVars
  <1> QED BY <1>1, <1>2, <1>3, <1>4, SkLookKeeps, SkPostKeeps DEF FlNext

WaMs == {"hide", "other", "target", "activate", "notify"}
WaAt == {"hide", "rounds", "claim", "notify", "remap", "hold", "done"}
WaPosts == [by : FlProcesses, m : WaMs]
WaTasks == [at : WaAt, tries : Nat, rounds : Nat, claimed : BOOLEAN]
Acts(t) == waTask[t].claimed

\* Another screen comes to the front only if the wanted one does after it.
Settled(ms) ==
    \A i \in 1..Len(ms) : ms[i] = "other" => \E j \in i..Len(ms) : ms[j] = "target"

\* The process that has claimed the flow posts, and no other one.
WaInv ==
    /\ waTask \in [FlProcesses -> WaTasks] /\ waPosted \in BOOLEAN /\ waSent \in Seq(WaPosts)
    /\ \A t \in FlProcesses : Acts(t) => waPosted
    /\ \A t, u \in FlProcesses : Acts(t) /\ Acts(u) => t = u
    /\ \A t \in FlProcesses : waTask[t].at \in {"notify", "remap", "hold"} => Acts(t)
    /\ \A i \in 1..Len(waSent) : Acts(waSent[i].by)
    /\ \A i \in 1..Len(waSent) :
         waSent[i].m = "other" => \E j \in i..Len(waSent) : waSent[j].m = "target"

LEMMA SettledConcat ==
    ASSUME NEW l \in Seq(WaMs), NEW k \in Seq(WaMs), Settled(l), Settled(k)
    PROVE  l \o k \in Seq(WaMs) /\ Settled(l \o k)
  <1> DEFINE c == l \o k
  <1>1. /\ c \in Seq(WaMs) /\ Len(c) = Len(l) + Len(k) /\ Len(l) \in Nat /\ Len(k) \in Nat
        /\ \A i \in 1..Len(l) + Len(k) : c[i] = IF i <= Len(l) THEN l[i] ELSE k[i - Len(l)]
    BY ConcatProperties, LenProperties
  <1> HIDE DEF c
  <1>2. ASSUME NEW i \in 1..Len(c), c[i] = "other" PROVE \E j \in i..Len(c) : c[j] = "target"
    <2>1. CASE i <= Len(l)
      <3>1. i \in 1..Len(l) /\ l[i] = "other"
        BY <1>1, <1>2, <2>1
      <3>2. PICK j \in i..Len(l) : l[j] = "target"
        BY <3>1 DEF Settled
      <3>3. j \in i..Len(c) /\ c[j] = "target"
        BY <1>1, <3>1, <3>2
      <3> QED BY <3>3
    <2>2. CASE i > Len(l)
      <3>1. i - Len(l) \in 1..Len(k) /\ k[i - Len(l)] = "other"
        BY <1>1, <1>2, <2>2
      <3>2. PICK j \in (i - Len(l))..Len(k) : k[j] = "target"
        BY <3>1 DEF Settled
      <3>3. j + Len(l) \in i..Len(c) /\ c[j + Len(l)] = "target"
        <4>1. /\ j + Len(l) \in i..Len(c) /\ ~ (j + Len(l) <= Len(l))
              /\ j + Len(l) - Len(l) = j /\ j + Len(l) \in 1..Len(l) + Len(k)
          BY <1>1, <2>2, <3>2
        <4> QED BY <1>1, <3>2, <4>1
      <3> QED BY <3>3
    <2> QED BY <1>1, <2>1, <2>2
  <1> QED BY <1>1, <1>2 DEF Settled, c

(* All that is told at once is settled.                                    *)
LEMMA TellsSettled ==
    /\ \A m \in {"hide", "target", "activate", "notify"} :
         <<m>> \in Seq(WaMs) /\ Settled(<<m>>)
    /\ \A on \in BOOLEAN : Selects(on) \in Seq(WaMs) /\ Settled(Selects(on))
    /\ \A on \in BOOLEAN :
         Selects(on) \o <<"activate">> \in Seq(WaMs) /\ Settled(Selects(on) \o <<"activate">>)
    /\ \A on \in BOOLEAN :
         <<"target">> \o Selects(on) \in Seq(WaMs) /\ Settled(<<"target">> \o Selects(on))
  <1>1. ASSUME NEW m \in {"hide", "target", "activate", "notify"}
        PROVE  <<m>> \in Seq(WaMs) /\ Settled(<<m>>)
    <2>1. m \in WaMs /\ m # "other"
      BY DEF WaMs
    <2>2. <<m>> \in Seq(WaMs) /\ Len(<<m>>) = 1 /\ <<m>>[1] = m
      BY <2>1
    <2> QED BY <2>1, <2>2 DEF Settled
  <1>2. ASSUME NEW on \in BOOLEAN PROVE Selects(on) \in Seq(WaMs) /\ Settled(Selects(on))
    <2>1. CASE on
      <3> DEFINE l == <<"other", "target">>
      <3>1. l \in Seq(WaMs) /\ Len(l) = 2 /\ l[2] = "target"
        BY DEF WaMs
      <3>2. \A i \in 1..Len(l) : 2 \in i..Len(l)
        BY <3>1
      <3>3. Settled(l)
        BY <3>1, <3>2 DEF Settled
      <3> QED BY <2>1, <3>1, <3>3 DEF Selects
    <2>2. CASE ~ on
      <3>1. <<>> \in Seq(WaMs) /\ Len(<<>>) = 0
        BY EmptySeq
      <3> QED BY <2>2, <3>1 DEF Selects, Settled
    <2> QED BY <2>1, <2>2
  <1>3. /\ <<"activate">> \in Seq(WaMs) /\ Settled(<<"activate">>)
        /\ <<"target">> \in Seq(WaMs) /\ Settled(<<"target">>)
    BY <1>1
  <1> QED BY <1>1, <1>2, <1>3, SettledConcat

LEMMA WaInit == FlInit => WaInv
  <1> SUFFICES ASSUME FlInit PROVE WaInv
    OBVIOUS
  <1>1. waPosted = FALSE /\ waSent = <<>> /\ waTask = [t \in FlProcesses |-> WaStart]
    BY DEF FlInit
  <1>2. WaStart \in WaTasks /\ WaStart.claimed = FALSE /\ WaStart.at \in {"hide", "rounds"}
    BY DEF WaTasks, WaStart, WaAt
  <1>3. waSent \in Seq(WaPosts) /\ Len(waSent) = 0
    BY <1>1, EmptySeq
  <1>4. \A t \in FlProcesses : waTask[t] = WaStart
    BY <1>1
  <1>5. waTask \in [FlProcesses -> WaTasks]
    BY <1>1, <1>2
  <1>6. \A t \in FlProcesses : Acts(t) = FALSE
    BY <1>2, <1>4 DEF Acts
  <1>7. \A t \in FlProcesses : waTask[t].at \notin {"notify", "remap", "hold"}
    BY <1>2, <1>4
  <1>8. waPosted \in BOOLEAN
    BY <1>1
  <1> QED BY <1>3, <1>5, <1>6, <1>7, <1>8 DEF WaInv

(* A step of one thread keeps the flow with the process that has claimed   *)
(* it, or that claims it now.                                              *)
LEMMA WaKeeps ==
    ASSUME WaInv, NEW t \in FlProcesses, NEW w \in WaTasks, WaGo(t, w),
           waPosted' = waPosted \/ waPosted' = TRUE,
           Acts(t) => w.claimed,
           w.claimed => Acts(t) \/ (~ waPosted /\ waPosted'),
           w.at \in {"notify", "remap", "hold"} => w.claimed,
           waSent' = waSent \/ \E ms \in Seq(WaMs) : Settled(ms) /\ w.claimed /\ WaTell(t, ms)
    PROVE  WaInv'
  <1>1. /\ waTask \in [FlProcesses -> WaTasks] /\ waPosted \in BOOLEAN /\ waSent \in Seq(WaPosts)
        /\ waTask' = [waTask EXCEPT ![t] = w]
    BY DEF WaInv, WaGo
  <1>2. /\ waTask' \in [FlProcesses -> WaTasks]
        /\ \A u \in FlProcesses : waTask'[u] = IF u = t THEN w ELSE waTask[u]
    BY <1>1
  <1>3. \A u \in FlProcesses : Acts(u)' <=> IF u = t THEN w.claimed ELSE Acts(u)
    BY <1>2 DEF Acts
  <1>4. waPosted' \in BOOLEAN /\ (waPosted => waPosted')
    BY <1>1
  <1>5. \A u \in FlProcesses : Acts(u)' => waPosted'
    <2>1. \A u \in FlProcesses : Acts(u) => waPosted
      BY DEF WaInv
    <2> QED BY <1>3, <1>4, <2>1
  <1>6. \A u, x \in FlProcesses : Acts(u)' /\ Acts(x)' => u = x
    <2>1. \A u, x \in FlProcesses : Acts(u) /\ Acts(x) => u = x
      BY DEF WaInv
    <2>2. ~ waPosted => \A u \in FlProcesses : ~ Acts(u)
      BY DEF WaInv
    <2> QED BY <1>3, <2>1, <2>2
  <1>7. \A u \in FlProcesses : waTask'[u].at \in {"notify", "remap", "hold"} => Acts(u)'
    <2>1. \A u \in FlProcesses : waTask[u].at \in {"notify", "remap", "hold"} => Acts(u)
      BY DEF WaInv
    <2> QED BY <1>2, <1>3, <2>1
  <1>8. \A u \in FlProcesses : Acts(u) => Acts(u)'
    BY <1>3
  <1>9. \A i \in 1..Len(waSent) : waSent[i].by \in FlProcesses /\ Acts(waSent[i].by)
    <2>1. \A i \in 1..Len(waSent) : waSent[i] \in WaPosts
      BY <1>1, ElementOfSeq
    <2> QED BY <2>1 DEF WaInv, WaPosts
  <1>10. CASE waSent' = waSent
    BY <1>2, <1>4, <1>5, <1>6, <1>7, <1>8, <1>9, <1>10 DEF WaInv
  <1>11. ASSUME NEW ms \in Seq(WaMs), Settled(ms), w.claimed, WaTell(t, ms) PROVE WaInv'
    <2> DEFINE k == [i \in DOMAIN ms |-> [by |-> t, m |-> ms[i]]]
               n == Len(waSent)
    <2>1. DOMAIN ms = 1..Len(ms) /\ Len(ms) \in Nat /\ n \in Nat
      BY <1>1, LenProperties
    <2>2. \A i \in 1..Len(ms) : [by |-> t, m |-> ms[i]] \in WaPosts
      BY ElementOfSeq DEF WaPosts
    <2>3. /\ k \in Seq(WaPosts) /\ Len(k) = Len(ms)
          /\ \A i \in 1..Len(ms) : k[i].by = t /\ k[i].m = ms[i]
      BY <2>1, <2>2
    <2>4. waSent' = waSent \o k
      BY <1>11 DEF WaTell
    <2> HIDE DEF k
    <2>5. /\ waSent' \in Seq(WaPosts) /\ Len(waSent') = n + Len(ms)
          /\ \A i \in 1..n + Len(ms) : waSent'[i] = IF i <= n THEN waSent[i] ELSE k[i - n]
      <3>1. waSent \in Seq(WaPosts)
        BY <1>1
      <3>2. PICK u \in Seq(WaPosts) : u = waSent
        BY <3>1
      <3>3. PICK v \in Seq(WaPosts) : v = k
        BY <2>3
      <3>4. /\ u \o v \in Seq(WaPosts) /\ Len(u \o v) = Len(u) + Len(v)
            /\ \A i \in 1..Len(u) + Len(v) :
                  (u \o v)[i] = IF i <= Len(u) THEN u[i] ELSE v[i - Len(u)]
        BY ConcatProperties, Zenon
      <3> QED BY <2>3, <2>4, <3>2, <3>3, <3>4
    <2>6. \A i \in 1..Len(waSent') : i \in 1..n \/ (i - n \in 1..Len(ms) /\ ~ (i <= n))
      BY <2>1, <2>5
    <2>7. ASSUME NEW i \in 1..Len(waSent') PROVE waTask'[waSent'[i].by].claimed
      <3>1. CASE i \in 1..n
        <4>1. waSent'[i] = waSent[i]
          BY <2>1, <2>5, <3>1
        <4>2. PICK x \in FlProcesses : x = waSent[i].by /\ Acts(x)
          BY <1>9, <3>1
        <4>3. waTask'[x].claimed
          BY <1>8, <4>2 DEF Acts
        <4> QED BY <4>1, <4>2, <4>3
      <3>2. CASE i - n \in 1..Len(ms) /\ ~ (i <= n)
        <4>1. waSent'[i].by = t
          BY <2>3, <2>5, <3>2
        <4> QED BY <1>2, <1>11, <4>1
      <3> QED BY <2>6, <3>1, <3>2
    <2>8. ASSUME NEW i \in 1..Len(waSent'), waSent'[i].m = "other"
          PROVE  \E j \in i..Len(waSent') : waSent'[j].m = "target"
      <3>1. CASE i \in 1..n
        <4>1. waSent[i].m = "other"
          BY <2>1, <2>5, <2>8, <3>1
        <4>2. PICK j \in i..n : waSent[j].m = "target"
          BY <3>1, <4>1 DEF WaInv
        <4>3. j \in i..Len(waSent') /\ waSent'[j] = waSent[j]
          BY <2>1, <2>5, <3>1, <4>2
        <4> QED BY <4>2, <4>3
      <3>2. CASE i - n \in 1..Len(ms) /\ ~ (i <= n)
        <4>1. ms[i - n] = "other"
          BY <2>3, <2>5, <2>8, <3>2
        <4>2. PICK j \in (i - n)..Len(ms) : ms[j] = "target"
          BY <1>11, <3>2, <4>1 DEF Settled
        <4>3. /\ j + n \in i..Len(waSent') /\ j + n \in 1..n + Len(ms) /\ ~ (j + n <= n)
              /\ j + n - n = j /\ j \in 1..Len(ms)
          BY <2>1, <2>5, <3>2, <4>2
        <4>4. waSent'[j + n].m = "target"
          BY <2>3, <2>5, <4>2, <4>3
        <4> QED BY <4>3, <4>4
      <3> QED BY <2>6, <3>1, <3>2
    <2>9. \A i \in 1..Len(waSent') : waTask'[waSent'[i].by].claimed
      BY <2>7
    <2>10. \A i \in 1..Len(waSent') :
             waSent'[i].m = "other" => \E j \in i..Len(waSent') : waSent'[j].m = "target"
      BY <2>8
    <2> QED BY <1>2, <1>4, <1>5, <1>6, <1>7, <2>5, <2>9, <2>10 DEF WaInv, Acts
  <1> QED BY <1>10, <1>11

\* What changes in the record of a thread.
LEMMA WaFields ==
    ASSUME NEW w \in WaTasks, NEW at \in WaAt
    PROVE  /\ WaTo(w, at) \in WaTasks /\ WaTo(w, at).at = at /\ WaTo(w, at).claimed = w.claimed
           /\ [WaTo(w, at) EXCEPT !.claimed = TRUE] \in WaTasks
           /\ [WaTo(w, at) EXCEPT !.claimed = TRUE].at = at
           /\ [WaTo(w, at) EXCEPT !.claimed = TRUE].claimed = TRUE
  BY DEF WaTo, WaTasks

LEMMA WaWaits ==
    ASSUME NEW w \in WaTasks
    PROVE  LET k == [w EXCEPT !.tries = w.tries + 1]
           IN k \in WaTasks /\ k.at = w.at /\ k.claimed = w.claimed
  BY DEF WaTasks

LEMMA WaWins ==
    ASSUME NEW w \in WaTasks
    PROVE  LET k == [w EXCEPT !.claimed = TRUE, !.rounds = w.rounds + 1, !.tries = w.tries + 1]
           IN k \in WaTasks /\ k.at = w.at /\ k.claimed = TRUE
  <1>1. PICK n \in Nat, i \in Nat : n = w.rounds + 1 /\ i = w.tries + 1
    BY DEF WaTasks
  <1>2. LET k == [w EXCEPT !.claimed = TRUE, !.rounds = n, !.tries = i]
        IN k \in WaTasks /\ k.at = w.at /\ k.claimed = TRUE
    BY DEF WaTasks
  <1> QED BY <1>1, <1>2

(* Looking for a queue, or giving up.                                      *)
LEMMA WaIdles ==
    ASSUME WaInv, NEW t \in FlProcesses, NEW at \in WaAt,
           at \in {"notify", "remap", "hold"} => Acts(t), UNCHANGED waSent,
           waPosted' = waPosted \/ waPosted' = TRUE,
           WaGo(t, WaTo(waTask[t], at))
             \/ WaGo(t, [waTask[t] EXCEPT !.tries = waTask[t].tries + 1])
    PROVE  WaInv'
  <1>1. waTask[t] \in WaTasks /\ (waTask[t].at \in {"notify", "remap", "hold"} => Acts(t))
    BY DEF WaInv
  <1>2. CASE WaGo(t, WaTo(waTask[t], at))
    <2> DEFINE w == WaTo(waTask[t], at)
    <2>1. w \in WaTasks /\ w.at = at /\ w.claimed = Acts(t)
      BY <1>1, WaFields DEF Acts
    <2>2. WaGo(t, w)
      BY <1>2
    <2> HIDE DEF w
    <2> QED BY <2>1, <2>2, WaKeeps
  <1>3. CASE WaGo(t, [waTask[t] EXCEPT !.tries = waTask[t].tries + 1])
    <2> DEFINE w == [waTask[t] EXCEPT !.tries = waTask[t].tries + 1]
    <2>1. w \in WaTasks /\ w.at = waTask[t].at /\ w.claimed = Acts(t)
      BY <1>1, WaWaits DEF Acts
    <2>2. WaGo(t, w)
      BY <1>3
    <2> HIDE DEF w
    <2> QED BY <1>1, <2>1, <2>2, WaKeeps
  <1> QED BY <1>2, <1>3

(* A thread that acts, or may act, claims the flow and tells.              *)
LEMMA WaActs ==
    ASSUME WaInv, NEW t \in FlProcesses, NEW w \in WaTasks, w.claimed = TRUE, WaGo(t, w),
           waPosted' = waPosted \/ waPosted' = TRUE,
           Acts(t) \/ (WaMay(waTask[t]) /\ waPosted' = TRUE),
           waSent' = waSent \/ \E ms \in Seq(WaMs) : Settled(ms) /\ WaTell(t, ms)
    PROVE  WaInv'
  <1>1. Acts(t) \/ (~ waPosted /\ waPosted')
    BY DEF WaMay, Acts
  <1>2. waSent' = waSent \/ \E ms \in Seq(WaMs) : Settled(ms) /\ w.claimed /\ WaTell(t, ms)
    OBVIOUS
  <1> QED BY <1>1, <1>2, WaKeeps

LEMMA WaHideKeeps ==
    ASSUME WaInv, NEW t \in FlProcesses, WaHide(t)
    PROVE  WaInv'
  <1>1. waTask[t] \in WaTasks
    BY DEF WaInv
  <1>2. "rounds" \in WaAt /\ "done" \in WaAt
    BY DEF WaAt
  <1>3. CASE "viewer" \notin flUp
    <2>1. waPosted' = waPosted /\ waSent' = waSent
      BY <1>3 DEF WaHide
    <2>2. WaGo(t, WaTo(waTask[t], "rounds"))
             \/ WaGo(t, [waTask[t] EXCEPT !.tries = waTask[t].tries + 1])
      BY <1>3 DEF WaHide, WaGo
    <2> QED BY <1>2, <2>1, <2>2, WaIdles
  <1>4. CASE "viewer" \in flUp /\ WaMay(waTask[t])
    <2>1. /\ waPosted' = TRUE /\ WaTell(t, <<"hide">>)
          /\ WaGo(t, [WaTo(waTask[t], "rounds") EXCEPT !.claimed = TRUE])
      BY <1>4 DEF WaHide
    <2> DEFINE w == [WaTo(waTask[t], "rounds") EXCEPT !.claimed = TRUE]
    <2>2. w \in WaTasks /\ w.claimed = TRUE
      BY <1>1, <1>2, WaFields
    <2>3. WaGo(t, w)
      BY <2>1
    <2> HIDE DEF w
    <2>4. \E ms \in Seq(WaMs) : Settled(ms) /\ WaTell(t, ms)
      BY <2>1, TellsSettled
    <2> QED BY <1>4, <2>1, <2>2, <2>3, <2>4, WaActs
  <1>5. CASE "viewer" \in flUp /\ ~ WaMay(waTask[t])
    <2>1. waPosted' = TRUE /\ UNCHANGED waSent /\ WaGo(t, WaTo(waTask[t], "done"))
      BY <1>5 DEF WaHide
    <2> QED BY <1>2, <2>1, WaIdles
  <1> QED BY <1>3, <1>4, <1>5

LEMMA WaRoundKeeps ==
    ASSUME WaInv, NEW t \in FlProcesses, WaRound(t)
    PROVE  WaInv'
  <1>1. waTask[t] \in WaTasks
    BY DEF WaInv
  <1>2. WaAfterRounds \in WaAt /\ WaAfterRounds \notin {"notify", "remap", "hold"} /\ "done" \in WaAt
    BY DEF WaAt, WaAfterRounds
  <1>3. CASE "wmgr" \notin flUp
    <2>1. waPosted' = waPosted /\ waSent' = waSent
      BY <1>3 DEF WaRound
    <2>2. WaGo(t, WaTo(waTask[t], WaAfterRounds))
             \/ WaGo(t, [waTask[t] EXCEPT !.tries = waTask[t].tries + 1])
      BY <1>3 DEF WaRound, WaGo
    <2> QED BY <1>2, <2>1, <2>2, WaIdles
  <1>4. CASE "wmgr" \in flUp /\ WaMay(waTask[t])
    <2> DEFINE x == [waTask[t] EXCEPT !.claimed = TRUE, !.rounds = waTask[t].rounds + 1,
                                      !.tries = waTask[t].tries + 1]
               w == IF waTask[t].tries + 1 = FlTries \/ x.rounds = FlRounds
                    THEN WaTo(x, WaAfterRounds) ELSE x
    <2>1. /\ waPosted' = TRUE /\ WaTell(t, Selects(FlSelect) \o <<"activate">>) /\ WaGo(t, w)
      BY <1>4 DEF WaRound
    <2>2. x \in WaTasks /\ x.claimed = TRUE
      BY <1>1, WaWins
    <2>3. w \in WaTasks /\ w.claimed = TRUE
      BY <1>2, <2>2, WaFields
    <2> HIDE DEF w
    <2>4. \E ms \in Seq(WaMs) : Settled(ms) /\ WaTell(t, ms)
      BY <2>1, TellsSettled, FlowAssumption
    <2> QED BY <1>4, <2>1, <2>3, <2>4, WaActs
  <1>5. CASE "wmgr" \in flUp /\ ~ WaMay(waTask[t])
    <2>1. waPosted' = TRUE /\ UNCHANGED waSent /\ WaGo(t, WaTo(waTask[t], "done"))
      BY <1>5 DEF WaRound
    <2> QED BY <1>2, <2>1, WaIdles
  <1> QED BY <1>3, <1>4, <1>5

LEMMA WaClaimKeeps ==
    ASSUME WaInv, NEW t \in FlProcesses, WaClaim(t)
    PROVE  WaInv'
  <1>1. waTask[t] \in WaTasks /\ "done" \in WaAt /\ "notify" \in WaAt
    BY DEF WaInv, WaAt
  <1>2. waPosted' = TRUE /\ UNCHANGED waSent
    BY DEF WaClaim
  <1>3. CASE WaMay(waTask[t])
    <2> DEFINE w == [WaTo(waTask[t], "notify") EXCEPT !.claimed = TRUE]
    <2>1. w \in WaTasks /\ w.claimed = TRUE
      BY <1>1, WaFields
    <2>2. WaGo(t, w)
      BY <1>3 DEF WaClaim
    <2> HIDE DEF w
    <2> QED BY <1>2, <1>3, <2>1, <2>2, WaActs
  <1>4. CASE ~ WaMay(waTask[t])
    <2>1. WaGo(t, WaTo(waTask[t], "done"))
      BY <1>4 DEF WaClaim
    <2> QED BY <1>1, <1>2, <2>1, WaIdles
  <1> QED BY <1>3, <1>4

(* From the notification on only the process that has claimed the flow is  *)
(* there.                                                                  *)
LEMMA WaActorKeeps ==
    ASSUME WaInv, NEW t \in FlProcesses, WaNotify(t) \/ WaRemap(t) \/ WaHold(t)
    PROVE  WaInv'
  <1>1. /\ waTask[t] \in WaTasks /\ Acts(t) /\ waPosted' = waPosted
        /\ waTask[t].claimed = TRUE
    <2>1. waTask[t] \in WaTasks /\ Acts(t)
      BY DEF WaNotify, WaRemap, WaHold, WaInv
    <2>2. waPosted' = waPosted
      BY DEF WaNotify, WaRemap, WaHold
    <2>3. waTask[t].claimed \in BOOLEAN
      BY <2>1 DEF WaTasks
    <2> QED BY <2>1, <2>2, <2>3 DEF Acts
  <1>2. PICK at \in {"remap", "hold", "done"} :
          /\ WaGo(t, WaTo(waTask[t], at))
               \/ WaGo(t, [waTask[t] EXCEPT !.tries = waTask[t].tries + 1])
          /\ \/ waSent' = waSent
             \/ \E m \in {"hide", "target", "activate", "notify"} : WaTell(t, <<m>>)
             \/ \E on \in BOOLEAN : WaTell(t, Selects(on))
             \/ \E on \in BOOLEAN : WaTell(t, <<"target">> \o Selects(on))
    <2>1. CASE WaNotify(t)
      <3>1. PICK at \in {"remap", "done"} : at = IF FlSelect THEN "remap" ELSE "done"
        OBVIOUS
      <3>2. \/ WaGo(t, WaTo(waTask[t], at)) /\ WaTell(t, <<"notify">>)
            \/ WaGo(t, WaTo(waTask[t], at)) /\ waSent' = waSent
            \/ WaGo(t, [waTask[t] EXCEPT !.tries = waTask[t].tries + 1]) /\ waSent' = waSent
        BY <2>1, <3>1 DEF WaNotify
      <3> QED BY <3>2
    <2>2. CASE WaRemap(t)
      <3>1. PICK at \in {"hold", "done"} : at = IF FlHold = 0 THEN "done" ELSE "hold"
        OBVIOUS
      <3>2. \/ WaGo(t, WaTo(waTask[t], at)) /\ WaTell(t, Selects(TRUE))
            \/ WaGo(t, WaTo(waTask[t], "done")) /\ waSent' = waSent
            \/ WaGo(t, [waTask[t] EXCEPT !.tries = waTask[t].tries + 1]) /\ waSent' = waSent
        BY <2>2, <3>1 DEF WaRemap
      <3> QED BY <3>2
    <2>3. CASE WaHold(t)
      <3>1. \/ WaGo(t, WaTo(waTask[t], "done"))
            \/ WaGo(t, [waTask[t] EXCEPT !.tries = waTask[t].tries + 1])
        BY <2>3 DEF WaHold
      <3>2. \E on \in BOOLEAN : WaTell(t, <<"target">> \o Selects(on))
        BY <2>3 DEF WaHold
      <3> QED BY <3>1, <3>2
    <2> QED BY <2>1, <2>2, <2>3
  <1>3. at \in WaAt
    BY <1>2 DEF WaAt
  <1>4. waSent' = waSent \/ \E ms \in Seq(WaMs) : Settled(ms) /\ WaTell(t, ms)
    BY <1>2, TellsSettled, Zenon
  <1>5. PICK w \in WaTasks : WaGo(t, w) /\ w.claimed = TRUE
    <2>1. CASE WaGo(t, WaTo(waTask[t], at))
      BY <1>1, <1>3, <2>1, WaFields
    <2>2. CASE WaGo(t, [waTask[t] EXCEPT !.tries = waTask[t].tries + 1])
      BY <1>1, <2>2, WaWaits
    <2> QED BY <1>2, <2>1, <2>2
  <1> QED BY <1>1, <1>4, <1>5, WaActs

LEMMA WaStepKeeps ==
    ASSUME WaInv, [FlNext]_flVars
    PROVE  WaInv'
  <1>1. CASE UNCHANGED waVars
    BY <1>1 DEF waVars, WaInv, Acts
  <1>2. ASSUME NEW x, FlCreate(x) PROVE UNCHANGED waVars
    BY <1>2 DEF FlCreate
  <1>3. ASSUME NEW t \in FlProcesses, SkLook(t) \/ SkPost(t) PROVE UNCHANGED waVars
    BY <1>3 DEF SkLook, SkPost
  <1>4. UNCHANGED flVars => UNCHANGED waVars
    BY DEF flVars
  <1>5. ASSUME NEW t \in FlProcesses, WaStep(t) PROVE WaInv'
    BY <1>5, WaHideKeeps, WaRoundKeeps, WaClaimKeeps, WaActorKeeps DEF WaStep
  <1> QED BY <1>1, <1>2, <1>3, <1>4, <1>5 DEF FlNext

(* Of what one process has put, there is one sender.                       *)
LEMMA AtMostOne ==
    ASSUME NEW S, \A x, y \in S : x = y
    PROVE  Cardinality(S) <= 1
  <1>1. CASE S = {}
    BY <1>1, FS_EmptySet
  <1>2. CASE S # {}
    <2>1. PICK x \in S : TRUE
      BY <1>2
    <2>2. S = {x}
      BY <2>1
    <2> QED BY <2>2, FS_Singleton
  <1> QED BY <1>1, <1>2

LEMMA FlowsSound == SkInv /\ WaInv => OneProcessActs
  <1> SUFFICES ASSUME SkInv, WaInv PROVE OneProcessActs
    OBVIOUS
  <1>1. Cardinality({e.by : e \in ToSet(skSent)}) <= 1
    <2>1. DOMAIN skSent = 1..Len(skSent)
      BY LenProperties DEF SkInv
    <2>2. \A i, j \in 1..Len(skSent) : skSent[i].by = skSent[j].by
      BY DEF SkInv
    <2>3. \A x, y \in {e.by : e \in ToSet(skSent)} : x = y
      BY <2>1, <2>2 DEF ToSet
    <2> QED BY <2>3, AtMostOne
  <1>2. DOMAIN waSent = 1..Len(waSent)
    BY LenProperties DEF WaInv
  <1>3. Cardinality({e.by : e \in ToSet(waSent)}) <= 1
    <2>1. \A i \in 1..Len(waSent) : waSent[i].by \in FlProcesses /\ Acts(waSent[i].by)
      <3>1. \A i \in 1..Len(waSent) : waSent[i] \in WaPosts
        BY ElementOfSeq DEF WaInv
      <3> QED BY <3>1 DEF WaInv, WaPosts
    <2>2. \A t, u \in FlProcesses : Acts(t) /\ Acts(u) => t = u
      BY DEF WaInv
    <2>3. \A x, y \in {e.by : e \in ToSet(waSent)} : x = y
      BY <1>2, <2>1, <2>2 DEF ToSet
    <2> QED BY <2>3, AtMostOne
  <1>4. \A sent \in {skSent, waSent} : Cardinality({e.by : e \in ToSet(sent)}) <= 1
    BY <1>1, <1>3
  <1>5. ASSUME skSent # <<>>, \A t \in FlProcesses : skTask[t].at # "post"
        PROVE  IsSuffix(FlowEnd, Bare(skSent))
    <2>1. Bare(skSent) = SkMessages
      BY <1>5 DEF SkInv, SkPosting
    <2> QED BY <2>1, SkComplete
  <1>6. \A i \in DOMAIN waSent :
          waSent[i].m = "other" => \E j \in i..Len(waSent) : waSent[j].m = "target"
    BY <1>2 DEF WaInv
  <1> QED BY <1>4, <1>5, <1>6 DEF OneProcessActs, FlowEnd, Bare

-----------------------------------------------------------------------------
(* The run-up                                                              *)

RuMessages == {"self", "empty", "upd", "connect"}
RuEnding == {"start", "mark", "reread", "claim", "load"}
RuAll == RuThreads \cup RuClients

\* The posters that have posted, and the askers that have no message to post.
Past   == {t \in RuPosters : ruPc[t] # "start"}
Loaded == {t \in RuAskers : ruPc[t] = "done"}

\* How far the replay is: as many records as there may be once it is over.
Replayed == IF ruPc[RuServer] = "replay" THEN ruAt[RuServer]
            ELSE IF trigger_replayed THEN CFGQ_CAP ELSE 0

\* What the server may have posted: at the end of the run-up, and at a connect.
ServerLoads ==
    IF ruPc[RuServer] \in RuEnding THEN 0
    ELSE IF trigger_replayed /\ inject_upd /\ ruPc[RuServer] # "upd" THEN 2 ELSE 1

RuType ==
    /\ ruLog \in Seq(RuMessages) /\ cfgq_rec \in [0..CFGQ_CAP - 1 -> {"self", "empty"}]
    /\ cfgq_n \in 0..CFGQ_CAP /\ DOMAIN ruPc = RuAll
    /\ ruAt \in [RuPosters \cup {RuServer} -> Nat]
    /\ trigger_replayed \in BOOLEAN /\ inject_upd \in BOOLEAN
    /\ ruPc[RuServer] = "replay" => trigger_replayed /\ ruAt[RuServer] <= cfgq_n
    /\ ruPc[RuServer] # "replay" => ruAt[RuServer] = 0
    /\ ruPc[RuServer] = "upd" => trigger_replayed /\ inject_upd
    /\ trigger_replayed => ruPc[RuServer] \notin RuEnding

SelfBound == Puts("self") + Puts("empty") <= Cardinality(Past) + Replayed
UpdBound == Puts("upd") <= Cardinality(Loaded) + ServerLoads

RuInv == RuType /\ SelfBound /\ UpdBound

LEMMA PutsCount ==
    ASSUME ruLog \in Seq(RuMessages), NEW m
    PROVE  /\ Puts(m) \in Nat
           /\ UNCHANGED ruLog => Puts(m)' = Puts(m)
           /\ \A x \in RuMessages :
                ruLog' = Append(ruLog, x) =>
                  /\ ruLog' \in Seq(RuMessages)
                  /\ Puts(m)' = IF m = x THEN Puts(m) + 1 ELSE Puts(m)
  <1> DEFINE n == Len(ruLog)
             at == {i \in DOMAIN ruLog : ruLog[i] = m}
  <1>1. DOMAIN ruLog = 1..n /\ n \in Nat
    BY LenProperties
  <1>2. IsFiniteSet(1..n)
    BY <1>1, FS_Interval
  <1>3. IsFiniteSet(at) /\ at \subseteq 1..n
    BY <1>1, <1>2, FS_Subset
  <1>4. Puts(m) = Cardinality(at) /\ Cardinality(at) \in Nat
    BY <1>3, FS_CardinalityType DEF Puts
  <1>5. UNCHANGED ruLog => Puts(m)' = Puts(m)
    BY DEF Puts
  <1>6. ASSUME NEW x \in RuMessages, ruLog' = Append(ruLog, x)
        PROVE  /\ ruLog' \in Seq(RuMessages)
               /\ Puts(m)' = IF m = x THEN Puts(m) + 1 ELSE Puts(m)
    <2>1. /\ ruLog' \in Seq(RuMessages) /\ DOMAIN ruLog' = 1..n + 1 /\ ruLog'[n + 1] = x
          /\ \A i \in 1..n : ruLog'[i] = ruLog[i]
      BY <1>1, <1>6
    <2>2. n + 1 \notin at
      BY <1>1, <1>3
    <2>3. \A i : i \in 1..n + 1 <=> i \in 1..n \/ i = n + 1
      BY <1>1
    <2>4. {i \in DOMAIN ruLog' : ruLog'[i] = m} = IF m = x THEN at \cup {n + 1} ELSE at
      BY <1>1, <2>1, <2>3
    <2> HIDE DEF at, n
    <2>5. Puts(m)' = Cardinality(IF m = x THEN at \cup {n + 1} ELSE at)
      BY <2>4 DEF Puts
    <2>6. Cardinality(at \cup {n + 1}) = Cardinality(at) + 1
      BY <1>3, <2>2, FS_AddElement
    <2> QED BY <1>4, <2>1, <2>5, <2>6
  <1> QED BY <1>4, <1>5, <1>6

LEMMA RuInit0 == RuInit => RuInv
  <1> SUFFICES ASSUME RuInit PROVE RuInv
    OBVIOUS
  <1>1. /\ ruLog = <<>> /\ trigger_replayed = FALSE /\ inject_upd \in BOOLEAN /\ cfgq_n = 0
        /\ cfgq_rec = [i \in 0..CFGQ_CAP - 1 |-> "empty"]
        /\ ruPc = [t \in RuAll |-> "start"] /\ ruAt = [t \in RuPosters \cup {RuServer} |-> 0]
    BY DEF RuInit, RuAll
  <1>2. RuServer \in RuAll /\ RuPosters \subseteq RuAll /\ RuAskers \subseteq RuAll
        /\ CFGQ_CAP \in Nat
    BY RunupAssumption DEF RuAll, RuThreads
  <1>3. ruPc[RuServer] = "start" /\ ruAt[RuServer] = 0
    BY <1>1, <1>2
  <1>4. RuType
    <2>1. /\ ruLog \in Seq(RuMessages) /\ cfgq_rec \in [0..CFGQ_CAP - 1 -> {"self", "empty"}]
          /\ cfgq_n \in 0..CFGQ_CAP /\ DOMAIN ruPc = RuAll
          /\ ruAt \in [RuPosters \cup {RuServer} -> Nat]
      BY <1>1, <1>2
    <2>2. ~ trigger_replayed /\ trigger_replayed \in BOOLEAN /\ inject_upd \in BOOLEAN
      BY <1>1
    <2>3. ruPc[RuServer] # "replay" /\ ruPc[RuServer] # "upd"
      BY <1>3
    <2> QED BY <1>3, <2>1, <2>2, <2>3, Zenon DEF RuType
  <1>5. Past = {} /\ Loaded = {}
    BY <1>1, <1>2 DEF Past, Loaded
  <1>6. \A m : Puts(m) = 0
    <2>1. \A m : {i \in DOMAIN ruLog : ruLog[i] = m} = {}
      BY <1>1
    <2> QED BY <2>1, FS_EmptySet DEF Puts
  <1>7. Replayed = 0 /\ ServerLoads = 0
    BY <1>1, <1>3 DEF Replayed, ServerLoads, RuEnding
  <1> QED BY <1>4, <1>5, <1>6, <1>7, FS_EmptySet DEF RuInv, SelfBound, UpdBound

(* Who counts after one thread has gone on.                                *)
LEMMA AfterGo ==
    ASSUME RuType, NEW t \in RuAll, NEW next, RuGo(t, next)
    PROVE  /\ DOMAIN ruPc' = RuAll
           /\ \A u \in RuAll : ruPc'[u] = IF u = t THEN next ELSE ruPc[u]
           /\ Cardinality(Past) \in Nat /\ Cardinality(Loaded) \in Nat
           /\ t \notin RuPosters \/ (ruPc[t] # "start" /\ next # "start") => Past' = Past
           /\ t \in RuPosters /\ ruPc[t] = "start" /\ next # "start"
                => Cardinality(Past') = Cardinality(Past) + 1
           /\ t \notin RuAskers \/ (ruPc[t] # "done" /\ next # "done") => Loaded' = Loaded
           /\ t \in RuAskers /\ ruPc[t] # "done" /\ next = "done"
                => Cardinality(Loaded') = Cardinality(Loaded) + 1
  <1>1. DOMAIN ruPc' = RuAll /\ \A u \in RuAll : ruPc'[u] = IF u = t THEN next ELSE ruPc[u]
    BY DEF RuType, RuGo
  <1>2. RuPosters \subseteq RuAll /\ RuAskers \subseteq RuAll
    BY DEF RuAll, RuThreads
  <1>3. IsFiniteSet(Past) /\ IsFiniteSet(Loaded)
    BY RunupAssumption, FS_Subset DEF Past, Loaded
  <1>4. Cardinality(Past) \in Nat /\ Cardinality(Loaded) \in Nat
    BY <1>3, FS_CardinalityType
  <1>5. t \notin RuPosters \/ (ruPc[t] # "start" /\ next # "start") => Past' = Past
    BY <1>1, <1>2 DEF Past
  <1>6. ASSUME t \in RuPosters, ruPc[t] = "start", next # "start"
        PROVE  Cardinality(Past') = Cardinality(Past) + 1
    <2>1. Past' = Past \cup {t} /\ t \notin Past
      BY <1>1, <1>2, <1>6 DEF Past
    <2> QED BY <1>3, <2>1, FS_AddElement
  <1>7. t \notin RuAskers \/ (ruPc[t] # "done" /\ next # "done") => Loaded' = Loaded
    BY <1>1, <1>2 DEF Loaded
  <1>8. ASSUME t \in RuAskers, ruPc[t] # "done", next = "done"
        PROVE  Cardinality(Loaded') = Cardinality(Loaded) + 1
    <2>1. Loaded' = Loaded \cup {t} /\ t \notin Loaded
      BY <1>1, <1>2, <1>8 DEF Loaded
    <2> QED BY <1>3, <2>1, FS_AddElement
  <1> QED BY <1>1, <1>4, <1>5, <1>6, <1>7, <1>8

LEMMA PosterKeeps ==
    ASSUME RuInv, NEW t \in RuPosters, RuPost(t) \/ Reserve(t) \/ Fill(t)
    PROVE  RuInv'
  <1> USE RunupAssumption
  <1>1. t \in RuAll /\ t # RuServer /\ t \notin RuAskers /\ RuServer \in RuAll
    BY DEF RuAll, RuThreads
  <1>2. PICK next \in {"check", "fill", "done"} : RuGo(t, next)
    BY DEF RuPost, Reserve, Fill
  <1>3. RuType
    BY DEF RuInv
  <1>4. /\ ruPc'[RuServer] = ruPc[RuServer] /\ DOMAIN ruPc' = RuAll
        /\ Loaded' = Loaded /\ Cardinality(Past) \in Nat
        /\ ruPc[t] # "start" => Past' = Past
        /\ ruPc[t] = "start" => Cardinality(Past') = Cardinality(Past) + 1
    BY <1>1, <1>2, <1>3, AfterGo
  <1>5. /\ UNCHANGED <<trigger_replayed, inject_upd>> /\ ruAt'[RuServer] = ruAt[RuServer]
        /\ ruAt' \in [RuPosters \cup {RuServer} -> Nat]
        /\ cfgq_n' \in 0..CFGQ_CAP /\ cfgq_n' >= cfgq_n
        /\ cfgq_rec' \in [0..CFGQ_CAP - 1 -> {"self", "empty"}]
    <2>1. /\ ruAt \in [RuPosters \cup {RuServer} -> Nat] /\ cfgq_n \in 0..CFGQ_CAP
          /\ cfgq_rec \in [0..CFGQ_CAP - 1 -> {"self", "empty"}] /\ CFGQ_CAP \in Nat
      BY <1>3 DEF RuType
    <2>2. UNCHANGED <<trigger_replayed, inject_upd>>
      BY DEF RuPost, Reserve, Fill, ruGates
    <2>3. UNCHANGED ruAt \/ ruAt' = [ruAt EXCEPT ![t] = cfgq_n]
      BY DEF RuPost, Reserve, Fill
    <2>4. ruAt' \in [RuPosters \cup {RuServer} -> Nat] /\ ruAt'[RuServer] = ruAt[RuServer]
      BY <1>1, <2>1, <2>3
    <2>5. cfgq_n' = cfgq_n \/ cfgq_n' = IF cfgq_n < CFGQ_CAP THEN cfgq_n + 1 ELSE CFGQ_CAP
      BY DEF RuPost, Reserve, Fill
    <2>6. cfgq_n' \in 0..CFGQ_CAP /\ cfgq_n' >= cfgq_n
      BY <2>1, <2>5
    <2>7. UNCHANGED cfgq_rec \/ cfgq_rec' = [cfgq_rec EXCEPT ![ruAt[t]] = "self"]
      BY DEF RuPost, Reserve, Fill
    <2> QED BY <2>1, <2>2, <2>4, <2>6, <2>7
  <1>6. "self" \in RuMessages /\ ruLog \in Seq(RuMessages)
    BY <1>3 DEF RuMessages, RuType
  <1>7. Replayed' = Replayed /\ ServerLoads' = ServerLoads
    BY <1>4, <1>5 DEF Replayed, ServerLoads
  <1>8. CASE RuPost(t)
    <2>1. ruPc[t] = "start" /\ ruLog' = Append(ruLog, "self")
      BY <1>8 DEF RuPost, Put
    <2>2. /\ ruLog' \in Seq(RuMessages) /\ Puts("self")' = Puts("self") + 1
          /\ Puts("empty")' = Puts("empty") /\ Puts("upd")' = Puts("upd")
          /\ Puts("self") \in Nat /\ Puts("empty") \in Nat
      BY <1>6, <2>1, PutsCount
    <2>3. RuType'
      BY <1>3, <1>4, <1>5, <2>2 DEF RuType
    <2>4. Replayed \in Int
      BY <1>3 DEF Replayed, RuType
    <2>5. SelfBound'
      BY <1>4, <1>7, <2>1, <2>2, <2>4 DEF RuInv, SelfBound
    <2>6. UpdBound'
      BY <1>4, <1>7, <2>2 DEF RuInv, UpdBound
    <2> QED BY <2>3, <2>5, <2>6 DEF RuInv
  <1>9. CASE Reserve(t) \/ Fill(t)
    <2>1. ruPc[t] # "start" /\ UNCHANGED ruLog
      BY <1>9 DEF Reserve, Fill
    <2>2. /\ Puts("self")' = Puts("self") /\ Puts("empty")' = Puts("empty")
          /\ Puts("upd")' = Puts("upd")
      BY <2>1 DEF Puts
    <2>3. RuType'
      BY <1>3, <1>4, <1>5, <2>1 DEF RuType
    <2> QED BY <1>4, <1>7, <2>1, <2>2, <2>3 DEF RuInv, SelfBound, UpdBound
  <1> QED BY <1>8, <1>9

LEMMA AskerKeeps ==
    ASSUME RuInv, NEW t \in RuAskers,
           HwsAutoreply(t) \/ Mark(t) \/ PostReread(t) \/ ClaimReread(t) \/ PostLoad(t)
    PROVE  RuInv'
  <1> USE RunupAssumption
  <1>1. t \in RuAll /\ t # RuServer /\ t \notin RuPosters /\ RuServer \in RuAll
    BY DEF RuAll, RuThreads
  <1>2. PICK next \in {"mark", "reread", "claim", "load", "done"} :
          RuGo(t, next) /\ (PostLoad(t) => next = "done")
    BY <1>1 DEF HwsAutoreply, Mark, PostReread, ClaimReread, PostLoad, RuAfter
  <1>3. RuType /\ ruPc[t] # "done"
    BY DEF RuInv, HwsAutoreply, Mark, PostReread, ClaimReread, PostLoad
  <1>4. /\ ruPc'[RuServer] = ruPc[RuServer] /\ DOMAIN ruPc' = RuAll
        /\ Past' = Past /\ Cardinality(Loaded) \in Nat
        /\ next # "done" => Loaded' = Loaded
        /\ next = "done" => Cardinality(Loaded') = Cardinality(Loaded) + 1
    BY <1>1, <1>2, <1>3, AfterGo
  <1>5. UNCHANGED <<trigger_replayed, inject_upd, ruAt, cfgq_n, cfgq_rec>>
    BY DEF HwsAutoreply, Mark, PostReread, ClaimReread, PostLoad, ruGates
  <1>6. "upd" \in RuMessages /\ ruLog \in Seq(RuMessages)
    BY <1>3 DEF RuMessages, RuType
  <1>7. Replayed' = Replayed /\ ServerLoads' = ServerLoads /\ ServerLoads \in Nat
    BY <1>4, <1>5 DEF Replayed, ServerLoads
  <1>8. CASE PostLoad(t)
    <2>1. ruLog' = Append(ruLog, "upd") /\ next = "done"
      BY <1>2, <1>8 DEF PostLoad, Put
    <2>2. /\ ruLog' \in Seq(RuMessages) /\ Puts("upd")' = Puts("upd") + 1
          /\ Puts("empty")' = Puts("empty") /\ Puts("self")' = Puts("self")
          /\ Puts("upd") \in Nat
      BY <1>6, <2>1, PutsCount
    <2>3. RuType'
      BY <1>3, <1>4, <1>5, <2>2 DEF RuType
    <2>4. SelfBound'
      BY <1>4, <1>7, <2>2 DEF RuInv, SelfBound
    <2>5. UpdBound'
      BY <1>4, <1>7, <2>1, <2>2 DEF RuInv, UpdBound
    <2> QED BY <2>3, <2>4, <2>5 DEF RuInv
  <1>9. CASE ~ PostLoad(t)
    <2>1. UNCHANGED ruLog
      BY <1>9 DEF HwsAutoreply, Mark, PostReread, ClaimReread
    <2>2. /\ Puts("self")' = Puts("self") /\ Puts("empty")' = Puts("empty")
          /\ Puts("upd")' = Puts("upd") /\ Puts("upd") \in Nat
      BY <1>6, <2>1, PutsCount
    <2>3. RuType'
      BY <1>3, <1>4, <1>5, <2>1 DEF RuType
    <2>4. SelfBound'
      BY <1>4, <1>7, <2>2 DEF RuInv, SelfBound
    <2>5. UpdBound'
      BY <1>4, <1>7, <2>2 DEF RuInv, UpdBound
    <2> QED BY <2>3, <2>4, <2>5 DEF RuInv
  <1> QED BY <1>8, <1>9

(* The server ends the run-up.                                             *)
LEMMA EndingKeeps ==
    ASSUME RuInv, ServeLoop \/ Mark(RuServer) \/ PostReread(RuServer) \/ ClaimReread(RuServer)
                    \/ PostLoad(RuServer)
    PROVE  RuInv'
  <1> USE RunupAssumption
  <1>1. RuServer \in RuAll /\ RuServer \notin RuPosters /\ RuServer \notin RuAskers
    BY DEF RuAll, RuThreads
  <1>2. PICK next \in {"mark", "reread", "claim", "load", "serve"} :
          RuGo(RuServer, next) /\ (PostLoad(RuServer) => next = "serve")
    BY DEF ServeLoop, Mark, PostReread, ClaimReread, PostLoad, RuAfter
  <1>3. RuType /\ ruPc[RuServer] \in RuEnding
    BY DEF RuInv, ServeLoop, Mark, PostReread, ClaimReread, PostLoad, RuEnding
  <1>4. /\ ruPc'[RuServer] = next /\ DOMAIN ruPc' = RuAll
        /\ Past' = Past /\ Loaded' = Loaded /\ Cardinality(Loaded) \in Nat
    BY <1>1, <1>2, <1>3, AfterGo
  <1>5. UNCHANGED <<trigger_replayed, inject_upd, ruAt, cfgq_n, cfgq_rec>>
    BY DEF ServeLoop, Mark, PostReread, ClaimReread, PostLoad, ruGates
  <1>6. "upd" \in RuMessages /\ ruLog \in Seq(RuMessages)
    BY <1>3 DEF RuMessages, RuType
  <1>7. ~ trigger_replayed /\ ruPc[RuServer] # "replay" /\ next # "replay" /\ next # "upd"
    BY <1>2, <1>3 DEF RuType, RuEnding
  <1>8. /\ Replayed' = Replayed /\ ServerLoads = 0 /\ ServerLoads' \in 0..1
        /\ PostLoad(RuServer) => ServerLoads' = 1
    BY <1>2, <1>3, <1>4, <1>5, <1>7 DEF Replayed, ServerLoads, RuEnding
  <1>9. ruLog' \in Seq(RuMessages) => RuType'
    BY <1>3, <1>4, <1>5, <1>7 DEF RuType
  <1>10. CASE PostLoad(RuServer)
    <2>1. ruLog' = Append(ruLog, "upd")
      BY <1>10 DEF PostLoad, Put
    <2>2. /\ ruLog' \in Seq(RuMessages) /\ Puts("upd")' = Puts("upd") + 1
          /\ Puts("empty")' = Puts("empty") /\ Puts("self")' = Puts("self")
          /\ Puts("upd") \in Nat
      BY <1>6, <2>1, PutsCount
    <2>3. SelfBound'
      BY <1>4, <1>8, <2>2 DEF RuInv, SelfBound
    <2>4. UpdBound'
      BY <1>4, <1>8, <1>10, <2>2 DEF RuInv, UpdBound
    <2> QED BY <1>9, <2>2, <2>3, <2>4 DEF RuInv
  <1>11. CASE ~ PostLoad(RuServer)
    <2>1. UNCHANGED ruLog
      BY <1>11 DEF ServeLoop, Mark, PostReread, ClaimReread
    <2>2. /\ Puts("self")' = Puts("self") /\ Puts("empty")' = Puts("empty")
          /\ Puts("upd")' = Puts("upd") /\ Puts("upd") \in Nat
      BY <1>6, <2>1, PutsCount
    <2>3. SelfBound'
      BY <1>4, <1>8, <2>2 DEF RuInv, SelfBound
    <2>4. UpdBound'
      BY <1>4, <1>8, <2>2 DEF RuInv, UpdBound
    <2> QED BY <1>6, <1>9, <2>1, <2>3, <2>4 DEF RuInv
  <1> QED BY <1>10, <1>11

(* The server reads, replays and posts the state.                          *)
LEMMA ServingKeeps ==
    ASSUME RuInv, RuRead \/ Replay \/ InjectUpd
    PROVE  RuInv'
  <1> USE RunupAssumption
  <1>1. RuServer \in RuAll /\ RuServer \notin RuPosters /\ RuServer \notin RuAskers
    BY DEF RuAll, RuThreads
  <1>2. /\ RuType /\ UNCHANGED <<inject_upd, cfgq_n, cfgq_rec>> /\ ruLog \in Seq(RuMessages)
        /\ ruAt[RuServer] \in Nat /\ cfgq_n \in Nat /\ cfgq_n <= CFGQ_CAP /\ CFGQ_CAP \in Nat
    BY DEF RuInv, RuType, RuRead, Replay, InjectUpd, ruGates
  <1>3. /\ Puts("self") \in Nat /\ Puts("empty") \in Nat /\ Puts("upd") \in Nat
        /\ SelfBound /\ UpdBound
    BY <1>2, PutsCount DEF RuInv
  <1>4. ASSUME NEW next, RuGo(RuServer, next)
        PROVE  /\ ruPc'[RuServer] = next /\ DOMAIN ruPc' = RuAll
               /\ Past' = Past /\ Loaded' = Loaded
               /\ Cardinality(Past) \in Nat /\ Cardinality(Loaded) \in Nat
    BY <1>1, <1>2, <1>4, AfterGo
  <1>5. CASE RuRead
    <2>1. PICK next : /\ RuGo(RuServer, next) /\ ruPc[RuServer] = "serve"
                      /\ trigger_replayed' = (trigger_replayed \/ next # "serve")
                      /\ next = "serve" \/ next = AfterConnect
      BY <1>5 DEF RuRead
    <2>2. UNCHANGED <<ruAt, ruLog>>
      BY <1>5 DEF RuRead
    <2>3. /\ next = "serve" => trigger_replayed' = trigger_replayed
          /\ next # "serve" => /\ trigger_replayed = FALSE /\ trigger_replayed' = TRUE
                               /\ next \in {"replay", "upd"} /\ (next = "upd" => inject_upd)
      <3>1. trigger_replayed \in BOOLEAN
        BY <1>2 DEF RuType
      <3>2. next # "serve" => /\ ~ trigger_replayed
                              /\ next \in {"replay", "upd"} /\ (next = "upd" => inject_upd)
        BY <2>1 DEF AfterConnect
      <3>3. next = "serve" => trigger_replayed' = trigger_replayed
        BY <2>1, <3>1
      <3>4. next # "serve" => trigger_replayed' = TRUE
        BY <2>1, <3>1
      <3> QED BY <3>1, <3>2, <3>3, <3>4
    <2>4. /\ ruPc'[RuServer] = next /\ DOMAIN ruPc' = RuAll /\ Past' = Past /\ Loaded' = Loaded
          /\ Cardinality(Past) \in Nat /\ Cardinality(Loaded) \in Nat
      BY <1>4, <2>1
    <2>5. ruAt[RuServer] = 0 /\ ruPc[RuServer] = "serve" /\ ruAt'[RuServer] = 0
      BY <1>2, <2>1, <2>2 DEF RuType
    <2>6. RuType'
      <3>1. trigger_replayed' \in BOOLEAN
        BY <1>2, <2>3 DEF RuType
      <3>2. ruPc'[RuServer] \notin RuEnding
        BY <2>3, <2>4 DEF RuEnding
      <3>3. ruPc'[RuServer] = "replay" => trigger_replayed' /\ ruAt'[RuServer] <= cfgq_n'
        BY <1>2, <2>3, <2>4, <2>5
      <3>4. ruPc'[RuServer] = "upd" => trigger_replayed' /\ inject_upd'
        BY <1>2, <2>3, <2>4
      <3>5. /\ ruLog' \in Seq(RuMessages) /\ cfgq_rec' \in [0..CFGQ_CAP - 1 -> {"self", "empty"}]
            /\ cfgq_n' \in 0..CFGQ_CAP /\ ruAt' \in [RuPosters \cup {RuServer} -> Nat]
            /\ inject_upd' \in BOOLEAN
        BY <1>2, <2>2 DEF RuType
      <3> QED BY <2>4, <2>5, <3>1, <3>2, <3>3, <3>4, <3>5 DEF RuType
    <2>7. Replayed' >= Replayed /\ Replayed \in Nat /\ Replayed' \in Nat
      <3>1. CASE next = "serve"
        BY <1>2, <2>3, <2>4, <2>5, <3>1 DEF Replayed
      <3>2. CASE next # "serve"
        <4>1. Replayed = 0
          BY <2>3, <2>5, <3>2 DEF Replayed
        <4>2. Replayed' \in Nat
          BY <1>2, <2>3, <2>4, <2>5, <3>2 DEF Replayed
        <4> QED BY <4>1, <4>2
      <3> QED BY <3>1, <3>2
    <2>8. ServerLoads' >= ServerLoads /\ ServerLoads \in Nat /\ ServerLoads' \in Nat
      <3>1. CASE next = "serve"
        BY <1>2, <2>3, <2>4, <2>5, <3>1 DEF ServerLoads
      <3>2. CASE next # "serve"
        <4>1. ServerLoads = 1
          BY <2>3, <2>5, <3>2 DEF ServerLoads, RuEnding
        <4>2. ServerLoads' \in {1, 2}
          BY <2>3, <2>4, <3>2 DEF ServerLoads, RuEnding
        <4> QED BY <4>1, <4>2
      <3> QED BY <3>1, <3>2
    <2>9. Puts("self")' = Puts("self") /\ Puts("empty")' = Puts("empty") /\ Puts("upd")' = Puts("upd")
      BY <2>2 DEF Puts
    <2>10. SelfBound'
      BY <1>3, <2>4, <2>7, <2>9 DEF SelfBound
    <2>11. UpdBound'
      BY <1>3, <2>4, <2>8, <2>9 DEF UpdBound
    <2> QED BY <2>6, <2>10, <2>11 DEF RuInv
  <1>6. CASE Replay /\ ruAt[RuServer] < cfgq_n
    <2>1. /\ ruPc[RuServer] = "replay" /\ trigger_replayed' = trigger_replayed /\ UNCHANGED ruPc
          /\ ruLog' = Append(ruLog, cfgq_rec[ruAt[RuServer]])
          /\ ruAt' = [ruAt EXCEPT ![RuServer] = ruAt[RuServer] + 1]
      BY <1>6 DEF Replay, Put
    <2>2. PICK m \in {"self", "empty"} : m = cfgq_rec[ruAt[RuServer]]
      <3>1. ruAt[RuServer] \in 0..CFGQ_CAP - 1
        BY <1>2, <1>6
      <3> QED BY <1>2, <3>1 DEF RuType
    <2>3. m \in RuMessages /\ ruLog' = Append(ruLog, m)
      BY <2>1, <2>2 DEF RuMessages
    <2>4. /\ ruLog' \in Seq(RuMessages)
          /\ Puts("self")' = IF "self" = m THEN Puts("self") + 1 ELSE Puts("self")
          /\ Puts("empty")' = IF "empty" = m THEN Puts("empty") + 1 ELSE Puts("empty")
          /\ Puts("upd")' = IF "upd" = m THEN Puts("upd") + 1 ELSE Puts("upd")
      BY <1>2, <2>3, PutsCount
    <2>5. /\ Puts("upd")' = Puts("upd")
          /\ Puts("self")' + Puts("empty")' = Puts("self") + Puts("empty") + 1
      BY <1>3, <2>2, <2>4
    <2>6. Past' = Past /\ Loaded' = Loaded
      BY <2>1 DEF Past, Loaded
    <2>7. ruAt' \in [RuPosters \cup {RuServer} -> Nat] /\ ruAt'[RuServer] = ruAt[RuServer] + 1
      BY <1>2, <2>1 DEF RuType
    <2>8. RuType'
      BY <1>2, <1>6, <2>1, <2>4, <2>7 DEF RuType
    <2>9. Replayed = ruAt[RuServer] /\ Replayed' = ruAt[RuServer] + 1
      BY <2>1, <2>7 DEF Replayed
    <2>10. ServerLoads' = ServerLoads
      BY <1>2, <2>1 DEF ServerLoads
    <2>11. Cardinality(Past) \in Nat
      BY FS_Subset, FS_CardinalityType DEF Past
    <2>12. SelfBound'
      BY <1>2, <1>3, <2>5, <2>6, <2>9, <2>11 DEF SelfBound
    <2>13. UpdBound'
      BY <1>3, <2>5, <2>6, <2>10 DEF UpdBound
    <2> QED BY <2>8, <2>12, <2>13 DEF RuInv
  <1>7. CASE Replay /\ ~ (ruAt[RuServer] < cfgq_n)
    <2>1. /\ ruPc[RuServer] = "replay" /\ trigger_replayed' = trigger_replayed
          /\ RuGo(RuServer, "serve") /\ UNCHANGED ruLog
          /\ ruAt' = [ruAt EXCEPT ![RuServer] = 0]
      BY <1>7 DEF Replay
    <2>2. /\ ruPc'[RuServer] = "serve" /\ DOMAIN ruPc' = RuAll /\ Past' = Past /\ Loaded' = Loaded
          /\ Cardinality(Past) \in Nat /\ Cardinality(Loaded) \in Nat
      BY <1>4, <2>1
    <2>3. ruAt' \in [RuPosters \cup {RuServer} -> Nat] /\ ruAt'[RuServer] = 0
      BY <1>2, <2>1 DEF RuType
    <2>4. trigger_replayed /\ ruAt[RuServer] <= CFGQ_CAP
      BY <1>2, <2>1 DEF RuType
    <2>5. RuType'
      BY <1>2, <2>1, <2>2, <2>3, <2>4 DEF RuType, RuEnding
    <2>6. Replayed = ruAt[RuServer] /\ Replayed' = CFGQ_CAP
      BY <2>1, <2>2, <2>4 DEF Replayed
    <2>7. ServerLoads' = ServerLoads
      BY <1>2, <2>1, <2>2 DEF ServerLoads, RuEnding
    <2>8. Puts("self")' = Puts("self") /\ Puts("empty")' = Puts("empty") /\ Puts("upd")' = Puts("upd")
      BY <2>1 DEF Puts
    <2>9. SelfBound'
      BY <1>2, <1>3, <2>2, <2>4, <2>6, <2>8 DEF SelfBound
    <2>10. UpdBound'
      BY <1>3, <2>2, <2>7, <2>8 DEF UpdBound
    <2> QED BY <2>5, <2>9, <2>10 DEF RuInv
  <1>8. CASE InjectUpd
    <2>1. /\ ruPc[RuServer] = "upd" /\ trigger_replayed' = trigger_replayed
          /\ RuGo(RuServer, "serve") /\ ruLog' = Append(ruLog, "upd") /\ UNCHANGED ruAt
      BY <1>8 DEF InjectUpd, Put
    <2>2. /\ ruPc'[RuServer] = "serve" /\ DOMAIN ruPc' = RuAll /\ Past' = Past /\ Loaded' = Loaded
          /\ Cardinality(Past) \in Nat /\ Cardinality(Loaded) \in Nat
      BY <1>4, <2>1
    <2>3. /\ ruLog' \in Seq(RuMessages) /\ Puts("upd")' = Puts("upd") + 1
          /\ Puts("empty")' = Puts("empty") /\ Puts("self")' = Puts("self")
      <3>1. "upd" \in RuMessages
        BY DEF RuMessages
      <3> QED BY <1>2, <2>1, <3>1, PutsCount
    <2>4. trigger_replayed /\ inject_upd /\ ruAt[RuServer] = 0
      BY <1>2, <2>1 DEF RuType
    <2>5. RuType'
      BY <1>2, <2>1, <2>2, <2>3, <2>4 DEF RuType, RuEnding
    <2>6. Replayed' = Replayed
      BY <2>1, <2>2 DEF Replayed
    <2>7. ServerLoads = 1 /\ ServerLoads' = 2
      BY <1>2, <2>1, <2>2, <2>4 DEF ServerLoads, RuEnding
    <2>8. SelfBound'
      BY <1>3, <2>2, <2>3, <2>6 DEF SelfBound
    <2>9. UpdBound'
      BY <1>3, <2>2, <2>3, <2>7 DEF UpdBound
    <2> QED BY <2>5, <2>8, <2>9 DEF RuInv
  <1> QED BY <1>5, <1>6, <1>7, <1>8

LEMMA ClientKeeps ==
    ASSUME RuInv, NEW t \in RuClients, RuConnect(t)
    PROVE  RuInv'
  <1> USE RunupAssumption
  <1>1. /\ t \in RuAll /\ t # RuServer /\ t \notin RuPosters /\ t \notin RuAskers
        /\ RuServer \in RuAll
    BY DEF RuAll, RuThreads
  <1>2. /\ RuType /\ RuGo(t, "done") /\ ruLog' = Append(ruLog, "connect")
        /\ UNCHANGED <<trigger_replayed, inject_upd, ruAt, cfgq_n, cfgq_rec>>
    BY DEF RuInv, RuConnect, Put, ruGates
  <1>3. /\ ruPc'[RuServer] = ruPc[RuServer] /\ DOMAIN ruPc' = RuAll
        /\ Past' = Past /\ Loaded' = Loaded
    BY <1>1, <1>2, AfterGo
  <1>4. "connect" \in RuMessages /\ ruLog \in Seq(RuMessages)
    BY <1>2 DEF RuMessages, RuType
  <1>5. /\ ruLog' \in Seq(RuMessages) /\ Puts("upd")' = Puts("upd")
        /\ Puts("empty")' = Puts("empty") /\ Puts("self")' = Puts("self")
    BY <1>2, <1>4, PutsCount
  <1>6. RuType'
    BY <1>2, <1>3, <1>5 DEF RuType
  <1>7. Replayed' = Replayed /\ ServerLoads' = ServerLoads
    BY <1>2, <1>3 DEF Replayed, ServerLoads
  <1> QED BY <1>3, <1>5, <1>6, <1>7 DEF RuInv, SelfBound, UpdBound

LEMMA RunupStep ==
    ASSUME RuInv, [RuNext]_ruVars
    PROVE  RuInv'
  <1>1. CASE HwsAlive \/ UNCHANGED ruVars
    <2>1. UNCHANGED <<trigger_replayed, inject_upd, ruAt, cfgq_n, cfgq_rec, ruPc, ruLog>>
      BY <1>1 DEF HwsAlive, ruVars, ruGates
    <2> QED BY <2>1 DEF RuInv, RuType, SelfBound, UpdBound, Puts, Past, Loaded, Replayed,
                        ServerLoads
  <1>2. CASE RuServe
    BY <1>2, EndingKeeps, ServingKeeps DEF RuServe
  <1>3. ASSUME NEW t \in RuThreads, RuStep(t) PROVE RuInv'
    <2>1. CASE RuPost(t) \/ Reserve(t) \/ Fill(t)
      BY <2>1, PosterKeeps DEF RuPost, Reserve, Fill
    <2>2. CASE t \in RuAskers /\ (HwsAutoreply(t) \/ Mark(t) \/ PostReread(t)
                                   \/ ClaimReread(t) \/ PostLoad(t))
      BY <2>2, AskerKeeps
    <2>3. HwsAutoreply(t) => t \in RuAskers
      BY DEF HwsAutoreply
    <2> QED BY <1>3, <2>1, <2>2, <2>3 DEF RuStep
  <1>4. ASSUME NEW t \in RuClients, RuConnect(t) PROVE RuInv'
    BY <1>4, ClientKeeps
  <1> QED BY <1>1, <1>2, <1>3, <1>4 DEF RuNext

LEMMA RunupSound == RuInv => ReplaysOnce
  <1> SUFFICES ASSUME RuInv PROVE ReplaysOnce
    OBVIOUS
  <1>1. /\ RuType /\ SelfBound /\ UpdBound /\ CFGQ_CAP \in Nat
        /\ Puts("self") \in Nat /\ Puts("empty") \in Nat /\ Puts("upd") \in Nat
    BY RunupAssumption, PutsCount DEF RuInv, RuType
  <1>2. /\ Cardinality(Past) <= Cardinality(RuPosters) /\ Cardinality(Past) \in Nat
        /\ Cardinality(RuPosters) \in Nat
        /\ Cardinality(Loaded) <= Cardinality(RuAskers) /\ Cardinality(Loaded) \in Nat
        /\ Cardinality(RuAskers) \in Nat
    BY RunupAssumption, FS_Subset, FS_CardinalityType DEF Past, Loaded
  <1>3. Replayed \in Nat /\ Replayed <= CFGQ_CAP
    <2>1. ruAt[RuServer] \in Nat
      BY <1>1 DEF RuType
    <2> QED BY <1>1, <2>1 DEF Replayed, RuType
  <1>4. ServerLoads \in Nat /\ ServerLoads <= IF inject_upd THEN 2 ELSE 1
    BY <1>1 DEF ServerLoads, RuType
  <1>5. Puts("self") + Puts("empty") <= Cardinality(RuPosters) + CFGQ_CAP
    BY <1>1, <1>2, <1>3 DEF SelfBound
  <1>6. Puts("upd") <= Cardinality(RuAskers) + (IF inject_upd THEN 2 ELSE 1)
    BY <1>1, <1>2, <1>4 DEF UpdBound
  <1> QED BY <1>5, <1>6 DEF ReplaysOnce

-----------------------------------------------------------------------------
(* All of them                                                             *)

mcVars == <<part, flVars, wmVars, ruVars, fdVars, xwVars>>

LEMMA PartsStep ==
    [MCNext]_mcVars
      => [FlNext]_flVars /\ [WmNext]_wmVars /\ [RuNext]_ruVars /\ [FdNext]_fdVars
  <1>1. UNCHANGED mcVars => UNCHANGED flVars /\ UNCHANGED wmVars /\ UNCHANGED ruVars /\ UNCHANGED fdVars
    BY DEF mcVars
  <1> QED BY <1>1, Zenon DEF MCNext, FlowPart, WmgrPart, RunupPart, DevicePart, WindowPart

(* However many devices a program opens and closes: as long as no more has *)
(* been opened than can be noted, a call on a device is answered by the    *)
(* shim and a call on anything else by the kernel.                         *)
THEOREM DevicesHold == MCSpec => []DevicesAnswered
  <1>1. MCInit => FdInv
    BY FdInvInit DEF MCInit
  <1>2. FdInv /\ [MCNext]_mcVars => FdInv'
    BY FdInvStep, PartsStep
  <1>3. FdInv => DevicesAnswered
    BY DEF FdInv
  <1> QED BY <1>1, <1>2, <1>3, PTL DEF MCSpec, mcVars

(* However many threads send, post and read: the numbers that reach the    *)
(* client have no gap.                                                     *)
THEOREM SerialsHold == NoTicksWithStub => (MCSpec => []WmSerialsContiguous)
  <1> SUFFICES ASSUME NoTicksWithStub PROVE MCSpec => []WmSerialsContiguous
    OBVIOUS
  <1>1. MCInit => SerialInv
    BY SerialInit DEF MCInit
  <1>2. SerialInv /\ [MCNext]_mcVars => SerialInv'
    BY SerialStep, PartsStep
  <1> QED BY <1>1, <1>2, SerialsSound, PTL DEF MCSpec, mcVars

(* With one thread that sends, the numbers have no gap and the array is    *)
(* what the client has armed, whatever the threads that read and post do.  *)
THEOREM WmHolds == OneSender /\ NoTicksWithStub => (MCSpec => []WmAgrees)
  <1> SUFFICES ASSUME OneSender, NoTicksWithStub PROVE MCSpec => []WmAgrees
    OBVIOUS
  <1>1. MCInit => TimerInv /\ SerialInv
    BY TimerInit, SerialInit DEF MCInit
  <1>2. TimerInv /\ SerialInv /\ [MCNext]_mcVars => TimerInv' /\ SerialInv'
    BY TimerStep, SerialStep, PartsStep
  <1>3. TimerInv /\ SerialInv => WmAgrees
    BY TimersSound, SerialsSound DEF WmAgrees
  <1> QED BY <1>1, <1>2, <1>3, PTL DEF MCSpec, mcVars

(* However many processes and threads there are: one of them posts a flow, *)
(* whole and in order, and what ConfigServer sent itself is replayed once  *)
(* at the most.                                                            *)
THEOREM PostsHold == MCSpec => []PostedOnce
  <1>1. MCInit => SkInv /\ WaInv /\ RuInv
    BY SkInit, WaInit, RuInit0 DEF MCInit
  <1>2. SkInv /\ WaInv /\ RuInv /\ [MCNext]_mcVars => SkInv' /\ WaInv' /\ RuInv'
    BY SkStep, WaStepKeeps, RunupStep, PartsStep
  <1>3. SkInv /\ WaInv /\ RuInv => PostedOnce
    BY FlowsSound, RunupSound DEF PostedOnce
  <1> QED BY <1>1, <1>2, <1>3, PTL DEF MCSpec, mcVars
=============================================================================
