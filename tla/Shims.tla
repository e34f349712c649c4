-------------------------------- MODULE Shims --------------------------------
(* The preloaded shims that change what the guest's code, its files and its *)
(* heap do: patches in place, repaired reads and moves, guarded frees; and  *)
(* the programs they start from each other.                                *)
EXTENDS Naturals, Sequences, FiniteSets

------------------------------------------------------------------------------
(* The preload libraries that patch the control's code in memory:          *)
(* cfgfix.c, hwforce.c, skforce.c and skconnforce.c.  Each looks for the   *)
(* program or library in /proc/self/maps, makes the pages of the patched   *)
(* instruction writable, compares the bytes it finds with those it knows,  *)
(* writes the new ones and makes the pages read-only again.  cfgfix        *)
(* compares first, and tries again from IsSysFile() until its library is   *)
(* mapped; the others try once, in their constructors.                     *)

CONSTANTS
    Patchers,       \* the libraries that are preloaded
    sitesOf,        \* sitesOf[x]: the places x patches, in a sequence
    retries,        \* the patchers that try again
    comparesFirst,  \* the patchers that compare before they unprotect
    givesUp,        \* the patchers that leave the rest when their first place is wrong
    span            \* span[s]: the pages whose protection is changed for place s

Sites   == DOMAIN span

ASSUME PatchAssumption == \A x \in Patchers : sitesOf[x] \in Seq(Sites) /\ sitesOf[x] # <<>>

PtPages == UNION {span[s] : s \in Sites}

VARIABLES
    image,      \* image[x]: is what x patches mapped ?
    ptAt,       \* the place x works at, 0 before it found its base
    ptStep,     \* where x is: "out", "compare", "write", "protect", "done"
    code,       \* code[s]: the "old" instruction, the "new" one, or an "other"
    writable,   \* the pages that are writable
    failing,    \* the pages whose mprotect() fails
    known       \* history: the places where the known bytes were found at first

ptVars == <<image, ptAt, ptStep, code, writable, failing, known>>

PtInit ==
    /\ image \in [Patchers -> BOOLEAN]
    /\ ptAt = [x \in Patchers |-> 0] /\ ptStep = [x \in Patchers |-> "out"]
    /\ code \in [Sites -> {"old", "other"}]
    /\ writable = {}
    /\ failing \in {{}} \cup {{p} : p \in PtPages}
    /\ known = {s \in Sites : code[s] = "old"}

\* The guest maps the library later on.
PtMap(x) ==
    /\ ~ image[x] /\ x \in retries
    /\ image' = [image EXCEPT ![x] = TRUE]
    /\ UNCHANGED <<ptAt, ptStep, code, writable, failing, known>>

Site(x) == sitesOf[x][ptAt[x]]

\* x goes on with its next place, if there is one.
PtNextSite(x, patched) ==
    IF ptAt[x] < Len(sitesOf[x]) /\ (patched \/ ptAt[x] > 1 \/ x \notin givesUp)
    THEN ptAt' = [ptAt EXCEPT ![x] = @ + 1] /\ ptStep' = [ptStep EXCEPT ![x] = "begin"]
    ELSE ptStep' = [ptStep EXCEPT ![x] = "done"] /\ UNCHANGED ptAt

\* The lowest mapping is the base.  Without one, only cfgfix comes back.
FindBase(x) ==
    /\ ptStep[x] = "out"
    /\ IF image[x]
       THEN ptAt' = [ptAt EXCEPT ![x] = 1] /\ ptStep' = [ptStep EXCEPT ![x] = "begin"]
       ELSE /\ x \notin retries
            /\ ptStep' = [ptStep EXCEPT ![x] = "done"] /\ UNCHANGED ptAt
    /\ UNCHANGED <<image, code, writable, failing, known>>

\* mprotect(), unless x compares first and the bytes are not the known ones.
Unprotect(x) ==
    /\ ptStep[x] = "begin"
    /\ IF (x \in comparesFirst /\ code[Site(x)] # "old") \/ span[Site(x)] \cap failing # {}
       THEN PtNextSite(x, FALSE) /\ UNCHANGED writable
       ELSE /\ writable' = writable \cup span[Site(x)]
            /\ ptStep' = [ptStep EXCEPT ![x] = "compare"] /\ UNCHANGED ptAt
    /\ UNCHANGED <<image, code, failing, known>>

\* Mutant of Compare: unknown bytes are written over.
CompareNot(x) ==
    /\ ptStep[x] = "compare"
    /\ code' = [code EXCEPT ![Site(x)] = "new"]
    /\ ptStep' = [ptStep EXCEPT ![x] = "protect"]
    /\ UNCHANGED <<image, ptAt, writable, failing, known>>

Compare(x) ==
    /\ ptStep[x] = "compare"
    /\ code' = [code EXCEPT ![Site(x)] = IF @ = "old" THEN "new" ELSE @]
    /\ ptStep' = [ptStep EXCEPT ![x] = "protect"]
    /\ UNCHANGED <<image, ptAt, writable, failing, known>>

Protect(x) ==
    /\ ptStep[x] = "protect"
    /\ writable' = writable \ span[Site(x)]
    /\ PtNextSite(x, code[Site(x)] = "new")
    /\ UNCHANGED <<image, code, failing, known>>

\* A constructor runs alone; the patchers of one process run one after the other.
PtAlone(x) == \A y \in Patchers \ {x} : ptStep[y] \in {"out", "done"}

PtStep(x) == PtAlone(x) /\ (FindBase(x) \/ Unprotect(x) \/ Compare(x) \/ Protect(x))

PtNext == \E x \in Patchers : PtMap(x) \/ PtStep(x)

PtSpec == PtInit /\ [][PtNext]_ptVars

(* "verifies the exact bytes first; no-op if they don't match": bytes that  *)
(* are not the known ones are never written over, the known ones are once   *)
(* the patcher has come to them unless their page could not be made         *)
(* writable, and no page is left writable, whichever patchers share it.     *)
PatchedExactly ==
    /\ \A s \in Sites : code[s] = "new" => s \in known
    /\ \A x \in Patchers : ptStep[x] = "done" /\ ptAt[x] # 0 =>
         \A i \in 1..ptAt[x] :
             LET s == sitesOf[x][i]
             IN  s \in known /\ span[s] \cap failing = {} => code[s] = "new"
    /\ writable \subseteq UNION {span[Site(x)] : x \in {y \in Patchers :
                                      ptStep[y] \in {"compare", "protect"}}}

------------------------------------------------------------------------------
(* The preload libraries under the guest's file calls: readfix.c, which    *)
(* repeats a read() that a signal or a transient disk error has cut short, *)
(* and renamefix.c, which turns a rename() across file systems into a copy *)
(* and an unlink().                                                        *)
(*                                                                         *)
(* A file is a number of blocks.  The one read() that is followed is that  *)
(* of the copy, which goes through readfix.c where both are preloaded.     *)

CONSTANTS
    EIO_MAX,        \* how often an EIO is tried again
    Blocks,         \* the blocks of the file that is renamed
    MaxEintr,       \* bound: the signals that arrive during the run
    MaxEio          \* bound: the transient errors in a row; then it is permanent

ASSUME FileAssumption == EIO_MAX \in Nat /\ MaxEio \in Nat

VARIABLES
    repaired,   \* is readfix.c preloaded ?
    reader,     \* where the read is: "none", "try", "data", "EINTR", "EIO"
    eio,        \* how often this read was tried again because of EIO
    eintr,      \* the signals that have arrived
    ill,        \* the transient errors the disk has still to give
    dead,       \* does the disk fail for good ?
    mover,      \* where rename() is
    copied,     \* the blocks written to the target
    readFailed, \* history: has a read() of the copy failed ?
    from, to    \* do the source and the target have the file: the source "whole"
                \*   or "gone"; the target "old", "part" or "whole"

gfVars == <<repaired, reader, eio, eintr, ill, dead, mover, copied, readFailed, from, to>>

GfInit ==
    /\ repaired \in BOOLEAN
    /\ reader = "none" /\ eio = 0 /\ eintr = 0
    /\ ill \in 0..MaxEio /\ dead \in BOOLEAN
    /\ mover = "start" /\ copied = 0 /\ readFailed = FALSE /\ from = "whole" /\ to = "old"

moveVars == <<mover, copied, readFailed, from, to>>

-----------------------------------------------------------------------------
(* read(): what the system call returns decides whether it is made again   *)

\* Mutant of Retried: EINTR is not tried again.
RetriedNot(e) == repaired /\ e = "EIO" /\ eio < EIO_MAX

Retried(e) == repaired /\ (e = "EINTR" \/ (e = "EIO" /\ eio < EIO_MAX))

Fails(e) ==
    IF Retried(e)
    THEN /\ eio' = IF e = "EIO" THEN eio + 1 ELSE eio
         /\ reader' = "try"
    ELSE reader' = e /\ UNCHANGED eio

ReadInterrupted ==
    /\ reader = "try" /\ eintr < MaxEintr /\ eintr' = eintr + 1
    /\ Fails("EINTR")
    /\ UNCHANGED <<repaired, ill, dead, moveVars>>

ReadFails ==
    /\ reader = "try" /\ (ill > 0 \/ dead)
    /\ ill' = IF ill > 0 THEN ill - 1 ELSE ill
    /\ Fails("EIO")
    /\ UNCHANGED <<repaired, eintr, dead, moveVars>>

ReadData ==
    /\ reader = "try" /\ ill = 0 /\ ~ dead
    /\ reader' = "data"
    /\ UNCHANGED <<repaired, eio, eintr, ill, dead, moveVars>>

-----------------------------------------------------------------------------
(* rename()                                                                *)

\* rename(2) itself answers EXDEV; the source is opened and the target, with
\* O_TRUNC, or one of the calls fails.
Rename ==
    /\ mover = "start"
    /\ \/ mover' = "failed" /\ UNCHANGED to
       \/ mover' = "copy" /\ to' = "part"
    /\ UNCHANGED <<repaired, reader, eio, eintr, ill, dead, copied, readFailed, from>>

CopyRead ==
    /\ mover = "copy" /\ reader = "none" /\ copied < Blocks
    /\ reader' = "try" /\ eio' = 0
    /\ UNCHANGED <<repaired, eintr, ill, dead, moveVars>>

\* A block is written, or the write fails and the copy is given up.
CopyWrite ==
    /\ mover = "copy" /\ reader = "data" /\ reader' = "none"
    /\ \/ copied' = copied + 1 /\ UNCHANGED mover
       \/ mover' = "failed" /\ UNCHANGED copied
    /\ UNCHANGED <<repaired, eio, eintr, ill, dead, readFailed, from, to>>

\* Mutant of CopyEnd: the source is removed also if the copy was given up.
CopyEndAlways ==
    /\ mover \in {"copy", "failed"} /\ from = "whole"
    /\ mover = "failed" \/ (reader = "none" /\ copied = Blocks) \/ reader \in {"EINTR", "EIO"}
    /\ mover' = "done" /\ from' = "gone" /\ reader' = "none"
    /\ to' = IF copied = Blocks THEN "whole" ELSE to
    /\ readFailed' = (readFailed \/ reader \in {"EINTR", "EIO"})
    /\ UNCHANGED <<repaired, eio, eintr, ill, dead, copied>>

\* A read() that returns 0, or less, ends the copy; the source is removed.
CopyEnd ==
    /\ mover = "copy"
    /\ (reader = "none" /\ copied = Blocks) \/ reader \in {"EINTR", "EIO"}
    /\ mover' = "done" /\ from' = "gone" /\ reader' = "none"
    /\ to' = IF copied = Blocks THEN "whole" ELSE to
    /\ readFailed' = (readFailed \/ reader \in {"EINTR", "EIO"})
    /\ UNCHANGED <<repaired, eio, eintr, ill, dead, copied>>

GfNext ==
    \/ ReadInterrupted \/ ReadFails \/ ReadData
    \/ Rename \/ CopyRead \/ CopyWrite \/ CopyEnd

GfSpec == GfInit /\ [][GfNext]_gfVars

(* No signal reaches the guest's read(), and a disk error only one that     *)
(* lasts: "Bounded so a genuine permanent EIO still surfaces".              *)
ErrorsSurface ==
    repaired => /\ reader # "EINTR"
                /\ reader = "EIO" => dead \/ MaxEio > EIO_MAX

(* The file is not lost by the rename, at any moment, a crash included: the *)
(* source is there or the target is whole, whichever open() or write()      *)
(* fails.  A read() that fails is taken for the end of the file instead.    *)
NoFileLost ==
    from = "whole" \/ to = "whole" \/ readFailed

FilesSurvive == ErrorsSurface /\ NoFileLost

(* "make cross-device rename() succeed (copy+unlink)": a rename() that      *)
(* succeeds leaves the whole file at its target.                            *)
RenameWhole == mover = "done" => to = "whole"

------------------------------------------------------------------------------
(* The preload libraries in front of free() and operator delete:           *)
(* guardfree.c lets only pointers to chunks of the heap through,           *)
(* fkeepvec.c withholds the block that the destructor of FThread deletes   *)
(* too early from being used again, fredfree.c every block, and both act   *)
(* only in Fred.  fmdel.c only writes a line for some of the pointers.     *)

CONSTANTS
    FfBlocks,       \* the chunks of the heap
    regionOf,       \* regionOf[b]: the mapping that b is in
    FfRegions,      \* the mappings of the process, the first there from the start
    FfStart         \* those that are there when the library is loaded

ASSUME ChunkAssumption == 0 \notin FfBlocks

VARIABLES
    filter,     \* the library: "none", "guard", "keep", "fred"
    inFred,     \* is the process Fred ?
    regions,    \* the writable mappings
    reg,        \* the mappings guardfree has read
    block,      \* block[b]: "new", "live", "freed", or "kept" from being used again
    vector,     \* the block of FThread's vector, 0 before, and
    intact,     \*   does it hold what FThread left there ?
    aborted     \* has glibc been given a pointer that is no chunk ?

ffVars == <<filter, inFred, regions, reg, block, vector, intact, aborted>>

FfInit ==
    /\ filter \in {"none", "guard", "keep", "fred"} /\ inFred \in BOOLEAN
    /\ regions = FfStart /\ reg = FfStart
    /\ block = [b \in FfBlocks |-> "new"]
    /\ vector = 0 /\ intact = TRUE /\ aborted = FALSE

\* The heap grows by a mapping.
Grow ==
    /\ \E r \in FfRegions \ regions : regions' = regions \cup {r}
    /\ UNCHANGED <<filter, inFred, reg, block, vector, intact, aborted>>

\* malloc() hands a block out, a freed one if it likes; FThread's vector is one.
Malloc ==
    /\ \E b \in FfBlocks :
         /\ regionOf[b] \in regions /\ block[b] \in {"new", "freed"}
         /\ block' = [block EXCEPT ![b] = "live"]
         /\ \/ vector = 0 /\ vector' = b /\ UNCHANGED intact
            \/ intact' = (intact /\ vector # b) /\ UNCHANGED vector
    /\ UNCHANGED <<filter, inFred, regions, reg, aborted>>

\* Mutant of Refreshed: the mappings are not read again.
RefreshedNever(r) == reg

\* A pointer that is in no mapping known is looked up in the mappings read anew.
Refreshed(r) == IF r \in reg THEN reg ELSE regions

\* Mutant of Withheld: fkeepvec withholds nothing.
WithheldNot(b) == inFred /\ filter = "fred"

\* Is b not passed on: every block, or that of the destructor's call site ?
Withheld(b) == inFred /\ (filter = "fred" \/ (filter = "keep" /\ b = vector))

Delete(b) ==
    /\ block[b] = "live"
    /\ reg' = IF filter = "guard" THEN Refreshed(regionOf[b]) ELSE reg
    /\ block' = [block EXCEPT ![b] =
                   IF Withheld(b) \/ (filter = "guard" /\ regionOf[b] \notin reg')
                   THEN "kept" ELSE "freed"]
    /\ UNCHANGED <<filter, inFred, regions, vector, intact, aborted>>

\* ConfigServer frees what is no chunk: guardfree sees it is misaligned, in no
\* mapping, or has no sensible size in front of it; in Fred fredfree frees nothing.
DeleteRogue ==
    /\ aborted' = (aborted \/ ~ (filter = "guard" \/ (filter = "fred" /\ inFred)))
    /\ UNCHANGED <<filter, inFred, regions, reg, block, vector, intact>>

FfNext == Grow \/ Malloc \/ (\E b \in FfBlocks : Delete(b)) \/ DeleteRogue

FfSpec == FfInit /\ [][FfNext]_ffVars

(* With fkeepvec.c, Fred's vector still holds what FThread left there when  *)
(* it is read after its deletion: the block is not handed out again.        *)
VectorIntact == filter \in {"keep", "fred"} /\ inFred => intact

(* guardfree.c passes every chunk on, those of mappings that came after its *)
(* start too: "Valid frees go through untouched".                           *)
ChunksFreed == filter = "guard" => \A b \in FfBlocks : block[b] # "kept"

FreesFiltered == VectorIntact /\ ChunksFreed

------------------------------------------------------------------------------
(* p_create() of herosapi_shim.c: a program of the control starts another  *)
(* one with fork() and an exec of the interpreter, from a translated image *)
(* path in a static buffer; the child keeps the environment but for the    *)
(* variables that make its parent inject, and gets its own process name.   *)
(* With HEROS_FAKE_NS and HEROS_FAKE_CHMOD the calls that would change the *)
(* machine's mounts and file modes do nothing.                             *)

CONSTANTS
    SpEnabled,      \* HEROS_PCREATE_FEX
    SpImages,       \* the images asked for
    SpMoved,        \* those whose path starts with HEROS_PCREATE_IMGFROM
    SpFirst,        \* the first arguments: process names, options, "" and NoArg
    SpOptions,      \* those of them that start with a dash
    NoArg,
    SpMore,         \* the numbers of further arguments
    MaxArgs,        \* 298: the length argv is filled to
    FakeNs, FakeChmod,
    MaxProcs,       \* bound: processes
    MaxSysCalls     \* bound: changes of the machine tried

ASSUME SpawnAssumption == MaxArgs \in Nat /\ MaxArgs > 2 /\ SpMore \subseteq Nat

VARIABLES
    spawned,        \* the processes: a sequence of [injects, name, argv, asked]
    spPc,           \* spPc[i]: where process i is in p_create(), with its arguments
    imgbuf,         \* imgbuf[i]: the static buffer of process i
    spPid,          \* spPid[i]: what p_create() returned last, 0 for -1
    machine         \* changes: tried and done

spVars == <<spawned, spPc, imgbuf, spPid, machine>>

Free == [at |-> "free"]
Root == [injects |-> TRUE, name |-> "root", argv |-> <<>>, asked |-> Free, runs |-> TRUE]

SpInit ==
    /\ spawned = <<Root>> /\ spPc = <<Free>> /\ imgbuf = <<NoArg>> /\ spPid = <<0>>
    /\ machine = [tried |-> 0, mounts |-> 0, modes |-> 0]

Image(i) == IF spPc[i].image \in SpMoved THEN imgbuf[i] ELSE <<"asked", spPc[i].image>>

Least(x, y) == IF x < y THEN x ELSE y

\* The interpreter, the image, the name and the arguments there is room for.
Argv(i) ==
    <<"fex", Image(i)>> \o (IF spPc[i].first = NoArg THEN <<>> ELSE <<spPc[i].first>>)
      \o [k \in 1 .. Least(spPc[i].more, MaxArgs - 2 - (IF spPc[i].first = NoArg THEN 0 ELSE 1))
            |-> k]

SpCall(i, img, first, more) ==
    /\ spPc[i] = Free /\ spawned[i].runs /\ Len(spawned) < MaxProcs
    /\ IF ~ SpEnabled
       THEN spPid' = [spPid EXCEPT ![i] = 0] /\ UNCHANGED <<spPc, imgbuf>>
       ELSE /\ spPc' = [spPc EXCEPT ![i] =
                          [at |-> "fork", image |-> img, first |-> first, more |-> more]]
            /\ imgbuf' = IF img \in SpMoved THEN [imgbuf EXCEPT ![i] = <<"moved", img>>]
                         ELSE imgbuf
            /\ UNCHANGED spPid
    /\ UNCHANGED <<spawned, machine>>

\* Mutant of ChildName: a nameless child keeps what it inherits.
ChildNameKept(i) ==
    IF spPc[i].first \notin SpOptions \cup {NoArg, ""} THEN spPc[i].first ELSE spawned[i].name

ChildName(i) ==
    IF spPc[i].first \notin SpOptions \cup {NoArg, ""} THEN spPc[i].first ELSE NoArg

\* fork(): in the child, the variables and the exec, which may fail.
SpFork(i, runs) ==
    /\ spPc[i].at = "fork" /\ Len(spawned) < MaxProcs
    /\ spawned' = Append(spawned, [injects |-> FALSE, name |-> ChildName(i), argv |-> Argv(i),
                                   asked |-> spPc[i], runs |-> runs])
    /\ spPc' = Append([spPc EXCEPT ![i] = Free], Free)
    /\ imgbuf' = Append(imgbuf, imgbuf[i])
    /\ spPid' = Append([spPid EXCEPT ![i] = Len(spawned) + 1], 0)
    /\ UNCHANGED machine

SpNoFork(i) ==
    /\ spPc[i].at = "fork"
    /\ spPc' = [spPc EXCEPT ![i] = Free] /\ spPid' = [spPid EXCEPT ![i] = 0]
    /\ UNCHANGED <<spawned, imgbuf, machine>>

\* unshare(), mount(), umount2(); chmod(), fchmodat().
Mount ==
    /\ machine.tried < MaxSysCalls
    /\ machine' = [machine EXCEPT !.tried = @ + 1, !.mounts = @ + (IF FakeNs THEN 0 ELSE 1)]
    /\ UNCHANGED <<spawned, spPc, imgbuf, spPid>>
Chmod ==
    /\ machine.tried < MaxSysCalls
    /\ machine' = [machine EXCEPT !.tried = @ + 1,
                                  !.modes = @ + (IF FakeChmod \/ FakeNs THEN 0 ELSE 1)]
    /\ UNCHANGED <<spawned, spPc, imgbuf, spPid>>

SpNext ==
    \/ Mount \/ Chmod
    \/ \E i \in DOMAIN spawned :
          \/ \E img \in SpImages, first \in SpFirst, more \in SpMore : SpCall(i, img, first, more)
          \/ \E runs \in BOOLEAN : SpFork(i, runs)
          \/ SpNoFork(i)

(* However deep the programs start each other, one of them injects; each   *)
(* has its own process name or none, never its parent's, runs the image it *)
(* was asked for with the arguments in their order, as many as fit, and a  *)
(* failed call gives no process id.  Faked mounts leave the machine alone. *)
ChildrenOwn ==
    /\ \A i \in DOMAIN spawned : spawned[i].injects => i = 1
    /\ \A i \in DOMAIN spawned \ {1} :
         LET s == spawned[i] IN
         /\ s.name \in {s.asked.first, NoArg} /\ (s.name # NoArg => s.name \notin SpOptions)
         /\ s.argv[2][2] = s.asked.image
         /\ (s.asked.first # NoArg => s.argv[3] = s.asked.first)
         /\ Len(s.argv) <= MaxArgs
    /\ \A i \in DOMAIN spawned : spPid[i] # 0 => spPid[i] \in DOMAIN spawned /\ spPid[i] > i
    /\ (FakeNs => machine.mounts = 0 /\ machine.modes = 0)
==============================================================================
