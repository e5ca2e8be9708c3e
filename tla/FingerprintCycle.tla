-------------------------- MODULE FingerprintCycle --------------------------
(***************************************************************************)
(* The fingerprint files of the zccache-fingerprint crate: HashCache and   *)
(* TwoLayerCache.  A cycle is check, the operation it guards, and mark;    *)
(* the cycles of several processes share a cache file, its .pending        *)
(* sibling and a lock file.                                                *)
(*                                                                         *)
(* The clock counts the edits: an edit takes the next tick as its mtime, a *)
(* rename keeps the mtime, and a file written at a tick is newer than the  *)
(* edit of that tick.  A hash is the content it was made of, the aggregate *)
(* hash the contents of all names.  The timestamp of a snapshot is the     *)
(* cycle that took it: it serves only to tell two snapshots apart.  A file *)
(* is written and read in one step.                                        *)
(***************************************************************************)
EXTENDS Naturals, FiniteSets, FiniteSetsExt

CONSTANTS
    FcName, FcContent, FcCycle,
    FcLoads,    \* what a behaviour is about: see FcLoadType
    FcNone

\* kind: which of the two caches; cycles: the processes or threads, each with a
\* value of its own; names: the inputs there can be; edits, calls, timeouts:
\* bounds; cli: check and mark are processes of their own; skipMarks: callers
\* mark although they were told to skip.
FcLoadType == [kind : {"hash", "two_layer"}, cycles : SUBSET FcCycle, names : SUBSET FcName,
               edits : Nat, calls : Nat, timeouts : Nat, cli : BOOLEAN, skipMarks : BOOLEAN]

\* HashCacheData and TwoLayerData.
FcStatus == {"pending", "success", "failure"}
FcEntries == UNION {[names -> [mtime : Nat, hash : FcContent]] : names \in SUBSET FcName}
FcData == [status : FcStatus, by : FcCycle, files : FcEntries, max : Nat]

ASSUME FcAssumption ==
    /\ IsFiniteSet(FcName) /\ FcContent # {}
    /\ FcLoads \subseteq FcLoadType
    /\ FcNone \notin FcContent \cup FcCycle \cup FcData

VARIABLES
    fcLoad,     \* which cache, whose cycles; constant
    fcDisk,     \* the inputs: [mtime, content] per name, mtime 0 if absent
    fcNow,      \* the tick of the last edit
    fcFiles,    \* cache, pending and their .tmp siblings: [data, time] or FcNone
    fcLock,     \* the exclusive holder, and the timeouts so far
    fcCheck,    \* the cycles; window, a ghost: the contents seen while checking
    fcCalls,    \* checks and invalidations so far
    fcCovered,  \* ghost: the windows of the cycles whose operation succeeded
    fcMoved     \* ghost: an input was renamed

fcVars == <<fcLoad, fcDisk, fcNow, fcFiles, fcLock, fcCheck, fcCalls,
            fcCovered, fcMoved>>

FcAbsent == [mtime |-> 0, content |-> FcNone]
FcPath == {"cache", "cache_tmp", "pending", "pending_tmp"}

FcIdle == [pc |-> "idle", scan |-> {}, max |-> 0, base |-> FcNone, stat |-> <<>>,
           files |-> <<>>, run |-> FALSE, staged |-> FcNone, ours |-> FALSE,
           window |-> [f \in FcName |-> {}]]

FcInit ==
    /\ fcLoad \in FcLoads
    /\ fcNow = 1
    /\ fcDisk = [f \in FcName |-> IF f \in fcLoad.names
                                  THEN [mtime |-> 1, content |-> CHOOSE x \in FcContent : TRUE]
                                  ELSE FcAbsent]
    /\ fcFiles = [p \in FcPath |-> FcNone]
    /\ fcLock = [holder |-> FcNone, timeouts |-> 0]
    /\ fcCheck = [c \in FcCycle |-> FcIdle]
    /\ fcCalls = 0
    /\ fcCovered = {} /\ fcMoved = FALSE

-----------------------------------------------------------------------------
(* The inputs *)

\* What the checks under way may see from now on.
FcChecking(c) == fcCheck[c].pc \in {"fast", "fast_read", "read", "files", "decide"}

FcSeen(disk) ==
    fcCheck' = [c \in FcCycle |->
        IF ~FcChecking(c) THEN fcCheck[c]
        ELSE [fcCheck[c] EXCEPT !.window = [f \in FcName |-> @[f] \cup {disk[f].content}]]]

FcKeepCycles == UNCHANGED <<fcLoad, fcFiles, fcLock, fcCalls, fcCovered>>

\* An input is written, touched or removed (x = FcNone).
FcEdit(f, x) ==
    /\ fcNow <= fcLoad.edits /\ f \in fcLoad.names
    /\ x = FcNone => fcDisk[f] # FcAbsent
    /\ fcNow' = fcNow + 1
    /\ fcDisk' = [fcDisk EXCEPT ![f] = IF x = FcNone THEN FcAbsent
                                       ELSE [mtime |-> fcNow + 1, content |-> x]]
    /\ FcSeen(fcDisk')
    /\ FcKeepCycles /\ UNCHANGED fcMoved

\* An input is renamed, with its mtime.
FcRename(f, g) ==
    /\ fcNow <= fcLoad.edits /\ {f, g} \subseteq fcLoad.names
    /\ fcDisk[f] # FcAbsent /\ fcDisk[g] = FcAbsent
    /\ fcNow' = fcNow + 1
    /\ fcDisk' = [fcDisk EXCEPT ![f] = FcAbsent, ![g] = fcDisk[f]]
    /\ fcMoved' = TRUE
    /\ FcSeen(fcDisk')
    /\ FcKeepCycles

-----------------------------------------------------------------------------
(* The lock file *)

\* with_shared_lock and with_exclusive_lock go ahead without the lock after
\* 30 seconds.  What is read under the shared lock is read in one step.
FcTimesOut ==
    /\ fcLock.holder # FcNone /\ fcLock.timeouts < fcLoad.timeouts
    /\ fcLock' = [fcLock EXCEPT !.timeouts = @ + 1]

FcShared == (fcLock.holder = FcNone /\ UNCHANGED fcLock) \/ FcTimesOut

FcExclusive(c) ==
    \/ fcLock.holder = FcNone /\ fcLock' = [fcLock EXCEPT !.holder = c]
    \/ FcTimesOut

FcUnlock(c) == fcLock' = IF fcLock.holder = c THEN [fcLock EXCEPT !.holder = FcNone] ELSE fcLock

-----------------------------------------------------------------------------
(* check *)

FcAt(c, pc) == fcCheck[c].pc = pc
FcStep(c, check) == fcCheck' = [fcCheck EXCEPT ![c] = check]
FcInputsKept == UNCHANGED <<fcLoad, fcDisk, fcNow, fcMoved, fcCalls>>
FcLocal == FcInputsKept /\ UNCHANGED <<fcFiles, fcLock, fcCovered>>
FcReading == FcInputsKept /\ FcShared /\ UNCHANGED <<fcFiles, fcCovered>>

\* read_json: FcNone if the file is missing.
FcRead(p) == IF fcFiles[p] = FcNone THEN FcNone ELSE fcFiles[p].data

\* A value makes one call at a time.
FcCall(c) ==
    /\ c \in fcLoad.cycles /\ FcAt(c, "idle")
    /\ fcCalls < fcLoad.calls /\ fcCalls' = fcCalls + 1

\* walk_files, and a cache value of the caller's own.
FcBegin(c) ==
    /\ FcCall(c)
    /\ FcStep(c, [FcIdle EXCEPT !.pc = "fast",
                    !.scan = {f \in FcName : fcDisk[f] # FcAbsent},
                    !.window = [f \in FcName |-> {fcDisk[f].content}]])
    /\ UNCHANGED <<fcLoad, fcDisk, fcNow, fcFiles, fcLock, fcCovered, fcMoved>>

\* max_mtime_ns fails when a file of the scan is gone.
FcAllHere(scan) == \A f \in scan : fcDisk[f] # FcAbsent
FcMaxMtime(scan) == Max({0} \cup {fcDisk[f].mtime : f \in scan})

\* TwoLayerCache reads the cache before the files, HashCache after them.
FcSlow == IF fcLoad.kind = "hash" THEN "files" ELSE "read"

\* try_mtime_fast_path, the mtimes: the cache must be newer than every input.
FcFast(c) ==
    /\ FcAt(c, "fast")
    /\ LET k == fcCheck[c]
           newer == /\ fcFiles["cache"] # FcNone /\ FcAllHere(k.scan)
                    /\ fcFiles["cache"].time >= FcMaxMtime(k.scan)
       IN FcStep(c, IF newer THEN [k EXCEPT !.pc = "fast_read", !.max = FcMaxMtime(k.scan)]
                    ELSE [k EXCEPT !.pc = FcSlow])
    /\ FcLocal

\* The rest of it: a success with as many files and the same maximum.
FcFastMatches(data, k) ==
    /\ data # FcNone /\ data.status = "success"
    /\ Cardinality(DOMAIN data.files) = Cardinality(k.scan)
    /\ data.max = k.max

FcFastRead(c) ==
    /\ FcAt(c, "fast_read")
    /\ LET k == fcCheck[c]
           data == FcRead("cache")
       IN FcStep(c, IF FcFastMatches(data, k)
                    THEN [k EXCEPT !.pc = "answered", !.scan = {}, !.max = 0, !.staged = data]
                    ELSE [k EXCEPT !.pc = FcSlow, !.max = 0])
    /\ FcReading

\* TwoLayerCache: an entry of a cache that does not say failure may be reused.
FcReadBase(c) ==
    /\ FcAt(c, "read")
    /\ FcStep(c, [fcCheck[c] EXCEPT !.pc = "files", !.base = FcRead("cache")])
    /\ FcReading

FcUsable(base) == base # FcNone /\ base.status # "failure"

\* A function with one more argument.
FcWith(g, f, v) == [x \in DOMAIN g \cup {f} |-> IF x = f THEN v ELSE g[x]]

\* Layer 1: a file whose mtime is the cached one keeps the cached hash.
FcStat(c, f) ==
    /\ FcAt(c, "files") /\ fcLoad.kind = "two_layer"
    /\ f \in fcCheck[c].scan \ DOMAIN fcCheck[c].stat
    /\ LET k == fcCheck[c]
           reused == /\ FcUsable(k.base) /\ f \in DOMAIN k.base.files
                     /\ k.base.files[f].mtime = fcDisk[f].mtime
       IN FcStep(c, IF fcDisk[f] = FcAbsent THEN FcIdle
                    ELSE [k EXCEPT !.stat = FcWith(@, f, fcDisk[f].mtime),
                            !.files = IF reused THEN FcWith(@, f, k.base.files[f]) ELSE @])
    /\ FcLocal

\* Layer 2, and every file of a HashCache: the content is hashed.
FcHash(c, f) ==
    /\ FcAt(c, "files")
    /\ f \in fcCheck[c].scan \ DOMAIN fcCheck[c].files
    /\ fcLoad.kind = "two_layer" => f \in DOMAIN fcCheck[c].stat
    /\ LET k == fcCheck[c]
           mtime == IF fcLoad.kind = "two_layer" THEN k.stat[f] ELSE 0
       IN FcStep(c, IF fcDisk[f] = FcAbsent THEN FcIdle
                    ELSE [k EXCEPT !.files =
                            FcWith(@, f, [mtime |-> mtime, hash |-> fcDisk[f].content])])
    /\ FcLocal

\* The maximum mtime stored with the snapshot: of the inputs as they are now
\* (HashCache), of the entries (TwoLayerData::new).
FcMax(c) ==
    /\ FcAt(c, "files") /\ DOMAIN fcCheck[c].files = fcCheck[c].scan
    /\ LET k == fcCheck[c]
           max == IF fcLoad.kind = "two_layer"
                  THEN Max({0} \cup {k.files[f].mtime : f \in k.scan})
                  ELSE IF FcAllHere(k.scan) THEN FcMaxMtime(k.scan) ELSE 0
       IN FcStep(c, [k EXCEPT !.pc = "decide", !.max = max, !.stat = <<>>])
    /\ FcLocal

FcHashes(files) == [f \in DOMAIN files |-> files[f].hash]

FcDecided(k, base) ==
    [k EXCEPT !.pc = "stage", !.base = FcNone,
              !.run = ~(FcUsable(base) /\ FcHashes(base.files) = FcHashes(k.files))]

FcDecide(c) ==
    /\ FcAt(c, "decide")
    /\ \/ fcLoad.kind = "two_layer" /\ FcStep(c, FcDecided(fcCheck[c], fcCheck[c].base)) /\ FcLocal
       \/ fcLoad.kind = "hash" /\ FcStep(c, FcDecided(fcCheck[c], FcRead("cache"))) /\ FcReading

-----------------------------------------------------------------------------
(* Staging and committing: write_atomic_inner under the exclusive lock *)

FcSnapshot(c) ==
    [status |-> "pending", by |-> c, files |-> fcCheck[c].files, max |-> fcCheck[c].max]

FcPut(p, v) == fcFiles' = [fcFiles EXCEPT ![p] = v]
FcWritten(data) == [data |-> data, time |-> fcNow]

\* write_pending
FcStage(c) ==
    /\ FcAt(c, "stage") /\ FcExclusive(c)
    /\ FcPut("pending_tmp", FcWritten(FcSnapshot(c)))
    /\ FcStep(c, [fcCheck[c] EXCEPT !.pc = "stage_remove"])
    /\ FcInputsKept /\ UNCHANGED fcCovered

FcStageRemove(c) ==
    /\ FcAt(c, "stage_remove")
    /\ FcPut("pending", FcNone)
    /\ FcStep(c, [fcCheck[c] EXCEPT !.pc = "stage_rename"])
    /\ FcInputsKept /\ UNCHANGED <<fcLock, fcCovered>>

\* rename(tmp, target): an error if somebody without the lock took the tmp.
FcMoveTmp(tmp, target) ==
    fcFiles' = IF fcFiles[tmp] = FcNone THEN fcFiles
               ELSE [fcFiles EXCEPT ![target] = fcFiles[tmp], ![tmp] = FcNone]

FcStageRename(c) ==
    /\ FcAt(c, "stage_rename") /\ FcUnlock(c)
    /\ FcMoveTmp("pending_tmp", "pending")
    /\ FcStep(c, IF fcFiles["pending_tmp"] = FcNone THEN FcIdle
                 ELSE [fcCheck[c] EXCEPT !.pc = "answered", !.staged = FcSnapshot(c),
                         !.scan = {}, !.files = <<>>, !.max = 0])
    /\ FcInputsKept /\ UNCHANGED fcCovered

\* The caller goes on without the value: a process that only checks.
FcCheckExits(c) ==
    /\ FcAt(c, "answered") /\ fcLoad.cli /\ fcCheck[c].staged # FcNone
    /\ FcStep(c, [fcCheck[c] EXCEPT !.staged = FcNone])
    /\ FcLocal

\* A caller that was told to skip need not mark.
FcSkip(c) == FcAt(c, "answered") /\ ~fcCheck[c].run /\ FcStep(c, FcIdle) /\ FcLocal

\* Mutant: the pending file comes before the value's own snapshot.
FcClaimPending(c) ==
    IF FcRead("pending") # FcNone THEN FcRead("pending") ELSE fcCheck[c].staged

\* promote_with_status: the value's own snapshot, else the pending file.
FcClaim(c) ==
    IF fcCheck[c].staged # FcNone THEN fcCheck[c].staged ELSE FcRead("pending")

\* mark_success, mark_failure; without a snapshot an error.  The operation,
\* if there was one, is over.
FcMark(c, status) ==
    /\ FcAt(c, "answered") /\ (fcCheck[c].run \/ fcLoad.skipMarks)
    /\ FcStep(c, IF FcClaim(c) = FcNone THEN FcIdle
                 ELSE [FcIdle EXCEPT !.pc = "commit", !.run = status = "success",
                                     !.staged = FcClaim(c)])
    /\ IF fcCheck[c].staged # FcNone THEN UNCHANGED fcLock ELSE FcShared
    /\ fcCovered' = IF fcCheck[c].run /\ status = "success"
                    THEN fcCovered \cup {fcCheck[c].window} ELSE fcCovered
    /\ FcInputsKept /\ UNCHANGED fcFiles

\* commit_pending: is the pending file the claimed snapshot?  Then the cache.
FcCommit(c) ==
    /\ FcAt(c, "commit") /\ FcExclusive(c)
    /\ LET k == fcCheck[c]
       IN /\ FcPut("cache_tmp", FcWritten([k.staged EXCEPT !.status =
                        IF k.run THEN "success" ELSE "failure"]))
          /\ FcStep(c, [k EXCEPT !.pc = "commit_remove", !.ours = FcRead("pending") = k.staged])
    /\ FcInputsKept /\ UNCHANGED fcCovered

FcCommitRemove(c) ==
    /\ FcAt(c, "commit_remove")
    /\ FcPut("cache", FcNone)
    /\ FcStep(c, [fcCheck[c] EXCEPT !.pc = "commit_rename"])
    /\ FcInputsKept /\ UNCHANGED <<fcLock, fcCovered>>

FcCommitRename(c) ==
    /\ FcAt(c, "commit_rename")
    /\ FcMoveTmp("cache_tmp", "cache")
    /\ IF fcFiles["cache_tmp"] = FcNone
       THEN FcUnlock(c) /\ FcStep(c, FcIdle)
       ELSE UNCHANGED fcLock /\ FcStep(c, [fcCheck[c] EXCEPT !.pc = "commit_pending"])
    /\ FcInputsKept /\ UNCHANGED fcCovered

FcCommitPending(c) ==
    /\ FcAt(c, "commit_pending") /\ FcUnlock(c)
    /\ IF fcCheck[c].ours THEN FcPut("pending", FcNone) ELSE UNCHANGED fcFiles
    /\ FcStep(c, FcIdle)
    /\ FcInputsKept /\ UNCHANGED fcCovered

\* invalidate; remove_cache leaves the .tmp of the pending file.
FcInvalidate(c) ==
    /\ FcCall(c) /\ FcShared
    /\ fcFiles' = [fcFiles EXCEPT !["cache"] = FcNone, !["pending"] = FcNone, !["cache_tmp"] = FcNone]
    /\ UNCHANGED <<fcLoad, fcDisk, fcNow, fcMoved, fcCheck, fcCovered>>

\* The process of a cycle dies and the OS drops its lock.  One that dies while
\* it only reads is a check that takes no further step.
FcDie(c) ==
    /\ ~FcAt(c, "idle") /\ ~FcChecking(c) /\ FcUnlock(c)
    /\ FcStep(c, FcIdle)
    /\ FcInputsKept /\ UNCHANGED <<fcFiles, fcCovered>>

FcNext ==
    \/ \E f \in FcName, x \in FcContent \cup {FcNone} : FcEdit(f, x)
    \/ \E f, g \in FcName : FcRename(f, g)
    \/ \E c \in FcCycle :
         \/ FcBegin(c) \/ FcFast(c) \/ FcFastRead(c) \/ FcReadBase(c)
         \/ \E f \in FcName : FcStat(c, f) \/ FcHash(c, f)
         \/ FcMax(c) \/ FcDecide(c)
         \/ FcStage(c) \/ FcStageRemove(c) \/ FcStageRename(c)
         \/ FcCheckExits(c) \/ FcSkip(c)
         \/ \E status \in {"success", "failure"} : FcMark(c, status)
         \/ FcCommit(c) \/ FcCommitRemove(c) \/ FcCommitRename(c) \/ FcCommitPending(c)
         \/ FcInvalidate(c) \/ FcDie(c)

FcSpec == FcInit /\ [][FcNext]_fcVars

-----------------------------------------------------------------------------
\* Type correctness of the inputs, the files, the lock and the cycles.
FcTypeOK ==
    /\ fcLoad \in FcLoadType
    /\ fcNow \in 1 .. fcLoad.edits + 1 /\ fcCalls \in 0 .. fcLoad.calls
    /\ fcDisk \in [FcName -> [mtime : 0 .. fcNow, content : FcContent \cup {FcNone}]]
    /\ \A p \in FcPath : fcFiles[p] # FcNone =>
         fcFiles[p].time <= fcNow /\ fcFiles[p].data.status \in {"pending", "success", "failure"}
    /\ fcFiles["cache"] # FcNone => fcFiles["cache"].data.status # "pending"
    /\ fcLock.holder \in FcCycle \cup {FcNone} /\ fcLock.timeouts \in 0 .. fcLoad.timeouts
    /\ \A c \in FcCycle : DOMAIN fcCheck[c].files \subseteq fcCheck[c].scan

\* Every input has a content that this check and a covered one saw.  The mtime
\* fast path compares the number of files and their newest mtime, so an input
\* that is gone may go unnoticed when another came during the covered check.
FcMeets(window, w) ==
    \A f \in FcName :
        \/ w[f] \cap window[f] # {}
        \/ FcNone \in window[f] /\ \E g \in FcName : FcNone \in w[g] /\ w[g] # {FcNone}

\* The hashes of a snapshot are of contents that a check saw.
FcHashed(files, w) ==
    \A f \in FcName :
        IF f \in DOMAIN files THEN files[f].hash \in w[f] ELSE FcNone \in w[f]

\* What the fingerprint crate says is unchanged was there when an operation
\* succeeded.  A check that answers skip: the check of some cycle whose
\* operation succeeded saw every input with a content that the input also had
\* during this check.  A cache file that says success: its hashes are those of
\* such a cycle.  It is so for concurrent cycles on one cache file, without the
\* lock after a timeout, for dying processes and for edits during checks.
\* A rename keeps the mtime: once an input was renamed the answer is excused,
\* and so are the hashes that a TwoLayerCache reuses for their mtime.
FcSuccessCovered ==
    /\ \A c \in FcCycle :
         FcAt(c, "answered") /\ ~fcCheck[c].run /\ ~fcMoved =>
            \E w \in fcCovered : FcMeets(fcCheck[c].window, w)
    /\ LET data == FcRead("cache")
       IN data # FcNone /\ data.status = "success" /\ (fcMoved => fcLoad.kind = "hash") =>
            \E w \in fcCovered : FcHashed(data.files, w)
=============================================================================
