-------------------------- MODULE FingerprintWatch --------------------------
(***************************************************************************)
(* The daemon's answer to "have these files changed since the operation    *)
(* last succeeded?" (daemon/fingerprint): check, run the operation,        *)
(* mark-success or mark-failure.  One watch, one cycle at a time.  The     *)
(* watcher's batches and the check's own verification both read the files  *)
(* without a lock on the watch and then apply what they read.              *)
(*                                                                         *)
(* A file has a content, a number no two edits share, and cheap signals    *)
(* (mtime, size, identity, ctime), of which we know that every edit and    *)
(* every touch changes them.  A missing or unreadable file observes and    *)
(* hashes as 0.                                                            *)
(***************************************************************************)
EXTENDS Naturals, FiniteSets

CONSTANTS
    FwFile,
    FwMaxEdits,     \* bound on edits, touches and removals
    FwMaxChecks     \* bound on checks

ASSUME FwAssumption == IsFiniteSet(FwFile) /\ FwMaxEdits \in Nat /\ FwMaxChecks \in Nat

VARIABLES
    fwDisk,         \* the files
    fwEdits, fwChecks,
    fwEvent,        \* file -> the watcher event not yet read by a batch
    fwBatch,        \* the on_batch call in progress
    fwWatch,        \* WatchState; on: the map has it
    fwCheck,        \* the client's cycle: its check, its operation, its mark;
                    \* ghosts: seen, the contents it looked at; dropped, the files
                    \* whose verified change apply_verifications threw away
    fwRan           \* ghost: the contents the last successful operation read

fwVars == <<fwDisk, fwEdits, fwChecks, fwEvent, fwBatch, fwWatch, fwCheck, fwRan>>

FwSignal == 0..(FwMaxEdits + 1)
FwPerFile == [FwFile -> FwSignal]
FwTracked == [FwFile -> [known : BOOLEAN, stat : FwSignal, hash : FwSignal]]
FwStatus == {"pending", "success", "failure"}
FwPc == {"idle", "branch", "verify", "hash", "apply", "scan", "scanHash", "insert",
         "run", "ran", "skipped"}

FwTypeOK ==
    /\ fwDisk \in [FwFile -> [here : BOOLEAN, stat : FwSignal, content : FwSignal]]
    /\ fwEdits \in 0..FwMaxEdits /\ fwChecks \in 0..FwMaxChecks
    /\ fwEvent \in [FwFile -> {"none", "changed", "removed"}]
    /\ fwBatch \in [busy : BOOLEAN, kind : [FwFile -> {"none", "changed", "removed"}],
                    stat : FwPerFile, hash : FwPerFile]
    /\ fwWatch \in [on : BOOLEAN, files : FwTracked, dirty : BOOLEAN, generation : Nat,
                    checked : Nat, status : FwStatus]
    /\ fwCheck \in [pc : FwPc, dirty : BOOLEAN, status : FwStatus, gen : Nat,
                    files : FwTracked, stat : FwPerFile, hash : FwPerFile, seen : FwPerFile, dropped : SUBSET FwFile]
    /\ fwRan \in FwPerFile

FwZero == [f \in FwFile |-> 0]
FwNoFiles == [f \in FwFile |-> [known |-> FALSE, stat |-> 0, hash |-> 0]]
FwNoWatch == [on |-> FALSE, files |-> FwNoFiles, dirty |-> FALSE, generation |-> 0,
              checked |-> 0, status |-> "pending"]
FwNoCheck == [pc |-> "idle", dirty |-> FALSE, status |-> "pending", gen |-> 0,
              files |-> FwNoFiles, stat |-> FwZero, hash |-> FwZero, seen |-> FwZero, dropped |-> {}]
FwNoBatch == [busy |-> FALSE, kind |-> [f \in FwFile |-> "none"], stat |-> FwZero, hash |-> FwZero]

FwInit ==
    /\ fwDisk \in [FwFile -> {[here |-> b, stat |-> 1, content |-> 1] : b \in BOOLEAN}]
    /\ fwEdits = 0 /\ fwChecks = 0
    /\ fwEvent = [f \in FwFile |-> "none"]
    /\ fwBatch = FwNoBatch
    /\ fwWatch = FwNoWatch
    /\ fwCheck = FwNoCheck
    /\ fwRan = FwZero

FwAt(pc) == fwCheck.pc = pc
FwGoto(pc) == fwCheck' = [fwCheck EXCEPT !.pc = pc]

\* verify::observe and hash_file, each at its moment.
FwObserved == [f \in FwFile |-> IF fwDisk[f].here THEN fwDisk[f].stat ELSE 0]
FwHashed == [f \in FwFile |-> IF fwDisk[f].here THEN fwDisk[f].content ELSE 0]

-----------------------------------------------------------------------------
(* The files and the watcher *)

\* The watcher may miss the change.
FwChange(f, new, kind) ==
    /\ fwEdits < FwMaxEdits
    /\ fwEdits' = fwEdits + 1
    /\ fwDisk' = [fwDisk EXCEPT ![f] = new]
    /\ fwEvent' \in {fwEvent, [fwEvent EXCEPT ![f] = kind]}
    /\ UNCHANGED <<fwChecks, fwBatch, fwWatch, fwCheck, fwRan>>

FwEdit(f) ==
    FwChange(f, [here |-> TRUE, stat |-> fwEdits + 2, content |-> fwEdits + 2], "changed")
FwTouch(f) ==
    /\ fwDisk[f].here
    /\ FwChange(f, [fwDisk[f] EXCEPT !.stat = fwEdits + 2], "changed")
FwRemove(f) ==
    /\ fwDisk[f].here
    /\ FwChange(f, [fwDisk[f] EXCEPT !.here = FALSE], "removed")

\* on_batch, first half: stat and hash every changed path, no lock held.
FwBatchRead(files) ==
    /\ ~fwBatch.busy /\ \E f \in files : fwEvent[f] # "none"
    /\ fwBatch' = [busy |-> TRUE, stat |-> FwObserved, hash |-> FwHashed,
                   kind |-> [f \in FwFile |-> IF f \in files THEN fwEvent[f] ELSE "none"]]
    /\ fwEvent' = [f \in FwFile |-> IF f \in files THEN "none" ELSE fwEvent[f]]
    /\ UNCHANGED <<fwDisk, fwEdits, fwChecks, fwWatch, fwCheck, fwRan>>

\* Content that differs from the tracked hash, and a tracked file that is gone.
FwNews(f) ==
    \/ /\ fwBatch.kind[f] = "changed"
       /\ ~fwWatch.files[f].known \/ fwWatch.files[f].hash # fwBatch.hash[f]
    \/ fwBatch.kind[f] = "removed" /\ fwWatch.files[f].known

\* on_batch, second half: the watch takes over what was read.  The same content
\* only refreshes the signals.
FwBatchApply ==
    /\ fwBatch.busy /\ fwBatch' = FwNoBatch
    /\ LET news == {f \in FwFile : FwNews(f)}
           Applied(f) == CASE fwBatch.kind[f] = "changed" ->
                                [known |-> TRUE, stat |-> fwBatch.stat[f], hash |-> fwBatch.hash[f]]
                           [] fwBatch.kind[f] = "removed" ->
                                [known |-> FALSE, stat |-> 0, hash |-> 0]
                           [] OTHER -> fwWatch.files[f]
       IN fwWatch' = IF ~fwWatch.on THEN fwWatch
                     ELSE [fwWatch EXCEPT
                             !.files = [f \in FwFile |-> Applied(f)],
                             !.dirty = @ \/ news # {},
                             !.generation = @ + Cardinality(news)]
    /\ UNCHANGED <<fwDisk, fwEdits, fwChecks, fwEvent, fwCheck, fwRan>>

-----------------------------------------------------------------------------
(* check *)

FwKeep == UNCHANGED <<fwDisk, fwEdits, fwChecks, fwEvent, fwBatch, fwRan>>

\* The first read of the watch.
FwStart ==
    /\ FwAt("idle") /\ fwChecks < FwMaxChecks
    /\ fwChecks' = fwChecks + 1
    /\ fwCheck' = IF fwWatch.on
                  THEN [fwCheck EXCEPT !.pc = "branch", !.dirty = fwWatch.dirty,
                          !.status = fwWatch.status, !.gen = fwWatch.generation]
                  ELSE [fwCheck EXCEPT !.pc = "scan"]
    /\ UNCHANGED <<fwDisk, fwEdits, fwEvent, fwBatch, fwWatch, fwRan>>

\* Clean and successful: the second read copies the tracked files.
FwBranchVerify ==
    /\ FwAt("branch") /\ ~fwCheck.dirty /\ fwCheck.status = "success"
    /\ fwCheck' = IF fwWatch.on
                  THEN [fwCheck EXCEPT !.pc = "verify", !.files = fwWatch.files]
                  ELSE [fwCheck EXCEPT !.pc = "scan"]
    /\ FwKeep /\ UNCHANGED fwWatch

\* Dirty, or the last run failed: run, for the generation of the first read.
FwBranchRun ==
    /\ FwAt("branch") /\ (fwCheck.dirty \/ fwCheck.status = "failure")
    /\ fwWatch' = IF fwWatch.on
                  THEN [fwWatch EXCEPT !.status = "pending", !.checked = fwCheck.gen]
                  ELSE fwWatch
    /\ FwGoto("run") /\ FwKeep

\* Checked before and never marked: run.
FwBranchPending ==
    /\ FwAt("branch") /\ ~fwCheck.dirty /\ fwCheck.status = "pending"
    /\ FwGoto("run") /\ FwKeep /\ UNCHANGED fwWatch

\* collect_verifications, first pass: stat every tracked file.
FwVerifyStat ==
    /\ FwAt("verify")
    /\ fwCheck' = [fwCheck EXCEPT !.pc = "hash", !.stat = FwObserved, !.seen = FwHashed]
    /\ FwKeep /\ UNCHANGED fwWatch

\* ... second pass: hash those whose signals differ.
FwVerifyHash ==
    /\ FwAt("hash")
    /\ fwCheck' = [fwCheck EXCEPT !.pc = "apply", !.hash = FwHashed]
    /\ FwKeep /\ UNCHANGED fwWatch

\* The files with an update: signals that differ, or no file.
FwUpdated(f) ==
    fwCheck.files[f].known /\ (fwCheck.stat[f] = 0 \/ fwCheck.stat[f] # fwCheck.files[f].stat)

\* What apply_verifications does with one: it leaves an entry alone that is not
\* the one it verified.
FwStale(f) == fwWatch.files[f] # fwCheck.files[f]

FwReportsChange(f) ==
    FwUpdated(f) /\ (0 \in {fwCheck.stat[f], fwCheck.hash[f]}
                      \/ fwCheck.hash[f] # fwCheck.files[f].hash)

\* Skip only if nothing changed and no batch made the watch dirty meanwhile.
FwDecide(changed) == changed = {} /\ ~fwWatch.dirty

\* The write guard: apply the updates and decide.
FwVerifyApply ==
    /\ FwAt("apply")
    /\ LET live == {f \in FwFile : FwUpdated(f) /\ ~FwStale(f)}
           changed == {f \in live : FwReportsChange(f)}
           Entry(f) == IF f \notin live \/ fwCheck.stat[f] = 0 \/ fwCheck.hash[f] = 0
                       THEN fwWatch.files[f]
                       ELSE [known |-> TRUE, stat |-> fwCheck.stat[f], hash |-> fwCheck.hash[f]]
           applied == [fwWatch EXCEPT !.files = [f \in FwFile |-> Entry(f)]]
       IN \/ /\ ~fwWatch.on
             /\ FwGoto("scan") /\ UNCHANGED fwWatch
          \/ /\ fwWatch.on /\ FwDecide(changed)
             /\ fwWatch' = applied
             /\ fwCheck' = [fwCheck EXCEPT !.pc = "skipped",
                  !.dropped = {f \in FwFile : FwReportsChange(f) /\ FwStale(f)}]
          \/ /\ fwWatch.on /\ ~FwDecide(changed)
             /\ fwWatch' = [applied EXCEPT !.generation = @ + 1, !.dirty = TRUE,
                              !.status = "pending", !.checked = fwWatch.generation + 1]
             /\ FwGoto("run")
    /\ FwKeep

-----------------------------------------------------------------------------
(* The initial scan: walk and stat, hash, insert; no watch exists meanwhile *)

FwScanStat ==
    /\ FwAt("scan")
    /\ fwCheck' = [fwCheck EXCEPT !.pc = "scanHash", !.stat = FwObserved,
         !.files = [f \in FwFile |-> [FwNoFiles[f] EXCEPT !.known = fwDisk[f].here]]]
    /\ FwKeep /\ UNCHANGED fwWatch

\* The walk fails: run, and nothing is tracked.
FwScanError == FwAt("scan") /\ FwGoto("run") /\ FwKeep /\ UNCHANGED fwWatch

FwScanHash ==
    /\ FwAt("scanHash")
    /\ fwCheck' = [fwCheck EXCEPT !.pc = "insert", !.hash = FwHashed]
    /\ FwKeep /\ UNCHANGED fwWatch

FwScanInsert ==
    /\ FwAt("insert")
    /\ fwWatch' = [FwNoWatch EXCEPT !.on = TRUE,
         !.files = [f \in FwFile |->
            IF fwCheck.files[f].known
            THEN [known |-> TRUE, stat |-> fwCheck.stat[f], hash |-> fwCheck.hash[f]]
            ELSE FwNoFiles[f]]]
    /\ FwGoto("run") /\ FwKeep

-----------------------------------------------------------------------------
(* The operation and its mark *)

\* The operation reads the files after the check said run.
FwOperate ==
    /\ FwAt("run")
    /\ fwCheck' = [fwCheck EXCEPT !.pc = "ran", !.seen = FwHashed]
    /\ FwKeep /\ UNCHANGED fwWatch

\* Mutant: a change since the check is forgotten.
FwCoversBlind == TRUE

\* Nothing was recorded since the check.
FwCovers == fwWatch.generation = fwWatch.checked

FwMarkSuccess ==
    /\ FwAt("ran")
    /\ fwWatch' = IF ~fwWatch.on THEN fwWatch
                  ELSE [fwWatch EXCEPT !.status = "success", !.dirty = @ /\ ~FwCovers]
    /\ fwRan' = fwCheck.seen
    /\ fwCheck' = FwNoCheck
    /\ UNCHANGED <<fwDisk, fwEdits, fwChecks, fwEvent, fwBatch>>

FwMarkFailure ==
    /\ FwAt("ran")
    /\ fwWatch' = IF ~fwWatch.on THEN fwWatch ELSE [fwWatch EXCEPT !.status = "failure"]
    /\ fwCheck' = FwNoCheck
    /\ FwKeep

\* After a skip, or without a mark: the client dies.
FwEnd ==
    /\ fwCheck.pc \in {"skipped", "run", "ran"}
    /\ fwCheck' = FwNoCheck
    /\ FwKeep /\ UNCHANGED fwWatch

\* invalidate, by any client, at any time.
FwInvalidate ==
    /\ fwWatch.on /\ fwWatch' = FwNoWatch
    /\ FwKeep /\ UNCHANGED fwCheck

FwNext ==
    \/ \E f \in FwFile : FwEdit(f) \/ FwTouch(f) \/ FwRemove(f)
    \/ \E files \in SUBSET FwFile : FwBatchRead(files)
    \/ FwBatchApply
    \/ FwStart \/ FwBranchVerify \/ FwBranchRun \/ FwBranchPending
    \/ FwVerifyStat \/ FwVerifyHash \/ FwVerifyApply
    \/ FwScanStat \/ FwScanError \/ FwScanHash \/ FwScanInsert
    \/ FwOperate \/ FwMarkSuccess \/ FwMarkFailure \/ FwEnd \/ FwInvalidate

FwSpec == FwInit /\ [][FwNext]_fwVars

-----------------------------------------------------------------------------
(* Properties *)

\* A new file is not tracked before its event: nobody could know of it.
FwUnheardOf(f) == ~fwCheck.files[f].known

\* "a redundant recompile, never a stale hit" (fingerprint/mod.rs): when check
\* answers skip, the files had, at the moment it looked at them, the contents
\* that the last successful operation read; lost and late events included.
FwNoStaleSkip ==
    FwAt("skipped") => \A f \in FwFile : fwCheck.seen[f] = fwRan[f] \/ FwUnheardOf(f)

\* The same, unless a batch that read the file before it changed, and found only
\* its signals new, was applied between the verification and its result.
FwStaleSkipOnlyDropped ==
    FwAt("skipped") => \A f \in FwFile :
        fwCheck.seen[f] = fwRan[f] \/ FwUnheardOf(f) \/ f \in fwCheck.dropped
=============================================================================
