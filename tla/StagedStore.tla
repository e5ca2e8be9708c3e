----------------------------- MODULE StagedStore -----------------------------
(***************************************************************************)
(* The staged artifact store for one cache key (persist/staged_store.rs,   *)
(* staged_store/maintenance.rs, staged_store/read_guard.rs).  A generation *)
(* is a directory named by the digest of the outputs in it; a pointer file *)
(* names the current one.  Publishers and readers share the store lock,    *)
(* maintenance takes it exclusively, publishers of the key exclude each    *)
(* other.  The disk has a visible state and one that survives power loss.  *)
(***************************************************************************)
EXTENDS Naturals

CONSTANTS
    StPublisher,    \* threads or processes that publish the key
    StReader,       \* cache hits of the key that deliver its outputs
    StGeneration,   \* what a run of the compiler may have produced
    StLoads,        \* the loads a run considers: who is there, and whether power fails
    StNone          \* no pointer, no lock owner

ASSUME StAssumption ==
    /\ StNone \notin StPublisher \cup StReader \cup StGeneration
    /\ StPublisher \cap StReader = {}
    /\ StLoads \subseteq [publish : SUBSET StPublisher, read : SUBSET StReader, power : BOOLEAN]

VARIABLES
    stLoad,         \* the load of this behaviour
    stUp,           \* the machine is up
    stPtr,          \* <key>.current: what is visible and what is durable
    stGen,          \* generation -> its directory, visible and durable
    stTemp,         \* publishers whose temporary directory is on disk
    stShared,       \* holders of the store lock in shared mode
    stExclusive,    \* maintenance holds the store lock
    stKeyLock,      \* the publisher that holds the key's publish lock
    stPub,          \* the publishers
    stRead,         \* the readers
    stMaint,        \* maintenance: eviction, Clear or the cleanup at startup
    stAcked         \* the last publication that was reported complete

stDisk == <<stPtr, stGen, stTemp>>
stLocks == <<stShared, stExclusive, stKeyLock>>
stVars == <<stLoad, stUp, stDisk, stLocks, stPub, stRead, stMaint, stAcked>>

StDir == {"absent", "partial", "complete"}
StDirState == [visible : StDir, durable : StDir]
StPointer == StGeneration \cup {StNone}

StPublisherState ==
    [pc : {"idle", "locked", "staging", "staged", "conflict", "unpoint", "manifest",
           "renamed", "synced", "pointed", "committed", "failed"},
     gen : StPointer, previous : StPointer, renamed : BOOLEAN]
StReaderState ==
    [pc : {"idle", "probed", "locked", "resolved", "copied"},
     gen : StPointer, conflict : BOOLEAN]
StMaintenanceState ==
    [pc : {"idle", "planned", "tree", "pointer", "release"},
     op : {"evict", "clear", "cleanup"}, expected : StPointer]

StTypeOK ==
    /\ stLoad \in StLoads
    /\ stUp \in BOOLEAN
    /\ stPtr \in [visible : StPointer, durable : StPointer]
    /\ stGen \in [StGeneration -> StDirState]
    /\ stTemp \subseteq StPublisher
    /\ stShared \subseteq StPublisher \cup StReader
    /\ stExclusive \in BOOLEAN /\ (stExclusive => stShared = {})
    /\ stKeyLock \in StPublisher \cup {StNone}
    /\ stPub \in [StPublisher -> StPublisherState]
    /\ stRead \in [StReader -> StReaderState]
    /\ stMaint \in StMaintenanceState
    /\ stAcked \in StPointer

StValid(g) == g # StNone /\ stGen[g].visible = "complete"

StIdlePublisher == [pc |-> "idle", gen |-> StNone, previous |-> StNone, renamed |-> FALSE]
StIdleReader == [pc |-> "idle", gen |-> StNone, conflict |-> FALSE]
StIdleMaintenance == [pc |-> "idle", op |-> "evict", expected |-> StNone]

StInit ==
    /\ stLoad \in StLoads
    /\ stUp = TRUE
    /\ stPtr = [visible |-> StNone, durable |-> StNone]
    /\ stGen = [g \in StGeneration |-> [visible |-> "absent", durable |-> "absent"]]
    /\ stTemp = {} /\ stShared = {} /\ stExclusive = FALSE /\ stKeyLock = StNone
    /\ stPub = [p \in StPublisher |-> StIdlePublisher]
    /\ stRead = [r \in StReader |-> StIdleReader]
    /\ stMaint = StIdleMaintenance
    /\ stAcked = StNone

\* remove_staged_tree: a removal that fails or is cut short leaves some files.
StRemoved(dir) == IF dir = "complete" THEN StDir ELSE {dir, "absent"}

-----------------------------------------------------------------------------
(* persist_staged_generation *)

StPubAt(p, pc) == stUp /\ stPub[p].pc = pc
StPubGoto(p, pc) == stPub' = [stPub EXCEPT ![p].pc = pc]

\* The shared store lock; waiting for it may also end with an error.
StPublishLock(p, g) ==
    /\ StPubAt(p, "idle") /\ ~stExclusive
    /\ stShared' = stShared \cup {p}
    /\ stPub' = [stPub EXCEPT ![p] = [pc |-> "locked", gen |-> g, previous |-> StNone,
                                      renamed |-> FALSE]]
    /\ UNCHANGED <<stLoad, stUp, stDisk, stExclusive, stKeyLock, stRead, stMaint, stAcked>>

\* The key's publish lock, then a fresh temporary directory.
StPublishKeyLock(p) ==
    /\ StPubAt(p, "locked") /\ stKeyLock = StNone
    /\ stKeyLock' = p
    /\ stTemp' = stTemp \cup {p}
    /\ StPubGoto(p, "staging")
    /\ UNCHANGED <<stLoad, stUp, stPtr, stGen, stShared, stExclusive, stRead, stMaint, stAcked>>

\* Every output is copied, synced, sealed and hashed; the digests name the generation.
StStageOutputs(p) ==
    /\ StPubAt(p, "staging")
    /\ StPubGoto(p, "staged")
    /\ UNCHANGED <<stLoad, stUp, stDisk, stLocks, stRead, stMaint, stAcked>>

\* Mutant: what the pointer names is replaced without a look at it.
StCheckPointerBlind(p) ==
    /\ StPubAt(p, "staged")
    /\ stPub' = [stPub EXCEPT ![p].pc = "manifest",
         ![p].previous = IF stPtr.visible = stPub[p].gen THEN StNone ELSE stPtr.visible]
    /\ UNCHANGED <<stLoad, stUp, stDisk, stLocks, stRead, stMaint, stAcked>>

\* The pointer is read: a valid other generation is a conflict, an invalid one
\* is to be removed once it is replaced.
StCheckPointer(p) ==
    /\ StPubAt(p, "staged")
    /\ LET previous == IF stPtr.visible = stPub[p].gen THEN StNone ELSE stPtr.visible IN
       stPub' = [stPub EXCEPT ![p].previous = previous,
                   ![p].pc = IF StValid(previous) THEN "conflict" ELSE "manifest"]
    /\ UNCHANGED <<stLoad, stUp, stDisk, stLocks, stRead, stMaint, stAcked>>

\* The conflict: the generation of the pointer is removed, best effort ...
StConflictTree(p) ==
    /\ StPubAt(p, "conflict")
    /\ \E left \in StRemoved(stGen[stPub[p].previous].visible) :
         /\ stGen' = [stGen EXCEPT ![stPub[p].previous].visible = left]
         /\ stRead' = [r \in StReader |->
              [stRead[r] EXCEPT !.conflict = @ \/ (r \in stShared /\ ~(left = "complete"))]]
    /\ StPubGoto(p, "unpoint")
    /\ stAcked' = StNone
    /\ UNCHANGED <<stLoad, stUp, stPtr, stTemp, stLocks, stMaint>>

\* ... then the pointer, best effort; the publication fails.
StConflictPointer(p) ==
    /\ StPubAt(p, "unpoint")
    /\ \E left \in {StNone, stPtr.visible} : stPtr' = [stPtr EXCEPT !.visible = left]
    /\ StPubGoto(p, "failed")
    /\ UNCHANGED <<stLoad, stUp, stGen, stTemp, stLocks, stRead, stMaint, stAcked>>

\* The manifest and the directory are synced, the directory is renamed to its
\* digest; when that name is taken, the temporary directory is dropped.
StRenameGeneration(p) ==
    /\ StPubAt(p, "manifest")
    /\ LET g == stPub[p].gen
           free == stGen[g].visible = "absent" IN
       /\ stGen' = IF free THEN [stGen EXCEPT ![g].visible = "complete"] ELSE stGen
       /\ stPub' = [stPub EXCEPT ![p].pc = "renamed", ![p].renamed = free]
    /\ stTemp' = stTemp \ {p}
    /\ UNCHANGED <<stLoad, stUp, stPtr, stLocks, stRead, stMaint, stAcked>>

\* Mutant: the key's directory is not synced after the rename.
StSyncKeyRootSkipped(p) ==
    /\ StPubAt(p, "renamed")
    /\ StPubGoto(p, "synced")
    /\ UNCHANGED <<stLoad, stUp, stDisk, stLocks, stRead, stMaint, stAcked>>

\* sync_directory(key_root): the names in it are durable, removals inside a
\* generation are not.
StSyncKeyRoot(p) ==
    /\ StPubAt(p, "renamed")
    /\ stGen' = [g \in StGeneration |-> [stGen[g] EXCEPT !.durable =
                   IF stGen[g].visible = "partial" THEN "complete" ELSE stGen[g].visible]]
    /\ StPubGoto(p, "synced")
    /\ UNCHANGED <<stLoad, stUp, stPtr, stTemp, stLocks, stRead, stMaint, stAcked>>

\* atomic_write of the pointer.
StCommitPointer(p) ==
    /\ StPubAt(p, "synced")
    /\ stPtr' = [stPtr EXCEPT !.visible = stPub[p].gen]
    /\ StPubGoto(p, "pointed")
    /\ stAcked' = IF stAcked = stPub[p].gen THEN stAcked ELSE StNone
    /\ UNCHANGED <<stLoad, stUp, stGen, stTemp, stLocks, stRead, stMaint>>

\* The pointer, or the sync after it, failed: remove_uncommitted_generation
\* spares a generation the pointer names.
StCommitFails(p) ==
    /\ StPubAt(p, "synced") \/ StPubAt(p, "pointed")
    /\ LET g == stPub[p].gen IN
       \E left \in IF stPub[p].renamed /\ stPtr.visible # g
                   THEN StRemoved(stGen[g].visible) ELSE {stGen[g].visible} :
         stGen' = [stGen EXCEPT ![g].visible = left]
    /\ StPubGoto(p, "failed")
    /\ UNCHANGED <<stLoad, stUp, stPtr, stTemp, stLocks, stRead, stMaint, stAcked>>

\* sync_directory of the pointer's parent.
StSyncPointer(p) ==
    /\ StPubAt(p, "pointed")
    /\ stPtr' = [stPtr EXCEPT !.durable = stPtr.visible]
    /\ StPubGoto(p, "committed")
    /\ UNCHANGED <<stLoad, stUp, stGen, stTemp, stLocks, stRead, stMaint, stAcked>>

StPublisherLeaves(p) ==
    /\ stShared' = stShared \ {p}
    /\ stKeyLock' = IF stKeyLock = p THEN StNone ELSE stKeyLock
    /\ stPub' = [stPub EXCEPT ![p] = StIdlePublisher]

\* A replaced invalid generation is removed, the publication is reported.
StPublished(p) ==
    /\ StPubAt(p, "committed")
    /\ LET old == stPub[p].previous IN
       \/ old = StNone /\ UNCHANGED stGen
       \/ old # StNone /\ \E left \in StRemoved(stGen[old].visible) :
                            stGen' = [stGen EXCEPT ![old].visible = left]
    /\ stAcked' = stPub[p].gen
    /\ StPublisherLeaves(p)
    /\ UNCHANGED <<stLoad, stUp, stPtr, stTemp, stExclusive, stRead, stMaint>>

\* Any step before the pointer may fail; the temporary directory is removed.
StPublishFails(p) ==
    /\ StPubAt(p, "locked") \/ StPubAt(p, "staging") \/ StPubAt(p, "manifest")
         \/ StPubAt(p, "renamed") \/ StPubAt(p, "failed")
    /\ stTemp' = stTemp \ {p}
    /\ StPublisherLeaves(p)
    /\ UNCHANGED <<stLoad, stUp, stPtr, stGen, stExclusive, stRead, stMaint, stAcked>>

\* The publishing process is killed: its locks are free, its files stay.
StPublisherDies(p) ==
    /\ stUp /\ stPub[p].pc # "idle"
    /\ StPublisherLeaves(p)
    /\ UNCHANGED <<stLoad, stUp, stDisk, stExclusive, stRead, stMaint, stAcked>>

-----------------------------------------------------------------------------
(* Readers: ensure_payloads_for_materialization_with_guard *)

StReadAt(r, pc) == stUp /\ stRead[r].pc = pc
StReadGoto(r, pc) == stRead' = [stRead EXCEPT ![r].pc = pc]

\* acquire_staged_materialization_guard_if_present: the pointer is probed ...
StProbe(r) ==
    /\ StReadAt(r, "idle") /\ stPtr.visible # StNone
    /\ StReadGoto(r, "probed")
    /\ UNCHANGED <<stLoad, stUp, stDisk, stLocks, stPub, stMaint, stAcked>>

\* Mutant: a reader does not wait for maintenance.
StReadLockBarging(r) ==
    /\ StReadAt(r, "probed")
    /\ stShared' = stShared \cup {r}
    /\ StReadGoto(r, "locked")
    /\ UNCHANGED <<stLoad, stUp, stDisk, stExclusive, stKeyLock, stPub, stMaint, stAcked>>

\* ... and the store lock taken shared.
StReadLock(r) ==
    /\ StReadAt(r, "probed") /\ ~stExclusive
    /\ stShared' = stShared \cup {r}
    /\ StReadGoto(r, "locked")
    /\ UNCHANGED <<stLoad, stUp, stDisk, stExclusive, stKeyLock, stPub, stMaint, stAcked>>

\* resolve_artifact_payloads: the pointer is read, the generation validated.
StResolve(r) ==
    /\ StReadAt(r, "locked") /\ StValid(stPtr.visible)
    /\ stRead' = [stRead EXCEPT ![r].pc = "resolved", ![r].gen = stPtr.visible]
    /\ UNCHANGED <<stLoad, stUp, stDisk, stLocks, stPub, stMaint, stAcked>>

\* The outputs are copied or linked one after the other.
StDeliver(r) ==
    /\ StReadAt(r, "resolved") /\ stGen[stRead[r].gen].visible # "absent"
    /\ StReadGoto(r, "copied")
    /\ UNCHANGED <<stLoad, stUp, stDisk, stLocks, stPub, stMaint, stAcked>>

\* The guard is dropped: all is delivered, or a lookup or a copy failed, or the
\* reading process died.
StReadRelease(r) ==
    /\ stUp /\ stRead[r].pc # "idle"
    /\ stShared' = stShared \ {r}
    /\ stRead' = [stRead EXCEPT ![r] = StIdleReader]
    /\ UNCHANGED <<stLoad, stUp, stDisk, stExclusive, stKeyLock, stPub, stMaint, stAcked>>

-----------------------------------------------------------------------------
(* Maintenance *)

StMaintAt(pc) == stUp /\ stMaint.pc = pc
StMaintGoto(pc) == stMaint' = [stMaint EXCEPT !.pc = pc]

\* scan_staged_disk_artifacts, under the shared lock: the pointer is noted.
StScan(op) ==
    /\ StMaintAt("idle") /\ ~stExclusive
    /\ stMaint' = [pc |-> "planned", op |-> op,
                   expected |-> IF op = "evict" THEN stPtr.visible ELSE StNone]
    /\ UNCHANGED <<stLoad, stUp, stDisk, stLocks, stPub, stRead, stAcked>>

\* Mutant: maintenance takes the store lock in shared mode.
StMaintLockShared ==
    /\ StMaintAt("planned")
    /\ StMaintGoto("tree")
    /\ UNCHANGED <<stLoad, stUp, stDisk, stLocks, stPub, stRead, stAcked>>

StMaintLock ==
    /\ StMaintAt("planned") /\ stShared = {}
    /\ stExclusive' = TRUE
    /\ StMaintGoto("tree")
    /\ UNCHANGED <<stLoad, stUp, stDisk, stShared, stKeyLock, stPub, stRead, stAcked>>

\* The store is busy: eviction is deferred, Clear and cleanup report an error.
StMaintDefer ==
    /\ StMaintAt("planned") /\ stShared # {}
    /\ stMaint' = StIdleMaintenance
    /\ UNCHANGED <<stLoad, stUp, stDisk, stLocks, stPub, stRead, stAcked>>

\* evict_staged_artifact_keys_if_unchanged: a pointer that moved is left alone.
StEvictChanged ==
    /\ StMaintAt("tree") /\ stMaint.op = "evict" /\ stPtr.visible # stMaint.expected
    /\ StMaintGoto("release")
    /\ UNCHANGED <<stLoad, stUp, stDisk, stLocks, stPub, stRead, stAcked>>

\* The key's tree goes before its pointer; clear_staged_artifacts takes both
\* in the order of the directory.
StRemoveTree ==
    /\ StMaintAt("tree") /\ stMaint.op \in {"evict", "clear"}
    /\ stMaint.op = "evict" => stPtr.visible = stMaint.expected
    /\ \E left \in {d \in [StGeneration -> StDir] :
                       \A g \in StGeneration : d[g] \in StRemoved(stGen[g].visible)} :
         /\ stGen' = [g \in StGeneration |-> [stGen[g] EXCEPT !.visible = left[g]]]
         /\ IF \A g \in StGeneration : left[g] = "absent"
            THEN stTemp' = {} /\ StMaintGoto("pointer")
            ELSE UNCHANGED stTemp /\ StMaintGoto("release")
    /\ stAcked' = StNone
    /\ UNCHANGED <<stLoad, stUp, stPtr, stLocks, stPub, stRead>>

StRemovePointer ==
    /\ StMaintAt("pointer")
    /\ stPtr' = [stPtr EXCEPT !.visible = StNone]
    /\ StMaintGoto("release")
    /\ UNCHANGED <<stLoad, stUp, stGen, stTemp, stLocks, stPub, stRead, stAcked>>

StClearPointerFirst ==
    /\ StMaintAt("tree") /\ stMaint.op = "clear" /\ stPtr.visible # StNone
    /\ stPtr' = [stPtr EXCEPT !.visible = StNone]
    /\ stAcked' = StNone
    /\ UNCHANGED <<stLoad, stUp, stGen, stTemp, stLocks, stPub, stRead, stMaint>>

\* cleanup_staged_artifact_temps: temporary directories, and generations the
\* pointer does not name; a removal that fails ends it.
StCleanup ==
    /\ StMaintAt("tree") /\ stMaint.op = "cleanup"
    /\ \E left \in {d \in [StGeneration -> StDir] : \A g \in StGeneration :
                       d[g] \in IF g = stPtr.visible THEN {stGen[g].visible}
                                ELSE StRemoved(stGen[g].visible)} :
         stGen' = [g \in StGeneration |-> [stGen[g] EXCEPT !.visible = left[g]]]
    /\ stTemp' \in {{}, stTemp}
    /\ StMaintGoto("release")
    /\ UNCHANGED <<stLoad, stUp, stPtr, stLocks, stPub, stRead, stAcked>>

\* The lock is dropped: all is done, a removal failed, or the daemon was killed.
StMaintRelease ==
    /\ stUp /\ stMaint.pc \in {"tree", "pointer", "release"}
    /\ stExclusive' = FALSE
    /\ stMaint' = StIdleMaintenance
    /\ UNCHANGED <<stLoad, stUp, stDisk, stShared, stKeyLock, stPub, stRead, stAcked>>

-----------------------------------------------------------------------------
(* Power loss *)

\* What was not synced may be lost or kept, each name on its own.
StPowerLoss ==
    /\ stLoad.power /\ stUp /\ stUp' = FALSE
    /\ \E p \in {stPtr.visible, stPtr.durable} : stPtr' = [visible |-> p, durable |-> p]
    /\ \E d \in [StGeneration -> StDir] :
         /\ \A g \in StGeneration : d[g] \in {stGen[g].visible, stGen[g].durable}
         /\ stGen' = [g \in StGeneration |-> [visible |-> d[g], durable |-> d[g]]]
    /\ stShared' = {} /\ stExclusive' = FALSE /\ stKeyLock' = StNone
    /\ stPub' = [p \in StPublisher |-> StIdlePublisher]
    /\ stRead' = [r \in StReader |-> StIdleReader]
    /\ stMaint' = StIdleMaintenance
    /\ UNCHANGED <<stLoad, stTemp, stAcked>>

StBoot ==
    /\ ~stUp /\ stUp' = TRUE
    /\ UNCHANGED <<stLoad, stDisk, stLocks, stPub, stRead, stMaint, stAcked>>

-----------------------------------------------------------------------------

StNext ==
    \/ \E p \in stLoad.publish :
        \/ \E g \in StGeneration : StPublishLock(p, g)
        \/ StPublishKeyLock(p) \/ StStageOutputs(p) \/ StCheckPointer(p)
        \/ StConflictTree(p) \/ StConflictPointer(p)
        \/ StRenameGeneration(p) \/ StSyncKeyRoot(p) \/ StCommitPointer(p)
        \/ StCommitFails(p) \/ StSyncPointer(p) \/ StPublished(p)
        \/ StPublishFails(p) \/ StPublisherDies(p)
    \/ \E r \in stLoad.read :
        StProbe(r) \/ StReadLock(r) \/ StResolve(r) \/ StDeliver(r) \/ StReadRelease(r)
    \/ \E op \in {"evict", "clear", "cleanup"} : StScan(op)
    \/ StMaintLock \/ StMaintDefer \/ StEvictChanged \/ StRemoveTree \/ StRemovePointer
    \/ StClearPointerFirst \/ StCleanup \/ StMaintRelease
    \/ StPowerLoss \/ StBoot

StSpec == StInit /\ [][StNext]_stVars

-----------------------------------------------------------------------------
(* Properties *)

StDelivering(r) == stRead[r].pc \in {"resolved", "copied"}

\* Eviction, Clear and cleanup disturb nobody, whatever fails or dies: the lease
\* of a cache hit protects the generation it resolved, and the temporary
\* directory of a publication at work stays, with no other publication of the
\* key beside it.  A conflicting publication does remove what the pointer names
\* under a reader: it shares the lock.
StMaintenanceIsAlone ==
    /\ \A r \in StReader : StDelivering(r) /\ ~stRead[r].conflict => StValid(stRead[r].gen)
    /\ \A p \in StPublisher :
         stPub[p].pc \in {"staging", "staged", "manifest"} => p \in stTemp /\ stKeyLock = p

\* A publication that was reported and not withdrawn is found after any kill or
\* power loss: the generation's name was durable before the pointer, and the
\* pointer before the report.
StAckedIsDurable ==
    stAcked # StNone =>
        /\ stPtr = [visible |-> stAcked, durable |-> stAcked]
        /\ stGen[stAcked].visible # "absent" /\ stGen[stAcked].durable # "absent"

\* The detailed store implements the published cell: no sequence of kills,
\* failed removals, conflicts and power losses replaces one complete set of
\* outputs by another without a miss in between.
StCell == INSTANCE PublishedCell WITH
    Generation <- StGeneration, NoGeneration <- StNone,
    cell <- IF stUp /\ StValid(stPtr.visible) THEN stPtr.visible ELSE StNone

StImplementsCell == StCell!CellSpec
=============================================================================
