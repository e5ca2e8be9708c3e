--------------------------- MODULE ArtifactIndexLog ---------------------------
(***************************************************************************)
(* The artifact index: the rows that make published files findable after a *)
(* restart (wal.rs, zccache-artifact store.rs, loaders.rs, miss_store.rs). *)
(* Publishers write an artifact's files, then send its row to the index    *)
(* writer, which collects rows in a log, applies the log to the store and  *)
(* replaces index.bin by the whole store.  The store starts empty; rows of *)
(* earlier daemons are merged in by a background loader, or by the first   *)
(* lookup that needs them.  A row stands for its key.                      *)
(***************************************************************************)
EXTENDS Naturals, Sequences, FiniteSets

CONSTANTS
    IxKey,          \* artifact keys
    IxPublisher,    \* tasks that publish artifacts
    IxMaxQueue,     \* commands in the index writer's channel
    IxMaxPending    \* rows in the log that force a flush

ASSUME IxAssumption == IxMaxQueue \in Nat /\ IxMaxPending \in Nat \ {0}

VARIABLES
    ixDaemon,       \* up, the stages of the shutdown drain, stopped or killed
    ixFiles,        \* keys whose payload files are on disk
    ixDisk,         \* the rows of index.bin
    ixMem,          \* state.artifacts
    ixStore,        \* ArtifactStore::entries and its dirty flag
    ixDirty,
    ixWal,          \* the writer's log
    ixQueue,        \* the writer's channel
    ixWriter,       \* the writer: idle, or flushing the rows of a snapshot
    ixLoaded,       \* artifact_store_loaded
    ixLoad,         \* load_from_disk in the background task and in a request
    ixPub,          \* the publishers
    ixGuard,        \* the task that holds the publication lock for writing
    ixGone,         \* keys whose files were removed and not published again
    ixOurs,         \* rows this daemon committed and nobody asked to remove
    ixErased,       \* rows whose removal reached the disk, not committed again
    ixExcused       \* a write failed, or a wait of the drain was cut short

ixFlags == <<ixGone, ixOurs, ixErased, ixExcused>>
ixMemory == <<ixMem, ixStore, ixDirty, ixLoaded, ixLoad>>
ixLog == <<ixWal, ixQueue, ixWriter>>
ixVars == <<ixDaemon, ixFiles, ixDisk, ixMemory, ixLog, ixPub, ixGuard, ixFlags>>

IxCommand == [op : {"Insert", "Touch", "Remove"}, key : IxKey]
                \cup [op : {"Clear", "Flush"}]
IxUnguarded == [op |-> "none", keys |-> {}]

IxLoader == {"background", "request"}
IxWriterState == [pc : {"idle", "snapshot", "write"}, rows : SUBSET IxKey, erase : SUBSET IxKey]
IxLoaderState == [pc : {"todo", "read", "done"}, rows : SUBSET IxKey]
IxPublisherState == [pc : {"idle", "guarded", "persisted", "conflict"}, key : IxKey]
IxGuardState ==
    [op : {"none", "maintain", "clear", "cleared", "shutdown"}, keys : SUBSET IxKey]

IxTypeOK ==
    /\ ixDaemon \in {"up", "draining", "flushing", "stopping", "saving", "saved", "stopped",
                    "killed"}
    /\ \A s \in {ixFiles, ixDisk, ixMem, ixStore, ixWal, ixGone, ixOurs, ixErased} :
         s \subseteq IxKey
    /\ ixDirty \in BOOLEAN /\ ixLoaded \in BOOLEAN /\ ixExcused \in BOOLEAN
    /\ ixQueue \in Seq(IxCommand) /\ Len(ixQueue) <= IxMaxQueue
    /\ ixWriter \in IxWriterState
    /\ ixLoad \in [IxLoader -> IxLoaderState]
    /\ ixPub \in [IxPublisher -> IxPublisherState]
    /\ ixGuard \in IxGuardState
    /\ ixGuard.op # "none" =>
         \A p \in IxPublisher : ixPub[p].pc \notin {"guarded", "persisted"}

IxNotLoading == [l \in IxLoader |-> [pc |-> "todo", rows |-> {}]]
IxIdleWriter == [pc |-> "idle", rows |-> {}, erase |-> {}]

\* A daemon over the index of an earlier one.
IxInit ==
    /\ ixDaemon = "up"
    /\ ixDisk \in SUBSET IxKey /\ ixFiles = ixDisk
    /\ ixMem = {} /\ ixStore = {} /\ ixDirty = FALSE
    /\ ixWal = {} /\ ixQueue = <<>> /\ ixWriter = IxIdleWriter
    /\ ixLoaded = FALSE /\ ixLoad = IxNotLoading
    /\ ixPub \in [IxPublisher -> [pc : {"idle"}, key : IxKey]]
    /\ ixGuard = IxUnguarded
    /\ ixGone = {} /\ ixOurs = {} /\ ixErased = {} /\ ixExcused = FALSE

IxRunning == ixDaemon \notin {"stopped", "killed"}
IxLeases == {p \in IxPublisher : ixPub[p].pc \in {"guarded", "persisted"}}
IxReadable == ixGuard = IxUnguarded
IxWritable == ixGuard = IxUnguarded /\ IxLeases = {} /\ ixLoad["request"].pc # "read"

\* The rows on their way to the writer.
IxQueued == {ixQueue[i].key : i \in {j \in 1..Len(ixQueue) : ixQueue[j].op = "Insert"}}

IxSend(cmd) == Len(ixQueue) < IxMaxQueue /\ ixQueue' = Append(ixQueue, cmd)

-----------------------------------------------------------------------------
(* Publication *)

\* begin_artifact_publication: refused once shutdown was requested.
IxBegin(p, k) ==
    /\ ixDaemon = "up" /\ ixPub[p].pc = "idle" /\ IxReadable
    /\ ixPub' = [ixPub EXCEPT ![p] = [pc |-> "guarded", key |-> k]]
    /\ UNCHANGED <<ixDaemon, ixFiles, ixDisk, ixMemory, ixLog, ixGuard, ixFlags>>

\* persist_artifact_paths: the files are durable.
IxPersist(p) ==
    /\ ixPub[p].pc = "guarded"
    /\ ixFiles' = ixFiles \cup {ixPub[p].key}
    /\ ixGone' = ixGone \ {ixPub[p].key}
    /\ ixPub' = [ixPub EXCEPT ![p].pc = "persisted"]
    /\ UNCHANGED <<ixDaemon, ixDisk, ixMemory, ixLog, ixGuard, ixOurs, ixErased, ixExcused>>

\* The files could not be written.
IxPersistFails(p) ==
    /\ ixPub[p].pc = "guarded"
    /\ ixPub' = [ixPub EXCEPT ![p].pc = "idle"]
    /\ UNCHANGED <<ixDaemon, ixFiles, ixDisk, ixMemory, ixLog, ixGuard, ixFlags>>

\* Mutant: the row is sent before the files are written.
IxCommitEarly(p) ==
    /\ ixPub[p].pc \in {"guarded", "persisted"}
    /\ IxSend([op |-> "Insert", key |-> ixPub[p].key])
    /\ ixMem' = ixMem \cup {ixPub[p].key}
    /\ ixOurs' = ixOurs \cup {ixPub[p].key}
    /\ ixErased' = ixErased \ {ixPub[p].key}
    /\ ixPub' = [ixPub EXCEPT ![p].pc = "idle"]
    /\ UNCHANGED <<ixDaemon, ixFiles, ixDisk, ixStore, ixDirty, ixLoaded, ixLoad, ixWal, ixWriter,
                   ixGuard, ixGone, ixExcused>>

\* send_staged_index_insert or enqueue_index_insert, the entry in memory, and
\* the end of the lease.
IxCommit(p) ==
    /\ ixPub[p].pc = "persisted"
    /\ IxSend([op |-> "Insert", key |-> ixPub[p].key])
    /\ ixMem' = ixMem \cup {ixPub[p].key}
    /\ ixOurs' = ixOurs \cup {ixPub[p].key}
    /\ ixErased' = ixErased \ {ixPub[p].key}
    /\ ixPub' = [ixPub EXCEPT ![p].pc = "idle"]
    /\ UNCHANGED <<ixDaemon, ixFiles, ixDisk, ixStore, ixDirty, ixLoaded, ixLoad, ixWal, ixWriter,
                   ixGuard, ixGone, ixExcused>>

\* The key has other bytes already: the files are withdrawn, the lease ends ...
IxConflict(p) ==
    /\ ixPub[p].pc = "guarded" /\ ixPub[p].key \in ixFiles
    /\ ixFiles' = ixFiles \ {ixPub[p].key}
    /\ ixGone' = ixGone \cup {ixPub[p].key}
    /\ ixPub' = [ixPub EXCEPT ![p].pc = "conflict"]
    /\ UNCHANGED <<ixDaemon, ixDisk, ixMemory, ixLog, ixGuard, ixOurs, ixErased, ixExcused>>

\* ... and without it the row is removed.
IxConflictRemove(p) ==
    /\ ixPub[p].pc = "conflict"
    /\ IxSend([op |-> "Remove", key |-> ixPub[p].key])
    /\ ixMem' = ixMem \ {ixPub[p].key}
    /\ ixOurs' = ixOurs \ {ixPub[p].key}
    /\ ixPub' = [ixPub EXCEPT ![p].pc = "idle"]
    /\ UNCHANGED <<ixDaemon, ixFiles, ixDisk, ixStore, ixDirty, ixLoaded, ixLoad, ixWal, ixWriter,
                   ixGuard, ixGone, ixErased, ixExcused>>

-----------------------------------------------------------------------------
(* Lookup and the deferred load *)

\* ArtifactStoreLoader in the background, or lookup_artifact_with_disk_fallback
\* and durable_rustc_index, which hold a lease: index.bin is read ...
IxLoadRead(l) ==
    /\ IxRunning /\ ixLoad[l].pc = "todo"
    /\ l = "request" => ixDaemon = "up" /\ ~ixLoaded /\ IxReadable
    /\ ixLoad' = [ixLoad EXCEPT ![l] = [pc |-> "read", rows |-> ixDisk]]
    /\ UNCHANGED <<ixDaemon, ixFiles, ixDisk, ixMem, ixStore, ixDirty, ixLoaded, ixLog, ixPub,
                   ixGuard, ixFlags>>

\* ... and rows the store does not have are inserted; the store is not dirty.
IxLoadInstall(l) ==
    /\ IxRunning /\ ixLoad[l].pc = "read"
    /\ ixStore' = ixStore \cup ixLoad[l].rows
    /\ ixLoaded' = TRUE
    /\ ixLoad' = [ixLoad EXCEPT ![l] = [pc |-> "done", rows |-> {}]]
    /\ UNCHANGED <<ixDaemon, ixFiles, ixDisk, ixMem, ixDirty, ixLog, ixPub, ixGuard, ixFlags>>

\* A lookup of a loaded store copies the row into state.artifacts.
IxLookup(k) ==
    /\ ixDaemon = "up" /\ IxReadable /\ ixLoaded /\ k \in ixStore \ ixMem
    /\ ixMem' = ixMem \cup {k}
    /\ UNCHANGED <<ixDaemon, ixFiles, ixDisk, ixStore, ixDirty, ixLoaded, ixLoad, ixLog, ixPub,
                   ixGuard, ixFlags>>

\* A hit refreshes the row's access time through the writer, under its lease.
IxTouch(k) ==
    /\ ixDaemon = "up" /\ IxReadable /\ k \in ixMem
    /\ IxSend([op |-> "Touch", key |-> k])
    /\ UNCHANGED <<ixDaemon, ixFiles, ixDisk, ixMemory, ixWal, ixWriter, ixPub, ixGuard, ixFlags>>

-----------------------------------------------------------------------------
(* The index writer *)

IxReceive(op) == IxRunning /\ ixWriter.pc = "idle" /\ ixQueue # <<>> /\ Head(ixQueue).op = op

\* flush_wal_to_disk: an empty log ends it, else the log goes to the store.
IxApplied(wal) ==
    IF wal = {} THEN ixWal' = {} /\ UNCHANGED <<ixStore, ixDirty, ixWriter>>
    ELSE /\ ixStore' = ixStore \cup wal
         /\ ixDirty' = TRUE
         /\ ixWal' = {}
         /\ ixWriter' = [ixWriter EXCEPT !.pc = "snapshot"]

\* A log of max_pending rows is flushed at once.
IxCollect(wal) ==
    IF Cardinality(wal) >= IxMaxPending THEN IxApplied(wal)
    ELSE ixWal' = wal /\ UNCHANGED <<ixStore, ixDirty, ixWriter>>

IxInsert ==
    /\ IxReceive("Insert")
    /\ LET wal == ixWal \cup {Head(ixQueue).key} IN IxCollect(wal)
    /\ ixQueue' = Tail(ixQueue)
    /\ UNCHANGED <<ixDaemon, ixFiles, ixDisk, ixMem, ixLoaded, ixLoad, ixPub, ixGuard, ixFlags>>

\* Mutant: a touch writes the row whether or not there is one.
IxTouchedBlind ==
    /\ IxReceive("Touch")
    /\ LET wal == ixWal \cup {Head(ixQueue).key} IN IxCollect(wal)
    /\ ixQueue' = Tail(ixQueue)
    /\ UNCHANGED <<ixDaemon, ixFiles, ixDisk, ixMem, ixLoaded, ixLoad, ixPub, ixGuard, ixFlags>>

\* Only a row of the log or of the store is touched.
IxTouched ==
    /\ IxReceive("Touch")
    /\ LET wal == ixWal \cup ({Head(ixQueue).key} \cap ixStore) IN IxCollect(wal)
    /\ ixQueue' = Tail(ixQueue)
    /\ UNCHANGED <<ixDaemon, ixFiles, ixDisk, ixMem, ixLoaded, ixLoad, ixPub, ixGuard, ixFlags>>

IxRemove ==
    /\ IxReceive("Remove")
    /\ LET k == Head(ixQueue).key IN
       /\ ixWal' = ixWal \ {k}
       /\ ixStore' = ixStore \ {k}
       /\ ixDirty' = (ixDirty \/ k \in ixStore)
       /\ ixWriter' = [pc |-> "snapshot", rows |-> {}, erase |-> {k}]
    /\ ixQueue' = Tail(ixQueue)
    /\ UNCHANGED <<ixDaemon, ixFiles, ixDisk, ixMem, ixLoaded, ixLoad, ixPub, ixGuard, ixFlags>>

IxClear ==
    /\ IxReceive("Clear")
    /\ ixWal' = {} /\ ixStore' = {}
    /\ ixDirty' = (ixDirty \/ ixStore # {})
    /\ ixWriter' = [pc |-> "snapshot", rows |-> {}, erase |-> IxKey]
    /\ ixQueue' = Tail(ixQueue)
    /\ UNCHANGED <<ixDaemon, ixFiles, ixDisk, ixMem, ixLoaded, ixLoad, ixPub, ixGuard, ixFlags>>

\* The flush of the drain; its acknowledgement follows the write.
IxFlush ==
    /\ IxReceive("Flush")
    /\ IxApplied(ixWal)
    /\ ixQueue' = Tail(ixQueue)
    /\ UNCHANGED <<ixDaemon, ixFiles, ixDisk, ixMem, ixLoaded, ixLoad, ixPub, ixGuard, ixFlags>>

\* The flush timer.
IxTick ==
    /\ IxRunning /\ ixWriter.pc = "idle" /\ ixWal # {}
    /\ IxApplied(ixWal)
    /\ UNCHANGED <<ixDaemon, ixFiles, ixDisk, ixMem, ixLoaded, ixLoad, ixQueue, ixPub, ixGuard, ixFlags>>

\* ArtifactStore::flush: the dirty flag is cleared before the rows are copied.
IxSnapshot ==
    /\ ixWriter.pc = "snapshot"
    /\ ixDirty' = FALSE
    /\ ixWriter' = [ixWriter EXCEPT !.pc = "write", !.rows = ixStore]
    /\ UNCHANGED <<ixDaemon, ixFiles, ixDisk, ixMem, ixStore, ixLoaded, ixLoad, ixWal, ixQueue,
                   ixPub, ixGuard, ixFlags>>

\* write_atomic_durable: index.bin is replaced.
IxWrite ==
    /\ ixWriter.pc = "write"
    /\ ixDisk' = ixWriter.rows
    /\ ixErased' = ixErased \cup {k \in ixWriter.erase : k \notin ixOurs \cup IxQueued \cup ixStore \cup ixWriter.rows
                                     /\ \A l \in DOMAIN ixLoad : k \notin ixLoad[l].rows}
    /\ ixWriter' = IxIdleWriter
    /\ UNCHANGED <<ixDaemon, ixFiles, ixMemory, ixWal, ixQueue, ixPub, ixGuard, ixGone, ixOurs, ixExcused>>

IxWriteFails ==
    /\ ixWriter.pc = "write"
    /\ ixDirty' = TRUE
    /\ ixWriter' = IxIdleWriter
    /\ ixExcused' = TRUE
    /\ UNCHANGED <<ixDaemon, ixFiles, ixDisk, ixMem, ixStore, ixLoaded, ixLoad, ixWal, ixQueue, ixPub,
                   ixGuard, ixGone, ixOurs, ixErased>>

-----------------------------------------------------------------------------
(* Maintenance and Clear, under the publication lock for writing *)

\* maintain_disk_artifacts_with_barrier: the files of a planned key go ...
IxMaintain(k) ==
    /\ ixDaemon = "up" /\ IxWritable /\ k \in ixFiles
    /\ ixGuard' = [op |-> "maintain", keys |-> {k}]
    /\ ixFiles' = ixFiles \ {k}
    /\ ixGone' = ixGone \cup {k}
    /\ UNCHANGED <<ixDaemon, ixDisk, ixMemory, ixLog, ixPub, ixOurs, ixErased, ixExcused>>

\* ... then its row, in memory here and on disk by the writer.
IxMaintainIndex(k) ==
    /\ ixGuard = [op |-> "maintain", keys |-> {k}]
    /\ IxSend([op |-> "Remove", key |-> k])
    /\ ixStore' = ixStore \ {k}
    /\ ixDirty' = (ixDirty \/ k \in ixStore)
    /\ ixMem' = ixMem \ {k}
    /\ ixOurs' = ixOurs \ {k}
    /\ ixGuard' = IxUnguarded
    /\ UNCHANGED <<ixDaemon, ixFiles, ixDisk, ixLoaded, ixLoad, ixWal, ixWriter, ixPub, ixGone, ixErased,
                   ixExcused>>

\* A file that cannot be removed ends the pass before any row is.
IxMaintainFails ==
    /\ ixGuard.op = "maintain"
    /\ ixOurs' = ixOurs \ ixGuard.keys
    /\ ixGuard' = IxUnguarded
    /\ UNCHANGED <<ixDaemon, ixFiles, ixDisk, ixMemory, ixLog, ixPub, ixGone, ixErased, ixExcused>>

\* handle_clear: the entries in memory and the files go ...
IxClearBegin ==
    /\ ixDaemon = "up" /\ IxWritable
    /\ ixGuard' = [op |-> "clear", keys |-> {}]
    /\ ixMem' = {}
    /\ ixFiles' = {}
    /\ ixGone' = ixGone \cup ixFiles
    /\ UNCHANGED <<ixDaemon, ixDisk, ixStore, ixDirty, ixLoaded, ixLoad, ixLog, ixPub, ixOurs, ixErased,
                   ixExcused>>

\* ... and the writer is asked to erase the index.
IxClearSend ==
    /\ ixGuard.op = "clear"
    /\ IxSend([op |-> "Clear"])
    /\ ixOurs' = {}
    /\ ixGuard' = [op |-> "cleared", keys |-> {}]
    /\ UNCHANGED <<ixDaemon, ixFiles, ixDisk, ixMemory, ixWal, ixWriter, ixPub, ixGone, ixErased, ixExcused>>

\* The writer acknowledged, or the wait was cut short.
IxClearEnd ==
    /\ ixGuard.op = "cleared"
    /\ ixGuard' = IxUnguarded
    /\ UNCHANGED <<ixDaemon, ixFiles, ixDisk, ixMemory, ixLog, ixPub, ixFlags>>

-----------------------------------------------------------------------------
(* drain_durable_state_for_shutdown *)

IxShutdown ==
    /\ ixDaemon = "up" /\ ixDaemon' = "draining"
    /\ UNCHANGED <<ixFiles, ixDisk, ixMemory, ixLog, ixPub, ixGuard, ixFlags>>

\* Mutant: the flush is sent without waiting for the publishers.
IxDrainEager ==
    /\ ixDaemon = "draining"
    /\ ixGuard' = [op |-> "shutdown", keys |-> {}]
    /\ IxSend([op |-> "Flush"])
    /\ ixDaemon' = "flushing"
    /\ UNCHANGED <<ixFiles, ixDisk, ixMemory, ixWal, ixWriter, ixPub, ixFlags>>

\* Publications end, no lookup or maintenance is left; the flush is queued
\* behind every row.
IxDrain ==
    /\ ixDaemon = "draining" /\ IxWritable
    /\ ixGuard' = [op |-> "shutdown", keys |-> {}]
    /\ IxSend([op |-> "Flush"])
    /\ ixDaemon' = "flushing"
    /\ UNCHANGED <<ixFiles, ixDisk, ixMemory, ixWal, ixWriter, ixPub, ixFlags>>

\* The acknowledgement, or the end of its budget; the writer is told to stop.
IxFlushed(acknowledged) ==
    /\ ixDaemon = "flushing"
    /\ acknowledged => ixQueue = <<>> /\ ixWriter.pc = "idle"
    /\ ixExcused' = (ixExcused \/ ~acknowledged)
    /\ ixDaemon' = "stopping"
    /\ UNCHANGED <<ixFiles, ixDisk, ixMemory, ixLog, ixPub, ixGuard, ixGone, ixOurs, ixErased>>

\* The writer drained its channel and its log, or it is cancelled.
IxWriterStops(joined) ==
    /\ ixDaemon = "stopping"
    /\ joined => ixQueue = <<>> /\ ixWal = {} /\ ixWriter.pc = "idle"
    /\ ixExcused' = (ixExcused \/ ~joined)
    /\ ixWal' = {} /\ ixQueue' = <<>> /\ ixWriter' = IxIdleWriter
    /\ ixDaemon' = "saving"
    /\ UNCHANGED <<ixFiles, ixDisk, ixMemory, ixPub, ixGuard, ixGone, ixOurs, ixErased>>

\* take_dirty and the final flush of what never went through the writer.
IxFinalFlush ==
    /\ ixDaemon = "saving" /\ ixDirty
    /\ ixDaemon' = "saved"
    /\ ixDirty' = FALSE
    /\ ixWriter' = [ixWriter EXCEPT !.pc = "snapshot"]
    /\ UNCHANGED <<ixFiles, ixDisk, ixMem, ixStore, ixLoaded, ixLoad, ixWal, ixQueue, ixPub,
                   ixGuard, ixFlags>>

IxForgotten ==
    /\ ixMem' = {} /\ ixStore' = {} /\ ixDirty' = FALSE
    /\ ixWal' = {} /\ ixQueue' = <<>> /\ ixWriter' = IxIdleWriter
    /\ ixLoaded' = FALSE /\ ixLoad' = IxNotLoading
    /\ ixPub' = [p \in IxPublisher |-> [ixPub[p] EXCEPT !.pc = "idle"]]
    /\ ixGuard' = IxUnguarded

IxExit ==
    /\ \/ ixDaemon = "saving" /\ ~ixDirty
       \/ ixDaemon = "saved" /\ ixWriter.pc = "idle"
    /\ ixDaemon' = "stopped"
    /\ IxForgotten
    /\ UNCHANGED <<ixFiles, ixDisk, ixFlags>>

IxKilled ==
    /\ IxRunning
    /\ ixDaemon' = "killed"
    /\ IxForgotten
    /\ UNCHANGED <<ixFiles, ixDisk, ixFlags>>

IxRestart ==
    /\ ~IxRunning
    /\ ixDaemon' = "up"
    /\ ixOurs' = {} /\ ixExcused' = FALSE
    /\ UNCHANGED <<ixFiles, ixDisk, ixMemory, ixLog, ixPub, ixGuard, ixGone, ixErased>>

-----------------------------------------------------------------------------

IxNext ==
    \/ \E p \in IxPublisher :
        \/ \E k \in IxKey : IxBegin(p, k)
        \/ IxPersist(p) \/ IxPersistFails(p) \/ IxCommit(p) \/ IxConflict(p) \/ IxConflictRemove(p)
    \/ \E l \in IxLoader : IxLoadRead(l) \/ IxLoadInstall(l)
    \/ \E k \in IxKey : IxLookup(k) \/ IxTouch(k) \/ IxMaintain(k) \/ IxMaintainIndex(k)
    \/ IxInsert \/ IxTouched \/ IxRemove \/ IxClear \/ IxFlush \/ IxTick
    \/ IxSnapshot \/ IxWrite \/ IxWriteFails
    \/ IxMaintainFails \/ IxClearBegin \/ IxClearSend \/ IxClearEnd
    \/ IxShutdown \/ IxDrain \/ IxFinalFlush \/ IxExit \/ IxKilled \/ IxRestart
    \/ \E inTime \in BOOLEAN : IxFlushed(inTime) \/ IxWriterStops(inTime)

IxSpec == IxInit /\ [][IxNext]_ixVars

-----------------------------------------------------------------------------
(* Properties *)

\* A row never precedes its files: wherever a row is, in the channel, the log,
\* the store or index.bin, the files were on disk before it and are still
\* there unless something removed them since; kills do not change that.
IxRowHasFiles == ixDisk \cup ixStore \cup ixWal \cup IxQueued \subseteq ixFiles \cup ixGone

\* A graceful stop loses no row this daemon committed: the drain waits for the
\* publishers, then for the writer, then saves what is dirty.
IxGracefulStopKeeps == ixDaemon = "stopped" /\ ~ixExcused => ixOurs \subseteq ixDisk

\* A row whose removal reached the disk does not come back by a touch, a late
\* flush or a restart; a load that had read index.bin before is not counted.
IxErasedStaysErased == ixErased \cap (ixDisk \cup ixStore \cup ixWal) = {}

\* index.bin loses a row only after the files of its key were removed: at worst
\* a kill costs the rows that had not been flushed.
IxFlushKeepsRows == [][ixDisk \ ixDisk' \subseteq ixGone]_ixVars
=============================================================================
