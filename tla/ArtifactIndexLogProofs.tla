------------------------ MODULE ArtifactIndexLogProofs ------------------------
(***************************************************************************)
(* For any keys, publishers and bounds of the channel and of the log: type *)
(* correctness, a row never precedes its files, an erased row never comes  *)
(* back, and a graceful stop keeps every row the daemon committed.         *)
(***************************************************************************)
EXTENDS ArtifactIndexLog, TLAPS

-----------------------------------------------------------------------------
(* Type correctness *)

\* The command at the head of the channel, and what is left behind it.
LEMMA IxHead ==
    ASSUME ixQueue \in Seq(IxCommand), ixQueue # <<>>
    PROVE  /\ Head(ixQueue) \in IxCommand /\ Tail(ixQueue) \in Seq(IxCommand)
           /\ Len(Tail(ixQueue)) = Len(ixQueue) - 1 /\ Len(ixQueue) \in Nat \ {0}
           /\ Head(ixQueue) = ixQueue[1]
           /\ \A i \in 1..Len(Tail(ixQueue)) : Tail(ixQueue)[i] = ixQueue[i + 1]
           /\ Head(ixQueue).op \in {"Insert", "Touch", "Remove"} => Head(ixQueue).key \in IxKey
<1>1. Head(ixQueue) \in IxCommand
  OBVIOUS
<1>2. Head(ixQueue).op \in {"Insert", "Touch", "Remove"} => Head(ixQueue).key \in IxKey
  BY <1>1 DEF IxCommand
<1> QED
  BY <1>1, <1>2

\* What a send to the index writer does to its queue.
LEMMA IxSent ==
    ASSUME ixQueue \in Seq(IxCommand), Len(ixQueue) <= IxMaxQueue, NEW cmd \in IxCommand,
           IxSend(cmd)
    PROVE  /\ ixQueue' \in Seq(IxCommand) /\ Len(ixQueue') <= IxMaxQueue
           /\ Len(ixQueue) \in Nat /\ Len(ixQueue') = Len(ixQueue) + 1
           /\ ixQueue'[Len(ixQueue) + 1] = cmd
           /\ \A i \in 1..Len(ixQueue) : ixQueue'[i] = ixQueue[i]
BY IxAssumption DEF IxSend

\* A restart begins with an empty queue.
LEMMA IxEmptyQueue == <<>> \in Seq(IxCommand) /\ Len(<<>>) = 0 /\ Len(<<>>) <= IxMaxQueue
BY IxAssumption

\* What the handlers send are commands of the index writer.
LEMMA IxCommands ==
    /\ \A k \in IxKey : /\ [op |-> "Insert", key |-> k] \in IxCommand
                        /\ [op |-> "Touch", key |-> k] \in IxCommand
                        /\ [op |-> "Remove", key |-> k] \in IxCommand
    /\ [op |-> "Clear"] \in IxCommand /\ [op |-> "Flush"] \in IxCommand
BY DEF IxCommand

\* What the steps assign to loaders and writer has their type.
LEMMA IxRecords ==
    /\ \A pc \in {"todo", "read", "done"} : \A rows \in SUBSET IxKey :
         [pc |-> pc, rows |-> rows] \in IxLoaderState
    /\ \A pc \in {"idle", "snapshot", "write"} : \A rows, erase \in SUBSET IxKey :
         [pc |-> pc, rows |-> rows, erase |-> erase] \in IxWriterState
    /\ IxIdleWriter \in IxWriterState
    /\ IxNotLoading \in [IxLoader -> IxLoaderState]
<1>1. \A pc \in {"todo", "read", "done"} : \A rows \in SUBSET IxKey :
         [pc |-> pc, rows |-> rows] \in IxLoaderState
  BY DEF IxLoaderState
<1>2. \A pc \in {"idle", "snapshot", "write"} : \A rows, erase \in SUBSET IxKey :
         [pc |-> pc, rows |-> rows, erase |-> erase] \in IxWriterState
  BY DEF IxWriterState
<1>3. {} \in SUBSET IxKey
  OBVIOUS
<1>4. IxIdleWriter \in IxWriterState
  BY <1>2, <1>3 DEF IxIdleWriter
<1>5. [pc |-> "todo", rows |-> {}] \in IxLoaderState
  BY <1>1, <1>3
<1>6. IxNotLoading \in [IxLoader -> IxLoaderState]
  BY <1>5 DEF IxNotLoading
<1> QED
  BY <1>1, <1>2, <1>4, <1>6

\* What the writer's log, store and state become.
LEMMA IxCollected ==
    ASSUME NEW wal \in SUBSET IxKey, ixStore \subseteq IxKey, ixDirty \in BOOLEAN,
           ixWriter \in IxWriterState, IxCollect(wal) \/ IxApplied(wal)
    PROVE  /\ ixStore' \subseteq IxKey /\ ixDirty' \in BOOLEAN
           /\ ixWriter' \in IxWriterState /\ ixWal' \subseteq IxKey
           /\ ixWriter'.rows = ixWriter.rows /\ ixWriter'.erase = ixWriter.erase
           /\ \/ ixWal' = wal /\ UNCHANGED <<ixStore, ixDirty, ixWriter>>
              \/ ixWal' = {} /\ ixStore' = ixStore \cup wal /\ ixWriter'.pc = "snapshot"
<1>1. CASE ixWal' = wal /\ UNCHANGED <<ixStore, ixDirty, ixWriter>>
  BY <1>1
<1>2. CASE /\ ixStore' = ixStore \cup wal /\ ixDirty' = TRUE /\ ixWal' = {}
           /\ ixWriter' = [ixWriter EXCEPT !.pc = "snapshot"]
  BY <1>2 DEF IxWriterState
<1> QED
  BY <1>1, <1>2 DEF IxCollect, IxApplied

\* What each step of the writer does to its own record.
LEMMA IxWriterSteps ==
    ASSUME ixWriter \in IxWriterState
    PROVE  /\ IxSnapshot => /\ ixWriter'.pc = "write" /\ ixWriter'.rows = ixStore
                            /\ ixWriter'.erase = ixWriter.erase
           /\ IxFinalFlush => /\ ixWriter'.pc = "snapshot" /\ ixWriter'.rows = ixWriter.rows
                              /\ ixWriter'.erase = ixWriter.erase
           /\ IxWrite \/ IxWriteFails =>
                ixWriter'.pc = "idle" /\ ixWriter'.rows = {} /\ ixWriter'.erase = {}
<1>1. ASSUME IxSnapshot
      PROVE  /\ ixWriter'.pc = "write" /\ ixWriter'.rows = ixStore
             /\ ixWriter'.erase = ixWriter.erase
  BY <1>1 DEF IxSnapshot, IxWriterState
<1>2. ASSUME IxFinalFlush
      PROVE  /\ ixWriter'.pc = "snapshot" /\ ixWriter'.rows = ixWriter.rows
             /\ ixWriter'.erase = ixWriter.erase
  BY <1>2 DEF IxFinalFlush, IxWriterState
<1>3. ASSUME IxWrite \/ IxWriteFails
      PROVE  ixWriter'.pc = "idle" /\ ixWriter'.rows = {} /\ ixWriter'.erase = {}
  BY <1>3 DEF IxWrite, IxWriteFails, IxIdleWriter
<1> QED
  BY <1>1, <1>2, <1>3

\* The parts of the state, and how a step that changes some of them keeps the types.
IxSetsOK ==
    /\ ixFiles \subseteq IxKey /\ ixDisk \subseteq IxKey /\ ixMem \subseteq IxKey
    /\ ixGone \subseteq IxKey /\ ixOurs \subseteq IxKey /\ ixErased \subseteq IxKey
IxStoreOK ==
    /\ ixStore \subseteq IxKey /\ ixWal \subseteq IxKey /\ ixDirty \in BOOLEAN
    /\ ixWriter \in IxWriterState
IxQueueOK == ixQueue \in Seq(IxCommand) /\ Len(ixQueue) <= IxMaxQueue
IxLoadOK == ixLoaded \in BOOLEAN /\ ixLoad \in [IxLoader -> IxLoaderState]
IxPubOK ==
    /\ ixPub \in [IxPublisher -> IxPublisherState] /\ ixGuard \in IxGuardState
    /\ ixGuard.op # "none" =>
         \A p \in IxPublisher : ixPub[p].pc \notin {"guarded", "persisted"}
IxDaemonOK ==
    /\ ixDaemon \in {"up", "draining", "flushing", "stopping", "saving", "saved", "stopped",
                    "killed"}
    /\ ixExcused \in BOOLEAN

\* Type correctness, part by part.
LEMMA IxParts ==
    IxTypeOK <=> IxSetsOK /\ IxStoreOK /\ IxQueueOK /\ IxLoadOK /\ IxPubOK /\ IxDaemonOK
BY DEF IxTypeOK, IxSetsOK, IxStoreOK, IxQueueOK, IxLoadOK, IxPubOK, IxDaemonOK

\* A publisher moves on.
LEMMA IxPubMoves ==
    ASSUME IxPubOK, NEW p \in IxPublisher, UNCHANGED ixGuard,
           NEW pc \in {"idle", "guarded", "persisted", "conflict"}, NEW k \in IxKey,
           \/ ixPub' = [ixPub EXCEPT ![p] = [pc |-> pc, key |-> k]]
           \/ ixPub' = [ixPub EXCEPT ![p].pc = pc],
           ixGuard.op = "none" \/ pc \in {"idle", "conflict"}
    PROVE  IxPubOK'
<1>1. ixPub' \in [IxPublisher -> IxPublisherState]
  BY DEF IxPubOK, IxPublisherState
<1>2. \A q \in IxPublisher : ixPub'[q].pc = pc \/ ixPub'[q] = ixPub[q]
  BY DEF IxPubOK, IxPublisherState
<1> QED
  BY <1>1, <1>2 DEF IxPubOK

\* Every step keeps the types.
LEMMA IxTypeStep == IxTypeOK /\ [IxNext]_ixVars => IxTypeOK'
<1> SUFFICES ASSUME IxTypeOK, [IxNext]_ixVars PROVE IxTypeOK'
  OBVIOUS
<1>a. IxSetsOK /\ IxStoreOK /\ IxQueueOK /\ IxLoadOK /\ IxPubOK /\ IxDaemonOK
  BY IxParts
<1>b. IxSetsOK' /\ IxStoreOK' /\ IxQueueOK' /\ IxLoadOK' /\ IxPubOK' /\ IxDaemonOK' => IxTypeOK'
  BY DEF IxTypeOK, IxSetsOK, IxStoreOK, IxQueueOK, IxLoadOK, IxPubOK, IxDaemonOK
<1> USE <1>a
<1>c. /\ UNCHANGED <<ixFiles, ixDisk, ixMem, ixGone, ixOurs, ixErased>> => IxSetsOK'
      /\ UNCHANGED <<ixStore, ixWal, ixDirty, ixWriter>> => IxStoreOK'
      /\ UNCHANGED ixQueue => IxQueueOK'
      /\ UNCHANGED <<ixLoaded, ixLoad>> => IxLoadOK'
      /\ UNCHANGED <<ixPub, ixGuard>> => IxPubOK'
      /\ UNCHANGED <<ixDaemon, ixExcused>> => IxDaemonOK'
  BY DEF IxSetsOK, IxStoreOK, IxQueueOK, IxLoadOK, IxPubOK, IxDaemonOK
<1>d. ASSUME NEW cmd \in IxCommand, IxSend(cmd) PROVE IxQueueOK'
  BY <1>d, IxSent DEF IxQueueOK
<1>e. ASSUME ixQueue # <<>>, ixQueue' = Tail(ixQueue) PROVE IxQueueOK'
  BY <1>e, IxHead, IxAssumption DEF IxQueueOK
<1>f. ASSUME NEW p \in IxPublisher
      PROVE  ixPub[p].key \in IxKey
               /\ (ixPub[p].pc \in {"guarded", "persisted"} => ixGuard.op = "none")
  BY DEF IxPubOK, IxPublisherState
<1>g. ASSUME NEW p \in IxPublisher, NEW pc \in {"idle", "persisted", "conflict"},
             ixPub[p].pc \in {"guarded", "persisted"} \/ pc \in {"idle", "conflict"},
             ixPub' = [ixPub EXCEPT ![p].pc = pc], UNCHANGED ixGuard
      PROVE  IxPubOK'
  BY <1>f, <1>g, IxPubMoves
<1>1. ASSUME NEW p \in IxPublisher, NEW k \in IxKey, IxBegin(p, k) PROVE IxTypeOK'
  <2>1. IxPubOK'
    BY <1>1, IxPubMoves DEF IxBegin, IxReadable, IxUnguarded
  <2> QED
    BY <1>1, <1>b, <1>c, <2>1 DEF IxBegin, ixMemory, ixLog, ixFlags
<1>2. ASSUME NEW p \in IxPublisher, IxPersist(p) \/ IxPersistFails(p) \/ IxConflict(p)
      PROVE  IxTypeOK'
  <2>1. IxPubOK'
    BY <1>2, <1>g DEF IxPersist, IxPersistFails, IxConflict
  <2>2. IxSetsOK'
    BY <1>2, <1>f DEF IxSetsOK, IxPersist, IxPersistFails, IxConflict, ixFlags, ixMemory
  <2> QED
    BY <1>2, <1>b, <1>c, <2>1, <2>2
       DEF IxPersist, IxPersistFails, IxConflict, ixMemory, ixLog, ixFlags
<1>3. ASSUME NEW p \in IxPublisher, IxCommit(p) \/ IxConflictRemove(p) PROVE IxTypeOK'
  <2>1. IxPubOK'
    BY <1>3, <1>g DEF IxCommit, IxConflictRemove
  <2>2. IxSetsOK'
    BY <1>3, <1>f DEF IxSetsOK, IxCommit, IxConflictRemove
  <2>3. IxQueueOK'
    BY <1>3, <1>d, <1>f, IxCommands DEF IxCommit, IxConflictRemove
  <2> QED
    BY <1>3, <1>b, <1>c, <2>1, <2>2, <2>3 DEF IxCommit, IxConflictRemove
<1>4. ASSUME NEW l \in IxLoader, IxLoadRead(l) \/ IxLoadInstall(l) PROVE IxTypeOK'
  <2>1. IxLoadOK'
    <3>1. ASSUME NEW q \in IxLoaderState, ixLoad' = [ixLoad EXCEPT ![l] = q]
          PROVE  ixLoad' \in [IxLoader -> IxLoaderState]
      BY <3>1 DEF IxLoadOK
    <3>2. [pc |-> "read", rows |-> ixDisk] \in IxLoaderState
             /\ [pc |-> "done", rows |-> {}] \in IxLoaderState
      BY IxRecords DEF IxSetsOK
    <3> QED
      BY <1>4, <3>1, <3>2 DEF IxLoadRead, IxLoadInstall, IxLoadOK
  <2>2. IxStoreOK'
    BY <1>4 DEF IxStoreOK, IxLoadOK, IxLoaderState, IxLoadRead, IxLoadInstall, ixLog
  <2> QED
    BY <1>4, <1>b, <1>c, <2>1, <2>2 DEF IxLoadRead, IxLoadInstall, ixLog, ixFlags
<1>5. ASSUME NEW k \in IxKey, IxLookup(k) \/ IxTouch(k) PROVE IxTypeOK'
  <2>1. IxSetsOK'
    BY <1>5 DEF IxSetsOK, IxLookup, IxTouch, ixFlags, ixMemory
  <2>2. IxQueueOK'
    BY <1>5, <1>c, <1>d, IxCommands DEF IxLookup, IxTouch, ixLog
  <2> QED
    BY <1>5, <1>b, <1>c, <2>1, <2>2 DEF IxLookup, IxTouch, ixMemory, ixLog, ixFlags
<1>6. ASSUME NEW k \in IxKey, IxMaintain(k) \/ IxMaintainIndex(k) PROVE IxTypeOK'
  <2>1. IxSetsOK'
    BY <1>6 DEF IxSetsOK, IxMaintain, IxMaintainIndex, ixMemory
  <2>2. IxQueueOK'
    BY <1>6, <1>c, <1>d, IxCommands DEF IxMaintain, IxMaintainIndex, ixLog
  <2>3. IxPubOK'
    BY <1>6 DEF IxPubOK, IxMaintain, IxMaintainIndex, IxGuardState, IxUnguarded, IxWritable,
       IxLeases
  <2>4. IxStoreOK'
    BY <1>6 DEF IxStoreOK, IxMaintain, IxMaintainIndex, ixMemory, ixLog
  <2> QED
    BY <1>6, <1>b, <1>c, <2>1, <2>2, <2>3, <2>4 DEF IxMaintain, IxMaintainIndex, ixMemory, ixLog
<1>7. ASSUME IxInsert \/ IxTouched \/ IxFlush \/ IxTick PROVE IxTypeOK'
  <2>1. PICK wal : wal \subseteq IxKey /\ (IxCollect(wal) \/ IxApplied(wal))
    BY <1>7, IxHead DEF IxInsert, IxTouched, IxFlush, IxTick, IxReceive, IxQueueOK, IxStoreOK
  <2>2. IxStoreOK'
    BY <2>1, IxCollected DEF IxStoreOK
  <2>3. IxQueueOK'
    BY <1>7, <1>c, <1>e DEF IxInsert, IxTouched, IxFlush, IxTick, IxReceive
  <2> QED
    BY <1>7, <1>b, <1>c, <2>2, <2>3 DEF IxInsert, IxTouched, IxFlush, IxTick, ixFlags
<1>8. ASSUME IxRemove \/ IxClear PROVE IxTypeOK'
  <2>1. IxStoreOK'
    <3>1. ixWriter' \in IxWriterState
      BY <1>8, IxHead, IxRecords DEF IxRemove, IxClear, IxReceive, IxQueueOK
    <3>2. ixDirty' \in BOOLEAN /\ ixStore' \subseteq IxKey /\ ixWal' \subseteq IxKey
      BY <1>8 DEF IxStoreOK, IxRemove, IxClear
    <3> QED
      BY <3>1, <3>2 DEF IxStoreOK
  <2>2. IxQueueOK'
    BY <1>8, <1>e DEF IxRemove, IxClear, IxReceive
  <2> QED
    BY <1>8, <1>b, <1>c, <2>1, <2>2 DEF IxRemove, IxClear, ixFlags
<1>9. ASSUME IxSnapshot \/ IxWrite \/ IxWriteFails \/ IxFinalFlush PROVE IxTypeOK'
  <2>1. IxStoreOK'
    <3>1. ixWriter' \in IxWriterState
      <4>1. CASE IxWrite \/ IxWriteFails
        BY <4>1, IxRecords DEF IxWrite, IxWriteFails
      <4>2. CASE IxSnapshot \/ IxFinalFlush
        BY <4>2 DEF IxSnapshot, IxFinalFlush, IxStoreOK, IxWriterState
      <4> QED
        BY <1>9, <4>1, <4>2
    <3> QED
      BY <1>9, <3>1 DEF IxStoreOK, IxSnapshot, IxWrite, IxWriteFails, IxFinalFlush, ixMemory
  <2>2. IxSetsOK' /\ IxDaemonOK'
    BY <1>9 DEF IxSetsOK, IxDaemonOK, IxSnapshot, IxWrite, IxWriteFails, IxFinalFlush,
       IxStoreOK, IxWriterState, ixMemory, ixFlags
  <2> QED
    BY <1>9, <1>b, <1>c, <2>1, <2>2
       DEF IxSnapshot, IxWrite, IxWriteFails, IxFinalFlush, ixMemory, ixFlags
<1>10. ASSUME IxMaintainFails \/ IxClearBegin \/ IxClearSend \/ IxClearEnd \/ IxDrain
       PROVE  IxTypeOK'
  <2>1. IxSetsOK' /\ IxDaemonOK'
    BY <1>10 DEF IxSetsOK, IxDaemonOK, IxMaintainFails, IxClearBegin, IxClearSend, IxClearEnd,
       IxDrain, ixMemory, ixFlags
  <2>2. IxPubOK'
    BY <1>10 DEF IxPubOK, IxMaintainFails, IxClearBegin, IxClearSend, IxClearEnd, IxDrain,
       IxGuardState, IxUnguarded, IxWritable, IxLeases
  <2>3. IxQueueOK'
    BY <1>10, <1>c, <1>d, IxCommands
       DEF IxMaintainFails, IxClearBegin, IxClearSend, IxClearEnd, IxDrain, ixLog
  <2> QED
    BY <1>10, <1>b, <1>c, <2>1, <2>2, <2>3
       DEF IxMaintainFails, IxClearBegin, IxClearSend, IxClearEnd, IxDrain, ixMemory, ixLog
<1>11. ASSUME IxShutdown \/ IxRestart PROVE IxTypeOK'
  <2>1. IxSetsOK' /\ IxDaemonOK'
    BY <1>11 DEF IxSetsOK, IxDaemonOK, IxShutdown, IxRestart, ixMemory, ixFlags
  <2> QED
    BY <1>11, <1>b, <1>c, <2>1 DEF IxShutdown, IxRestart, ixMemory, ixLog
<1>12. ASSUME NEW inTime \in BOOLEAN, IxFlushed(inTime) \/ IxWriterStops(inTime) PROVE IxTypeOK'
  <2>1. IxSetsOK'
    BY <1>12 DEF IxSetsOK, IxFlushed, IxWriterStops, ixMemory
  <2>2. IxDaemonOK'
    BY <1>12 DEF IxDaemonOK, IxFlushed, IxWriterStops
  <2>3. IxStoreOK' /\ IxQueueOK'
    BY <1>12, IxEmptyQueue, IxRecords
       DEF IxStoreOK, IxQueueOK, IxFlushed, IxWriterStops, ixMemory, ixLog
  <2> QED
    BY <1>12, <1>b, <1>c, <2>1, <2>2, <2>3 DEF IxFlushed, IxWriterStops, ixMemory
<1>13. ASSUME IxExit \/ IxKilled PROVE IxTypeOK'
  <2>1. IxForgotten /\ UNCHANGED <<ixFiles, ixDisk, ixGone, ixOurs, ixErased, ixExcused>>
    BY <1>13 DEF IxExit, IxKilled, ixFlags
  <2>2. IxSetsOK' /\ IxDaemonOK'
    BY <1>13, <2>1 DEF IxSetsOK, IxDaemonOK, IxExit, IxKilled, IxForgotten
  <2>3. IxStoreOK' /\ IxQueueOK' /\ IxLoadOK'
    BY <2>1, IxEmptyQueue, IxRecords DEF IxStoreOK, IxQueueOK, IxLoadOK, IxForgotten
  <2>4. IxPubOK'
    BY <2>1 DEF IxPubOK, IxForgotten, IxUnguarded, IxGuardState, IxPublisherState
  <2> QED
    BY <1>b, <2>2, <2>3, <2>4
<1>14. CASE UNCHANGED ixVars
  BY <1>14, <1>b, <1>c DEF ixVars, ixMemory, ixLog, ixFlags
<1> QED
  BY <1>1, <1>2, <1>3, <1>4, <1>5, <1>6, <1>7, <1>8, <1>9, <1>10, <1>11, <1>12, <1>13, <1>14
     DEF IxNext

(***************************************************************************)
(* Type correctness of the index: in particular no publisher holds a lease *)
(* while Clear, maintenance or the drain holds the lock for writing.       *)
(***************************************************************************)
THEOREM IxTypeCorrect == IxSpec => []IxTypeOK
<1>1. IxInit => IxTypeOK
  <2> SUFFICES ASSUME IxInit PROVE IxTypeOK
    OBVIOUS
  <2>1. IxSetsOK /\ IxDaemonOK
    BY DEF IxInit, IxSetsOK, IxDaemonOK
  <2>2. IxStoreOK /\ IxQueueOK /\ IxLoadOK
    BY IxEmptyQueue, IxRecords DEF IxInit, IxStoreOK, IxQueueOK, IxLoadOK
  <2>3. IxPubOK
    BY DEF IxInit, IxPubOK, IxPublisherState, IxGuardState, IxUnguarded
  <2> QED
    BY <2>1, <2>2, <2>3, IxParts
<1> QED
  BY <1>1, IxTypeStep, PTL DEF IxSpec

-----------------------------------------------------------------------------
(* Where rows come from *)

\* A row of k is on disk, in memory, in the log, in the channel or in the hands
\* of the writer or of a loader.
IxRow(k) ==
    \/ k \in ixDisk \cup ixStore \cup ixWal \cup IxQueued \cup ixWriter.rows
    \/ \E l \in IxLoader : k \in ixLoad[l].rows

\* A send queues no other row than its own.
LEMMA IxQueuedSent ==
    ASSUME IxQueueOK, NEW cmd \in IxCommand, IxSend(cmd), NEW k, k \in IxQueued'
    PROVE  k \in IxQueued \/ (cmd.op = "Insert" /\ cmd.key = k)
<1>1. PICK i \in 1..Len(ixQueue') : ixQueue'[i].op = "Insert" /\ ixQueue'[i].key = k
  BY DEF IxQueued
<1>2. /\ Len(ixQueue) \in Nat /\ Len(ixQueue') = Len(ixQueue) + 1
      /\ ixQueue'[Len(ixQueue) + 1] = cmd
      /\ \A j \in 1..Len(ixQueue) : ixQueue'[j] = ixQueue[j]
  BY IxSent DEF IxQueueOK
<1>3. CASE i = Len(ixQueue) + 1
  BY <1>1, <1>2, <1>3
<1>4. CASE i # Len(ixQueue) + 1
  <2>1. i \in 1..Len(ixQueue)
    BY <1>2, <1>4
  <2> QED
    BY <1>1, <1>2, <2>1 DEF IxQueued
<1> QED
  BY <1>3, <1>4

\* Receiving a command queues no row.
LEMMA IxQueuedTail ==
    ASSUME IxQueueOK, ixQueue # <<>>, ixQueue' = Tail(ixQueue)
    PROVE  /\ \A k : k \in IxQueued' => k \in IxQueued
           /\ Head(ixQueue).op = "Insert" => Head(ixQueue).key \in IxQueued
<1>1. /\ Len(ixQueue) \in Nat \ {0} /\ Len(ixQueue') = Len(ixQueue) - 1
      /\ Head(ixQueue) = ixQueue[1]
      /\ \A i \in 1..Len(ixQueue') : ixQueue'[i] = ixQueue[i + 1]
  BY IxHead DEF IxQueueOK
<1>2. ASSUME NEW k, k \in IxQueued' PROVE k \in IxQueued
  <2>1. PICK i \in 1..Len(ixQueue') : ixQueue'[i].op = "Insert" /\ ixQueue'[i].key = k
    BY <1>2 DEF IxQueued
  <2>2. i + 1 \in 1..Len(ixQueue) /\ ixQueue[i + 1] = ixQueue'[i]
    BY <1>1
  <2> QED
    BY <2>1, <2>2 DEF IxQueued
<1>3. Head(ixQueue).op = "Insert" => Head(ixQueue).key \in IxQueued
  <2>1. 1 \in 1..Len(ixQueue)
    BY <1>1
  <2> QED
    BY <1>1, <2>1 DEF IxQueued
<1> QED
  BY <1>2, <1>3

\* A key has a row after a step only if it had one, or by its commit.
LEMMA IxRowsStep ==
    ASSUME IxTypeOK, [IxNext]_ixVars, NEW k \in IxKey, IxRow(k)'
    PROVE  IxRow(k) \/ \E p \in IxPublisher : IxCommit(p) /\ ixPub[p].key = k
<1>a. IxSetsOK /\ IxStoreOK /\ IxQueueOK /\ IxLoadOK /\ IxPubOK /\ IxDaemonOK
  BY IxParts
<1>b. /\ UNCHANGED ixQueue => IxQueued' = IxQueued
      /\ ixQueue' = <<>> => k \notin IxQueued'
  BY IxEmptyQueue DEF IxQueued
\* Steps that move no row.
<1>1. ASSUME UNCHANGED <<ixDisk, ixStore, ixWal, ixQueue, ixWriter, ixLoad>> PROVE IxRow(k)
  BY <1>1, <1>b DEF IxRow
<1>2. ASSUME NEW p \in IxPublisher,
             \/ \E key \in IxKey : IxBegin(p, key)
             \/ IxPersist(p) \/ IxPersistFails(p) \/ IxConflict(p)
      PROVE  IxRow(k)
  BY <1>1, <1>2 DEF IxBegin, IxPersist, IxPersistFails, IxConflict, ixMemory, ixLog
<1>3. ASSUME \/ \E key \in IxKey : IxLookup(key) \/ IxMaintain(key)
             \/ IxMaintainFails \/ IxClearBegin \/ IxClearEnd \/ IxShutdown \/ IxRestart
             \/ UNCHANGED ixVars \/ \E inTime \in BOOLEAN : IxFlushed(inTime)
      PROVE  IxRow(k)
  BY <1>1, <1>3 DEF IxLookup, IxMaintain, IxMaintainFails, IxClearBegin, IxClearEnd, IxShutdown,
     IxRestart, IxFlushed, ixVars, ixMemory, ixLog
\* A command is sent.
<1>4. ASSUME NEW cmd \in IxCommand, IxSend(cmd), ixStore' \subseteq ixStore,
             UNCHANGED <<ixDisk, ixWal, ixWriter, ixLoad>>
      PROVE  IxRow(k) \/ (cmd.op = "Insert" /\ cmd.key = k)
  BY <1>4, <1>a, IxQueuedSent DEF IxRow
<1>5. ASSUME NEW p \in IxPublisher, IxCommit(p)
      PROVE  IxRow(k) \/ ixPub[p].key = k
  <2>1. [op |-> "Insert", key |-> ixPub[p].key] \in IxCommand
    BY <1>a, IxCommands DEF IxPubOK, IxPublisherState
  <2> QED
    BY <1>4, <1>5, <2>1 DEF IxCommit
<1>6. ASSUME NEW p \in IxPublisher, IxConflictRemove(p) PROVE IxRow(k)
  <2>1. [op |-> "Remove", key |-> ixPub[p].key] \in IxCommand
    BY <1>a, IxCommands DEF IxPubOK, IxPublisherState
  <2> QED
    BY <1>4, <1>6, <2>1 DEF IxConflictRemove
<1>7. ASSUME NEW key \in IxKey, IxTouch(key) \/ IxMaintainIndex(key) PROVE IxRow(k)
  BY <1>4, <1>7, IxCommands DEF IxTouch, IxMaintainIndex, ixMemory
<1>8. ASSUME IxClearSend \/ IxDrain PROVE IxRow(k)
  BY <1>4, <1>8, IxCommands DEF IxClearSend, IxDrain, ixMemory
\* The writer takes rows from the channel to the log and to the store.
<1>9. ASSUME NEW wal \in SUBSET IxKey, IxCollect(wal) \/ IxApplied(wal), k \in wal => IxRow(k),
             IxQueued' \subseteq IxQueued, UNCHANGED <<ixDisk, ixLoad>>
      PROVE  IxRow(k)
  BY <1>9, <1>a, IxCollected DEF IxStoreOK, IxRow
<1>10. ASSUME IxInsert \/ IxTouched \/ IxFlush \/ IxTick PROVE IxRow(k)
  <2>1. PICK wal \in SUBSET IxKey : /\ IxCollect(wal) \/ IxApplied(wal)
                                    /\ wal \subseteq ixWal \cup IxQueued \cup ixStore
    <3> DEFINE P(wal) == /\ IxCollect(wal) \/ IxApplied(wal)
                         /\ wal \subseteq ixWal \cup IxQueued \cup ixStore
    <3>1. CASE IxInsert
      <4>1. Head(ixQueue).key \in IxQueued /\ Head(ixQueue).key \in IxKey
        BY <3>1, <1>a, IxHead, IxQueuedTail DEF IxInsert, IxReceive, IxQueueOK
      <4>2. P(ixWal \cup {Head(ixQueue).key})
        BY <3>1, <4>1 DEF IxInsert
      <4> QED
        BY <1>a, <4>1, <4>2 DEF IxStoreOK
    <3>2. CASE IxTouched
      <4>1. P(ixWal \cup ({Head(ixQueue).key} \cap ixStore))
        BY <3>2 DEF IxTouched
      <4> QED
        BY <1>a, <4>1 DEF IxStoreOK
    <3>3. CASE IxFlush \/ IxTick
      <4>1. P(ixWal)
        BY <3>3 DEF IxFlush, IxTick
      <4> QED
        BY <1>a, <4>1 DEF IxStoreOK
    <3> QED
      BY <1>10, <3>1, <3>2, <3>3
  <2>2. IxQueued' \subseteq IxQueued /\ UNCHANGED <<ixDisk, ixLoad>>
    BY <1>10, <1>a, <1>b, IxQueuedTail DEF IxInsert, IxTouched, IxFlush, IxTick, IxReceive
  <2> QED
    BY <1>9, <2>1, <2>2 DEF IxRow
<1>11. ASSUME IxRemove \/ IxClear PROVE IxRow(k)
  <2>1. /\ ixWriter'.rows = {} /\ ixStore' \subseteq ixStore /\ ixWal' \subseteq ixWal
        /\ UNCHANGED <<ixDisk, ixLoad>>
    BY <1>11 DEF IxRemove, IxClear
  <2>2. IxQueued' \subseteq IxQueued
    BY <1>11, <1>a, IxQueuedTail DEF IxRemove, IxClear, IxReceive
  <2> QED
    BY <2>1, <2>2 DEF IxRow
\* The store goes to the disk, and the disk to the store.
<1>12. ASSUME IxSnapshot \/ IxWrite \/ IxWriteFails \/ IxFinalFlush PROVE IxRow(k)
  <2>1. ixWriter'.rows \subseteq ixStore \cup ixWriter.rows
    BY <1>12, <1>a, IxWriterSteps DEF IxStoreOK
  <2>2. ixDisk' \subseteq ixDisk \cup ixWriter.rows /\ UNCHANGED <<ixStore, ixWal, ixQueue, ixLoad>>
    BY <1>12 DEF IxSnapshot, IxWrite, IxWriteFails, IxFinalFlush, ixMemory
  <2> QED
    BY <1>b, <2>1, <2>2 DEF IxRow
<1>13. ASSUME NEW l \in IxLoader, IxLoadRead(l) \/ IxLoadInstall(l) PROVE IxRow(k)
  <2>1. \A m \in IxLoader : ixLoad'[m].rows \subseteq ixLoad[m].rows \cup ixDisk
    BY <1>13, <1>a DEF IxLoadRead, IxLoadInstall, IxLoadOK
  <2>2. /\ ixStore' \subseteq ixStore \cup ixLoad[l].rows
        /\ UNCHANGED <<ixDisk, ixWal, ixQueue, ixWriter>>
    BY <1>13 DEF IxLoadRead, IxLoadInstall, ixLog
  <2> QED
    BY <1>b, <2>1, <2>2 DEF IxRow
\* A kill or a stop leaves only the disk.
<1>14. ASSUME IxExit \/ IxKilled \/ \E inTime \in BOOLEAN : IxWriterStops(inTime) PROVE IxRow(k)
  <2>1. /\ ixWal' = {} /\ ixQueue' = <<>> /\ ixWriter'.rows = {} /\ ixStore' \subseteq ixStore
        /\ UNCHANGED ixDisk
        /\ \A l \in IxLoader : ixLoad'[l].rows \subseteq ixLoad[l].rows
    BY <1>14
       DEF IxExit, IxKilled, IxForgotten, IxWriterStops, IxIdleWriter, IxNotLoading, ixMemory
  <2> QED
    BY <1>b, <2>1 DEF IxRow
<1> QED
  BY <1>2, <1>3, <1>5, <1>6, <1>7, <1>8, <1>10, <1>11, <1>12, <1>13, <1>14 DEF IxNext

-----------------------------------------------------------------------------
(* A row never precedes its files *)

IxKnownInv ==
    /\ \A k \in IxKey : IxRow(k) => k \in ixFiles \cup ixGone
    /\ \A p \in IxPublisher : ixPub[p].pc = "persisted" => ixPub[p].key \in ixFiles \cup ixGone

\* A key that had files once is not forgotten.
LEMMA IxKnownGrows ==
    ASSUME IxTypeOK, [IxNext]_ixVars
    PROVE  ixFiles \cup ixGone \subseteq ixFiles' \cup ixGone'
<1>1. ASSUME NEW p \in IxPublisher,
             \/ \E key \in IxKey : IxBegin(p, key)
             \/ IxPersist(p) \/ IxPersistFails(p) \/ IxCommit(p) \/ IxConflict(p)
             \/ IxConflictRemove(p)
      PROVE  ixFiles \cup ixGone \subseteq ixFiles' \cup ixGone'
  BY <1>1
     DEF IxBegin, IxPersist, IxPersistFails, IxCommit, IxConflict, IxConflictRemove, ixFlags
<1>2. ASSUME NEW k \in IxKey, IxMaintain(k) \/ IxMaintainIndex(k) \/ IxLookup(k) \/ IxTouch(k)
      PROVE  ixFiles \cup ixGone \subseteq ixFiles' \cup ixGone'
  BY <1>2 DEF IxMaintain, IxMaintainIndex, IxLookup, IxTouch, ixFlags
<1>3. ASSUME \/ IxInsert \/ IxTouched \/ IxRemove \/ IxClear \/ IxFlush \/ IxTick
             \/ IxSnapshot \/ IxWrite \/ IxWriteFails \/ IxFinalFlush
             \/ \E l \in IxLoader : IxLoadRead(l) \/ IxLoadInstall(l)
      PROVE  UNCHANGED <<ixFiles, ixGone>>
  BY <1>3 DEF IxInsert, IxTouched, IxRemove, IxClear, IxFlush, IxTick, IxSnapshot, IxWrite,
     IxWriteFails, IxFinalFlush, IxLoadRead, IxLoadInstall, ixFlags
<1>4. ASSUME \/ IxMaintainFails \/ IxClearBegin \/ IxClearSend \/ IxClearEnd
             \/ IxShutdown \/ IxDrain \/ IxExit \/ IxKilled \/ IxRestart
             \/ \E inTime \in BOOLEAN : IxFlushed(inTime) \/ IxWriterStops(inTime)
      PROVE  ixFiles \cup ixGone \subseteq ixFiles' \cup ixGone'
  BY <1>4
     DEF IxMaintainFails, IxClearBegin, IxClearSend, IxClearEnd, IxShutdown, IxDrain, IxExit,
     IxKilled, IxRestart, IxFlushed, IxWriterStops, ixFlags
<1>5. CASE UNCHANGED ixVars
  BY <1>5 DEF ixVars, ixFlags
<1> QED
  BY <1>1, <1>2, <1>3, <1>4, <1>5 DEF IxNext

\* A publisher that has written its files is one that just did, or already had.
LEMMA IxPersisted ==
    ASSUME IxTypeOK, [IxNext]_ixVars, NEW p \in IxPublisher, ixPub'[p].pc = "persisted"
    PROVE  /\ ixPub'[p].key = ixPub[p].key
           /\ ixPub[p].pc = "persisted" \/ IxPersist(p)
<1>a. ixPub \in [IxPublisher -> IxPublisherState]
  BY DEF IxTypeOK
<1>1. CASE UNCHANGED ixPub
  BY <1>1
<1>2. ASSUME NEW q \in IxPublisher,
             \/ \E key \in IxKey : IxBegin(q, key)
             \/ IxPersist(q) \/ IxPersistFails(q) \/ IxCommit(q) \/ IxConflict(q)
             \/ IxConflictRemove(q)
      PROVE  /\ ixPub'[p].key = ixPub[p].key
             /\ ixPub[p].pc = "persisted" \/ IxPersist(p)
  <2>1. CASE p # q
    BY <1>a, <1>2, <2>1
       DEF IxBegin, IxPersist, IxPersistFails, IxCommit, IxConflict, IxConflictRemove
  <2>2. CASE p = q
    BY <1>a, <1>2, <2>2
       DEF IxBegin, IxPersist, IxPersistFails, IxCommit, IxConflict, IxConflictRemove,
       IxPublisherState
  <2> QED
    BY <2>1, <2>2
<1>3. ASSUME IxExit \/ IxKilled PROVE ixPub'[p].pc = "idle"
  BY <1>a, <1>3 DEF IxExit, IxKilled, IxForgotten, IxPublisherState
<1>4. ASSUME \/ IxInsert \/ IxTouched \/ IxRemove \/ IxClear \/ IxFlush \/ IxTick
             \/ IxSnapshot \/ IxWrite \/ IxWriteFails \/ IxFinalFlush
             \/ \E l \in IxLoader : IxLoadRead(l) \/ IxLoadInstall(l)
             \/ \E k \in IxKey : IxLookup(k) \/ IxTouch(k) \/ IxMaintain(k) \/ IxMaintainIndex(k)
      PROVE  UNCHANGED ixPub
  BY <1>4 DEF IxInsert, IxTouched, IxRemove, IxClear, IxFlush, IxTick, IxSnapshot, IxWrite,
     IxWriteFails, IxFinalFlush, IxLoadRead, IxLoadInstall, IxLookup, IxTouch, IxMaintain,
     IxMaintainIndex
<1>5. ASSUME \/ IxMaintainFails \/ IxClearBegin \/ IxClearSend \/ IxClearEnd
             \/ IxShutdown \/ IxDrain \/ IxRestart
             \/ \E inTime \in BOOLEAN : IxFlushed(inTime) \/ IxWriterStops(inTime)
      PROVE  UNCHANGED ixPub
  BY <1>5 DEF IxMaintainFails, IxClearBegin, IxClearSend, IxClearEnd, IxShutdown, IxDrain,
     IxRestart, IxFlushed, IxWriterStops
<1>6. CASE UNCHANGED ixVars
  BY <1>1, <1>6 DEF ixVars
<1> QED
  BY <1>1, <1>2, <1>3, <1>4, <1>5, <1>6 DEF IxNext

\* Every step keeps that known rows had their files.
LEMMA IxKnownStep == IxTypeOK /\ IxKnownInv /\ [IxNext]_ixVars => IxKnownInv'
<1> SUFFICES ASSUME IxTypeOK, IxKnownInv, [IxNext]_ixVars PROVE IxKnownInv'
  OBVIOUS
<1>1. ASSUME NEW k \in IxKey, IxRow(k)' PROVE k \in ixFiles' \cup ixGone'
  <2>1. k \in ixFiles \cup ixGone
    <3>1. CASE IxRow(k)
      BY <3>1 DEF IxKnownInv
    <3>2. CASE \E p \in IxPublisher : IxCommit(p) /\ ixPub[p].key = k
      BY <3>2 DEF IxKnownInv, IxCommit
    <3> QED
      BY <1>1, <3>1, <3>2, IxRowsStep
  <2> QED
    BY <2>1, IxKnownGrows
<1>2. ASSUME NEW p \in IxPublisher, ixPub'[p].pc = "persisted"
      PROVE  ixPub'[p].key \in ixFiles' \cup ixGone'
  <2>1. ixPub'[p].key = ixPub[p].key /\ (ixPub[p].pc = "persisted" \/ IxPersist(p))
    BY <1>2, IxPersisted
  <2>2. CASE ixPub[p].pc = "persisted"
    BY <2>1, <2>2, IxKnownGrows DEF IxKnownInv
  <2>3. CASE IxPersist(p)
    BY <2>1, <2>3 DEF IxPersist
  <2> QED
    BY <2>1, <2>2, <2>3
<1> QED
  BY <1>1, <1>2 DEF IxKnownInv

(***************************************************************************)
(* For any keys and publishers, over kills, stops and restarts: wherever a *)
(* row is, in the channel, the log, the store or index.bin, the files of   *)
(* its key were written before it and are there unless something removed   *)
(* them since.  commit_rustc_artifact_index sends a row only after         *)
(* persist_artifact_paths, and no other path makes a row.                  *)
(***************************************************************************)
THEOREM IxRowHasFilesHolds == IxSpec => []IxRowHasFiles
<1>1. IxInit => IxKnownInv
  <2> SUFFICES ASSUME IxInit PROVE IxKnownInv
    OBVIOUS
  <2>1. IxQueued = {} /\ ixWriter.rows = {} /\ \A l \in IxLoader : ixLoad[l].rows = {}
    BY IxEmptyQueue DEF IxInit, IxQueued, IxIdleWriter, IxNotLoading
  <2> QED
    BY <2>1 DEF IxInit, IxKnownInv, IxRow
<1>2. IxTypeOK /\ IxKnownInv => IxRowHasFiles
  <2> SUFFICES ASSUME IxTypeOK, IxKnownInv PROVE IxRowHasFiles
    OBVIOUS
  <2>1. IxQueued \subseteq IxKey
    BY DEF IxTypeOK, IxQueued, IxCommand
  <2>2. ixDisk \cup ixStore \cup ixWal \subseteq IxKey
    BY IxParts DEF IxSetsOK, IxStoreOK
  <2> QED
    BY <2>1, <2>2 DEF IxKnownInv, IxRow, IxRowHasFiles
<1> QED
  BY <1>1, <1>2, IxKnownStep, IxTypeCorrect, PTL DEF IxSpec

-----------------------------------------------------------------------------
(* An erased row does not come back *)

\* While the writer replaces index.bin without a row, its log has none of it.
IxEraseOpen ==
    /\ ixWriter.erase \cap ixWal = {}
    /\ ixWriter.pc = "idle" => ixWriter.erase = {}

IxErasedInv == (\A k \in ixErased : ~IxRow(k)) /\ IxEraseOpen

\* Every step keeps what is known of an erasure under way.
LEMMA IxEraseStep == IxTypeOK /\ IxEraseOpen /\ [IxNext]_ixVars => IxEraseOpen'
<1> SUFFICES ASSUME IxTypeOK, IxEraseOpen, [IxNext]_ixVars PROVE IxEraseOpen'
  OBVIOUS
<1>a. IxStoreOK /\ IxQueueOK
  BY IxParts
<1>1. CASE UNCHANGED <<ixWal, ixWriter>>
  BY <1>1 DEF IxEraseOpen
<1>2. ASSUME NEW p \in IxPublisher,
             \/ \E key \in IxKey : IxBegin(p, key)
             \/ IxPersist(p) \/ IxPersistFails(p) \/ IxCommit(p) \/ IxConflict(p)
             \/ IxConflictRemove(p)
      PROVE  IxEraseOpen'
  BY <1>1, <1>2
     DEF IxBegin, IxPersist, IxPersistFails, IxCommit, IxConflict, IxConflictRemove, ixLog
<1>3. ASSUME \/ \E l \in IxLoader : IxLoadRead(l) \/ IxLoadInstall(l)
             \/ \E k \in IxKey : IxLookup(k) \/ IxTouch(k) \/ IxMaintain(k) \/ IxMaintainIndex(k)
             \/ IxMaintainFails \/ IxClearBegin \/ IxClearSend \/ IxClearEnd
             \/ IxShutdown \/ IxDrain \/ IxRestart \/ UNCHANGED ixVars
             \/ \E inTime \in BOOLEAN : IxFlushed(inTime)
      PROVE  IxEraseOpen'
  BY <1>1, <1>3 DEF IxLoadRead, IxLoadInstall, IxLookup, IxTouch, IxMaintain, IxMaintainIndex,
     IxMaintainFails, IxClearBegin, IxClearSend, IxClearEnd, IxShutdown, IxDrain, IxRestart,
     IxFlushed, ixVars, ixLog
<1>4. ASSUME IxInsert \/ IxTouched \/ IxFlush \/ IxTick PROVE IxEraseOpen'
  <2>1. PICK wal \in SUBSET IxKey : IxCollect(wal) \/ IxApplied(wal)
    BY <1>4, <1>a, IxHead
       DEF IxInsert, IxTouched, IxFlush, IxTick, IxReceive, IxQueueOK, IxStoreOK
  <2>2. ixWriter'.erase = ixWriter.erase
    BY <1>a, <2>1, IxCollected DEF IxStoreOK
  <2>3. ixWriter.erase = {}
    BY <1>4 DEF IxEraseOpen, IxInsert, IxTouched, IxFlush, IxTick, IxReceive
  <2> QED
    BY <2>2, <2>3 DEF IxEraseOpen
<1>5. ASSUME IxRemove \/ IxClear PROVE IxEraseOpen'
  <2>1. ixWriter'.pc = "snapshot" /\ ixWriter'.erase \cap ixWal' = {}
    BY <1>5 DEF IxRemove, IxClear
  <2> QED
    BY <2>1 DEF IxEraseOpen
<1>6. ASSUME IxSnapshot \/ IxWrite \/ IxWriteFails \/ IxFinalFlush PROVE IxEraseOpen'
  <2>1. UNCHANGED ixWal
    BY <1>6 DEF IxSnapshot, IxWrite, IxWriteFails, IxFinalFlush
  <2>2. \/ ixWriter'.pc \in {"write", "snapshot"} /\ ixWriter'.erase = ixWriter.erase
        \/ ixWriter'.erase = {}
    BY <1>6, <1>a, IxWriterSteps DEF IxStoreOK
  <2> QED
    BY <2>1, <2>2 DEF IxEraseOpen
<1>7. ASSUME IxExit \/ IxKilled \/ \E inTime \in BOOLEAN : IxWriterStops(inTime)
      PROVE  IxEraseOpen'
  BY <1>7 DEF IxEraseOpen, IxExit, IxKilled, IxForgotten, IxWriterStops, IxIdleWriter
<1> QED
  BY <1>2, <1>3, <1>4, <1>5, <1>6, <1>7 DEF IxNext

\* Only a write erases; a commit takes its key out again.
LEMMA IxErasedFrom ==
    ASSUME IxTypeOK, [IxNext]_ixVars
    PROVE  /\ \A p \in IxPublisher : IxCommit(p) => ixPub[p].key \notin ixErased'
           /\ IxWrite \/ ixErased' \subseteq ixErased
<1>1. \A p \in IxPublisher : IxCommit(p) => ixPub[p].key \notin ixErased'
  BY DEF IxCommit
<1>2. ASSUME NEW p \in IxPublisher,
             \/ \E key \in IxKey : IxBegin(p, key)
             \/ IxPersist(p) \/ IxPersistFails(p) \/ IxCommit(p) \/ IxConflict(p)
             \/ IxConflictRemove(p)
      PROVE  ixErased' \subseteq ixErased
  BY <1>2
     DEF IxBegin, IxPersist, IxPersistFails, IxCommit, IxConflict, IxConflictRemove, ixFlags
<1>3. ASSUME \/ \E l \in IxLoader : IxLoadRead(l) \/ IxLoadInstall(l)
             \/ \E k \in IxKey : IxLookup(k) \/ IxTouch(k) \/ IxMaintain(k) \/ IxMaintainIndex(k)
             \/ IxMaintainFails \/ IxClearBegin \/ IxClearSend \/ IxClearEnd
             \/ IxShutdown \/ IxDrain \/ IxRestart \/ UNCHANGED ixVars
             \/ \E inTime \in BOOLEAN : IxFlushed(inTime)
      PROVE  ixErased' \subseteq ixErased
  BY <1>3 DEF IxLoadRead, IxLoadInstall, IxLookup, IxTouch, IxMaintain, IxMaintainIndex,
     IxMaintainFails, IxClearBegin, IxClearSend, IxClearEnd, IxShutdown, IxDrain, IxRestart,
     IxFlushed, ixVars, ixFlags
<1>4. ASSUME \/ IxInsert \/ IxTouched \/ IxRemove \/ IxClear \/ IxFlush \/ IxTick
             \/ IxSnapshot \/ IxWriteFails \/ IxFinalFlush \/ IxExit \/ IxKilled
             \/ \E inTime \in BOOLEAN : IxWriterStops(inTime)
      PROVE  ixErased' \subseteq ixErased
  BY <1>4 DEF IxInsert, IxTouched, IxRemove, IxClear, IxFlush, IxTick, IxSnapshot, IxWriteFails,
     IxFinalFlush, IxExit, IxKilled, IxWriterStops, ixFlags
<1> QED
  BY <1>1, <1>2, <1>3, <1>4 DEF IxNext

\* Every step keeps that erased rows can come back from nowhere.
LEMMA IxErasedStep == IxTypeOK /\ IxErasedInv /\ [IxNext]_ixVars => IxErasedInv'
<1> SUFFICES ASSUME IxTypeOK, IxErasedInv, [IxNext]_ixVars PROVE IxErasedInv'
  OBVIOUS
<1>a. IxSetsOK /\ IxStoreOK /\ IxLoadOK
  BY IxParts
<1>1. IxEraseOpen'
  BY IxEraseStep DEF IxErasedInv
<1>2. ASSUME NEW k \in ixErased', k \in ixErased PROVE ~IxRow(k)'
  <2>1. k \in IxKey /\ ~IxRow(k)
    BY <1>2, <1>a DEF IxErasedInv, IxSetsOK
  <2>2. ~(\E p \in IxPublisher : IxCommit(p) /\ ixPub[p].key = k)
    BY <1>2, IxErasedFrom
  <2> QED
    BY <2>1, <2>2, IxRowsStep
<1>3. ASSUME NEW k \in ixErased', k \notin ixErased PROVE ~IxRow(k)'
  <2>1. IxWrite
    BY <1>3, IxErasedFrom
  <2>2. /\ k \in ixWriter.erase /\ k \notin IxQueued \cup ixStore \cup ixWriter.rows
        /\ \A l \in IxLoader : k \notin ixLoad[l].rows
    BY <1>3, <1>a, <2>1 DEF IxWrite, IxLoadOK
  <2>3. k \notin ixWal
    BY <2>2 DEF IxErasedInv, IxEraseOpen
  <2>4. ixDisk' = ixWriter.rows /\ UNCHANGED <<ixStore, ixWal, ixQueue, ixLoad>>
    BY <2>1 DEF IxWrite, ixMemory
  <2>5. ixWriter'.rows = {} /\ IxQueued' = IxQueued
    BY <2>1, <2>4, <1>a, IxWriterSteps DEF IxStoreOK, IxQueued
  <2> QED
    BY <2>2, <2>3, <2>4, <2>5 DEF IxRow
<1> QED
  BY <1>1, <1>2, <1>3 DEF IxErasedInv

(***************************************************************************)
(* For any keys and publishers, over kills and restarts: once the removal  *)
(* of a row has reached index.bin, no touch, late flush, load or restart   *)
(* brings the row back; only a new publication does.  A load that had read *)
(* index.bin before the removal is not counted as one that reached it.     *)
(***************************************************************************)
THEOREM IxErasedStaysErasedHolds == IxSpec => []IxErasedStaysErased
<1>1. IxInit => IxErasedInv
  BY DEF IxInit, IxErasedInv, IxEraseOpen, IxIdleWriter
<1>2. IxErasedInv => IxErasedStaysErased
  BY DEF IxErasedInv, IxRow, IxErasedStaysErased
<1> QED
  BY <1>1, <1>2, IxErasedStep, IxTypeCorrect, PTL DEF IxSpec

-----------------------------------------------------------------------------
(* A graceful stop keeps the committed rows *)

IxEnding == {"flushing", "stopping", "saving", "saved"}

\* The drain holds the lock for writing to its end; a daemon that is down has
\* no publisher, no guard and no writer.
IxStages ==
    /\ (ixGuard.op = "shutdown") <=> (ixDaemon \in IxEnding)
    /\ ~IxRunning => /\ \A p \in IxPublisher : ixPub[p].pc = "idle"
                     /\ ixGuard.op = "none" /\ ixWriter.pc = "idle"

\* The writer was joined.
IxSaving == {"saving", "saved", "stopped"}

IxErases(c, k) == c.op = "Clear" \/ (c.op = "Remove" /\ c.key = k)

\* No command behind position i of the channel takes the row of k away.
IxCalm(k, i) == \A j \in 1..Len(ixQueue) : j > i => ~IxErases(ixQueue[j], k)

\* The row is still to be received and will last.
IxPromised(k) ==
    \E i \in 1..Len(ixQueue) : /\ ixQueue[i].op = "Insert" /\ ixQueue[i].key = k
                               /\ IxCalm(k, i)

\* The row is in the log, or in the store and on disk or on its way there.
IxKept(k) ==
    \/ k \in ixWal
    \/ /\ k \in ixStore
       /\ ixWriter.pc = "idle" => k \in ixDisk
       /\ ixWriter.pc = "write" => k \in ixWriter.rows

IxOwed(k) == IxPromised(k) \/ (IxCalm(k, 0) /\ IxKept(k))

\* What is left to do once the writer was joined: nothing that costs a row.
IxSettled ==
    /\ ixWal = {} /\ ixOurs \subseteq ixDisk
    /\ \A i \in 1..Len(ixQueue) : ixQueue[i].op = "Remove" /\ ixQueue[i].key \notin ixOurs

IxOwedInv ==
    /\ IxStages
    /\ IxRunning /\ ~ixExcused => \A k \in ixOurs : IxOwed(k)
    /\ ixDaemon \in IxSaving /\ ~ixExcused => IxSettled

\* Every step keeps the order of the shutdown's stages.
LEMMA IxStagesStep == IxTypeOK /\ IxStages /\ [IxNext]_ixVars => IxStages'
<1> SUFFICES ASSUME IxTypeOK, IxStages, [IxNext]_ixVars PROVE IxStages'
  OBVIOUS
<1>a. IxStoreOK /\ IxPubOK /\ IxDaemonOK
  BY IxParts
<1>b. IxRunning <=> ixDaemon \notin {"stopped", "killed"}
  BY DEF IxRunning
<1> USE DEF IxEnding
<1>1. ASSUME NEW p \in IxPublisher,
             \/ \E key \in IxKey : IxBegin(p, key)
             \/ IxPersist(p) \/ IxPersistFails(p) \/ IxCommit(p) \/ IxConflict(p)
             \/ IxConflictRemove(p)
      PROVE  IxStages'
  <2>1. IxRunning /\ UNCHANGED <<ixDaemon, ixGuard>>
    BY <1>1, <1>b DEF IxStages, IxBegin, IxPersist, IxPersistFails, IxCommit, IxConflict,
       IxConflictRemove
  <2> QED
    BY <2>1, <1>b DEF IxStages, IxRunning
<1>2. ASSUME \/ IxInsert \/ IxTouched \/ IxRemove \/ IxClear \/ IxFlush \/ IxTick
             \/ IxSnapshot \/ IxWrite \/ IxWriteFails
             \/ \E l \in IxLoader : IxLoadRead(l) \/ IxLoadInstall(l)
             \/ \E k \in IxKey : IxLookup(k) \/ IxTouch(k)
      PROVE  IxStages'
  <2>1. UNCHANGED <<ixDaemon, ixGuard>>
    BY <1>2 DEF IxInsert, IxTouched, IxRemove, IxClear, IxFlush, IxTick, IxSnapshot, IxWrite,
       IxWriteFails, IxLoadRead, IxLoadInstall, IxLookup, IxTouch
  <2>2. IxRunning
    BY <1>2, <1>b
       DEF IxInsert, IxTouched, IxRemove, IxClear, IxFlush, IxTick, IxSnapshot, IxWrite,
       IxWriteFails, IxLoadRead, IxLoadInstall, IxLookup, IxTouch, IxReceive, IxStages
  <2> QED
    BY <2>1, <2>2, <1>b DEF IxStages, IxRunning
<1>3. ASSUME \/ \E k \in IxKey : IxMaintain(k) \/ IxMaintainIndex(k)
             \/ IxMaintainFails \/ IxClearBegin \/ IxClearSend \/ IxClearEnd
      PROVE  IxStages'
  <2>1. /\ IxRunning /\ ixDaemon \notin IxEnding
        /\ ixGuard'.op # "shutdown" /\ UNCHANGED ixDaemon
    <3> DEFINE P == /\ ixDaemon = "up" \/ ixGuard.op \in {"maintain", "clear", "cleared"}
                    /\ ixGuard'.op # "shutdown" /\ UNCHANGED ixDaemon
    <3>1. ASSUME NEW k \in IxKey, IxMaintain(k) PROVE P
      BY <3>1 DEF IxMaintain
    <3>2. ASSUME NEW k \in IxKey, IxMaintainIndex(k) PROVE P
      BY <3>2 DEF IxMaintainIndex, IxUnguarded
    <3>3. ASSUME IxMaintainFails \/ IxClearBegin \/ IxClearSend \/ IxClearEnd PROVE P
      BY <3>3 DEF IxMaintainFails, IxClearBegin, IxClearSend, IxClearEnd, IxUnguarded
    <3>4. P
      BY <1>3, <3>1, <3>2, <3>3
    <3> QED
      BY <3>4, <1>b DEF IxStages
  <2> QED
    BY <2>1, <1>b DEF IxStages, IxRunning
<1>4. ASSUME \/ IxShutdown \/ IxDrain \/ IxFinalFlush \/ IxRestart
             \/ \E inTime \in BOOLEAN : IxFlushed(inTime) \/ IxWriterStops(inTime)
      PROVE  IxStages'
  <2>1. /\ ixDaemon' \notin {"stopped", "killed"}
        /\ (ixGuard'.op = "shutdown") <=> (ixDaemon' \in IxEnding)
    BY <1>4, <1>b DEF IxStages, IxShutdown, IxDrain, IxFinalFlush, IxRestart, IxFlushed,
       IxWriterStops, IxRunning
  <2> QED
    BY <2>1 DEF IxStages, IxRunning
<1>5. ASSUME IxExit \/ IxKilled PROVE IxStages'
  <2>1. ixDaemon' \in {"stopped", "killed"} /\ ixGuard'.op = "none" /\ ixWriter'.pc = "idle"
    BY <1>5 DEF IxExit, IxKilled, IxForgotten, IxUnguarded, IxIdleWriter
  <2>2. \A p \in IxPublisher : ixPub'[p].pc = "idle"
    BY <1>5, <1>a DEF IxExit, IxKilled, IxForgotten, IxPubOK, IxPublisherState
  <2> QED
    BY <2>1, <2>2 DEF IxStages, IxRunning
<1>6. CASE UNCHANGED ixVars
  BY <1>6 DEF ixVars, ixLog, IxStages, IxRunning
<1> QED
  BY <1>1, <1>2, <1>3, <1>4, <1>5, <1>6 DEF IxNext

\* The channel does not move.
LEMMA IxOwedRests ==
    ASSUME NEW k, IxOwed(k), UNCHANGED ixQueue, IxKept(k) => IxKept(k)'
    PROVE  IxOwed(k)'
<1>1. \A i : IxCalm(k, i) => IxCalm(k, i)'
  BY DEF IxCalm
<1>2. IxPromised(k) => IxPromised(k)'
  BY <1>1 DEF IxPromised
<1> QED
  BY <1>1, <1>2 DEF IxOwed

\* A command that spares k is sent.
LEMMA IxOwedSent ==
    ASSUME IxQueueOK, NEW k, NEW cmd \in IxCommand, IxSend(cmd), ~IxErases(cmd, k), IxOwed(k),
           IxKept(k) => IxKept(k)'
    PROVE  IxOwed(k)'
<1>1. /\ Len(ixQueue) \in Nat /\ Len(ixQueue') = Len(ixQueue) + 1
      /\ ixQueue'[Len(ixQueue) + 1] = cmd
      /\ \A j \in 1..Len(ixQueue) : ixQueue'[j] = ixQueue[j]
  BY IxSent DEF IxQueueOK
<1>2. ASSUME NEW i, IxCalm(k, i) PROVE IxCalm(k, i)'
  <2> SUFFICES ASSUME NEW j \in 1..Len(ixQueue'), j > i PROVE ~IxErases(ixQueue'[j], k)
    BY DEF IxCalm
  <2>1. CASE j = Len(ixQueue) + 1
    BY <1>1, <2>1
  <2>2. CASE j # Len(ixQueue) + 1
    <3>1. j \in 1..Len(ixQueue)
      BY <1>1, <2>2
    <3> QED
      BY <1>1, <1>2, <3>1 DEF IxCalm
  <2> QED
    BY <2>1, <2>2
<1>3. IxPromised(k) => IxPromised(k)'
  <2> SUFFICES ASSUME IxPromised(k) PROVE IxPromised(k)'
    OBVIOUS
  <2>1. PICK i \in 1..Len(ixQueue) : /\ ixQueue[i].op = "Insert" /\ ixQueue[i].key = k
                                     /\ IxCalm(k, i)
    BY DEF IxPromised
  <2>2. i \in 1..Len(ixQueue') /\ ixQueue'[i] = ixQueue[i] /\ IxCalm(k, i)'
    BY <1>1, <1>2, <2>1
  <2> QED
    BY <2>1, <2>2 DEF IxPromised
<1> QED
  BY <1>2, <1>3 DEF IxOwed

\* The row itself is sent: nothing is behind it.
LEMMA IxOwedCommitted ==
    ASSUME IxQueueOK, NEW k \in IxKey, IxSend([op |-> "Insert", key |-> k])
    PROVE  IxOwed(k)'
<1>1. [op |-> "Insert", key |-> k] \in IxCommand
  BY IxCommands
<1>2. /\ Len(ixQueue) \in Nat /\ Len(ixQueue') = Len(ixQueue) + 1
      /\ ixQueue'[Len(ixQueue) + 1] = [op |-> "Insert", key |-> k]
  BY <1>1, IxSent DEF IxQueueOK
<1>3. PICK n \in 1..Len(ixQueue') : n = Len(ixQueue')
  BY <1>2
<1>4. IxCalm(k, n)'
  BY <1>2, <1>3 DEF IxCalm
<1>5. IxPromised(k)'
  BY <1>2, <1>3, <1>4 DEF IxPromised
<1> QED
  BY <1>5 DEF IxOwed

\* The writer receives a command.
LEMMA IxOwedReceived ==
    ASSUME IxQueueOK, NEW k, IxOwed(k), ixQueue # <<>>, ixQueue' = Tail(ixQueue),
           Head(ixQueue).op = "Insert" /\ Head(ixQueue).key = k => IxKept(k)',
           ~IxErases(Head(ixQueue), k) /\ IxKept(k) => IxKept(k)'
    PROVE  IxOwed(k)'
<1>1. /\ Len(ixQueue) \in Nat \ {0} /\ Len(ixQueue') = Len(ixQueue) - 1
      /\ Head(ixQueue) = ixQueue[1]
      /\ \A i \in 1..Len(ixQueue') : ixQueue'[i] = ixQueue[i + 1]
  BY IxHead DEF IxQueueOK
<1>2. ASSUME NEW i \in Nat, IxCalm(k, i + 1) PROVE IxCalm(k, i)'
  <2> SUFFICES ASSUME NEW j \in 1..Len(ixQueue'), j > i PROVE ~IxErases(ixQueue'[j], k)
    BY DEF IxCalm
  <2>1. j + 1 \in 1..Len(ixQueue) /\ j + 1 > i + 1 /\ ixQueue'[j] = ixQueue[j + 1]
    BY <1>1
  <2> QED
    BY <1>2, <2>1 DEF IxCalm
<1>3. CASE IxPromised(k)
  <2>1. PICK i \in 1..Len(ixQueue) : /\ ixQueue[i].op = "Insert" /\ ixQueue[i].key = k
                                     /\ IxCalm(k, i)
    BY <1>3 DEF IxPromised
  <2>2. CASE i = 1
    <3>1. IxCalm(k, 0)'
      BY <1>2, <2>1, <2>2
    <3>2. IxKept(k)'
      BY <1>1, <2>1, <2>2
    <3> QED
      BY <3>1, <3>2 DEF IxOwed
  <2>3. CASE i # 1
    <3>1. i - 1 \in 1..Len(ixQueue') /\ ixQueue'[i - 1] = ixQueue[i]
      BY <1>1, <2>3
    <3>2. IxCalm(k, i - 1)'
      <4>1. i - 1 \in Nat /\ (i - 1) + 1 = i
        BY <2>3
      <4> QED
        BY <1>2, <2>1, <4>1
    <3> QED
      BY <2>1, <3>1, <3>2 DEF IxOwed, IxPromised
  <2> QED
    BY <2>2, <2>3
<1>4. CASE IxCalm(k, 0) /\ IxKept(k)
  <2>1. IxCalm(k, 0)'
    <3>1. IxCalm(k, 0 + 1)
      BY <1>4 DEF IxCalm
    <3> QED
      BY <1>2, <3>1
  <2>2. ~IxErases(Head(ixQueue), k)
    <3>1. 1 \in 1..Len(ixQueue) /\ 1 > 0
      BY <1>1
    <3> QED
      BY <1>1, <1>4, <3>1 DEF IxCalm
  <2> QED
    BY <1>4, <2>1, <2>2 DEF IxOwed
<1> QED
  BY <1>3, <1>4 DEF IxOwed

\* The writer collects rows; a row it has is kept.
LEMMA IxKeptCollected ==
    ASSUME IxStoreOK, NEW k, NEW wal \in SUBSET IxKey, IxCollect(wal) \/ IxApplied(wal),
           ixWal \subseteq wal, k \in wal \/ IxKept(k), ixWriter.pc = "idle", UNCHANGED ixDisk
    PROVE  IxKept(k)'
BY IxCollected DEF IxKept, IxStoreOK

\* Before a restart an excuse stays, and only a running daemon commits.
LEMMA IxStillOwed ==
    ASSUME [IxNext]_ixVars, ~ixExcused', ~IxRestart
    PROVE  /\ ~ixExcused
           /\ IxRunning' => IxRunning
           /\ ixDaemon' \in IxSaving =>
                ixDaemon \in IxSaving \/ \E inTime \in BOOLEAN : IxWriterStops(inTime)
<1>1. ASSUME NEW p \in IxPublisher,
             \/ \E key \in IxKey : IxBegin(p, key)
             \/ IxPersist(p) \/ IxPersistFails(p) \/ IxCommit(p) \/ IxConflict(p)
             \/ IxConflictRemove(p)
      PROVE  UNCHANGED <<ixDaemon, ixExcused>>
  BY <1>1
     DEF IxBegin, IxPersist, IxPersistFails, IxCommit, IxConflict, IxConflictRemove, ixFlags
<1>2. ASSUME \/ \E l \in IxLoader : IxLoadRead(l) \/ IxLoadInstall(l)
             \/ \E k \in IxKey : IxLookup(k) \/ IxTouch(k) \/ IxMaintain(k) \/ IxMaintainIndex(k)
             \/ IxMaintainFails \/ IxClearBegin \/ IxClearSend \/ IxClearEnd
             \/ UNCHANGED ixVars \/ IxInsert \/ IxTouched \/ IxRemove \/ IxClear \/ IxFlush
             \/ IxTick \/ IxSnapshot \/ IxWrite
      PROVE  UNCHANGED <<ixDaemon, ixExcused>>
  BY <1>2 DEF IxLoadRead, IxLoadInstall, IxLookup, IxTouch, IxMaintain, IxMaintainIndex,
     IxMaintainFails, IxClearBegin, IxClearSend, IxClearEnd, IxInsert, IxTouched, IxRemove, IxClear,
     IxFlush, IxTick, IxSnapshot, IxWrite, ixVars, ixFlags
<1>3. ASSUME IxWriteFails \/ IxFinalFlush \/ IxExit \/ IxKilled \/ IxShutdown \/ IxDrain
      PROVE  IxRunning /\ ~ixExcused /\ (ixDaemon' \in IxSaving => ixDaemon \in IxSaving)
  BY <1>3
     DEF IxRunning, IxSaving, IxWriteFails, IxFinalFlush, IxExit, IxKilled, IxShutdown,
         IxDrain,
     ixFlags
<1>4. ASSUME NEW inTime \in BOOLEAN, IxFlushed(inTime) \/ IxWriterStops(inTime)
      PROVE  /\ IxRunning /\ ~ixExcused
             /\ ixDaemon' \in IxSaving => IxWriterStops(inTime)
  <2>1. IxRunning /\ (ixDaemon' \in IxSaving => IxWriterStops(inTime))
    BY <1>4 DEF IxRunning, IxSaving, IxFlushed, IxWriterStops
  <2>2. ~ixExcused
    BY <1>4, Zenon DEF IxFlushed, IxWriterStops
  <2> QED
    BY <2>1, <2>2
<1>5. CASE UNCHANGED <<ixDaemon, ixExcused>>
  BY <1>5 DEF IxRunning
<1> QED
  BY <1>1, <1>2, <1>3, <1>4, <1>5 DEF IxNext

\* A row this daemon published is owed to the disk after the step too.
LEMMA IxOursOwed ==
    ASSUME IxTypeOK, IxOwedInv, [IxNext]_ixVars, IxRunning', ~ixExcused', NEW k \in ixOurs'
    PROVE  IxOwed(k)'
<1>a. IxSetsOK /\ IxStoreOK /\ IxQueueOK /\ IxLoadOK /\ IxPubOK /\ IxDaemonOK
  BY IxParts
<1>b. ~IxRestart
  BY DEF IxRestart
<1>c. IxRunning /\ ~ixExcused
  BY <1>b, IxStillOwed
<1>d. k \in ixOurs => IxOwed(k)
  BY <1>c DEF IxOwedInv
\* Nothing of the writer moves.
<1>1. ASSUME UNCHANGED <<ixWal, ixQueue, ixWriter, ixDisk>>, ixStore \subseteq ixStore',
             k \in ixOurs
      PROVE  IxOwed(k)'
  BY <1>1, <1>d, IxOwedRests DEF IxKept
<1>2. ASSUME NEW p \in IxPublisher,
             \/ \E key \in IxKey : IxBegin(p, key)
             \/ IxPersist(p) \/ IxPersistFails(p) \/ IxConflict(p)
      PROVE  IxOwed(k)'
  BY <1>1, <1>2
     DEF IxBegin, IxPersist, IxPersistFails, IxConflict, ixMemory, ixLog, ixFlags
<1>3. ASSUME \/ \E key \in IxKey : IxLookup(key) \/ IxMaintain(key)
             \/ \E l \in IxLoader : IxLoadRead(l) \/ IxLoadInstall(l)
             \/ IxMaintainFails \/ IxClearBegin \/ IxClearEnd \/ IxShutdown
             \/ UNCHANGED ixVars \/ \E inTime \in BOOLEAN : IxFlushed(inTime)
      PROVE  IxOwed(k)'
  BY <1>1, <1>3 DEF IxLookup, IxMaintain, IxLoadRead, IxLoadInstall, IxMaintainFails,
     IxClearBegin, IxClearEnd, IxShutdown, IxFlushed, ixVars, ixMemory, ixLog, ixFlags
\* A command is sent.
<1>4. ASSUME NEW cmd \in IxCommand, IxSend(cmd), ~IxErases(cmd, k), k \in ixOurs,
             k \in ixStore => k \in ixStore', UNCHANGED <<ixWal, ixWriter, ixDisk>>
      PROVE  IxOwed(k)'
  BY <1>4, <1>a, <1>d, IxOwedSent DEF IxKept
<1>5. ASSUME NEW p \in IxPublisher, IxCommit(p) PROVE IxOwed(k)'
  <2>1. ixPub[p].key \in IxKey
    BY <1>a DEF IxPubOK, IxPublisherState
  <2>2. CASE k = ixPub[p].key
    BY <1>5, <1>a, <2>1, <2>2, IxOwedCommitted DEF IxCommit
  <2>3. CASE k # ixPub[p].key
    <3>1. k \in ixOurs /\ UNCHANGED <<ixStore, ixWal, ixWriter, ixDisk>>
            /\ IxSend([op |-> "Insert", key |-> ixPub[p].key])
      BY <1>5, <2>3 DEF IxCommit
    <3>2. ~IxErases([op |-> "Insert", key |-> ixPub[p].key], k)
      BY DEF IxErases
    <3> QED
      BY <1>4, <2>1, <3>1, <3>2, IxCommands
  <2> QED
    BY <2>2, <2>3
<1>6. ASSUME NEW key \in IxKey, IxSend([op |-> "Remove", key |-> key]), ixOurs' = ixOurs \ {key},
             ixStore \ {key} \subseteq ixStore', UNCHANGED <<ixWal, ixWriter, ixDisk>>
      PROVE  IxOwed(k)'
  <2>1. ~IxErases([op |-> "Remove", key |-> key], k)
    BY <1>6 DEF IxErases
  <2> QED
    BY <1>4, <1>6, <2>1, IxCommands
<1>7. ASSUME NEW p \in IxPublisher, IxConflictRemove(p) PROVE IxOwed(k)'
  <2>1. ixPub[p].key \in IxKey
    BY <1>a DEF IxPubOK, IxPublisherState
  <2> QED
    BY <1>6, <1>7, <2>1 DEF IxConflictRemove
<1>8. ASSUME NEW key \in IxKey, IxMaintainIndex(key) PROVE IxOwed(k)'
  BY <1>6, <1>8 DEF IxMaintainIndex
<1>9. ASSUME NEW key \in IxKey, IxTouch(key) PROVE IxOwed(k)'
  <2>1. ~IxErases([op |-> "Touch", key |-> key], k)
    BY DEF IxErases
  <2> QED
    BY <1>4, <1>9, <2>1, IxCommands DEF IxTouch, ixMemory, ixFlags
<1>10. ASSUME IxDrain PROVE IxOwed(k)'
  <2>1. ~IxErases([op |-> "Flush"], k)
    BY DEF IxErases
  <2> QED
    BY <1>4, <1>10, <2>1, IxCommands DEF IxDrain, ixMemory, ixFlags
<1>11. ASSUME IxClearSend PROVE IxOwed(k)'
  BY <1>11 DEF IxClearSend
\* The writer receives.
<1>12. ASSUME NEW wal \in SUBSET IxKey, IxCollect(wal) \/ IxApplied(wal), ixWal \subseteq wal,
              IxReceive(Head(ixQueue).op), ixQueue' = Tail(ixQueue), UNCHANGED ixDisk,
              Head(ixQueue).op = "Insert" => Head(ixQueue).key \in wal, k \in ixOurs
       PROVE  IxOwed(k)'
  <2>1. IxKept(k) \/ k \in wal => IxKept(k)'
    BY <1>12, <1>a, IxKeptCollected DEF IxReceive
  <2> QED
    BY <1>12, <1>a, <1>d, <2>1, IxOwedReceived DEF IxReceive
<1>13. ASSUME IxInsert \/ IxTouched \/ IxFlush PROVE IxOwed(k)'
  <2>1. IxReceive(Head(ixQueue).op) /\ ixQueue' = Tail(ixQueue) /\ UNCHANGED <<ixDisk, ixOurs>>
    BY <1>13 DEF IxInsert, IxTouched, IxFlush, IxReceive, ixFlags
  <2>2. CASE IxInsert
    <3>1. ixWal \cup {Head(ixQueue).key} \in SUBSET IxKey
      BY <2>2, <1>a, IxHead DEF IxInsert, IxReceive, IxQueueOK, IxStoreOK
    <3>2. IxCollect(ixWal \cup {Head(ixQueue).key})
      BY <2>2 DEF IxInsert
    <3> QED
      BY <1>12, <2>1, <3>1, <3>2
  <2>3. CASE IxTouched
    <3>1. ixWal \cup ({Head(ixQueue).key} \cap ixStore) \in SUBSET IxKey
      BY <1>a DEF IxStoreOK
    <3>2. /\ IxCollect(ixWal \cup ({Head(ixQueue).key} \cap ixStore))
          /\ Head(ixQueue).op # "Insert"
      BY <2>3 DEF IxTouched, IxReceive
    <3> QED
      BY <1>12, <2>1, <3>1, <3>2
  <2>4. CASE IxFlush
    <3>1. ixWal \in SUBSET IxKey /\ IxApplied(ixWal) /\ Head(ixQueue).op # "Insert"
      BY <2>4, <1>a DEF IxFlush, IxReceive, IxStoreOK
    <3> QED
      BY <1>12, <2>1, <3>1
  <2> QED
    BY <1>13, <2>2, <2>3, <2>4
<1>14. ASSUME IxTick PROVE IxOwed(k)'
  <2>1. /\ ixWal \in SUBSET IxKey /\ IxApplied(ixWal) /\ UNCHANGED <<ixDisk, ixOurs, ixQueue>>
        /\ ixWriter.pc = "idle"
    BY <1>14, <1>a DEF IxTick, IxStoreOK, ixFlags
  <2>2. IxKept(k) => IxKept(k)'
    BY <1>a, <2>1, IxKeptCollected
  <2> QED
    BY <1>d, <2>1, <2>2, IxOwedRests
<1>15. ASSUME IxRemove \/ IxClear PROVE IxOwed(k)'
  <2>1. /\ ixQueue # <<>> /\ ixQueue' = Tail(ixQueue) /\ ixWriter'.pc = "snapshot"
        /\ Head(ixQueue).op # "Insert" /\ UNCHANGED ixOurs
    BY <1>15 DEF IxRemove, IxClear, IxReceive, ixFlags
  <2>2. ~IxErases(Head(ixQueue), k) =>
          (k \in ixWal => k \in ixWal') /\ (k \in ixStore => k \in ixStore')
    BY <1>15 DEF IxRemove, IxClear, IxReceive, IxErases
  <2>3. ~IxErases(Head(ixQueue), k) /\ IxKept(k) => IxKept(k)'
    BY <2>1, <2>2 DEF IxKept
  <2> QED
    BY <1>a, <1>d, <2>1, <2>3, IxOwedReceived
<1>16. ASSUME IxSnapshot \/ IxWrite \/ IxFinalFlush PROVE IxOwed(k)'
  <2>1. UNCHANGED <<ixStore, ixWal, ixQueue, ixOurs>>
    BY <1>16 DEF IxSnapshot, IxWrite, IxFinalFlush, ixMemory, ixFlags
  <2>2. \/ ixWriter'.pc = "write" /\ ixWriter'.rows = ixStore
        \/ ixWriter'.pc = "snapshot"
        \/ ixWriter'.pc = "idle" /\ ixWriter.pc = "write" /\ ixDisk' = ixWriter.rows
    BY <1>16, <1>a, IxWriterSteps DEF IxStoreOK, IxWrite
  <2>3. IxKept(k) => IxKept(k)'
    BY <2>1, <2>2 DEF IxKept
  <2> QED
    BY <1>d, <2>1, <2>3, IxOwedRests
<1>17. ASSUME NEW inTime \in BOOLEAN, IxWriterStops(inTime) PROVE IxOwed(k)'
  <2>1. /\ ixQueue = <<>> /\ ixQueue' = <<>> /\ ixWal = {} /\ ixWriter.pc = "idle"
        /\ ixWriter'.pc = "idle" /\ UNCHANGED <<ixStore, ixDisk, ixOurs>> /\ ixWal' = {}
    BY <1>17 DEF IxWriterStops, IxIdleWriter, ixMemory
  <2>2. IxKept(k) => IxKept(k)'
    BY <2>1 DEF IxKept
  <2> QED
    BY <1>d, <2>1, <2>2, IxOwedRests
<1>18. ~IxExit /\ ~IxKilled /\ ~IxWriteFails
  BY DEF IxExit, IxKilled, IxRunning, IxWriteFails
<1> QED
  BY <1>b, <1>2, <1>3, <1>5, <1>7, <1>8, <1>9, <1>10, <1>11, <1>13, <1>14, <1>15, <1>16, <1>17,
     <1>18 DEF IxNext

\* Once the writer was joined, what happens in the drain, to the exit.
LEMMA IxSettledStep ==
    ASSUME IxTypeOK, IxOwedInv, [IxNext]_ixVars,
           ixDaemon' \in IxSaving, ~ixExcused'
    PROVE  IxSettled'
<1> USE DEF IxSaving
<1>a. IxSetsOK /\ IxStoreOK /\ IxQueueOK /\ IxLoadOK /\ IxPubOK /\ IxDaemonOK
  BY IxParts
\* The writer is joined: its channel and its log are empty.
<1>1. ASSUME NEW inTime \in BOOLEAN, IxWriterStops(inTime) PROVE IxSettled'
  <2>1. IxRunning /\ ixDaemon = "stopping"
    BY <1>1 DEF IxRunning, IxWriterStops
  <2>2. ~ixExcused /\ inTime
    BY <1>1, Zenon DEF IxWriterStops
  <2>3. /\ ixQueue = <<>> /\ ixWal = {} /\ ixWriter.pc = "idle"
        /\ ixQueue' = <<>> /\ ixWal' = {} /\ UNCHANGED <<ixOurs, ixDisk>>
    BY <1>1, <2>2 DEF IxWriterStops
  <2>4. \A k \in ixOurs : k \in ixDisk
    <3> SUFFICES ASSUME NEW k \in ixOurs PROVE k \in ixDisk
      OBVIOUS
    <3>1. IxOwed(k)
      BY <2>1, <2>2 DEF IxOwedInv
    <3>2. ~IxPromised(k)
      BY <2>3, IxEmptyQueue DEF IxPromised
    <3> QED
      BY <2>3, <3>1, <3>2 DEF IxOwed, IxKept
  <2> QED
    BY <2>3, <2>4, IxEmptyQueue DEF IxSettled
<1>2. ASSUME IxSettled, ~ixExcused, ixDaemon \in IxSaving PROVE IxSettled'
  <2>a. /\ ixDaemon = "stopped" => ~IxRunning
        /\ ixDaemon \in {"saving", "saved"} => IxRunning /\ ixGuard.op = "shutdown"
    BY <1>2 DEF IxOwedInv, IxStages, IxEnding, IxRunning
  <2>b. \A p \in IxPublisher : ixPub[p].pc \notin {"guarded", "persisted"}
    BY <1>2, <1>a, <2>a DEF IxPubOK, IxOwedInv, IxStages
  <2>1. CASE UNCHANGED <<ixWal, ixQueue, ixOurs, ixDisk>>
    BY <1>2, <2>1 DEF IxSettled
  <2>2. ASSUME NEW p \in IxPublisher,
               \/ \E key \in IxKey : IxBegin(p, key)
               \/ IxPersist(p) \/ IxPersistFails(p) \/ IxCommit(p) \/ IxConflict(p)
        PROVE  IxSettled'
    BY <1>2, <2>b, <2>2 DEF IxBegin, IxPersist, IxPersistFails, IxCommit, IxConflict
  <2>3. ASSUME NEW p \in IxPublisher, IxConflictRemove(p) PROVE IxSettled'
    <3> DEFINE cmd == [op |-> "Remove", key |-> ixPub[p].key]
    <3>1. cmd \in IxCommand
      BY <1>a, IxCommands DEF IxPubOK, IxPublisherState
    <3>2. /\ IxSend(cmd) /\ ixOurs' = ixOurs \ {ixPub[p].key} /\ UNCHANGED <<ixWal, ixDisk>>
      BY <2>3 DEF IxConflictRemove
    <3>3. /\ Len(ixQueue) \in Nat /\ Len(ixQueue') = Len(ixQueue) + 1
          /\ ixQueue'[Len(ixQueue) + 1] = cmd
          /\ \A i \in 1..Len(ixQueue) : ixQueue'[i] = ixQueue[i]
      BY <1>a, <3>1, <3>2, IxSent DEF IxQueueOK
    <3>4. ASSUME NEW i \in 1..Len(ixQueue')
          PROVE  ixQueue'[i].op = "Remove" /\ ixQueue'[i].key \notin ixOurs'
      <4>1. CASE i = Len(ixQueue) + 1
        BY <3>2, <3>3, <4>1
      <4>2. CASE i # Len(ixQueue) + 1
        <5>1. i \in 1..Len(ixQueue)
          BY <3>3, <4>2
        <5> QED
          BY <1>2, <3>2, <3>3, <5>1 DEF IxSettled
      <4> QED
        BY <4>1, <4>2
    <3> QED
      BY <1>2, <3>2, <3>4 DEF IxSettled
  <2>4. ASSUME \/ \E l \in IxLoader : IxLoadRead(l) \/ IxLoadInstall(l)
               \/ IxSnapshot \/ IxFinalFlush \/ UNCHANGED ixVars
        PROVE  IxSettled'
    BY <2>1, <2>4
       DEF IxLoadRead, IxLoadInstall, IxSnapshot, IxFinalFlush, ixVars, ixLog, ixFlags
  <2>5. ASSUME \/ \E k \in IxKey : IxLookup(k) \/ IxTouch(k) \/ IxMaintain(k)
               \/ IxClearBegin \/ IxShutdown \/ IxDrain
               \/ \E inTime \in BOOLEAN : IxFlushed(inTime)
        PROVE  FALSE
    BY <1>2, <2>5
       DEF IxLookup, IxTouch, IxMaintain, IxClearBegin, IxShutdown, IxDrain, IxFlushed
  <2>6. ASSUME \/ \E k \in IxKey : IxMaintainIndex(k)
               \/ IxMaintainFails \/ IxClearSend \/ IxClearEnd
        PROVE  FALSE
    <3>1. ixGuard.op \in {"maintain", "clear", "cleared"}
      <4>1. ASSUME NEW k \in IxKey, IxMaintainIndex(k) PROVE ixGuard.op = "maintain"
        BY <4>1 DEF IxMaintainIndex
      <4> QED
        BY <2>6, <4>1 DEF IxMaintainFails, IxClearSend, IxClearEnd
    <3> QED
      BY <1>2, <2>a, <3>1 DEF IxOwedInv, IxStages
  <2>7. ASSUME IxInsert \/ IxTouched \/ IxClear \/ IxFlush \/ IxTick PROVE FALSE
    <3>1. CASE IxTick
      BY <1>2, <3>1 DEF IxTick, IxSettled
    <3>2. CASE ixQueue # <<>> /\ Head(ixQueue).op # "Remove"
      <4>1. 1 \in 1..Len(ixQueue) /\ Head(ixQueue) = ixQueue[1]
        BY <1>a, <3>2, IxHead DEF IxQueueOK
      <4> QED
        BY <1>2, <3>2, <4>1 DEF IxSettled
    <3> QED
      BY <2>7, <3>1, <3>2 DEF IxInsert, IxTouched, IxClear, IxFlush, IxReceive
  <2>8. ASSUME IxRemove PROVE IxSettled'
    <3>1. /\ ixQueue # <<>> /\ ixQueue' = Tail(ixQueue) /\ ixWal' \subseteq ixWal
          /\ UNCHANGED <<ixOurs, ixDisk>>
      BY <2>8 DEF IxRemove, IxReceive, ixFlags
    <3>2. /\ Len(ixQueue) \in Nat \ {0} /\ Len(ixQueue') = Len(ixQueue) - 1
          /\ \A i \in 1..Len(ixQueue') : ixQueue'[i] = ixQueue[i + 1]
      BY <1>a, <3>1, IxHead DEF IxQueueOK
    <3>3. \A i \in 1..Len(ixQueue') : i + 1 \in 1..Len(ixQueue)
      BY <3>2
    <3> QED
      BY <1>2, <3>1, <3>2, <3>3 DEF IxSettled
  <2>9. ASSUME IxWrite PROVE IxSettled'
    <3>1. ixWriter.pc = "write" /\ ixDisk' = ixWriter.rows /\ UNCHANGED <<ixWal, ixQueue, ixOurs>>
      BY <2>9 DEF IxWrite
    <3>2. IxRunning
      BY <3>1 DEF IxOwedInv, IxStages
    <3>3. ASSUME NEW k \in ixOurs PROVE k \in ixWriter.rows
      <4>1. IxOwed(k)
        BY <1>2, <3>2 DEF IxOwedInv
      <4>2. ~IxPromised(k)
        BY <1>2 DEF IxPromised, IxSettled
      <4> QED
        BY <1>2, <3>1, <4>1, <4>2 DEF IxOwed, IxKept, IxSettled
    <3> QED
      BY <1>2, <3>1, <3>3 DEF IxSettled
  <2>10. ASSUME IxExit \/ IxKilled PROVE IxSettled'
    <3>1. ixWal' = {} /\ ixQueue' = <<>> /\ UNCHANGED <<ixOurs, ixDisk>>
      BY <2>10 DEF IxExit, IxKilled, IxForgotten, ixFlags
    <3> QED
      BY <1>2, <3>1, IxEmptyQueue DEF IxSettled
  <2>11. ~IxWriteFails /\ ~IxRestart
    BY DEF IxWriteFails, IxRestart
  <2> QED
    BY <1>1, <2>2, <2>3, <2>4, <2>5, <2>6, <2>7, <2>8, <2>9, <2>10, <2>11 DEF IxNext
<1>3. ~IxRestart
  BY DEF IxRestart, IxSaving
<1>4. ~ixExcused /\ (ixDaemon \in IxSaving \/ \E inTime \in BOOLEAN : IxWriterStops(inTime))
  BY <1>3, IxStillOwed
<1> QED
  BY <1>1, <1>2, <1>4 DEF IxOwedInv

(***************************************************************************)
(* For any keys, publishers and bounds: a daemon that stops gracefully,    *)
(* with no failed write and no wait cut short, leaves every row it         *)
(* committed and nobody asked to remove in index.bin.  The drain takes the *)
(* lock after the last publisher, its flush is behind every row in the     *)
(* channel, and a removal that overtakes a commit takes the row out of     *)
(* what is promised (drain_durable_state_for_shutdown, run_index_writer).  *)
(***************************************************************************)
THEOREM IxGracefulStopKeepsHolds == IxSpec => []IxGracefulStopKeeps
<1>1. IxInit => IxOwedInv
  BY DEF IxInit, IxOwedInv, IxStages, IxEnding, IxSaving, IxRunning, IxUnguarded
<1>2. IxTypeOK /\ IxOwedInv /\ [IxNext]_ixVars => IxOwedInv'
  <2> SUFFICES ASSUME IxTypeOK, IxOwedInv, [IxNext]_ixVars PROVE IxOwedInv'
    OBVIOUS
  <2>1. IxStages'
    BY IxStagesStep DEF IxOwedInv
  <2>2. IxRunning' /\ ~ixExcused' => \A k \in ixOurs' : IxOwed(k)'
    BY IxOursOwed
  <2>3. ixDaemon' \in IxSaving /\ ~ixExcused' => IxSettled'
    BY IxSettledStep
  <2> QED
    BY <2>1, <2>2, <2>3 DEF IxOwedInv
<1>3. IxOwedInv => IxGracefulStopKeeps
  BY DEF IxOwedInv, IxSettled, IxSaving, IxGracefulStopKeeps
<1> QED
  BY <1>1, <1>2, <1>3, IxTypeCorrect, PTL DEF IxSpec
=============================================================================
