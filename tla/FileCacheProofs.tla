--------------------------- MODULE FileCacheProofs ---------------------------
(***************************************************************************)
(* Proofs about the caches of what files contain: the metadata cache       *)
(* (FsCache) and the daemon's fingerprint watch (FingerprintWatch), for    *)
(* every number of files, threads, retries, edits and restarts; and the    *)
(* types of the caches together.                                           *)
(***************************************************************************)
EXTENDS MCFileCaches, FingerprintCycleProofs, FiniteSetTheorems, TLAPS

-----------------------------------------------------------------------------
(* The metadata cache *)

\* Every edit moves the mtime by what mtimes_match (metadata.rs) can see.  An
\* edit of the same size inside the tolerance looks like none.
EditsVisible == \A step \in MtimeSteps : step >= Tolerance

\* A file's past: what it is now is part of it, and no two of its mtimes match.
HistoryOK ==
    \A p \in Path :
        /\ <<mtime[p], content[p]>> \in history[p]
        /\ \A x \in history[p] : x[1] <= mtime[p]
        /\ \A x, y \in history[p] :
             x = y \/ x[1] + Tolerance <= y[1] \/ y[1] + Tolerance <= x[1]

\* The pair m, h is one that the file had, or the file's entry was given up on.
Known(p, m, h) == <<m, h>> \in history[p] \/ p \in unstable

\* What is stored: an entry at Low, collected for a save, or on disk, is faithful
\* unless the file is unstable; a trusted one unless it was vouched for.
StoredOK ==
    /\ vouched \subseteq unstable
    /\ \A p \in Path : entries[p] # None => Known(p, entries[p].mtime, entries[p].hash)
    /\ \A p \in Path : snapshot[p] # None => Known(p, snapshot[p].mtime, snapshot[p].hash)
    /\ saving # None =>
         \A p \in Path : saving[p] # None => Known(p, saving[p].mtime, saving[p].hash)

\* The pair a thread has copied from a trusted entry.
CopyOK(t) ==
    call[t].path \in vouched \/ <<call[t].mtime, call[t].hash>> \in history[call[t].path]

\* What the opened file and the hash of it stand for: contents of the lookup, and
\* the present content as long as the mtime is the one of the open.
ReadOK(t, h) ==
    /\ h \in seen[t]
    /\ call[t].mtime <= mtime[call[t].path]
    /\ call[t].mtime = mtime[call[t].path] => h = content[call[t].path]

\* A lookup at each of its steps.
LookupOK(t) ==
    /\ pc[t] # "idle" /\ exists[call[t].path] => content[call[t].path] \in seen[t]
    /\ pc[t] \in {"idle", "start", "fast", "slow", "stat", "promote"} => call[t].tries = 0
    /\ pc[t] # "done" /\ call[t].tries # 0 => call[t].first \in seen[t]
    /\ pc[t] = "fast" => CopyOK(t)
    /\ pc[t] = "stat" /\ call[t].confidence \in Trusted => CopyOK(t)
    /\ pc[t] = "promote" => CopyOK(t)
    /\ pc[t] \in {"promote", "done"} => call[t].hash \in seen[t] \/ call[t].path \in vouched
    /\ pc[t] = "read" => ReadOK(t, call[t].fd)
    /\ pc[t] = "post" => ReadOK(t, call[t].hash)
    /\ pc[t] \in {"post", "restat"} => call[t].first \in seen[t]
    /\ pc[t] = "insert" =>
         /\ call[t].hash \in seen[t]
         /\ \/ call[t].confidence = "Low" /\ call[t].path \in unstable
            \/ <<call[t].mtime, call[t].hash>> \in history[call[t].path]

FsInv ==
    /\ TypeOK /\ HistoryOK /\ StoredOK /\ TrustedFaithful
    /\ \A t \in Thread : LookupOK(t)

-----------------------------------------------------------------------------
\* Every operation of the cache keeps every variable in its type.
LEMMA FsTypeStep ==
    ASSUME TypeOK, [Next]_vars
    PROVE  TypeOK'
<1> USE FsConstants DEF TypeOK
<1>1. ASSUME NEW p \in Path, Delete(p) PROVE TypeOK'
  BY <1>1 DEF Delete, Notify, cacheVars, threadVars, ghosts
<1>2. ASSUME NEW p \in Path, NEW step \in MtimeSteps, Edit(p, step) PROVE TypeOK'
  <2>0. step \in Nat /\ mtime[p] \in Nat /\ edits \in Nat
    OBVIOUS
  <2>1. step \in Nat /\ edits + 1 \in Nat /\ mtime[p] + step \in Nat
    BY <2>0
  <2> USE <1>2 DEF Edit, cacheVars, threadVars
  <2>2. history' \in [Path -> SUBSET (Nat \X Nat)]
    BY <2>1
  <2>3. seen' \in [Thread -> SUBSET Nat]
    BY <2>1
  <2>4. mtime' \in [Path -> Nat] /\ content' \in [Path -> Nat] /\ exists' \in [Path -> BOOLEAN]
    BY <2>1
  <2>5. events' \in [Path -> {"none", "changed", "removed"}]
    BY DEF Notify
  <2> QED BY <2>1, <2>2, <2>3, <2>4, <2>5
<1>3. ASSUME NEW p \in Path, ApplyChange(p) PROVE TypeOK'
  BY <1>3 DEF ApplyChange, Downgraded, FileMetadata, Confidence, fs, threadVars, ghosts
<1>4. ASSUME NEW p \in Path, RescanStat(p) PROVE TypeOK'
  BY <1>4 DEF RescanStat, fs, threadVars, ghosts
<1>5. ASSUME NEW p \in Path, EvictEntry(p) PROVE TypeOK'
  BY <1>5 DEF EvictEntry, fs, threadVars, ghosts
<1>6. CASE ApplyOverflow
  <2>1. ASSUME NEW p \in Path PROVE Downgraded(entries[p]) \in FileMetadata \cup {None}
    BY DEF Downgraded, FileMetadata, Confidence
  <2> QED BY <1>6, <2>1 DEF ApplyOverflow, fs, threadVars, ghosts
<1>7. CASE RescanApply
  BY <1>7 DEF RescanApply, Promotable, FileMetadata, Confidence, fs, threadVars
<1>8. CASE Clear
  BY <1>8 DEF Clear, fs, threadVars, ghosts
<1>9. CASE SaveCollect
  BY <1>9 DEF SaveCollect, Persisted, FileMetadata, PersistedEntry, fs, threadVars, ghosts
<1>10. CASE SaveRename
  BY <1>10 DEF SaveRename, fs, threadVars, ghosts
<1>11. CASE Restart
  <2>1. ASSUME NEW t \in Thread PROVE NoCall(call[t].path) \in Call
    BY DEF NoCall, Call, Confidence
  <2>2. call' \in [Thread -> Call]
    BY <1>11, <2>1 DEF Restart
  <2>3. seen' \in [Thread -> SUBSET Nat] /\ pc' \in [Thread -> Steps]
    BY <1>11 DEF Restart, Steps
  <2>4. /\ entries' \in [Path -> FileMetadata \cup {None}]
        /\ events' \in [Path -> {"none", "changed", "removed"}]
        /\ restarts' \in Nat
    BY <1>11 DEF Restart
  <2> QED BY <1>11, <2>2, <2>3, <2>4 DEF Restart, fs, ghosts
<1>12. CASE Load
  BY <1>12 DEF Load, Restored, FileMetadata, PersistedEntry, Confidence, fs, threadVars
<1>13. ASSUME NEW t \in Thread, NEW p \in Path, Lookup(t, p) PROVE TypeOK'
  BY <1>13 DEF Lookup, Goto, Steps, Call, lookupRest, fs
<1>14. ASSUME NEW t \in Thread, LookupStep(t) PROVE TypeOK'
  <2> USE DEF Goto, End, lookupRest, fs
  <2>0. call[t] \in Call /\ call[t].path \in Path
    BY DEF Call
  <2>1. CASE FastCopy(t)
    BY <2>0, <2>1 DEF FastCopy, Steps, Call, FileMetadata
  <2>2. CASE FastStat(t)
    BY <2>0, <2>2 DEF FastStat, Steps
  <2>3. CASE FastSkip(t)
    BY <2>0, <2>3 DEF FastSkip, Steps
  <2>4. CASE SlowGet(t)
    <3>1. ASSUME entries[call[t].path] # None, NEW c \in Decayed(entries[call[t].path].confidence)
          PROVE  c \in Confidence
      BY <2>0, <3>1 DEF Decayed, Confidence, FileMetadata
    <3>2. pc' \in [Thread -> Steps] /\ call' \in [Thread -> Call]
      <4>1. CASE entries[call[t].path] = None
        BY <2>0, <2>4, <4>1 DEF SlowGet, Steps
      <4>2. CASE entries[call[t].path] # None
        <5>1. entries[call[t].path] \in FileMetadata
          BY <2>0, <4>2
        <5>2. pc' \in [Thread -> Steps]
          BY <2>4 DEF SlowGet, Steps
        <5>3. PICK c \in Decayed(entries[call[t].path].confidence) :
                call' = [call EXCEPT ![t].mtime = entries[call[t].path].mtime,
                                     ![t].hash = entries[call[t].path].hash,
                                     ![t].confidence = c]
          BY <2>4, <4>2 DEF SlowGet
        <5>4. c \in Confidence
          BY <3>1, <4>2
        <5> QED BY <2>0, <5>1, <5>2, <5>3, <5>4 DEF Call, FileMetadata
      <4> QED BY <4>1, <4>2
    <3> QED BY <2>4, <3>2 DEF SlowGet
  <2>5. CASE SlowStat(t)
    BY <2>0, <2>5 DEF SlowStat, Steps
  <2>6. CASE SlowGone(t)
    BY <2>0, <2>6 DEF SlowGone, NoCall, Call, Confidence, Steps
  <2>7. CASE Promote(t)
    BY <2>0, <2>7 DEF Promote, FileMetadata, Call, Confidence, Steps
  <2>8. CASE HashOpen(t)
    BY <2>0, <2>8 DEF HashOpen, Call, Steps
  <2>9. CASE HashRead(t)
    <3>1. PICK h \in {call[t].fd} \cup {content[p] : p \in {q \in {call[t].path} : exists[q]}} :
            call' = [call EXCEPT ![t].hash = h, ![t].fd = 0,
                                 ![t].first = IF call[t].tries = 0 THEN h ELSE @]
      BY <2>9 DEF HashRead
    <3>2. h \in Nat
      BY <2>0 DEF Call
    <3>3. call' \in [Thread -> Call]
      BY <2>0, <3>1, <3>2 DEF Call
    <3> QED BY <2>9, <3>3 DEF HashRead, Steps
  <2>10. CASE HashPost(t)
    <3>1. call' \in [Thread -> Call]
      <4>1. call' = call \/ call' = [call EXCEPT ![t].confidence = "High"]
              \/ call' = [call EXCEPT ![t].tries = @ + 1]
        BY <2>10 DEF HashPost
      <4>2. [call EXCEPT ![t].confidence = "High"] \in [Thread -> Call]
        BY <2>0 DEF Call, Confidence
      <4>3. [call EXCEPT ![t].tries = @ + 1] \in [Thread -> Call]
        BY <2>0 DEF Call
      <4> QED BY <4>1, <4>2, <4>3
    <3>2. pc' \in [Thread -> Steps]
      BY <2>10 DEF HashPost, Steps
    <3> QED BY <2>10, <3>1, <3>2 DEF HashPost
  <2>11. CASE HashRestat(t)
    BY <2>0, <2>11 DEF HashRestat, Call, Confidence, Steps
  <2>12. CASE HashGone(t)
    BY <2>0, <2>12 DEF HashGone, NoCall, Call, Confidence, Steps
  <2>13. CASE Insert(t)
    BY <2>0, <2>13 DEF Insert, FileMetadata, Call, Steps
  <2>14. CASE Return(t)
    BY <2>0, <2>14 DEF Return, NoCall, Call, Confidence, Steps
  <2> QED BY <1>14, <2>1, <2>2, <2>3, <2>4, <2>5, <2>6, <2>7, <2>8, <2>9, <2>10, <2>11,
             <2>12, <2>13, <2>14 DEF LookupStep
<1>15. CASE UNCHANGED vars
  BY <1>15 DEF vars, fs, cacheVars, threadVars, ghosts
<1> QED BY <1>1, <1>2, <1>3, <1>4, <1>5, <1>6, <1>7, <1>8, <1>9, <1>10, <1>11, <1>12, <1>13,
           <1>14, <1>15 DEF Next, World, Daemon

\* The types hold initially.
LEMMA FsTypeInit == Init => TypeOK
<1> SUFFICES ASSUME Init PROVE TypeOK
  OBVIOUS
<1>1. \A p \in Path : NoCall(p) \in Call
  BY DEF NoCall, Call, Confidence
<1>2. call \in [Thread -> Call]
  BY <1>1 DEF Init
<1>3. history \in [Path -> SUBSET (Nat \X Nat)]
  BY DEF Init
<1> QED BY <1>2, <1>3 DEF Init, TypeOK, Steps

\* Type correctness of the metadata cache (metadata.rs, verify.rs, persistence.rs).
THEOREM FsTypeCorrect == Spec => []TypeOK
BY FsTypeInit, FsTypeStep, PTL DEF Spec

-----------------------------------------------------------------------------
\* What a step leaves alone.  Nothing but an edit changes a file's past, and what
\* is given up on or vouched for stays so.
FsPastKept ==
    /\ UNCHANGED <<exists, mtime, content, history>>
    /\ unstable \subseteq unstable' /\ vouched \subseteq vouched'

FsThreadKept(t) == pc'[t] = pc[t] /\ call'[t] = call[t] /\ seen'[t] = seen[t]

\* A lookup knows what it knew while the past and its locals rest.
LEMMA FsLookupFrame ==
    ASSUME NEW t \in Thread, LookupOK(t), FsPastKept, FsThreadKept(t)
    PROVE  LookupOK(t)'
BY DEF LookupOK, CopyOK, ReadOK, FsPastKept, FsThreadKept

\* The history stays what it was while the past rests.
LEMMA FsHistoryFrame ==
    ASSUME HistoryOK, FsPastKept
    PROVE  HistoryOK'
BY DEF HistoryOK, FsPastKept

\* The entries are replaced by ones that are as good, and nothing is saved.
LEMMA FsEntriesReplaced ==
    ASSUME StoredOK, TrustedFaithful, FsPastKept, vouched' \subseteq unstable',
           \A p \in Path : entries'[p] # None =>
              \/ entries'[p] = entries[p]
              \/ /\ Known(p, entries[p].mtime, entries[p].hash)'
                 /\ \/ entries'[p].confidence = "Low"
                    \/ p \in vouched'
                    \/ <<entries'[p].mtime, entries'[p].hash>> \in history[p],
           UNCHANGED <<saving, snapshot>> \/ (saving' = None /\ UNCHANGED snapshot)
    PROVE  StoredOK' /\ TrustedFaithful'
<1>1. TrustedFaithful'
  BY DEF TrustedFaithful, FsPastKept, Trusted
<1>2. StoredOK'
  BY DEF StoredOK, Known, FsPastKept
<1> QED BY <1>1, <1>2

\* The daemon's own steps: the watcher's, the rescan's, eviction's, the saver's.
LEMMA FsDaemonStep ==
    ASSUME FsInv, TypeOK', Daemon
    PROVE  FsInv'
<1> USE DEF FsInv
<1>1. ASSUME FsPastKept, \A t \in Thread : FsThreadKept(t), StoredOK', TrustedFaithful'
      PROVE  FsInv'
  BY <1>1, FsLookupFrame, FsHistoryFrame
<1>2. ASSUME UNCHANGED <<fs, threadVars, ghosts>>
      PROVE  /\ FsPastKept
             /\ \A t \in Thread : FsThreadKept(t)
             /\ vouched' \subseteq unstable'
  BY <1>2 DEF FsPastKept, FsThreadKept, fs, threadVars, ghosts, StoredOK
<1>3. ASSUME NEW p \in Path, ApplyChange(p) PROVE FsInv'
  <2>1. UNCHANGED <<fs, threadVars, ghosts>> /\ UNCHANGED <<saving, snapshot>>
    BY <1>3 DEF ApplyChange
  <2>2. ASSUME NEW q \in Path, entries'[q] # None
        PROVE  \/ entries'[q] = entries[q]
               \/ /\ Known(q, entries[q].mtime, entries[q].hash)'
                  /\ entries'[q].confidence = "Low"
    BY <1>3, <2>1, <2>2 DEF ApplyChange, Downgraded, TypeOK, FileMetadata, StoredOK, Known, ghosts
  <2> QED BY <1>1, <1>2, <2>1, <2>2, FsEntriesReplaced
<1>4. ASSUME NEW p \in Path, RescanStat(p) PROVE FsInv'
  <2>1. UNCHANGED <<fs, threadVars, ghosts>> /\ UNCHANGED <<entries, saving, snapshot>>
    BY <1>4 DEF RescanStat
  <2> QED BY <1>1, <1>2, <2>1, FsEntriesReplaced
<1>5. ASSUME NEW p \in Path, EvictEntry(p) PROVE FsInv'
  <2>1. UNCHANGED <<fs, threadVars, ghosts>> /\ UNCHANGED <<saving, snapshot>>
    BY <1>5 DEF EvictEntry
  <2>2. \A q \in Path : entries'[q] # None => entries'[q] = entries[q]
    BY <1>5 DEF EvictEntry, TypeOK
  <2> QED BY <1>1, <1>2, <2>1, <2>2, FsEntriesReplaced
<1>6. CASE ApplyOverflow
  <2>1. UNCHANGED <<fs, threadVars, ghosts>> /\ UNCHANGED <<saving, snapshot>>
    BY <1>6 DEF ApplyOverflow
  <2>2. ASSUME NEW q \in Path, entries'[q] # None
        PROVE  /\ Known(q, entries[q].mtime, entries[q].hash)'
               /\ entries'[q].confidence = "Low"
    BY <1>6, <2>1, <2>2 DEF ApplyOverflow, Downgraded, TypeOK, FileMetadata, StoredOK, Known, ghosts
  <2> QED BY <1>1, <1>2, <2>1, <2>2, FsEntriesReplaced
<1>7. CASE RescanApply
  <2>1. FsPastKept /\ (\A t \in Thread : FsThreadKept(t)) /\ vouched' \subseteq unstable'
    BY <1>7 DEF RescanApply, fs, threadVars, FsPastKept, FsThreadKept, StoredOK
  <2>2. ASSUME NEW q \in Path, entries'[q] # None
        PROVE  \/ entries'[q] = entries[q]
               \/ /\ Known(q, entries[q].mtime, entries[q].hash)'
                  /\ q \in vouched' \/ <<entries'[q].mtime, entries'[q].hash>> \in history[q]
    <3>1. CASE q = rescan.path /\ Promotable(entries[q], rescan.mtime)
      <4>1. entries[q] \in FileMetadata
        BY <3>1 DEF Promotable, TypeOK
      <4>2. entries'[q].mtime = entries[q].mtime /\ entries'[q].hash = entries[q].hash
        BY <1>7, <3>1, <4>1 DEF RescanApply, FileMetadata, TypeOK
      <4>3. Known(q, entries[q].mtime, entries[q].hash)
        BY <3>1 DEF StoredOK, Promotable
      <4> QED BY <1>7, <3>1, <4>2, <4>3 DEF RescanApply, Known
    <3>2. CASE ~(q = rescan.path /\ Promotable(entries[q], rescan.mtime))
      BY <1>7, <3>2 DEF RescanApply, TypeOK
    <3> QED BY <3>1, <3>2
  <2> QED BY <1>1, <1>7, <2>1, <2>2, FsEntriesReplaced DEF RescanApply
<1>8. CASE Clear
  <2>1. UNCHANGED <<fs, threadVars, ghosts>> /\ UNCHANGED <<saving, snapshot>>
    BY <1>8 DEF Clear
  <2>2. \A q \in Path : entries'[q] # None => entries'[q] = entries[q]
    BY <1>8 DEF Clear
  <2> QED BY <1>1, <1>2, <2>1, <2>2, FsEntriesReplaced
<1>9. CASE SaveCollect
  <2>1. UNCHANGED <<fs, threadVars, ghosts>> /\ UNCHANGED <<entries, snapshot>>
    BY <1>9 DEF SaveCollect
  <2>2. ASSUME NEW q \in Path, saving'[q] # None
        PROVE  Known(q, saving'[q].mtime, saving'[q].hash)
    BY <1>9, <2>2 DEF SaveCollect, Persisted, StoredOK
  <2>3. StoredOK' /\ TrustedFaithful'
    BY <2>1, <2>2 DEF StoredOK, TrustedFaithful, Known, ghosts
  <2> QED BY <1>1, <1>2, <2>1, <2>3
<1>10. CASE SaveRename
  <2>1. UNCHANGED <<fs, threadVars, ghosts>> /\ UNCHANGED entries
    BY <1>10 DEF SaveRename
  <2>2. StoredOK' /\ TrustedFaithful'
    BY <1>10, <2>1 DEF SaveRename, StoredOK, TrustedFaithful, Known, ghosts
  <2> QED BY <1>1, <1>2, <2>1, <2>2
<1>11. CASE Restart
  <2>1. FsPastKept /\ vouched' \subseteq unstable'
    BY <1>11 DEF Restart, fs, ghosts, FsPastKept, StoredOK
  <2>2. \A q \in Path : entries'[q] # None => entries'[q] = entries[q]
    BY <1>11 DEF Restart
  <2>3. StoredOK' /\ TrustedFaithful'
    BY <1>11, <2>1, <2>2, FsEntriesReplaced DEF Restart
  <2>4. ASSUME NEW t \in Thread PROVE LookupOK(t)'
    BY <1>11 DEF Restart, LookupOK, NoCall
  <2> QED BY <2>1, <2>3, <2>4, FsHistoryFrame
<1>12. CASE Load
  <2>1. FsPastKept /\ (\A t \in Thread : FsThreadKept(t)) /\ vouched' \subseteq unstable'
    BY <1>12 DEF Load, fs, threadVars, FsPastKept, FsThreadKept, StoredOK
  <2>2. ASSUME NEW q \in Path, entries'[q] # None
        PROVE  \/ entries'[q] = entries[q]
               \/ /\ Known(q, entries[q].mtime, entries[q].hash)'
                  /\ q \in vouched' \/ <<entries'[q].mtime, entries'[q].hash>> \in history[q]
    BY <1>12, <2>2 DEF Load, Restored, StoredOK, Known
  <2> QED BY <1>1, <1>12, <2>1, <2>2, FsEntriesReplaced DEF Load
<1> QED BY <1>3, <1>4, <1>5, <1>6, <1>7, <1>8, <1>9, <1>10, <1>11, <1>12 DEF Daemon

\* An edit takes an mtime that matches no earlier one; a delete changes neither
\* content nor mtime.
LEMMA FsWorldStep ==
    ASSUME EditsVisible, FsInv, TypeOK', World
    PROVE  FsInv'
<1> USE DEF FsInv
<1>1. ASSUME NEW p \in Path, Delete(p) PROVE FsInv'
  <2> USE <1>1 DEF Delete, cacheVars, threadVars, ghosts
  <2>1. HistoryOK'  BY DEF HistoryOK
  <2>2. StoredOK'  BY DEF StoredOK, Known
  <2>3. TrustedFaithful'  BY DEF TrustedFaithful
  <2>4. ASSUME NEW t \in Thread PROVE LookupOK(t)'
    BY DEF LookupOK, CopyOK, ReadOK, TypeOK, Call
  <2> QED BY <2>1, <2>2, <2>3, <2>4
<1>2. ASSUME NEW p \in Path, NEW step \in MtimeSteps, Edit(p, step) PROVE FsInv'
  <2>0. step \in Nat /\ step >= 2 /\ mtime[p] \in Nat /\ edits \in Nat
    BY FsConstants, EditsVisible DEF EditsVisible, Tolerance, TypeOK
  <2>1. /\ history'[p] = history[p] \cup {<<mtime[p] + step, edits + 1>>}
        /\ \A q \in Path : q # p => history'[q] = history[q]
        /\ mtime'[p] = mtime[p] + step /\ content'[p] = edits + 1
        /\ \A q \in Path : q # p => mtime'[q] = mtime[q] /\ content'[q] = content[q]
        /\ \A q \in Path : q # p => exists'[q] = exists[q]
        /\ UNCHANGED <<pc, call, entries, saving, snapshot, unstable, vouched>>
        /\ \A t \in Thread : seen[t] \subseteq seen'[t]
        /\ \A t \in Thread : call[t].path = p /\ pc[t] # "idle" => edits + 1 \in seen'[t]
    BY <1>2 DEF Edit, TypeOK, cacheVars
  <2>2. HistoryOK'
    <3> SUFFICES ASSUME NEW q \in Path
                 PROVE  /\ <<mtime'[q], content'[q]>> \in history'[q]
                        /\ \A x \in history'[q] : x[1] <= mtime'[q]
                        /\ \A x, y \in history'[q] :
                             x = y \/ x[1] + Tolerance <= y[1] \/ y[1] + Tolerance <= x[1]
      BY DEF HistoryOK
    <3>1. CASE q # p
      BY <2>1, <3>1 DEF HistoryOK
    <3>2. CASE q = p
      <4>1. \A x \in history[p] : x \in Nat \X Nat /\ x[1] \in Nat /\ x[1] <= mtime[p]
        <5>1. history[p] \in SUBSET (Nat \X Nat)
          BY DEF TypeOK
        <5>2. \A x \in Nat \X Nat : x[1] \in Nat
          OBVIOUS
        <5> QED BY <5>1, <5>2 DEF HistoryOK
      <4> DEFINE new == <<mtime[p] + step, edits + 1>>
      <4>2. new[1] = mtime[p] + step
        OBVIOUS
      <4> HIDE DEF new
      <4>3. \A x \in history[p] : x[1] + Tolerance <= new[1] /\ x[1] <= new[1]
        BY <2>0, <4>1, <4>2 DEF Tolerance
      <4>4. history'[q] = history[p] \cup {new} /\ new = <<mtime'[q], content'[q]>>
            /\ new[1] = mtime'[q]
        BY <2>1, <3>2, <4>2 DEF new
      <4>5. new[1] <= new[1]
        BY <2>0, <4>2
      <4> QED BY <3>2, <4>3, <4>4, <4>5 DEF HistoryOK
    <3> QED BY <3>1, <3>2
  <2>3. \A q \in Path : history[q] \subseteq history'[q]
    BY <2>1
  <2>4. StoredOK'
    BY <2>1, <2>3 DEF StoredOK, Known
  <2>5. TrustedFaithful'
    BY <2>1, <2>3 DEF TrustedFaithful
  <2>6. ASSUME NEW t \in Thread PROVE LookupOK(t)'
    <3>0. call[t].path \in Path /\ call[t].mtime \in Nat /\ call'[t] = call[t] /\ pc'[t] = pc[t]
      BY <2>1 DEF TypeOK, Call
    <3>1. CopyOK(t) => CopyOK(t)'
      BY <2>1, <2>3, <3>0 DEF CopyOK
    <3>2. \A h : ReadOK(t, h) => ReadOK(t, h)'
      BY <2>0, <2>1, <3>0 DEF ReadOK, TypeOK
    <3>3. pc[t] = "read" => ReadOK(t, call[t].fd)'
      BY <3>0, <3>2 DEF LookupOK
    <3>4. pc[t] = "post" => ReadOK(t, call[t].hash)'
      BY <3>0, <3>2 DEF LookupOK
    <3>5. pc[t] # "idle" /\ exists'[call[t].path] => content'[call[t].path] \in seen'[t]
      <4>1. CASE call[t].path = p
        BY <2>1, <4>1
      <4>2. CASE call[t].path # p
        BY <2>1, <3>0, <4>2 DEF LookupOK
      <4> QED BY <4>1, <4>2
    <3> QED BY <2>1, <2>3, <3>0, <3>1, <3>3, <3>4, <3>5 DEF LookupOK
  <2> QED BY <2>2, <2>4, <2>5, <2>6
<1> QED BY <1>1, <1>2 DEF World

\* One step of the lookup of thread t: the other threads see nothing of it.
LEMMA FsOneThread ==
    ASSUME FsInv, TypeOK', NEW t \in Thread, FsPastKept, StoredOK', TrustedFaithful',
           \A u \in Thread \ {t} : FsThreadKept(u), LookupOK(t)'
    PROVE  FsInv'
BY FsLookupFrame, FsHistoryFrame DEF FsInv

\* ... which stores nothing.
LEMMA FsNothingStored ==
    ASSUME FsInv, FsPastKept, UNCHANGED <<entries, saving, snapshot, vouched>>
    PROVE  StoredOK' /\ TrustedFaithful'
BY FsEntriesReplaced DEF FsInv, StoredOK, FsPastKept

\* A lookup begins: what the file contains now counts as seen.
LEMMA FsBeginStep ==
    ASSUME FsInv, TypeOK', NEW t \in Thread, NEW p \in Path, Lookup(t, p)
    PROVE  FsInv'
<1> USE DEF FsInv
<1>1. /\ FsPastKept
      /\ UNCHANGED <<entries, saving, snapshot, vouched>>
      /\ \A u \in Thread \ {t} : FsThreadKept(u)
  BY DEF Lookup, Goto, lookupRest, fs, FsPastKept, FsThreadKept, TypeOK
<1>2. /\ pc'[t] = "start" /\ call'[t].path = p /\ call'[t].tries = call[t].tries
      /\ exists[p] => content[p] \in seen'[t]
  BY DEF Lookup, Goto, TypeOK, Call
<1>3. LookupOK(t)'
  BY <1>1, <1>2 DEF LookupOK, FsPastKept, Lookup
<1> QED BY <1>1, <1>3, FsOneThread, FsNothingStored

\* The end of a lookup leaves no locals.
LEMMA FsEnded ==
    ASSUME TypeOK, NEW t \in Thread, End(t)
    PROVE  /\ LookupOK(t)'
           /\ \A u \in Thread \ {t} : FsThreadKept(u)
<1>1. pc'[t] = "idle" /\ call'[t].tries = 0
  BY DEF End, Goto, TypeOK, NoCall, Call
<1>2. \A u \in Thread \ {t} : FsThreadKept(u)
  BY DEF End, Goto, TypeOK, FsThreadKept
<1> QED BY <1>1, <1>2 DEF LookupOK

\* The steps of lookup_since and hash_and_insert.
LEMMA FsLookupStep ==
    ASSUME EditsVisible, FsInv, TypeOK', NEW t \in Thread, LookupStep(t)
    PROVE  FsInv'
<1> DEFINE p == call[t].path
<1> USE DEF FsInv
<1>0. /\ call[t] \in Call
      /\ p \in Path
      /\ call[t].mtime \in Nat /\ call[t].tries \in Nat
      /\ mtime[p] \in Nat
  BY DEF TypeOK, Call
<1>a. ASSUME UNCHANGED <<lookupRest, entries>>, unstable \subseteq unstable'
      PROVE  FsPastKept /\ StoredOK' /\ TrustedFaithful'
  BY <1>a, FsNothingStored DEF FsPastKept, lookupRest, fs
<1>b. ASSUME NEW step, Goto(t, step),
             call' = call \/ \E r : call' = [call EXCEPT ![t] = r],
             seen' = seen
      PROVE  /\ pc'[t] = step
             /\ seen'[t] = seen[t]
             /\ \A u \in Thread \ {t} : FsThreadKept(u)
  BY <1>b DEF Goto, FsThreadKept, TypeOK
<1>1. CASE FastCopy(t)
  <2>1. entries[p] # None /\ entries[p] \in FileMetadata /\ entries[p].confidence \in Trusted
    BY <1>0, <1>1 DEF FastCopy, TypeOK
  <2>2. call' = [call EXCEPT ![t] = [call[t] EXCEPT !.mtime = entries[p].mtime, !.hash = entries[p].hash]]
    BY <1>1 DEF FastCopy
  <2>3. /\ call'[t].path = p /\ call'[t].tries = call[t].tries
        /\ call'[t].mtime = entries[p].mtime /\ call'[t].hash = entries[p].hash
    BY <1>0, <2>2 DEF TypeOK, Call
  <2>4. pc[t] = "start" /\ pc'[t] = "fast" /\ seen'[t] = seen[t]
        /\ \A u \in Thread \ {t} : FsThreadKept(u)
    BY <1>1, <1>b, <2>2 DEF FastCopy
  <2>5. FsPastKept /\ StoredOK' /\ TrustedFaithful' /\ UNCHANGED vouched
    BY <1>1, <1>a DEF FastCopy, lookupRest
  <2>6. p \in vouched \/ <<entries[p].mtime, entries[p].hash>> \in history[p]
    BY <1>0, <2>1 DEF TrustedFaithful
  <2>7. LookupOK(t)'
    BY <2>3, <2>4, <2>5, <2>6 DEF LookupOK, CopyOK, FsPastKept
  <2> QED BY <2>4, <2>5, <2>7, FsOneThread
<1>2. CASE FastStat(t)
  <2>1. pc[t] = "fast" /\ call' = call /\ seen' = seen
        /\ (pc'[t] = "slow" \/ (pc'[t] = "done" /\ exists[p] /\ MtimesMatch(call[t].mtime, mtime[p])))
        /\ \A u \in Thread \ {t} : FsThreadKept(u)
    BY <1>2 DEF FastStat, Goto, FsThreadKept, TypeOK
  <2>2. FsPastKept /\ StoredOK' /\ TrustedFaithful' /\ UNCHANGED vouched
    BY <1>2, <1>a DEF FastStat, lookupRest
  <2>3. CASE pc'[t] = "slow"
    <3>1. LookupOK(t)'
      BY <2>1, <2>2, <2>3 DEF LookupOK, FsPastKept
    <3> QED BY <2>1, <2>2, <3>1, FsOneThread
  <2>4. CASE pc'[t] = "done" /\ exists[p] /\ MtimesMatch(call[t].mtime, mtime[p])
    <3>1. content[p] \in seen[t] /\ CopyOK(t)
      BY <2>1, <2>4 DEF LookupOK
    <3>2. call[t].hash \in seen[t] \/ p \in vouched
      <4> SUFFICES ASSUME p \notin vouched PROVE call[t].hash = content[p]
        BY <3>1
      <4>1. <<call[t].mtime, call[t].hash>> \in history[p] /\ <<mtime[p], content[p]>> \in history[p]
        BY <1>0, <3>1 DEF CopyOK, HistoryOK
      <4>2. \/ <<call[t].mtime, call[t].hash>> = <<mtime[p], content[p]>>
            \/ call[t].mtime + Tolerance <= mtime[p]
            \/ mtime[p] + Tolerance <= call[t].mtime
        BY <1>0, <4>1 DEF HistoryOK
      <4>3. ~(call[t].mtime + Tolerance <= mtime[p]) /\ ~(mtime[p] + Tolerance <= call[t].mtime)
        BY <1>0, <2>4 DEF MtimesMatch, Tolerance
      <4> QED BY <4>2, <4>3
    <3>3. LookupOK(t)'
      BY <2>1, <2>2, <2>4, <3>1, <3>2 DEF LookupOK, FsPastKept
    <3> QED BY <2>1, <2>2, <3>3, FsOneThread
  <2> QED BY <2>1, <2>3, <2>4
<1>3. CASE FastSkip(t)
  <2>1. pc[t] = "start" /\ call' = call /\ seen' = seen /\ pc'[t] = "slow"
        /\ \A u \in Thread \ {t} : FsThreadKept(u)
    BY <1>3 DEF FastSkip, Goto, FsThreadKept, TypeOK
  <2>2. FsPastKept /\ StoredOK' /\ TrustedFaithful' /\ UNCHANGED vouched
    BY <1>3, <1>a DEF FastSkip, lookupRest
  <2>3. LookupOK(t)'
    BY <2>1, <2>2 DEF LookupOK, FsPastKept
  <2> QED BY <2>1, <2>2, <2>3, FsOneThread
<1>4. CASE SlowGet(t)
  <2>0. pc[t] = "slow" /\ seen' = seen
    BY <1>4 DEF SlowGet
  <2>1. FsPastKept /\ StoredOK' /\ TrustedFaithful' /\ UNCHANGED vouched
    BY <1>4, <1>a DEF SlowGet, lookupRest
  <2>2. CASE entries[p] = None
    <3>1. call' = call /\ pc'[t] = "open" /\ \A u \in Thread \ {t} : FsThreadKept(u)
      BY <1>4, <2>2 DEF SlowGet, Goto, FsThreadKept, TypeOK
    <3>2. LookupOK(t)'
      BY <2>0, <2>1, <3>1 DEF LookupOK, FsPastKept
    <3> QED BY <2>1, <3>1, <3>2, FsOneThread
  <2>3. CASE entries[p] # None
    <3>1. entries[p] \in FileMetadata
      BY <1>0, <2>3 DEF TypeOK
    <3>2. PICK c \in Decayed(entries[p].confidence) :
            call' = [call EXCEPT ![t].mtime = entries[p].mtime, ![t].hash = entries[p].hash,
                                 ![t].confidence = c]
      BY <1>4, <2>3 DEF SlowGet
    <3>3. /\ call'[t].path = p /\ call'[t].tries = call[t].tries
          /\ call'[t].mtime = entries[p].mtime /\ call'[t].hash = entries[p].hash
          /\ call'[t].confidence = c
          /\ pc'[t] = "stat"
          /\ \A u \in Thread \ {t} : FsThreadKept(u)
      BY <1>0, <1>4, <2>0, <2>3, <3>2 DEF SlowGet, Goto, FsThreadKept, TypeOK, Call
    <3>4. c \in Trusted => entries[p].confidence \in Trusted
      BY <3>1 DEF Decayed, Trusted, FileMetadata, Confidence
    <3>5. c \in Trusted => p \in vouched \/ <<entries[p].mtime, entries[p].hash>> \in history[p]
      BY <1>0, <2>3, <3>4 DEF TrustedFaithful
    <3>6. LookupOK(t)'
      BY <2>0, <2>1, <3>3, <3>5 DEF LookupOK, CopyOK, FsPastKept
    <3> QED BY <2>1, <3>3, <3>6, FsOneThread
  <2> QED BY <2>2, <2>3
<1>5. CASE SlowStat(t)
  <2>1. pc[t] = "stat" /\ exists[p] /\ call' = call /\ seen' = seen
        /\ (pc'[t] = "open" \/ (pc'[t] = "promote" /\ call[t].mtime = mtime[p]
                                  /\ call[t].confidence \in Trusted))
        /\ \A u \in Thread \ {t} : FsThreadKept(u)
    BY <1>5 DEF SlowStat, Goto, FsThreadKept, TypeOK
  <2>2. FsPastKept /\ StoredOK' /\ TrustedFaithful' /\ UNCHANGED vouched
    BY <1>5, <1>a DEF SlowStat, lookupRest
  <2>3. CASE pc'[t] = "open"
    <3>1. LookupOK(t)'
      BY <2>1, <2>2, <2>3 DEF LookupOK, FsPastKept
    <3> QED BY <2>1, <2>2, <3>1, FsOneThread
  <2>4. CASE pc'[t] = "promote" /\ call[t].mtime = mtime[p] /\ call[t].confidence \in Trusted
    <3>1. content[p] \in seen[t] /\ CopyOK(t)
      BY <2>1, <2>4 DEF LookupOK
    <3>2. call[t].hash \in seen[t] \/ p \in vouched
      <4> SUFFICES ASSUME p \notin vouched PROVE call[t].hash = content[p]
        BY <3>1
      <4>1. <<mtime[p], call[t].hash>> \in history[p] /\ <<mtime[p], content[p]>> \in history[p]
        BY <1>0, <2>4, <3>1 DEF CopyOK, HistoryOK
      <4>2. \/ <<mtime[p], call[t].hash>> = <<mtime[p], content[p]>>
            \/ mtime[p] + Tolerance <= mtime[p]
        BY <1>0, <4>1 DEF HistoryOK
      <4> QED BY <1>0, <4>2 DEF Tolerance
    <3>3. LookupOK(t)'
      BY <2>1, <2>2, <2>4, <3>1, <3>2 DEF LookupOK, CopyOK, FsPastKept
    <3> QED BY <2>1, <2>2, <3>3, FsOneThread
  <2> QED BY <2>1, <2>3, <2>4
<1>6. CASE SlowGone(t)
  <2>1. LookupOK(t)' /\ \A u \in Thread \ {t} : FsThreadKept(u)
    BY <1>6, FsEnded DEF SlowGone
  <2>2. FsPastKept /\ vouched' \subseteq unstable' /\ UNCHANGED <<saving, snapshot>>
    BY <1>6 DEF SlowGone, lookupRest, fs, FsPastKept, StoredOK
  <2>3. \A q \in Path : entries'[q] # None => entries'[q] = entries[q]
    BY <1>0, <1>6 DEF SlowGone, TypeOK
  <2>4. StoredOK' /\ TrustedFaithful'
    BY <2>2, <2>3, FsEntriesReplaced
  <2> QED BY <2>1, <2>2, <2>4, FsOneThread
<1>7. CASE Promote(t)
  <2>1. pc[t] = "promote" /\ call' = call /\ seen' = seen /\ pc'[t] = "done"
        /\ \A u \in Thread \ {t} : FsThreadKept(u)
    BY <1>7 DEF Promote, Goto, FsThreadKept, TypeOK
  <2>2. FsPastKept /\ vouched' \subseteq unstable' /\ UNCHANGED <<saving, snapshot, unstable, vouched>>
    BY <1>7 DEF Promote, lookupRest, fs, FsPastKept, StoredOK
  <2>3. CopyOK(t)
    BY <2>1 DEF LookupOK
  <2>4. /\ entries'[p].mtime = call[t].mtime /\ entries'[p].hash = call[t].hash
        /\ \A q \in Path \ {p} : entries'[q] = entries[q]
    BY <1>0, <1>7 DEF Promote, TypeOK
  <2>5. p \in vouched' \/ <<entries'[p].mtime, entries'[p].hash>> \in history[p]
    BY <2>2, <2>3, <2>4 DEF CopyOK
  <2>6. ASSUME NEW q \in Path, q = p PROVE Known(q, entries[q].mtime, entries[q].hash)'
    BY <2>2, <2>5, <2>6 DEF Known, FsPastKept
  <2>7. \A q \in Path : entries'[q] # None =>
              \/ entries'[q] = entries[q]
              \/ /\ Known(q, entries[q].mtime, entries[q].hash)'
                 /\ \/ entries'[q].confidence = "Low"
                    \/ q \in vouched'
                    \/ <<entries'[q].mtime, entries'[q].hash>> \in history[q]
    BY <2>4, <2>5, <2>6
  <2>8. StoredOK' /\ TrustedFaithful'
    BY <2>2, <2>7, FsEntriesReplaced
  <2>9. LookupOK(t)'
    BY <2>1, <2>2 DEF LookupOK, FsPastKept
  <2> QED BY <2>1, <2>2, <2>8, <2>9, FsOneThread

<1>8. CASE HashOpen(t)
  <2>1. call' = [call EXCEPT ![t] = [call[t] EXCEPT !.mtime = mtime[p], !.fd = content[p]]]
    BY <1>8 DEF HashOpen
  <2>2. /\ call'[t].path = p /\ call'[t].tries = call[t].tries /\ call'[t].first = call[t].first
        /\ call'[t].mtime = mtime[p] /\ call'[t].fd = content[p]
    BY <1>0, <2>1 DEF TypeOK, Call
  <2>3. pc[t] = "open" /\ exists[p] /\ pc'[t] = "read" /\ seen'[t] = seen[t]
        /\ \A u \in Thread \ {t} : FsThreadKept(u)
    BY <1>8, <1>b, <2>1 DEF HashOpen
  <2>4. FsPastKept /\ StoredOK' /\ TrustedFaithful' /\ UNCHANGED vouched
    BY <1>8, <1>a DEF HashOpen, lookupRest
  <2>5. content[p] \in seen[t]
    BY <2>3 DEF LookupOK
  <2>6. mtime[p] <= mtime[p]
    BY <1>0
  <2>7. ReadOK(t, call[t].fd)'
    BY <2>2, <2>3, <2>4, <2>5, <2>6 DEF ReadOK, FsPastKept
  <2>8. LookupOK(t)'
    BY <2>2, <2>3, <2>4, <2>5, <2>7 DEF LookupOK, FsPastKept
  <2> QED BY <2>3, <2>4, <2>8, FsOneThread
<1>9. CASE HashRead(t)
  <2>1. PICK h \in {call[t].fd} \cup {content[x] : x \in {q \in {p} : exists[q]}} :
          call' = [call EXCEPT ![t].hash = h, ![t].fd = 0,
                               ![t].first = IF call[t].tries = 0 THEN h ELSE @]
    BY <1>9 DEF HashRead
  <2>2. /\ call'[t].path = p /\ call'[t].tries = call[t].tries /\ call'[t].mtime = call[t].mtime
        /\ call'[t].hash = h
        /\ call'[t].first = IF call[t].tries = 0 THEN h ELSE call[t].first
    BY <1>0, <2>1 DEF TypeOK, Call
  <2>3. pc[t] = "read" /\ pc'[t] = "post" /\ seen'[t] = seen[t]
        /\ \A u \in Thread \ {t} : FsThreadKept(u)
    BY <1>9, <2>1 DEF HashRead, Goto, FsThreadKept, TypeOK
  <2>4. FsPastKept /\ StoredOK' /\ TrustedFaithful' /\ UNCHANGED vouched
    BY <1>9, <1>a DEF HashRead, lookupRest
  <2>5. ReadOK(t, call[t].fd)
    BY <2>3 DEF LookupOK
  <2>6. h = call[t].fd \/ (exists[p] /\ h = content[p])
    BY <2>1
  <2>7. ReadOK(t, h)
    BY <2>3, <2>5, <2>6 DEF ReadOK, LookupOK
  <2>8. ReadOK(t, call[t].hash)'
    BY <2>2, <2>3, <2>4, <2>7 DEF ReadOK, FsPastKept
  <2>9. call'[t].first \in seen[t]
    BY <2>2, <2>3, <2>7 DEF ReadOK, LookupOK
  <2>10. LookupOK(t)'
    BY <2>2, <2>3, <2>4, <2>8, <2>9 DEF LookupOK, FsPastKept
  <2> QED BY <2>3, <2>4, <2>10, FsOneThread
<1>10. CASE HashPost(t)
  <2>0. pc[t] = "post" /\ exists[p] /\ seen' = seen
    BY <1>10 DEF HashPost
  <2>1. FsPastKept /\ StoredOK' /\ TrustedFaithful' /\ UNCHANGED vouched
    BY <1>10, <1>a DEF HashPost, lookupRest
  <2>2. ReadOK(t, call[t].hash) /\ call[t].first \in seen[t]
    BY <2>0 DEF LookupOK
  <2>3. CASE StableRead(t) /\ call' = [call EXCEPT ![t].confidence = "High"] /\ Goto(t, "insert")
    <3>1. /\ call'[t].path = p /\ call'[t].mtime = call[t].mtime /\ call'[t].hash = call[t].hash
          /\ call'[t].first = call[t].first
          /\ pc'[t] = "insert"
          /\ \A u \in Thread \ {t} : FsThreadKept(u)
      BY <1>0, <2>0, <2>3 DEF Goto, FsThreadKept, TypeOK, Call
    <3>2. <<call[t].mtime, call[t].hash>> \in history[p]
      BY <1>0, <2>2, <2>3 DEF StableRead, ReadOK, HistoryOK
    <3>3. LookupOK(t)'
      BY <2>0, <2>1, <2>2, <3>1, <3>2 DEF LookupOK, ReadOK, FsPastKept
    <3> QED BY <2>1, <3>1, <3>3, FsOneThread
  <2>4. CASE call' = [call EXCEPT ![t].tries = @ + 1] /\ Goto(t, "open")
    <3>1. /\ call'[t].path = p /\ call'[t].first = call[t].first
          /\ pc'[t] = "open"
          /\ \A u \in Thread \ {t} : FsThreadKept(u)
      BY <1>0, <2>0, <2>4 DEF Goto, FsThreadKept, TypeOK, Call
    <3>2. LookupOK(t)'
      BY <2>0, <2>1, <2>2, <3>1 DEF LookupOK, FsPastKept
    <3> QED BY <2>1, <3>1, <3>2, FsOneThread
  <2>5. CASE UNCHANGED call /\ Goto(t, "restat")
    <3>1. pc'[t] = "restat" /\ call'[t] = call[t] /\ \A u \in Thread \ {t} : FsThreadKept(u)
      BY <2>0, <2>5 DEF Goto, FsThreadKept, TypeOK
    <3>2. LookupOK(t)'
      BY <2>0, <2>1, <2>2, <3>1 DEF LookupOK, FsPastKept
    <3> QED BY <2>1, <3>1, <3>2, FsOneThread
  <2> QED BY <1>10, <2>3, <2>4, <2>5 DEF HashPost
<1>11. CASE HashRestat(t)
  <2>1. call' = [call EXCEPT ![t] = [call[t] EXCEPT !.mtime = mtime[p], !.hash = call[t].first,
                                                     !.confidence = "Low"]]
    BY <1>11 DEF HashRestat
  <2>2. /\ call'[t].path = p /\ call'[t].first = call[t].first
        /\ call'[t].hash = call[t].first /\ call'[t].confidence = "Low"
    BY <1>0, <2>1 DEF TypeOK, Call
  <2>3. pc[t] = "restat" /\ exists[p] /\ pc'[t] = "insert" /\ seen'[t] = seen[t]
        /\ \A u \in Thread \ {t} : FsThreadKept(u)
    BY <1>11, <1>b, <2>1 DEF HashRestat
  <2>4. FsPastKept /\ StoredOK' /\ TrustedFaithful' /\ UNCHANGED vouched /\ p \in unstable'
    BY <1>11, <1>a DEF HashRestat, lookupRest
  <2>5. LookupOK(t)'
    BY <2>2, <2>3, <2>4 DEF LookupOK, FsPastKept
  <2> QED BY <2>3, <2>4, <2>5, FsOneThread
<1>12. CASE HashGone(t)
  <2>1. LookupOK(t)' /\ \A u \in Thread \ {t} : FsThreadKept(u)
    BY <1>12, FsEnded DEF HashGone
  <2>2. FsPastKept /\ StoredOK' /\ TrustedFaithful'
    BY <1>12, <1>a DEF HashGone
  <2> QED BY <2>1, <2>2, FsOneThread
<1>13. CASE Insert(t)
  <2>1. pc[t] = "insert" /\ call' = call /\ seen' = seen /\ pc'[t] = "done"
        /\ \A u \in Thread \ {t} : FsThreadKept(u)
    BY <1>13 DEF Insert, Goto, FsThreadKept, TypeOK
  <2>2. FsPastKept /\ vouched' \subseteq unstable' /\ UNCHANGED <<saving, snapshot, unstable, vouched>>
    BY <1>13 DEF Insert, lookupRest, fs, FsPastKept, StoredOK
  <2>3. \/ call[t].confidence = "Low" /\ p \in unstable
        \/ <<call[t].mtime, call[t].hash>> \in history[p]
    BY <2>1 DEF LookupOK
  <2>4. /\ entries'[p].mtime = call[t].mtime /\ entries'[p].hash = call[t].hash
        /\ entries'[p].confidence = call[t].confidence
        /\ \A q \in Path \ {p} : entries'[q] = entries[q]
    BY <1>0, <1>13 DEF Insert, TypeOK
  <2>5. ASSUME NEW q \in Path, q = p PROVE Known(q, entries[q].mtime, entries[q].hash)'
    BY <2>2, <2>3, <2>4, <2>5 DEF Known, FsPastKept
  <2>6. \A q \in Path : entries'[q] # None =>
              \/ entries'[q] = entries[q]
              \/ /\ Known(q, entries[q].mtime, entries[q].hash)'
                 /\ \/ entries'[q].confidence = "Low"
                    \/ q \in vouched'
                    \/ <<entries'[q].mtime, entries'[q].hash>> \in history[q]
    BY <2>3, <2>4, <2>5
  <2>7. StoredOK' /\ TrustedFaithful'
    BY <2>2, <2>6, FsEntriesReplaced
  <2>8. LookupOK(t)'
    BY <2>1, <2>2 DEF LookupOK, FsPastKept
  <2> QED BY <2>1, <2>2, <2>7, <2>8, FsOneThread
<1>14. CASE Return(t)
  <2>1. LookupOK(t)' /\ \A u \in Thread \ {t} : FsThreadKept(u)
    BY <1>14, FsEnded DEF Return
  <2>2. FsPastKept /\ StoredOK' /\ TrustedFaithful'
    BY <1>14, <1>a DEF Return
  <2> QED BY <2>1, <2>2, FsOneThread
<1> QED BY <1>1, <1>2, <1>3, <1>4, <1>5, <1>6, <1>7, <1>8, <1>9, <1>10, <1>11,
           <1>12, <1>13, <1>14 DEF LookupStep

\* The inductive invariant holds initially.
LEMMA FsInvInit == Init => FsInv
<1> SUFFICES ASSUME Init PROVE FsInv
  OBVIOUS
<1>1. TypeOK
  BY FsTypeInit
<1>2. HistoryOK
  <2>1. ASSUME NEW p \in Path
        PROVE  history[p] = {<<0, 0>>} /\ mtime[p] = 0 /\ content[p] = 0
    BY DEF Init
  <2>2. ASSUME NEW p \in Path, NEW x \in history[p] PROVE x = <<0, 0>> /\ x[1] <= mtime[p]
    <3>1. x = <<0, 0>>
      BY <2>1
    <3>2. x[1] = 0
      BY <3>1
    <3> QED BY <2>1, <3>1, <3>2
  <2>3. ASSUME NEW p \in Path PROVE <<mtime[p], content[p]>> \in history[p]
    BY <2>1
  <2> QED BY <2>2, <2>3 DEF HistoryOK
<1>3. StoredOK /\ TrustedFaithful
  BY DEF Init, StoredOK, TrustedFaithful
<1>4. ASSUME NEW t \in Thread PROVE LookupOK(t)
  BY DEF Init, LookupOK, NoCall
<1> QED BY <1>1, <1>2, <1>3, <1>4 DEF FsInv

\* Every step keeps the inductive invariant.
LEMMA FsInvNext ==
    ASSUME EditsVisible, FsInv, [Next]_vars
    PROVE  FsInv'
<1>0. TypeOK'
  BY FsTypeStep DEF FsInv
<1>1. CASE World
  BY <1>0, <1>1, FsWorldStep
<1>2. CASE Daemon
  BY <1>0, <1>2, FsDaemonStep
<1>3. CASE \E t \in Thread : LookupStep(t)
  BY <1>0, <1>3, FsLookupStep
<1>4. CASE \E t \in Thread : \E p \in Path : Lookup(t, p)
  BY <1>0, <1>4, FsBeginStep
<1>5. CASE UNCHANGED vars
  <2>1. FsPastKept /\ (\A t \in Thread : FsThreadKept(t)) /\ UNCHANGED <<entries, saving, snapshot, vouched>>
    BY <1>5 DEF vars, fs, cacheVars, threadVars, ghosts, FsPastKept, FsThreadKept
  <2>2. \A t \in Thread : LookupOK(t)'
    BY <2>1, FsLookupFrame DEF FsInv
  <2> QED BY <1>0, <2>1, <2>2, FsNothingStored, FsHistoryFrame DEF FsInv
<1> QED BY <1>1, <1>2, <1>3, <1>4, <1>5 DEF Next

\* Every trusted entry pairs a hash with an mtime that the file's content had
\* together, unless a restart or a rescan vouched for a file that changed during
\* every attempt to hash it; for any number of threads, retries and restarts, as
\* long as every edit moves the mtime visibly.
THEOREM TrustedFaithfulHolds ==
    ASSUME EditsVisible
    PROVE  Spec => []TrustedFaithful
<1>1. FsInv /\ [Next]_vars => FsInv'
  BY EditsVisible, FsInvNext
<1>2. FsInv => TrustedFaithful
  BY DEF FsInv
<1> QED BY <1>1, <1>2, FsInvInit, PTL DEF Spec

\* No wrong hash, with the same exception and under the same condition: what
\* lookup_since answers is a content the file had during the call.
THEOREM LookupFreshUnlessVouchedHolds ==
    ASSUME EditsVisible
    PROVE  Spec => []LookupFreshUnlessVouched
<1>1. FsInv /\ [Next]_vars => FsInv'
  BY EditsVisible, FsInvNext
<1>2. FsInv => LookupFreshUnlessVouched
  BY DEF FsInv, LookupFreshUnlessVouched, LookupOK, Answered, Fresh
<1> QED BY <1>1, <1>2, FsInvInit, PTL DEF Spec

-----------------------------------------------------------------------------
(* The daemon's fingerprint watch *)

\* Nothing recorded is newer than the last edit, so an edit's content and signals
\* are new to everybody.
FwBounded ==
    \A f \in FwFile :
        /\ fwDisk[f].stat \in 1..(fwEdits + 1) /\ fwDisk[f].content \in 1..(fwEdits + 1)
        /\ fwWatch.files[f].stat <= fwEdits + 1 /\ fwWatch.files[f].hash <= fwEdits + 1
        /\ fwCheck.files[f].stat <= fwEdits + 1 /\ fwCheck.files[f].hash <= fwEdits + 1
        /\ fwCheck.stat[f] <= fwEdits + 1
        /\ fwBatch.stat[f] <= fwEdits + 1 /\ fwBatch.hash[f] <= fwEdits + 1
        /\ fwCheck.hash[f] <= fwEdits + 1

\* Signals and a hash that was made after them: while the file has these signals,
\* it has this content.
FwPairOK(f, stat, hash) ==
    fwDisk[f].here /\ fwDisk[f].stat = stat => fwDisk[f].content = hash

FwPairsOK ==
    \A f \in FwFile :
        /\ fwWatch.files[f].known => FwPairOK(f, fwWatch.files[f].stat, fwWatch.files[f].hash)
        /\ fwCheck.files[f].known /\ fwCheck.pc \in {"verify", "hash", "apply"} =>
             FwPairOK(f, fwCheck.files[f].stat, fwCheck.files[f].hash)
        /\ FwPairOK(f, fwBatch.stat[f], fwBatch.hash[f]) \/ ~fwBatch.busy
        /\ fwCheck.pc \in {"apply", "insert"} => FwPairOK(f, fwCheck.stat[f], fwCheck.hash[f])

\* A file that is here with the hash h has had no other content since h was read:
\* `was' is what somebody saw in between.
FwSince(f, h, was) == fwDisk[f].here /\ fwDisk[f].content = h => was = h

\* The generations, and what the first read of a check found.
FwMarksOK ==
    /\ fwWatch.checked <= fwWatch.generation
    /\ FwAt("branch") /\ fwWatch.on =>
         fwCheck.gen <= fwWatch.generation /\ fwCheck.status = fwWatch.status

\* A clean and successful watch holds hashes older than the operation that
\* succeeded; one that mark_success would make so, older than the operation done.
FwSuccessOK ==
    /\ fwWatch.on /\ ~fwWatch.dirty /\ fwWatch.status = "success" =>
         \A f \in FwFile : fwWatch.files[f].known => FwSince(f, fwWatch.files[f].hash, fwRan[f])
    /\ FwAt("ran") /\ fwWatch.on /\ (~fwWatch.dirty \/ FwCovers) =>
         \A f \in FwFile : fwWatch.files[f].known => FwSince(f, fwWatch.files[f].hash, fwCheck.seen[f])

\* The verification of file f.
FwVerifiedOK(f) ==
    LET hash == fwCheck.files[f].hash IN
    /\ FwAt("hash") => FwSince(f, hash, fwCheck.seen[f])
    /\ FwAt("apply") /\ fwCheck.hash[f] # 0 /\ fwCheck.hash[f] = hash => fwCheck.seen[f] = hash
    /\ fwCheck.pc \in {"hash", "apply"} =>
         /\ fwCheck.stat[f] # 0 => fwCheck.seen[f] # 0
         /\ fwCheck.stat[f] # 0 /\ fwCheck.stat[f] = fwCheck.files[f].stat => fwCheck.seen[f] = hash
         /\ fwWatch.on /\ ~fwWatch.dirty /\ fwCheck.seen[f] # 0 /\ fwCheck.seen[f] = hash
              => fwRan[f] = hash

\* The verification as a whole: the watch it copied was successful, and as long as
\* it is clean its hashes are the copied ones.
FwVerifyOK ==
    /\ fwCheck.pc \in {"verify", "hash", "apply"} /\ fwWatch.on =>
         /\ fwWatch.status = "success"
         /\ ~fwWatch.dirty => \A f \in FwFile :
              /\ fwWatch.files[f].known = fwCheck.files[f].known
              /\ fwWatch.files[f].known => fwWatch.files[f].hash = fwCheck.files[f].hash
    /\ \A f \in FwFile : fwCheck.files[f].known => FwVerifiedOK(f)

FwInv ==
    /\ FwTypeOK /\ FwBounded /\ FwPairsOK /\ FwMarksOK /\ FwSuccessOK /\ FwVerifyOK
    /\ FwStaleSkipOnlyDropped

-----------------------------------------------------------------------------

\* The types hold initially.
LEMMA FwTypeInit == FwInit => FwTypeOK
<1> SUFFICES ASSUME FwInit PROVE FwTypeOK
  OBVIOUS
<1> USE FwAssumption DEF FwInit
<1>1. 0 \in FwSignal /\ 1 \in FwSignal
  BY DEF FwSignal
<1>2. FwZero \in FwPerFile /\ FwNoFiles \in FwTracked
  BY <1>1 DEF FwZero, FwNoFiles, FwPerFile, FwTracked
<1>3. fwDisk \in [FwFile -> [here : BOOLEAN, stat : FwSignal, content : FwSignal]]
  BY <1>1
<1>4. /\ FwNoBatch \in [busy : BOOLEAN, kind : [FwFile -> {"none", "changed", "removed"}],
                        stat : FwPerFile, hash : FwPerFile]
      /\ FwNoWatch \in [on : BOOLEAN, files : FwTracked, dirty : BOOLEAN, generation : Nat,
                        checked : Nat, status : FwStatus]
      /\ FwNoCheck \in [pc : FwPc, dirty : BOOLEAN, status : FwStatus, gen : Nat,
                        files : FwTracked, stat : FwPerFile, hash : FwPerFile,
                        seen : FwPerFile, dropped : SUBSET FwFile]
  BY <1>2 DEF FwNoBatch, FwNoWatch, FwNoCheck, FwStatus, FwPc
<1>5. fwEdits \in 0..FwMaxEdits /\ fwChecks \in 0..FwMaxChecks
  OBVIOUS
<1> QED BY <1>2, <1>3, <1>4, <1>5 DEF FwTypeOK

\* The values the daemon records are of their types.
LEMMA FwValueTypes ==
    ASSUME FwTypeOK
    PROVE  /\ FwObserved \in FwPerFile /\ FwHashed \in FwPerFile
           /\ FwNoFiles \in FwTracked /\ FwZero \in FwPerFile
           /\ 0 \in FwSignal
<1> USE FwAssumption
<1>1. 0 \in FwSignal
  BY DEF FwSignal
<1>2. FwObserved \in FwPerFile /\ FwHashed \in FwPerFile
  BY <1>1 DEF FwObserved, FwHashed, FwPerFile, FwTypeOK
<1>3. FwNoFiles \in FwTracked /\ FwZero \in FwPerFile
  BY <1>1 DEF FwNoFiles, FwZero, FwTracked, FwPerFile
<1> QED BY <1>1, <1>2, <1>3

FwCheckType == [pc : FwPc, dirty : BOOLEAN, status : FwStatus, gen : Nat,
                files : FwTracked, stat : FwPerFile, hash : FwPerFile, seen : FwPerFile,
                dropped : SUBSET FwFile]
FwWatchType == [on : BOOLEAN, files : FwTracked, dirty : BOOLEAN, generation : Nat,
                checked : Nat, status : FwStatus]

\* A step of the client that changes the check and the watch only.
LEMMA FwTypeClient ==
    ASSUME FwTypeOK, FwKeep, fwCheck' \in FwCheckType, fwWatch' \in FwWatchType
    PROVE  FwTypeOK'
BY DEF FwTypeOK, FwKeep, FwCheckType, FwWatchType

\* Every step keeps the types.
LEMMA FwTypeStep ==
    ASSUME FwTypeOK, [FwNext]_fwVars
    PROVE  FwTypeOK'
<1>0. /\ fwCheck \in FwCheckType /\ fwWatch \in FwWatchType
      /\ FwObserved \in FwPerFile /\ FwHashed \in FwPerFile
      /\ FwNoFiles \in FwTracked /\ FwZero \in FwPerFile /\ 0 \in FwSignal
  BY FwValueTypes DEF FwTypeOK, FwCheckType, FwWatchType
<1>a. ASSUME NEW to \in FwPc PROVE [fwCheck EXCEPT !.pc = to] \in FwCheckType
  BY <1>0 DEF FwCheckType
<1>b. FwNoCheck \in FwCheckType /\ FwNoWatch \in FwWatchType
  BY <1>0 DEF FwNoCheck, FwNoWatch, FwCheckType, FwWatchType, FwPc, FwStatus
<1>1. ASSUME NEW f \in FwFile, FwEdit(f) \/ FwTouch(f) \/ FwRemove(f) PROVE FwTypeOK'
  <2>1. PICK new, kind :
          /\ FwChange(f, new, kind) /\ kind \in {"changed", "removed"}
          /\ \/ new = [here |-> TRUE, stat |-> fwEdits + 2, content |-> fwEdits + 2]
             \/ new = [fwDisk[f] EXCEPT !.stat = fwEdits + 2]
             \/ new = [fwDisk[f] EXCEPT !.here = FALSE]
    BY <1>1 DEF FwEdit, FwTouch, FwRemove
  <2>2. fwEdits + 2 \in FwSignal /\ fwEdits' \in 0..FwMaxEdits
    BY <2>1, FwAssumption DEF FwChange, FwSignal, FwTypeOK
  <2>3. new \in [here : BOOLEAN, stat : FwSignal, content : FwSignal]
    <3>1. fwDisk[f] \in [here : BOOLEAN, stat : FwSignal, content : FwSignal]
      BY DEF FwTypeOK
    <3>2. /\ [here |-> TRUE, stat |-> fwEdits + 2, content |-> fwEdits + 2]
                \in [here : BOOLEAN, stat : FwSignal, content : FwSignal]
          /\ [fwDisk[f] EXCEPT !.stat = fwEdits + 2]
                \in [here : BOOLEAN, stat : FwSignal, content : FwSignal]
          /\ [fwDisk[f] EXCEPT !.here = FALSE]
                \in [here : BOOLEAN, stat : FwSignal, content : FwSignal]
      BY <2>2, <3>1
    <3> QED BY <2>1, <3>2
  <2>4. fwEvent' \in [FwFile -> {"none", "changed", "removed"}]
    BY <2>1 DEF FwChange, FwTypeOK
  <2>5. fwDisk' \in [FwFile -> [here : BOOLEAN, stat : FwSignal, content : FwSignal]]
    BY <2>1, <2>3 DEF FwChange, FwTypeOK
  <2> QED BY <2>1, <2>2, <2>4, <2>5 DEF FwChange, FwTypeOK
<1>2. ASSUME NEW files \in SUBSET FwFile, FwBatchRead(files) PROVE FwTypeOK'
  <2>1. fwBatch' \in [busy : BOOLEAN, kind : [FwFile -> {"none", "changed", "removed"}],
                      stat : FwPerFile, hash : FwPerFile]
    BY <1>0, <1>2 DEF FwBatchRead, FwTypeOK
  <2>2. fwEvent' \in [FwFile -> {"none", "changed", "removed"}]
    BY <1>2 DEF FwBatchRead, FwTypeOK
  <2> QED BY <1>2, <2>1, <2>2 DEF FwBatchRead, FwTypeOK
<1>3. CASE FwBatchApply
  <2>1. fwBatch' \in [busy : BOOLEAN, kind : [FwFile -> {"none", "changed", "removed"}],
                      stat : FwPerFile, hash : FwPerFile]
    BY <1>0, <1>3 DEF FwBatchApply, FwNoBatch
  <2>2. fwWatch' \in FwWatchType
    <3> DEFINE news == {f \in FwFile : FwNews(f)}
               Applied(f) == CASE fwBatch.kind[f] = "changed" ->
                                [known |-> TRUE, stat |-> fwBatch.stat[f], hash |-> fwBatch.hash[f]]
                           [] fwBatch.kind[f] = "removed" ->
                                [known |-> FALSE, stat |-> 0, hash |-> 0]
                           [] OTHER -> fwWatch.files[f]
               files == [f \in FwFile |-> Applied(f)]
    <3>1. files \in FwTracked
      <4>1. ASSUME NEW f \in FwFile
            PROVE  Applied(f) \in [known : BOOLEAN, stat : FwSignal, hash : FwSignal]
        BY <1>0 DEF FwTypeOK, FwWatchType, FwTracked, FwPerFile
      <4> QED BY <4>1 DEF FwTracked
    <3>2. Cardinality(news) \in Nat
      BY FwAssumption, FS_Subset, FS_CardinalityType
    <3>3. fwWatch' = IF ~fwWatch.on THEN fwWatch
                     ELSE [fwWatch EXCEPT !.files = files, !.dirty = @ \/ news # {},
                             !.generation = @ + Cardinality(news)]
      BY <1>3 DEF FwBatchApply
    <3> HIDE DEF files, news
    <3>4. \E d \in BOOLEAN, g \in Nat :
             fwWatch' \in {fwWatch, [fwWatch EXCEPT !.files = files, !.dirty = d, !.generation = g]}
      <4>1. (fwWatch.dirty \/ news # {}) \in BOOLEAN
        OBVIOUS
      <4>2. fwWatch.generation + Cardinality(news) \in Nat
        BY <1>0, <3>2 DEF FwWatchType
      <4>3. fwWatch' \in {fwWatch, [fwWatch EXCEPT !.files = files,
                             !.dirty = (fwWatch.dirty \/ news # {}),
                             !.generation = fwWatch.generation + Cardinality(news)]}
        BY <3>3
      <4> QED BY <4>1, <4>2, <4>3, Zenon
    <3>5. ASSUME NEW d \in BOOLEAN, NEW g \in Nat
          PROVE  [fwWatch EXCEPT !.files = files, !.dirty = d, !.generation = g] \in FwWatchType
      BY <1>0, <3>1 DEF FwWatchType
    <3> QED BY <1>0, <3>4, <3>5
  <2> QED BY <1>3, <2>1, <2>2 DEF FwBatchApply, FwTypeOK, FwWatchType
<1>4. CASE FwStart
  <2>1. fwCheck' \in FwCheckType
    BY <1>0, <1>4 DEF FwStart, FwCheckType, FwWatchType, FwPc
  <2>2. fwChecks' \in 0..FwMaxChecks
    BY <1>4, FwAssumption DEF FwStart, FwTypeOK
  <2> QED BY <1>4, <2>1, <2>2 DEF FwStart, FwTypeOK, FwCheckType
<1>5. CASE FwBranchVerify
  <2>1. fwCheck' \in FwCheckType
    BY <1>0, <1>5 DEF FwBranchVerify, FwCheckType, FwWatchType, FwPc
  <2> QED BY <1>0, <1>5, <2>1, FwTypeClient DEF FwBranchVerify
<1>6. CASE FwBranchRun
  <2>1. fwWatch' \in FwWatchType
    BY <1>0, <1>6 DEF FwBranchRun, FwCheckType, FwWatchType, FwStatus
  <2> QED BY <1>6, <1>a, <2>1, FwTypeClient DEF FwBranchRun, FwGoto, FwPc
<1>7. CASE FwBranchPending
  BY <1>0, <1>7, <1>a, FwTypeClient DEF FwBranchPending, FwGoto, FwPc
<1>8. CASE FwVerifyStat
  <2>1. fwCheck' \in FwCheckType
    BY <1>0, <1>8 DEF FwVerifyStat, FwCheckType, FwPc
  <2> QED BY <1>0, <1>8, <2>1, FwTypeClient DEF FwVerifyStat
<1>9. CASE FwVerifyHash
  <2>1. fwCheck' \in FwCheckType
    BY <1>0, <1>9 DEF FwVerifyHash, FwCheckType, FwPc
  <2> QED BY <1>0, <1>9, <2>1, FwTypeClient DEF FwVerifyHash
<1>10. CASE FwVerifyApply
  <2> DEFINE live == {f \in FwFile : FwUpdated(f) /\ ~FwStale(f)}
             changed == {f \in live : FwReportsChange(f)}
             Entry(f) == IF f \notin live \/ fwCheck.stat[f] = 0 \/ fwCheck.hash[f] = 0
                         THEN fwWatch.files[f]
                         ELSE [known |-> TRUE, stat |-> fwCheck.stat[f], hash |-> fwCheck.hash[f]]
             files == [f \in FwFile |-> Entry(f)]
             applied == [fwWatch EXCEPT !.files = files]
  <2>1. files \in FwTracked
    <3>1. ASSUME NEW f \in FwFile
          PROVE  Entry(f) \in [known : BOOLEAN, stat : FwSignal, hash : FwSignal]
      BY <1>0 DEF FwCheckType, FwWatchType, FwTracked, FwPerFile
    <3> QED BY <3>1 DEF FwTracked
  <2>2. \/ fwCheck' = [fwCheck EXCEPT !.pc = "scan"] /\ UNCHANGED fwWatch
        \/ /\ fwWatch' = applied
           /\ fwCheck' = [fwCheck EXCEPT !.pc = "skipped",
                  !.dropped = {f \in FwFile : FwReportsChange(f) /\ FwStale(f)}]
        \/ /\ fwWatch' = [applied EXCEPT !.generation = @ + 1, !.dirty = TRUE,
                              !.status = "pending", !.checked = fwWatch.generation + 1]
           /\ fwCheck' = [fwCheck EXCEPT !.pc = "run"]
    BY <1>10 DEF FwVerifyApply, FwGoto
  <2> HIDE DEF files
  <2>3. fwWatch' \in FwWatchType
    <3>1. applied \in FwWatchType
      BY <1>0, <2>1 DEF FwWatchType
    <3>2. ASSUME NEW w \in FwWatchType
          PROVE  [w EXCEPT !.generation = @ + 1, !.dirty = TRUE, !.status = "pending",
                           !.checked = fwWatch.generation + 1] \in FwWatchType
      <4>1. w.generation + 1 \in Nat /\ fwWatch.generation + 1 \in Nat
        BY <1>0 DEF FwWatchType
      <4>2. ASSUME NEW g \in Nat, NEW c \in Nat
            PROVE  [w EXCEPT !.generation = g, !.dirty = TRUE, !.status = "pending",
                             !.checked = c] \in FwWatchType
        BY DEF FwWatchType, FwStatus
      <4> QED BY <4>1, <4>2
    <3> HIDE DEF applied
    <3> QED BY <1>0, <2>2, <3>1, <3>2
  <2>4. fwCheck' \in FwCheckType
    <3>1. ASSUME NEW d \in SUBSET FwFile
          PROVE  [fwCheck EXCEPT !.pc = "skipped", !.dropped = d] \in FwCheckType
      BY <1>0 DEF FwCheckType, FwPc
    <3>2. "scan" \in FwPc /\ "run" \in FwPc
      BY DEF FwPc
    <3> QED BY <1>a, <2>2, <3>1, <3>2
  <2> QED BY <1>10, <2>3, <2>4, FwTypeClient DEF FwVerifyApply
<1>11. CASE FwScanStat
  <2>1. [f \in FwFile |-> [FwNoFiles[f] EXCEPT !.known = fwDisk[f].here]] \in FwTracked
    BY <1>0 DEF FwTypeOK, FwTracked
  <2>2. fwCheck' \in FwCheckType
    BY <1>0, <1>11, <2>1 DEF FwScanStat, FwCheckType, FwPc
  <2> QED BY <1>0, <1>11, <2>2, FwTypeClient DEF FwScanStat
<1>12. CASE FwScanError
  BY <1>0, <1>12, <1>a, FwTypeClient DEF FwScanError, FwGoto, FwPc
<1>13. CASE FwScanHash
  <2>1. fwCheck' \in FwCheckType
    BY <1>0, <1>13 DEF FwScanHash, FwCheckType, FwPc
  <2> QED BY <1>0, <1>13, <2>1, FwTypeClient DEF FwScanHash
<1>14. CASE FwScanInsert
  <2> DEFINE files == [f \in FwFile |->
            IF fwCheck.files[f].known
            THEN [known |-> TRUE, stat |-> fwCheck.stat[f], hash |-> fwCheck.hash[f]]
            ELSE FwNoFiles[f]]
  <2>1. files \in FwTracked
    BY <1>0 DEF FwCheckType, FwTracked, FwPerFile
  <2>2. fwWatch' = [FwNoWatch EXCEPT !.on = TRUE, !.files = files]
    BY <1>14 DEF FwScanInsert
  <2> HIDE DEF files
  <2>3. fwWatch' \in FwWatchType
    BY <1>b, <2>1, <2>2 DEF FwWatchType
  <2> QED BY <1>14, <1>a, <2>3, FwTypeClient DEF FwScanInsert, FwGoto, FwPc
<1>15. CASE FwOperate
  <2>1. fwCheck' \in FwCheckType
    BY <1>0, <1>15 DEF FwOperate, FwCheckType, FwPc
  <2> QED BY <1>0, <1>15, <2>1, FwTypeClient DEF FwOperate
<1>16. CASE FwMarkSuccess
  <2>1. fwWatch' \in FwWatchType
    BY <1>0, <1>16 DEF FwMarkSuccess, FwWatchType, FwStatus
  <2>2. fwRan' \in FwPerFile /\ fwCheck' \in FwCheckType
    BY <1>0, <1>16, <1>b DEF FwMarkSuccess, FwCheckType
  <2> QED BY <1>16, <2>1, <2>2 DEF FwMarkSuccess, FwTypeOK, FwWatchType, FwCheckType
<1>17. CASE FwMarkFailure
  <2>1. fwWatch' \in FwWatchType
    BY <1>0, <1>17 DEF FwMarkFailure, FwWatchType, FwStatus
  <2> QED BY <1>17, <1>b, <2>1, FwTypeClient DEF FwMarkFailure
<1>18. CASE FwEnd
  BY <1>0, <1>18, <1>b, FwTypeClient DEF FwEnd
<1>19. CASE FwInvalidate
  BY <1>0, <1>19, <1>b, FwTypeClient DEF FwInvalidate
<1>20. CASE UNCHANGED fwVars
  BY <1>20 DEF fwVars, FwTypeOK
<1> QED BY <1>1, <1>2, <1>3, <1>4, <1>5, <1>6, <1>7, <1>8, <1>9, <1>10, <1>11, <1>12, <1>13,
           <1>14, <1>15, <1>16, <1>17, <1>18, <1>19, <1>20 DEF FwNext

\* Type correctness of the fingerprint watch (daemon/fingerprint).
THEOREM FwTypeCorrect == FwSpec => []FwTypeOK
BY FwTypeInit, FwTypeStep, PTL DEF FwSpec

-----------------------------------------------------------------------------
\* What observe and hash_file return: of a file that is here, its signals and its
\* content; of one that is not, 0.
LEMMA FwReadFacts ==
    ASSUME FwTypeOK, FwBounded, NEW f \in FwFile
    PROVE  /\ FwObserved[f] <= fwEdits + 1 /\ FwHashed[f] <= fwEdits + 1
           /\ fwDisk[f].here => /\ FwObserved[f] = fwDisk[f].stat /\ FwHashed[f] = fwDisk[f].content
                                /\ FwObserved[f] # 0 /\ FwHashed[f] # 0
           /\ ~fwDisk[f].here => FwObserved[f] = 0 /\ FwHashed[f] = 0
<1>1. fwEdits \in Nat
  BY FwAssumption DEF FwTypeOK
<1>2. fwDisk[f].stat \in 1..(fwEdits + 1) /\ fwDisk[f].content \in 1..(fwEdits + 1)
  BY DEF FwBounded
<1>3. /\ fwDisk[f].here => FwObserved[f] = fwDisk[f].stat /\ FwHashed[f] = fwDisk[f].content
      /\ ~fwDisk[f].here => FwObserved[f] = 0 /\ FwHashed[f] = 0
  BY DEF FwObserved, FwHashed
<1> QED BY <1>1, <1>2, <1>3

\* An edit, a touch and a removal leave every recorded pair as good as it was: the
\* signals are new, and so is a new content.
LEMMA FwChangeFacts ==
    ASSUME FwTypeOK, FwBounded, NEW f \in FwFile, FwEdit(f) \/ FwTouch(f) \/ FwRemove(f)
    PROVE  /\ UNCHANGED <<fwBatch, fwWatch, fwCheck, fwRan>> /\ fwEdits' = fwEdits + 1
           /\ \A g \in FwFile :
                /\ fwDisk'[g].stat \in 1..(fwEdits' + 1) /\ fwDisk'[g].content \in 1..(fwEdits' + 1)
                /\ fwDisk'[g].here =>
                     /\ fwDisk[g].here \/ fwDisk'[g].content = fwEdits + 2
                     /\ fwDisk'[g].content = fwDisk[g].content \/ fwDisk'[g].content = fwEdits + 2
                     /\ \/ fwDisk'[g].stat = fwEdits + 2
                        \/ fwDisk[g].here /\ fwDisk'[g].stat = fwDisk[g].stat
                           /\ fwDisk'[g].content = fwDisk[g].content
<1>0. fwEdits \in Nat /\ fwDisk \in [FwFile -> [here : BOOLEAN, stat : FwSignal, content : FwSignal]]
  BY FwAssumption DEF FwTypeOK
<1>1. PICK new, kind :
        /\ FwChange(f, new, kind)
        /\ \/ new = [here |-> TRUE, stat |-> fwEdits + 2, content |-> fwEdits + 2]
           \/ fwDisk[f].here /\ new = [fwDisk[f] EXCEPT !.stat = fwEdits + 2]
           \/ new = [fwDisk[f] EXCEPT !.here = FALSE]
  BY DEF FwEdit, FwTouch, FwRemove
<1>2. UNCHANGED <<fwBatch, fwWatch, fwCheck, fwRan>> /\ fwEdits' = fwEdits + 1
      /\ fwDisk'[f] = new /\ \A g \in FwFile \ {f} : fwDisk'[g] = fwDisk[g]
  BY <1>0, <1>1 DEF FwChange
<1>3. \/ new.here /\ new.stat = fwEdits + 2 /\ new.content = fwEdits + 2
      \/ fwDisk[f].here /\ new.here /\ new.stat = fwEdits + 2 /\ new.content = fwDisk[f].content
      \/ ~new.here /\ new.stat = fwDisk[f].stat /\ new.content = fwDisk[f].content
  BY <1>0, <1>1
<1>4. \A g \in FwFile : fwDisk[g].stat \in 1..(fwEdits + 1) /\ fwDisk[g].content \in 1..(fwEdits + 1)
  BY DEF FwBounded
<1> QED BY <1>0, <1>2, <1>3, <1>4

\* A file that is edited, touched or removed keeps the invariant.
LEMMA FwChangeStep ==
    ASSUME FwInv, FwTypeOK', NEW f \in FwFile, FwEdit(f) \/ FwTouch(f) \/ FwRemove(f)
    PROVE  FwInv'
<1> USE DEF FwInv
<1>0. fwEdits \in Nat
  BY FwAssumption DEF FwTypeOK
<1>1. /\ UNCHANGED <<fwBatch, fwWatch, fwCheck, fwRan>> /\ fwEdits' = fwEdits + 1
      /\ \A g \in FwFile :
           /\ fwDisk'[g].stat \in 1..(fwEdits' + 1) /\ fwDisk'[g].content \in 1..(fwEdits' + 1)
           /\ fwDisk'[g].here =>
                /\ fwDisk[g].here \/ fwDisk'[g].content = fwEdits + 2
                /\ fwDisk'[g].content = fwDisk[g].content \/ fwDisk'[g].content = fwEdits + 2
                /\ \/ fwDisk'[g].stat = fwEdits + 2
                   \/ fwDisk[g].here /\ fwDisk'[g].stat = fwDisk[g].stat
                      /\ fwDisk'[g].content = fwDisk[g].content
  BY FwChangeFacts
<1>2. ASSUME NEW g \in FwFile, NEW s \in Nat, s <= fwEdits + 1,
             fwDisk'[g].here, fwDisk'[g].stat = s
      PROVE  fwDisk[g].here /\ fwDisk[g].stat = s /\ fwDisk'[g].content = fwDisk[g].content
  BY <1>0, <1>1, <1>2
<1>3. ASSUME NEW g \in FwFile, NEW h \in Nat, h <= fwEdits + 1,
             fwDisk'[g].here, fwDisk'[g].content = h
      PROVE  fwDisk[g].here /\ fwDisk[g].content = h
  BY <1>0, <1>1, <1>3
<1>t. \A g \in FwFile :
        /\ fwWatch.files[g].stat \in Nat /\ fwWatch.files[g].hash \in Nat
        /\ fwCheck.files[g].stat \in Nat /\ fwCheck.files[g].hash \in Nat
        /\ fwCheck.stat[g] \in Nat /\ fwCheck.hash[g] \in Nat
        /\ fwBatch.stat[g] \in Nat /\ fwBatch.hash[g] \in Nat
  BY FwAssumption DEF FwTypeOK, FwTracked, FwPerFile, FwSignal
<1>4. FwBounded'
  BY <1>0, <1>1, <1>t DEF FwBounded
<1>5. FwPairsOK'
  <2> SUFFICES ASSUME NEW g \in FwFile
               PROVE  /\ fwWatch.files[g].known => FwPairOK(g, fwWatch.files[g].stat, fwWatch.files[g].hash)'
                      /\ fwCheck.files[g].known /\ fwCheck.pc \in {"verify", "hash", "apply"} =>
                           FwPairOK(g, fwCheck.files[g].stat, fwCheck.files[g].hash)'
                      /\ FwPairOK(g, fwBatch.stat[g], fwBatch.hash[g])' \/ ~fwBatch.busy
                      /\ fwCheck.pc \in {"apply", "insert"} =>
                           FwPairOK(g, fwCheck.stat[g], fwCheck.hash[g])'
    BY <1>1 DEF FwPairsOK
  <2> QED BY <1>1, <1>2, <1>t DEF FwPairsOK, FwBounded, FwPairOK
<1>6. FwSuccessOK'
  BY <1>1, <1>3, <1>t DEF FwSuccessOK, FwBounded, FwAt, FwCovers, FwSince
<1>7. FwMarksOK' /\ FwStaleSkipOnlyDropped'
  BY <1>1 DEF FwMarksOK, FwStaleSkipOnlyDropped, FwAt, FwUnheardOf
<1>8. FwVerifyOK'
  BY <1>1, <1>3, <1>t DEF FwVerifyOK, FwVerifiedOK, FwBounded, FwAt, FwSince
<1> QED BY <1>4, <1>5, <1>6, <1>7, <1>8

\* A batch read: what it reads is a pair.
LEMMA FwBatchReadStep ==
    ASSUME FwInv, FwTypeOK', NEW files \in SUBSET FwFile, FwBatchRead(files)
    PROVE  FwInv'
<1> USE DEF FwInv
<1>1. /\ UNCHANGED <<fwDisk, fwEdits, fwWatch, fwCheck, fwRan>>
      /\ fwBatch'.stat = FwObserved /\ fwBatch'.hash = FwHashed
  BY DEF FwBatchRead
<1>2. FwBounded'
  BY <1>1, FwReadFacts DEF FwBounded
<1>3. FwPairsOK'
  BY <1>1, FwReadFacts DEF FwPairsOK, FwPairOK
<1>4. FwMarksOK' /\ FwSuccessOK' /\ FwStaleSkipOnlyDropped'
  BY <1>1 DEF FwMarksOK, FwSuccessOK, FwSince, FwCovers, FwStaleSkipOnlyDropped, FwAt, FwUnheardOf
<1>5. FwVerifyOK'
  BY <1>1 DEF FwVerifyOK, FwVerifiedOK, FwSince, FwAt
<1> QED BY <1>2, <1>3, <1>4, <1>5

\* A batch applied: either every hash stays, or the watch is dirty and ahead of
\* the generation that was checked.
LEMMA FwBatchApplyStep ==
    ASSUME FwInv, FwTypeOK', FwBatchApply
    PROVE  FwInv'
<1> USE DEF FwInv
<1> DEFINE news == {f \in FwFile : FwNews(f)}
           Applied(f) == CASE fwBatch.kind[f] = "changed" ->
                                [known |-> TRUE, stat |-> fwBatch.stat[f], hash |-> fwBatch.hash[f]]
                           [] fwBatch.kind[f] = "removed" ->
                                [known |-> FALSE, stat |-> 0, hash |-> 0]
                           [] OTHER -> fwWatch.files[f]
           files == [f \in FwFile |-> Applied(f)]
<1>1. /\ UNCHANGED <<fwDisk, fwEdits, fwCheck, fwRan>> /\ fwBatch' = FwNoBatch /\ fwBatch.busy
      /\ fwWatch' = IF ~fwWatch.on THEN fwWatch
                    ELSE [fwWatch EXCEPT !.files = files, !.dirty = @ \/ news # {},
                             !.generation = @ + Cardinality(news)]
  BY DEF FwBatchApply
<1>2. ASSUME NEW f \in FwFile
      PROVE  /\ \/ files[f].stat = fwBatch.stat[f] /\ files[f].hash = fwBatch.hash[f]
                \/ files[f].stat = 0 /\ files[f].hash = 0 /\ ~files[f].known
                \/ files[f] = fwWatch.files[f]
             /\ f \notin news => /\ files[f].known = fwWatch.files[f].known
                                 /\ files[f].known => files[f].hash = fwWatch.files[f].hash
  <2>0. fwWatch.files[f].known \in BOOLEAN
    BY DEF FwTypeOK, FwTracked
  <2>1. f \in news <=> FwNews(f)
    OBVIOUS
  <2>2. CASE fwBatch.kind[f] = "changed"
    BY <2>0, <2>1, <2>2 DEF FwNews
  <2>3. CASE fwBatch.kind[f] = "removed"
    BY <2>0, <2>1, <2>3 DEF FwNews
  <2>4. CASE fwBatch.kind[f] # "changed" /\ fwBatch.kind[f] # "removed"
    BY <2>4
  <2> QED BY <2>2, <2>3, <2>4
<1>3. /\ fwWatch.generation \in Nat /\ fwWatch.checked \in Nat /\ fwEdits \in Nat
      /\ fwWatch.checked <= fwWatch.generation
  BY FwAssumption DEF FwTypeOK, FwMarksOK
<1>4. Cardinality(news) \in Nat /\ (news # {} => Cardinality(news) >= 1)
  <2>1. IsFiniteSet(news)
    BY FwAssumption, FS_Subset
  <2>2. Cardinality(news) \in Nat /\ (Cardinality(news) = 0 <=> news = {})
    BY <2>1, FS_CardinalityType, FS_EmptySet
  <2> QED BY <2>2
<1>z. /\ ~fwBatch'.busy
      /\ \A f \in FwFile : fwBatch'.stat[f] <= fwEdits + 1 /\ fwBatch'.hash[f] <= fwEdits + 1
  BY <1>1, <1>3 DEF FwNoBatch, FwZero
<1> HIDE DEF files, news
<1>5. CASE ~fwWatch.on
  <2>1. UNCHANGED <<fwDisk, fwEdits, fwWatch, fwCheck, fwRan>>
    BY <1>1, <1>5
  <2>2. FwBounded'
    BY <1>z, <2>1 DEF FwBounded
  <2>3. FwPairsOK'
    BY <1>z, <2>1 DEF FwPairsOK, FwPairOK
  <2>4. FwMarksOK' /\ FwSuccessOK' /\ FwStaleSkipOnlyDropped'
    BY <2>1 DEF FwMarksOK, FwSuccessOK, FwSince, FwCovers, FwStaleSkipOnlyDropped, FwAt, FwUnheardOf
  <2>5. FwVerifyOK'
    BY <2>1 DEF FwVerifyOK, FwVerifiedOK, FwSince, FwAt
  <2> QED BY <2>2, <2>3, <2>4, <2>5
<1>6. CASE fwWatch.on
  <2>1. /\ fwWatch'.on /\ fwWatch'.files = files /\ fwWatch'.dirty = (fwWatch.dirty \/ news # {})
        /\ fwWatch'.generation = fwWatch.generation + Cardinality(news)
        /\ fwWatch'.checked = fwWatch.checked /\ fwWatch'.status = fwWatch.status
    BY <1>1, <1>6 DEF FwTypeOK
  <2>2. FwBounded'
    BY <1>1, <1>2, <1>3, <1>z, <2>1 DEF FwBounded
  <2>3. FwPairsOK'
    BY <1>1, <1>2, <1>z, <2>1 DEF FwPairsOK, FwPairOK
  <2>4. FwMarksOK'
    BY <1>1, <1>3, <1>4, <1>6, <2>1 DEF FwMarksOK, FwAt, FwTypeOK
  <2>5. CASE news # {}
    <3>a. fwWatch'.generation # fwWatch'.checked
      BY <1>3, <1>4, <2>1, <2>5
    <3>b. fwWatch'.dirty
      BY <2>1, <2>5, Zenon
    <3>1. fwWatch'.dirty /\ fwWatch'.generation # fwWatch'.checked
      BY <3>a, <3>b
    <3>2. FwSuccessOK'
      BY <3>1 DEF FwSuccessOK, FwCovers
    <3>3. FwVerifyOK'
      BY <1>1, <1>6, <2>1, <3>1 DEF FwVerifyOK, FwVerifiedOK, FwSince, FwAt
    <3> QED BY <1>1, <2>2, <2>3, <2>4, <3>2, <3>3 DEF FwStaleSkipOnlyDropped, FwAt, FwUnheardOf
  <2>6. CASE news = {}
    <3>0. Cardinality(news) = 0
      BY <2>6, FS_EmptySet
    <3>a. fwWatch'.dirty <=> fwWatch.dirty
      BY <2>1, <2>6, Zenon
    <3>1. /\ fwWatch'.dirty <=> fwWatch.dirty
          /\ fwWatch'.generation = fwWatch.generation
          /\ \A f \in FwFile : /\ fwWatch'.files[f].known = fwWatch.files[f].known
                               /\ fwWatch'.files[f].known => fwWatch'.files[f].hash = fwWatch.files[f].hash
      BY <1>2, <1>3, <2>1, <2>6, <3>0, <3>a
    <3>2. FwSuccessOK'
      BY <1>1, <1>6, <2>1, <3>1 DEF FwSuccessOK, FwCovers, FwSince, FwAt
    <3>3. FwVerifyOK'
      BY <1>1, <1>6, <2>1, <3>1 DEF FwVerifyOK, FwVerifiedOK, FwSince, FwAt
    <3> QED BY <1>1, <2>2, <2>3, <2>4, <3>2, <3>3 DEF FwStaleSkipOnlyDropped, FwAt, FwUnheardOf
  <2> QED BY <2>5, <2>6
<1> QED BY <1>5, <1>6

\* Steps of a client that end no verification, touch no watch, and go where nothing
\* is promised about the files it has read.
LEMMA FwPlainStep ==
    ASSUME FwInv, FwTypeOK', UNCHANGED <<fwDisk, fwEdits, fwBatch, fwRan, fwWatch>>,
           fwCheck'.pc \in {"idle", "run", "scan", "scanHash"},
           \A f \in FwFile :
              /\ fwCheck'.files[f].stat <= fwEdits + 1 /\ fwCheck'.files[f].hash <= fwEdits + 1
              /\ fwCheck'.stat[f] <= fwEdits + 1 /\ fwCheck'.hash[f] <= fwEdits + 1
    PROVE  FwInv'
<1> USE DEF FwInv
<1>1. FwBounded'
  BY DEF FwBounded
<1>2. FwPairsOK'
  BY DEF FwPairsOK, FwPairOK
<1>3. FwMarksOK' /\ FwSuccessOK' /\ FwStaleSkipOnlyDropped'
  BY DEF FwMarksOK, FwSuccessOK, FwSince, FwStaleSkipOnlyDropped, FwAt
<1>4. FwVerifyOK'
  BY DEF FwVerifyOK, FwVerifiedOK, FwAt
<1> QED BY <1>1, <1>2, <1>3, <1>4

\* The check, up to its verification, and the scan.
LEMMA FwCheckStep ==
    ASSUME FwInv, FwTypeOK',
           \/ FwStart \/ FwBranchVerify \/ FwBranchPending
           \/ FwScanStat \/ FwScanError \/ FwScanHash \/ FwOperate \/ FwEnd
    PROVE  FwInv'
<1> USE DEF FwInv
<1>0. /\ UNCHANGED <<fwDisk, fwEdits, fwBatch, fwRan, fwWatch>>
      /\ fwEdits \in Nat
  BY FwAssumption DEF FwStart, FwBranchVerify, FwBranchPending, FwScanStat, FwScanError, FwScanHash,
     FwOperate, FwEnd, FwKeep, FwTypeOK
<1>b. \A f \in FwFile :
        /\ fwCheck.files[f].stat <= fwEdits + 1 /\ fwCheck.files[f].hash <= fwEdits + 1
        /\ fwCheck.stat[f] <= fwEdits + 1 /\ fwCheck.hash[f] <= fwEdits + 1
  BY DEF FwBounded
<1>1. CASE FwStart
  <2>1. CASE fwWatch.on
    <3>1. /\ fwCheck'.pc = "branch" /\ fwCheck'.gen = fwWatch.generation
          /\ fwCheck'.status = fwWatch.status
          /\ fwCheck'.files = fwCheck.files /\ fwCheck'.stat = fwCheck.stat /\ fwCheck'.hash = fwCheck.hash
      BY <1>1, <2>1 DEF FwStart, FwTypeOK
    <3>2. FwBounded'
      BY <1>0, <1>b, <3>1 DEF FwBounded
    <3>3. FwPairsOK'
      BY <1>0, <3>1 DEF FwPairsOK, FwPairOK
    <3>4. FwMarksOK' /\ FwSuccessOK' /\ FwStaleSkipOnlyDropped'
      BY <1>0, <3>1 DEF FwMarksOK, FwSuccessOK, FwSince, FwStaleSkipOnlyDropped, FwAt, FwTypeOK
    <3>5. FwVerifyOK'
      BY <3>1 DEF FwVerifyOK, FwVerifiedOK, FwAt
    <3> QED BY <3>2, <3>3, <3>4, <3>5
  <2>2. CASE ~fwWatch.on
    <3>1. /\ fwCheck'.pc = "scan"
          /\ fwCheck'.files = fwCheck.files /\ fwCheck'.stat = fwCheck.stat /\ fwCheck'.hash = fwCheck.hash
      BY <1>1, <2>2 DEF FwStart, FwTypeOK
    <3> QED BY <1>0, <1>b, <3>1, FwPlainStep
  <2> QED BY <2>1, <2>2
<1>2. CASE FwBranchVerify
  <2>1. CASE fwWatch.on
    <3>1. /\ fwCheck'.pc = "verify" /\ fwCheck'.files = fwWatch.files
          /\ fwCheck'.stat = fwCheck.stat /\ fwCheck'.hash = fwCheck.hash
      BY <1>2, <2>1 DEF FwBranchVerify, FwTypeOK
    <3>2. FwBounded'
      BY <1>0, <1>b, <3>1 DEF FwBounded
    <3>3. FwPairsOK'
      BY <1>0, <3>1 DEF FwPairsOK, FwPairOK
    <3>4. FwMarksOK' /\ FwSuccessOK' /\ FwStaleSkipOnlyDropped'
      BY <1>0, <3>1 DEF FwMarksOK, FwSuccessOK, FwSince, FwStaleSkipOnlyDropped, FwAt
    <3>5. fwWatch.status = "success"
      BY <1>2, <2>1 DEF FwBranchVerify, FwMarksOK
    <3>6. FwVerifyOK'
      BY <1>0, <3>1, <3>5 DEF FwVerifyOK, FwVerifiedOK, FwAt
    <3> QED BY <3>2, <3>3, <3>4, <3>6
  <2>2. CASE ~fwWatch.on
    <3>1. /\ fwCheck'.pc = "scan"
          /\ fwCheck'.files = fwCheck.files /\ fwCheck'.stat = fwCheck.stat /\ fwCheck'.hash = fwCheck.hash
      BY <1>2, <2>2 DEF FwBranchVerify, FwTypeOK
    <3> QED BY <1>0, <1>b, <3>1, FwPlainStep
  <2> QED BY <2>1, <2>2
<1>3. CASE FwBranchPending \/ FwScanError
  <2>1. /\ fwCheck'.pc = "run"
        /\ fwCheck'.files = fwCheck.files /\ fwCheck'.stat = fwCheck.stat /\ fwCheck'.hash = fwCheck.hash
    BY <1>3 DEF FwBranchPending, FwScanError, FwGoto, FwTypeOK
  <2> QED BY <1>0, <1>b, <2>1, FwPlainStep
<1>4. CASE FwScanStat
  <2>1. /\ fwCheck'.pc = "scanHash" /\ fwCheck'.stat = FwObserved /\ fwCheck'.hash = fwCheck.hash
        /\ fwCheck'.files = [f \in FwFile |-> [FwNoFiles[f] EXCEPT !.known = fwDisk[f].here]]
    BY <1>4 DEF FwScanStat, FwTypeOK
  <2>2. ASSUME NEW f \in FwFile
        PROVE  /\ fwCheck'.files[f].stat <= fwEdits + 1 /\ fwCheck'.files[f].hash <= fwEdits + 1
               /\ fwCheck'.stat[f] <= fwEdits + 1 /\ fwCheck'.hash[f] <= fwEdits + 1
    BY <1>0, <1>b, <2>1, FwReadFacts DEF FwNoFiles
  <2> QED BY <1>0, <2>1, <2>2, FwPlainStep
<1>5. CASE FwScanHash
  <2>1. /\ fwCheck'.pc = "insert" /\ fwCheck'.stat = fwCheck.stat /\ fwCheck'.hash = FwHashed
        /\ fwCheck'.files = fwCheck.files
    BY <1>5 DEF FwScanHash, FwTypeOK
  <2>2. FwBounded'
    BY <1>0, <1>b, <2>1, FwReadFacts DEF FwBounded
  <2>3. FwPairsOK'
    BY <1>0, <2>1, FwReadFacts DEF FwPairsOK, FwPairOK
  <2>4. FwMarksOK' /\ FwSuccessOK' /\ FwStaleSkipOnlyDropped'
    BY <1>0, <2>1 DEF FwMarksOK, FwSuccessOK, FwSince, FwStaleSkipOnlyDropped, FwAt
  <2>5. FwVerifyOK'
    BY <2>1 DEF FwVerifyOK, FwVerifiedOK, FwAt
  <2> QED BY <2>2, <2>3, <2>4, <2>5
<1>6. CASE FwOperate
  <2>1. /\ fwCheck'.pc = "ran" /\ fwCheck'.stat = fwCheck.stat /\ fwCheck'.hash = fwCheck.hash
        /\ fwCheck'.files = fwCheck.files /\ fwCheck'.seen = FwHashed
    BY <1>6 DEF FwOperate, FwTypeOK
  <2>2. FwBounded'
    BY <1>0, <1>b, <2>1 DEF FwBounded
  <2>3. FwPairsOK'
    BY <1>0, <2>1 DEF FwPairsOK, FwPairOK
  <2>4. FwSuccessOK'
    BY <1>0, <2>1, FwReadFacts DEF FwSuccessOK, FwSince, FwAt
  <2>5. FwMarksOK' /\ FwStaleSkipOnlyDropped'
    BY <1>0, <2>1 DEF FwMarksOK, FwStaleSkipOnlyDropped, FwAt
  <2>6. FwVerifyOK'
    BY <2>1 DEF FwVerifyOK, FwVerifiedOK, FwAt
  <2> QED BY <2>2, <2>3, <2>4, <2>5, <2>6
<1>7. CASE FwEnd
  <2>1. fwCheck' = FwNoCheck
    BY <1>7 DEF FwEnd
  <2>2. fwCheck'.pc = "idle"
    BY <2>1 DEF FwNoCheck
  <2>3. ASSUME NEW f \in FwFile
        PROVE  /\ fwCheck'.files[f].stat <= fwEdits + 1 /\ fwCheck'.files[f].hash <= fwEdits + 1
               /\ fwCheck'.stat[f] <= fwEdits + 1 /\ fwCheck'.hash[f] <= fwEdits + 1
    BY <1>0, <2>1 DEF FwNoCheck, FwNoFiles, FwZero
  <2> QED BY <1>0, <2>2, <2>3, FwPlainStep
<1> QED BY <1>1, <1>2, <1>3, <1>4, <1>5, <1>6, <1>7

\* The verification: stat, then hash.
LEMMA FwVerifyStep ==
    ASSUME FwInv, FwTypeOK', FwVerifyStat \/ FwVerifyHash
    PROVE  FwInv'
<1> USE DEF FwInv
<1>0. UNCHANGED <<fwDisk, fwEdits, fwBatch, fwRan, fwWatch>>
  BY DEF FwVerifyStat, FwVerifyHash, FwKeep
<1>1. CASE FwVerifyStat
  <2>1. /\ fwCheck.pc = "verify" /\ fwCheck'.pc = "hash"
        /\ fwCheck'.stat = FwObserved /\ fwCheck'.seen = FwHashed
        /\ fwCheck'.files = fwCheck.files /\ fwCheck'.hash = fwCheck.hash
    BY <1>1 DEF FwVerifyStat, FwAt, FwTypeOK
  <2>2. FwBounded'
    BY <1>0, <2>1, FwReadFacts DEF FwBounded
  <2>3. FwPairsOK'
    BY <1>0, <2>1 DEF FwPairsOK, FwPairOK
  <2>4. FwMarksOK' /\ FwSuccessOK' /\ FwStaleSkipOnlyDropped'
    BY <1>0, <2>1 DEF FwMarksOK, FwSuccessOK, FwSince, FwStaleSkipOnlyDropped, FwAt
  <2>5. ASSUME NEW f \in FwFile, fwCheck.files[f].known
        PROVE  FwVerifiedOK(f)'
    <3> DEFINE hash == fwCheck.files[f].hash
    <3>1. fwDisk[f].here /\ fwDisk[f].stat = fwCheck.files[f].stat => fwDisk[f].content = hash
      BY <2>1, <2>5 DEF FwPairsOK, FwPairOK
    <3>2. fwWatch.on /\ ~fwWatch.dirty /\ fwDisk[f].here /\ fwDisk[f].content = hash => fwRan[f] = hash
      BY <2>1, <2>5 DEF FwSuccessOK, FwSince, FwVerifyOK
    <3> QED BY <1>0, <2>1, <3>1, <3>2, FwReadFacts DEF FwVerifiedOK, FwSince, FwAt
  <2>6. FwVerifyOK'
    BY <1>0, <2>1, <2>5 DEF FwVerifyOK
  <2> QED BY <2>2, <2>3, <2>4, <2>6
<1>2. CASE FwVerifyHash
  <2>1. /\ fwCheck.pc = "hash" /\ fwCheck'.pc = "apply"
        /\ fwCheck'.hash = FwHashed /\ fwCheck'.stat = fwCheck.stat /\ fwCheck'.seen = fwCheck.seen
        /\ fwCheck'.files = fwCheck.files
    BY <1>2 DEF FwVerifyHash, FwAt, FwTypeOK
  <2>2. FwBounded'
    BY <1>0, <2>1, FwReadFacts DEF FwBounded
  <2>3. FwPairsOK'
    BY <1>0, <2>1, FwReadFacts DEF FwPairsOK, FwPairOK
  <2>4. FwMarksOK' /\ FwSuccessOK' /\ FwStaleSkipOnlyDropped'
    BY <1>0, <2>1 DEF FwMarksOK, FwSuccessOK, FwSince, FwStaleSkipOnlyDropped, FwAt
  <2>5. ASSUME NEW f \in FwFile, fwCheck.files[f].known
        PROVE  FwVerifiedOK(f)'
    <3>1. FwVerifiedOK(f)
      BY <2>5 DEF FwVerifyOK
    <3> QED BY <1>0, <2>1, <3>1, FwReadFacts DEF FwVerifiedOK, FwSince, FwAt
  <2>6. FwVerifyOK'
    BY <1>0, <2>1, <2>5 DEF FwVerifyOK
  <2> QED BY <2>2, <2>3, <2>4, <2>6
<1> QED BY <1>1, <1>2

\* The write guard: a hash that differs from the tracked one, and whose entry is
\* the one that was verified, makes the check run.
LEMMA FwVerifyApplyStep ==
    ASSUME FwInv, FwTypeOK', FwVerifyApply
    PROVE  FwInv'
<1> USE DEF FwInv
<1> DEFINE live == {f \in FwFile : FwUpdated(f) /\ ~FwStale(f)}
           changed == {f \in live : FwReportsChange(f)}
           Entry(f) == IF f \notin live \/ fwCheck.stat[f] = 0 \/ fwCheck.hash[f] = 0
                       THEN fwWatch.files[f]
                       ELSE [known |-> TRUE, stat |-> fwCheck.stat[f], hash |-> fwCheck.hash[f]]
           files == [f \in FwFile |-> Entry(f)]
           applied == [fwWatch EXCEPT !.files = files]
<1>0. UNCHANGED <<fwDisk, fwEdits, fwBatch, fwRan>> /\ fwCheck.pc = "apply"
  BY DEF FwVerifyApply, FwKeep, FwAt
<1>1. ASSUME NEW f \in FwFile
      PROVE  \/ files[f] = fwWatch.files[f]
             \/ /\ files[f].known /\ files[f].stat = fwCheck.stat[f] /\ files[f].hash = fwCheck.hash[f]
                /\ fwCheck.files[f].known /\ fwWatch.files[f] = fwCheck.files[f]
                /\ f \notin changed => fwCheck.hash[f] = fwCheck.files[f].hash
  <2>1. CASE f \notin live \/ fwCheck.stat[f] = 0 \/ fwCheck.hash[f] = 0
    BY <2>1
  <2>2. CASE f \in live /\ fwCheck.stat[f] # 0 /\ fwCheck.hash[f] # 0
    <3>1. files[f] = [known |-> TRUE, stat |-> fwCheck.stat[f], hash |-> fwCheck.hash[f]]
      BY <2>2
    <3>2. FwUpdated(f) /\ ~FwStale(f) /\ (f \notin changed => ~FwReportsChange(f))
      BY <2>2
    <3> HIDE DEF files, changed, live
    <3> QED BY <2>2, <3>1, <3>2 DEF FwUpdated, FwStale, FwReportsChange
  <2> QED BY <2>1, <2>2
<1>2. ASSUME NEW f \in FwFile
      PROVE  /\ files[f].stat <= fwEdits + 1 /\ files[f].hash <= fwEdits + 1
             /\ files[f].known => FwPairOK(f, files[f].stat, files[f].hash)
  <2> HIDE DEF files, changed
  <2> QED BY <1>0, <1>1 DEF FwBounded, FwPairsOK, FwPairOK
<1>3. CASE ~fwWatch.on /\ FwGoto("scan") /\ UNCHANGED fwWatch
  <2>1. /\ fwCheck'.pc = "scan"
        /\ fwCheck'.files = fwCheck.files /\ fwCheck'.stat = fwCheck.stat /\ fwCheck'.hash = fwCheck.hash
    BY <1>3 DEF FwGoto, FwTypeOK
  <2>2. \A f \in FwFile :
          /\ fwCheck'.files[f].stat <= fwEdits + 1 /\ fwCheck'.files[f].hash <= fwEdits + 1
          /\ fwCheck'.stat[f] <= fwEdits + 1 /\ fwCheck'.hash[f] <= fwEdits + 1
    BY <2>1 DEF FwBounded
  <2> QED BY <1>0, <1>3, <2>1, <2>2, FwPlainStep
<1>4. CASE /\ fwWatch.on /\ FwDecide(changed)
           /\ fwWatch' = applied
           /\ fwCheck' = [fwCheck EXCEPT !.pc = "skipped",
                            !.dropped = {f \in FwFile : FwReportsChange(f) /\ FwStale(f)}]
  <2>1. /\ fwWatch'.files = files /\ fwWatch'.dirty = fwWatch.dirty /\ fwWatch'.status = fwWatch.status
        /\ fwWatch'.on = fwWatch.on /\ fwWatch'.generation = fwWatch.generation
        /\ fwWatch'.checked = fwWatch.checked
    BY <1>4 DEF FwTypeOK
  <2>2. /\ fwCheck'.pc = "skipped" /\ fwCheck'.files = fwCheck.files /\ fwCheck'.stat = fwCheck.stat
        /\ fwCheck'.hash = fwCheck.hash /\ fwCheck'.seen = fwCheck.seen
        /\ fwCheck'.dropped = {f \in FwFile : FwReportsChange(f) /\ FwStale(f)}
    BY <1>4 DEF FwTypeOK
  <2>3. changed = {} /\ ~fwWatch.dirty /\ fwWatch.on
    BY <1>4 DEF FwDecide
  <2>4. \A f \in FwFile :
          /\ files[f].known = fwWatch.files[f].known
          /\ files[f].known => files[f].hash = fwWatch.files[f].hash
    <3> HIDE DEF files, changed
    <3>1. ASSUME NEW f \in FwFile PROVE fwWatch.files[f].known \in BOOLEAN /\ fwCheck.files[f].known \in BOOLEAN
      BY DEF FwTypeOK, FwTracked
    <3>2. ASSUME NEW f \in FwFile, files[f].known, fwCheck.files[f].known,
                 fwWatch.files[f] = fwCheck.files[f]
          PROVE  files[f].known = fwWatch.files[f].known
      <4>1. files[f].known \in BOOLEAN
        BY <2>1 DEF FwTypeOK, FwTracked
      <4> QED BY <3>1, <3>2, <4>1
    <3> QED BY <1>1, <2>3, <3>2
  <2>5. ASSUME NEW f \in FwFile, fwCheck.files[f].known, f \notin fwCheck'.dropped
        PROVE  fwCheck.seen[f] = fwRan[f]
    <3>1. ~FwReportsChange(f)
      <4>1. FwReportsChange(f) => FwUpdated(f)
        BY DEF FwReportsChange
      <4>2. FwReportsChange(f) => FwStale(f)
        BY <2>3, <4>1
      <4> QED BY <2>2, <2>5, <4>2
    <3>2. FwVerifiedOK(f)
      BY <2>5 DEF FwVerifyOK
    <3> HIDE DEF files, changed, live
    <3>3. CASE FwUpdated(f)
      <4>1. fwCheck.stat[f] # 0 /\ fwCheck.hash[f] # 0 /\ fwCheck.hash[f] = fwCheck.files[f].hash
        BY <3>1, <3>3 DEF FwReportsChange
      <4> QED BY <1>0, <2>3, <3>2, <4>1 DEF FwVerifiedOK, FwAt
    <3>4. CASE ~FwUpdated(f)
      <4>1. fwCheck.stat[f] # 0 /\ fwCheck.stat[f] = fwCheck.files[f].stat
        BY <2>5, <3>4 DEF FwUpdated
      <4> QED BY <1>0, <2>3, <3>2, <4>1 DEF FwVerifiedOK, FwAt
    <3> QED BY <3>3, <3>4
  <2> HIDE DEF files, changed, live
  <2>6. FwBounded'
    BY <1>0, <1>2, <2>1, <2>2 DEF FwBounded
  <2>7. FwPairsOK'
    BY <1>0, <1>2, <2>1, <2>2 DEF FwPairsOK, FwPairOK
  <2>8. FwMarksOK'
    BY <1>0, <2>1, <2>2 DEF FwMarksOK, FwAt
  <2>9. FwSuccessOK'
    BY <1>0, <2>1, <2>2, <2>3, <2>4 DEF FwSuccessOK, FwSince, FwAt
  <2>10. FwVerifyOK'
    BY <2>2 DEF FwVerifyOK, FwVerifiedOK, FwAt
  <2>11. FwStaleSkipOnlyDropped'
    BY <1>0, <2>2, <2>5 DEF FwStaleSkipOnlyDropped, FwUnheardOf
  <2> QED BY <2>6, <2>7, <2>8, <2>9, <2>10, <2>11
<1>5. CASE /\ fwWatch.on /\ ~FwDecide(changed)
           /\ fwWatch' = [applied EXCEPT !.generation = @ + 1, !.dirty = TRUE,
                              !.status = "pending", !.checked = fwWatch.generation + 1]
           /\ FwGoto("run")
  <2> HIDE DEF files, changed, live
  <2>1. /\ fwWatch'.files = files /\ fwWatch'.dirty /\ fwWatch'.status = "pending"
        /\ fwWatch'.generation = fwWatch.generation + 1 /\ fwWatch'.checked = fwWatch.generation + 1
    BY <1>5 DEF FwTypeOK
  <2>2. /\ fwCheck'.pc = "run" /\ fwCheck'.files = fwCheck.files /\ fwCheck'.stat = fwCheck.stat
        /\ fwCheck'.hash = fwCheck.hash
    BY <1>5 DEF FwTypeOK, FwGoto
  <2>3. FwBounded'
    BY <1>0, <1>2, <2>1, <2>2 DEF FwBounded
  <2>4. FwPairsOK'
    BY <1>0, <1>2, <2>1, <2>2 DEF FwPairsOK, FwPairOK
  <2>5. FwMarksOK'
    <3>1. fwWatch.generation \in Nat
      BY DEF FwTypeOK
    <3> QED BY <2>1, <2>2, <3>1 DEF FwMarksOK, FwAt
  <2>6. FwSuccessOK' /\ FwVerifyOK' /\ FwStaleSkipOnlyDropped'
    BY <2>1, <2>2 DEF FwSuccessOK, FwVerifyOK, FwVerifiedOK, FwStaleSkipOnlyDropped, FwAt
  <2> QED BY <2>3, <2>4, <2>5, <2>6
<1> QED BY <1>3, <1>4, <1>5 DEF FwVerifyApply

\* The branch that runs, the insert, the marks and invalidate.
LEMMA FwMarkStep ==
    ASSUME FwInv, FwTypeOK',
           FwBranchRun \/ FwScanInsert \/ FwMarkSuccess \/ FwMarkFailure \/ FwInvalidate
    PROVE  FwInv'
<1> USE DEF FwInv
<1>0. UNCHANGED <<fwDisk, fwEdits, fwBatch>> /\ fwEdits \in Nat
  BY FwAssumption DEF FwBranchRun, FwScanInsert, FwMarkSuccess, FwMarkFailure, FwInvalidate, FwKeep, FwTypeOK
<1>n. \A f \in FwFile : ~FwNoFiles[f].known /\ FwNoFiles[f].stat = 0 /\ FwNoFiles[f].hash = 0 /\ FwZero[f] = 0
  BY DEF FwNoFiles, FwZero
<1>1. CASE FwBranchRun
  <2>1. /\ fwCheck.pc = "branch" /\ fwRan' = fwRan
        /\ fwCheck'.pc = "run" /\ fwCheck'.files = fwCheck.files /\ fwCheck'.stat = fwCheck.stat
        /\ fwCheck'.hash = fwCheck.hash
    BY <1>1 DEF FwBranchRun, FwGoto, FwKeep, FwAt, FwTypeOK
  <2>2. /\ fwWatch'.files = fwWatch.files /\ fwWatch'.generation = fwWatch.generation
        /\ \/ fwWatch' = fwWatch /\ ~fwWatch'.on
           \/ fwWatch.on /\ fwWatch'.status = "pending" /\ fwWatch'.checked = fwCheck.gen
    BY <1>1 DEF FwBranchRun, FwTypeOK
  <2>3. FwBounded'
    BY <1>0, <2>1, <2>2 DEF FwBounded
  <2>4. FwPairsOK'
    BY <1>0, <2>1, <2>2 DEF FwPairsOK, FwPairOK
  <2>5. FwMarksOK'
    BY <2>1, <2>2 DEF FwMarksOK, FwAt
  <2>6. FwSuccessOK'
    BY <2>1, <2>2 DEF FwSuccessOK, FwAt
  <2>7. FwVerifyOK' /\ FwStaleSkipOnlyDropped'
    BY <2>1 DEF FwVerifyOK, FwVerifiedOK, FwStaleSkipOnlyDropped, FwAt
  <2> QED BY <2>3, <2>4, <2>5, <2>6, <2>7
<1>2. CASE FwScanInsert
  <2>1. /\ fwCheck.pc = "insert"
        /\ fwCheck'.pc = "run" /\ fwCheck'.files = fwCheck.files /\ fwCheck'.stat = fwCheck.stat
        /\ fwCheck'.hash = fwCheck.hash
    BY <1>2 DEF FwScanInsert, FwGoto, FwAt, FwTypeOK
  <2>2. /\ fwWatch'.files = [f \in FwFile |->
              IF fwCheck.files[f].known
              THEN [known |-> TRUE, stat |-> fwCheck.stat[f], hash |-> fwCheck.hash[f]]
              ELSE FwNoFiles[f]]
        /\ fwWatch'.generation = 0 /\ fwWatch'.checked = 0 /\ fwWatch'.status = "pending"
    BY <1>2 DEF FwScanInsert, FwNoWatch
  <2>3. ASSUME NEW f \in FwFile
        PROVE  \/ ~fwWatch'.files[f].known /\ fwWatch'.files[f].stat = 0 /\ fwWatch'.files[f].hash = 0
               \/ fwWatch'.files[f].stat = fwCheck.stat[f] /\ fwWatch'.files[f].hash = fwCheck.hash[f]
    BY <1>n, <2>2
  <2>4. FwBounded'
    BY <1>0, <2>1, <2>3 DEF FwBounded
  <2>5. FwPairsOK'
    BY <1>0, <2>1, <2>3 DEF FwPairsOK, FwPairOK
  <2>6. FwMarksOK' /\ FwSuccessOK'
    BY <2>1, <2>2 DEF FwMarksOK, FwSuccessOK, FwAt
  <2>7. FwVerifyOK' /\ FwStaleSkipOnlyDropped'
    BY <2>1 DEF FwVerifyOK, FwVerifiedOK, FwStaleSkipOnlyDropped, FwAt
  <2> QED BY <2>4, <2>5, <2>6, <2>7
<1>3. CASE FwMarkSuccess \/ FwMarkFailure
  <2>1. /\ fwCheck.pc = "ran" /\ fwCheck'.pc = "idle"
        /\ fwCheck'.files = FwNoFiles /\ fwCheck'.stat = FwZero /\ fwCheck'.hash = FwZero
    BY <1>3 DEF FwMarkSuccess, FwMarkFailure, FwNoCheck, FwAt
  <2>2. /\ fwWatch'.files = fwWatch.files /\ fwWatch'.generation = fwWatch.generation
        /\ fwWatch'.checked = fwWatch.checked /\ fwWatch'.on = fwWatch.on
    <3>1. ASSUME NEW s, NEW d
          PROVE  LET w == [fwWatch EXCEPT !.status = s, !.dirty = d]
                 IN  /\ w.files = fwWatch.files /\ w.generation = fwWatch.generation
                     /\ w.checked = fwWatch.checked /\ w.on = fwWatch.on
      BY DEF FwTypeOK
    <3>2. CASE FwMarkSuccess
      <4>1. fwWatch' = IF ~fwWatch.on THEN fwWatch
                       ELSE [fwWatch EXCEPT !.status = "success", !.dirty = (fwWatch.dirty /\ ~FwCovers)]
        BY <3>2 DEF FwMarkSuccess
      <4> QED BY <3>1, <4>1, Zenon
    <3>3. CASE FwMarkFailure
      BY <3>3 DEF FwMarkFailure, FwTypeOK
    <3> QED BY <1>3, <3>2, <3>3
  <2>3. FwBounded'
    BY <1>0, <1>n, <2>1, <2>2 DEF FwBounded
  <2>4. FwPairsOK'
    BY <1>0, <1>n, <2>1, <2>2 DEF FwPairsOK, FwPairOK
  <2>5. FwMarksOK' /\ FwStaleSkipOnlyDropped'
    BY <2>1, <2>2 DEF FwMarksOK, FwStaleSkipOnlyDropped, FwAt
  <2>6. FwVerifyOK'
    BY <2>1 DEF FwVerifyOK, FwVerifiedOK, FwAt
  <2>7. ASSUME fwWatch'.on, ~fwWatch'.dirty, fwWatch'.status = "success",
               NEW f \in FwFile, fwWatch'.files[f].known
        PROVE  fwDisk[f].here /\ fwDisk[f].content = fwWatch.files[f].hash => fwRan'[f] = fwWatch.files[f].hash
    <3>1. FwMarkSuccess
      BY <1>3, <2>2, <2>7 DEF FwMarkFailure, FwTypeOK
    <3>2. fwRan' = fwCheck.seen /\ fwWatch' = [fwWatch EXCEPT !.status = "success", !.dirty = @ /\ ~FwCovers]
      BY <2>2, <2>7, <3>1 DEF FwMarkSuccess
    <3>3. fwWatch'.dirty = (fwWatch.dirty /\ ~FwCovers)
      BY <3>2 DEF FwTypeOK
    <3>4. ~fwWatch.dirty \/ FwCovers
      BY <2>7, <3>3, Zenon
    <3> QED BY <2>1, <2>2, <2>7, <3>2, <3>4 DEF FwSuccessOK, FwSince, FwAt
  <2>8. FwSuccessOK'
    BY <1>0, <2>1, <2>2, <2>7 DEF FwSuccessOK, FwSince, FwAt
  <2> QED BY <2>3, <2>4, <2>5, <2>6, <2>8
<1>4. CASE FwInvalidate
  <2>1. /\ ~fwWatch'.on /\ fwWatch'.files = FwNoFiles /\ fwWatch'.generation = 0 /\ fwWatch'.checked = 0
        /\ UNCHANGED <<fwCheck, fwRan>>
    BY <1>4 DEF FwInvalidate, FwNoWatch, FwKeep
  <2>2. FwBounded'
    BY <1>0, <1>n, <2>1 DEF FwBounded
  <2>3. FwPairsOK'
    BY <1>0, <1>n, <2>1 DEF FwPairsOK, FwPairOK
  <2>4. FwMarksOK' /\ FwSuccessOK' /\ FwStaleSkipOnlyDropped'
    BY <2>1 DEF FwMarksOK, FwSuccessOK, FwStaleSkipOnlyDropped, FwAt, FwUnheardOf
  <2>5. FwVerifyOK'
    BY <1>0, <2>1 DEF FwVerifyOK, FwVerifiedOK, FwSince, FwAt
  <2> QED BY <2>2, <2>3, <2>4, <2>5
<1> QED BY <1>1, <1>2, <1>3, <1>4

\* The inductive invariant holds initially.
LEMMA FwInvInit == FwInit => FwInv
<1> SUFFICES ASSUME FwInit PROVE FwInv
  OBVIOUS
<1> USE DEF FwInit
<1>0. FwTypeOK
  BY FwTypeInit
<1>1. /\ \A f \in FwFile : fwDisk[f].stat = 1 /\ fwDisk[f].content = 1
      /\ ~fwWatch.on /\ fwWatch.files = FwNoFiles /\ fwWatch.generation = 0 /\ fwWatch.checked = 0
      /\ fwCheck.pc = "idle" /\ fwCheck.files = FwNoFiles /\ fwCheck.stat = FwZero /\ fwCheck.hash = FwZero
      /\ ~fwBatch.busy /\ fwBatch.stat = FwZero /\ fwBatch.hash = FwZero
      /\ fwEdits = 0
  BY DEF FwNoWatch, FwNoCheck, FwNoBatch
<1>n. \A f \in FwFile : ~FwNoFiles[f].known /\ FwNoFiles[f].stat = 0 /\ FwNoFiles[f].hash = 0 /\ FwZero[f] = 0
  BY DEF FwNoFiles, FwZero
<1>2. FwBounded
  BY <1>1, <1>n DEF FwBounded
<1>3. FwPairsOK /\ FwMarksOK /\ FwSuccessOK /\ FwVerifyOK /\ FwStaleSkipOnlyDropped
  BY <1>1, <1>n DEF FwPairsOK, FwMarksOK, FwSuccessOK, FwVerifyOK, FwStaleSkipOnlyDropped, FwAt
<1> QED BY <1>0, <1>2, <1>3 DEF FwInv

\* Every step keeps the inductive invariant.
LEMMA FwInvNext ==
    ASSUME FwInv, [FwNext]_fwVars
    PROVE  FwInv'
<1>0. FwTypeOK'
  BY FwTypeStep DEF FwInv
<1>1. CASE UNCHANGED fwVars
  <2>1. UNCHANGED <<fwDisk, fwEdits, fwBatch, fwWatch, fwCheck, fwRan>>
    BY <1>1 DEF fwVars
  <2>2. FwBounded' /\ FwMarksOK' /\ FwSuccessOK' /\ FwStaleSkipOnlyDropped'
    BY <2>1 DEF FwInv, FwBounded, FwMarksOK, FwSuccessOK, FwSince, FwCovers, FwStaleSkipOnlyDropped,
       FwAt, FwUnheardOf
  <2>3. FwPairsOK' /\ FwVerifyOK'
    BY <2>1 DEF FwInv, FwPairsOK, FwPairOK, FwVerifyOK, FwVerifiedOK, FwSince, FwAt
  <2> QED BY <1>0, <2>2, <2>3 DEF FwInv
<1>2. CASE \E f \in FwFile : FwEdit(f) \/ FwTouch(f) \/ FwRemove(f)
  BY <1>0, <1>2, FwChangeStep
<1>3. CASE \E files \in SUBSET FwFile : FwBatchRead(files)
  BY <1>0, <1>3, FwBatchReadStep
<1>4. CASE FwBatchApply
  BY <1>0, <1>4, FwBatchApplyStep
<1>5. CASE FwVerifyApply
  BY <1>0, <1>5, FwVerifyApplyStep
<1>6. CASE FwVerifyStat \/ FwVerifyHash
  BY <1>0, <1>6, FwVerifyStep
<1>7. CASE FwStart \/ FwBranchVerify \/ FwBranchPending \/ FwScanStat \/ FwScanError \/ FwScanHash
            \/ FwOperate \/ FwEnd
  BY <1>0, <1>7, FwCheckStep
<1>8. CASE FwBranchRun \/ FwScanInsert \/ FwMarkSuccess \/ FwMarkFailure \/ FwInvalidate
  BY <1>0, <1>8, FwMarkStep
<1> QED BY <1>1, <1>2, <1>3, <1>4, <1>5, <1>6, <1>7, <1>8 DEF FwNext

\* A skip is stale only for a file whose verified change apply_verifications threw
\* away (because a batch had replaced the entry), whatever events are lost or late,
\* for any number of files, edits and checks: every other file that the watch tracks
\* had, when the check looked at it, the content the last successful operation read.
THEOREM FwStaleSkipOnlyDroppedHolds == FwSpec => []FwStaleSkipOnlyDropped
<1>1. FwInv /\ [FwNext]_fwVars => FwInv'
  BY FwInvNext
<1>2. FwInv => FwStaleSkipOnlyDropped
  BY DEF FwInv
<1> QED BY <1>1, <1>2, FwInvInit, PTL DEF FwSpec

-----------------------------------------------------------------------------
(* The caches together *)

\* Every behaviour of the caches together (metadata.rs, fingerprint/mod.rs,
\* persist.rs) is type correct, whichever of them takes the steps.
THEOREM CachesTypeCorrect == MCSpec => []TypesOK
<1>1. MCInit => Init /\ FwInit /\ FcInit
  BY DEF MCInit
<1>2. [MCNext]_<<focus, vars, fwVars, fcVars>> =>
        [Next]_vars /\ [FwNext]_fwVars /\ [FcNext]_fcVars
  BY Zenon DEF MCNext, Threads, Restarts, Fingerprint, Cycle
<1>3. MCSpec => Spec /\ FwSpec /\ FcSpec
  BY <1>1, <1>2, PTL DEF MCSpec, Spec, FwSpec, FcSpec
<1> QED BY <1>3, FsTypeCorrect, FwTypeCorrect, FcTypeCorrect, PTL DEF TypesOK
=============================================================================
