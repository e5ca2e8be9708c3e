-------------------------- MODULE DaemonStateProofs --------------------------
(***************************************************************************)
(* Proofs about the change journal (ChangeJournal), for every set of       *)
(* paths and threads, and the staged store (StagedStore), for every set    *)
(* of publishers, readers and generations, with failures, kills and power  *)
(* losses at any step; and the types of what a daemon keeps.               *)
(* UnchangedIsEvidence needs one condition on who calls the journal:       *)
(* batches come from one thread.  It cannot be dropped: the run            *)
(* journal_two_writers has the counterexample.                             *)
(***************************************************************************)
EXTENDS MCDaemonState, ArtifactIndexLogProofs, FiniteSetTheorems, TLAPS

-----------------------------------------------------------------------------
(* The change journal *)

OneWriter == \A v, w \in Writer : v = w

-----------------------------------------------------------------------------
\* Every caller follows its own methods, and no tick is ahead of the clock.

CallerOK ==
    /\ \A w \in Writer : pc[w] \in {"idle", "advance", "overflow"} \cup Clearing
    /\ \A r \in Registrar : pc[r] \in {"idle", "register"}
    /\ \A e \in Evictor : pc[e] \in {"idle", "retain"}

TicksBounded ==
    /\ \A t \in Thread : tick[t] <= current
    /\ \A p \in Path : lastChange[p] # Untracked => lastChange[p] <= current
    /\ \A p \in Path : applied[p] <= current
    /\ lastOverflow <= current

\* A writer that holds a tick holds the newest one, so the last store to
\* last_overflow is the newest too.
WriterHoldsNewest ==
    /\ \A w \in Writer :
        pc[w] \in {"advance", "overflow", "clear_store"} => tick[w] = current
    /\ overflowed = lastOverflow

\* The paths a running advance has visited carry its tick, unless they were
\* evicted since, or evicted and registered again.
VisitedCarryTick ==
    \A w \in Writer : pc[w] = "advance" =>
        \A p \in (batch[w] \ todo[w]) \ torn :
            lastChange[p] # Untracked => lastChange[p] = tick[w]

\* A register that was not overtaken inserts a tick that hides no change: if
\* its path is untracked, the path's batches are older than its tick, the one
\* under way included, or an overflow covers them.
RegisterFresh ==
    \A r \in Registrar : pc[r] = "register" /\ r \notin overtaken =>
        \A p \in todo[r] : lastChange[p] = Untracked =>
            /\ \A w \in Writer : pc[w] = "advance" /\ p \in batch[w] \ todo[w]
                                    => tick[r] = current
            /\ (\A w \in Writer : pc[w] \notin Clearing)
                  => applied[p] <= tick[r] \/ applied[p] <= lastOverflow

\* Unless a clear is under way, a tracked path's tick covers its newest
\* batch or an overflow does.
TrackedCovers ==
    (\A w \in Writer : pc[w] \notin Clearing) =>
        \A p \in Path \ torn :
            \/ applied[p] <= lastOverflow
            \/ lastChange[p] # Untracked => applied[p] <= lastChange[p]

IInv == TypeOK /\ CallerOK /\ TicksBounded
        /\ WriterHoldsNewest /\ VisitedCarryTick /\ RegisterFresh /\ TrackedCovers

-----------------------------------------------------------------------------
\* The methods of clock.rs keep every variable of the journal in its type.
THEOREM TypeCorrect == Spec => []TypeOK
<1>1. Init => TypeOK
  BY DEF Init, TypeOK, Steps
<1>2. TypeOK /\ [Next]_vars => TypeOK'
  <2> SUFFICES ASSUME TypeOK, [Next]_vars PROVE TypeOK'
    OBVIOUS
  <2> USE DEF TypeOK, Thread
  <2>1. ASSUME NEW w \in Writer, NEW paths \in SUBSET Path, AdvanceTick(w, paths)
        PROVE  TypeOK'
    BY <2>1 DEF AdvanceTick, ghosts, Steps
  <2>2. ASSUME NEW w \in Writer, NEW p \in Path, AdvanceRecord(w, p)
        PROVE  TypeOK'
    BY <2>2 DEF AdvanceRecord, ghosts
  <2>3. ASSUME NEW w \in Writer, AdvanceJournal(w) PROVE TypeOK'
    <3>1. [clock |-> tick[w], paths |-> batch[w]] \in JournalEntry
      BY DEF JournalEntry
    <3>2. journal' \in SUBSET JournalEntry
      BY <2>3, <3>1 DEF AdvanceJournal, Trimmed
    <3>3. applied' \in [Path -> Nat]
      BY <2>3 DEF AdvanceJournal, Larger
    <3>4. pc' \in [Thread -> Steps]
      BY <2>3 DEF AdvanceJournal, Steps
    <3> QED BY <2>3, <3>2, <3>3, <3>4 DEF AdvanceJournal
  <2>4. ASSUME NEW w \in Writer, OverflowTick(w) PROVE TypeOK'
    BY <2>4 DEF OverflowTick, ghosts, Steps, Clearing
  <2>5. ASSUME NEW w \in Writer, OverflowStore(w) PROVE TypeOK'
    BY <2>5 DEF OverflowStore, Larger, Steps
  <2>6. ASSUME NEW w \in Writer, ClearStart(w) PROVE TypeOK'
    BY <2>6 DEF ClearStart, ghosts, Steps, Clearing
  <2>7. ASSUME NEW w \in Writer, NEW p \in Path, ClearPath(w, p) PROVE TypeOK'
    BY <2>7 DEF ClearPath, ghosts
  <2>8. ASSUME NEW w \in Writer, ClearJournal(w) PROVE TypeOK'
    BY <2>8 DEF ClearJournal, ghosts, Steps, Clearing
  <2>3a. ASSUME NEW r \in Registrar, NEW p \in Path, RegisterRead(r, p)
        PROVE  TypeOK'
    BY <2>3a DEF RegisterRead, ghosts, Steps
  <2>10. ASSUME NEW r \in Registrar, NEW p \in Path, RegisterInsert(r, p)
         PROVE  TypeOK'
    BY <2>10 DEF RegisterInsert, ghosts, Steps
  <2>11. ASSUME NEW e \in Evictor, NEW live \in SUBSET Path, RetainStart(e, live)
         PROVE  TypeOK'
    BY <2>11 DEF RetainStart, ghosts, Steps
  <2>12. ASSUME NEW e \in Evictor, NEW p \in Path, RetainPath(e, p) PROVE TypeOK'
    BY <2>12 DEF RetainPath, ghosts
  <2>13. ASSUME NEW e \in Evictor, RetainEnd(e) PROVE TypeOK'
    BY <2>13 DEF RetainEnd, ghosts, Steps
  <2>14. CASE UNCHANGED vars
    BY <2>14 DEF vars
  <2> QED
    BY <2>1, <2>2, <2>3, <2>4, <2>5, <2>6, <2>7, <2>8, <2>3a, <2>10, <2>11, <2>12,
       <2>13, <2>14 DEF Next, WriterStep, RegistrarStep, EvictorStep
<1> QED BY <1>1, <1>2, PTL DEF Spec

-----------------------------------------------------------------------------
\* IInv holds initially and is preserved by every step of every caller.
LEMMA IInvInit == Init => IInv
BY JournalConstants DEF Init, IInv, TypeOK, CallerOK, TicksBounded, WriterHoldsNewest,
   VisitedCarryTick, RegisterFresh, TrackedCovers, Steps, Clearing, Thread

\* A step of a writer preserves IInv: it is alone, so its tick is the newest.
LEMMA WriterStepKeepsIInv ==
    ASSUME OneWriter, IInv, TypeOK', NEW w \in Writer, WriterStep(w)
    PROVE  IInv'
<1> USE JournalConstants DEF IInv, OneWriter
<1>0. /\ \A v \in Writer : v = w
      /\ w \in Thread
      /\ w \notin Registrar
      /\ w \notin Evictor
  BY DEF Thread
<1>1. ASSUME NEW paths \in SUBSET Path, AdvanceTick(w, paths) PROVE IInv'
  <2> USE <1>0, <1>1 DEF AdvanceTick, ghosts, TypeOK
  <2>1. CallerOK'  BY DEF CallerOK, Thread
  <2>2. TicksBounded'  BY DEF TicksBounded
  <2>3. WriterHoldsNewest'  BY DEF WriterHoldsNewest
  <2>3a. RegisterFresh'  BY DEF RegisterFresh, Clearing, Thread, TicksBounded
  <2>4. VisitedCarryTick'  BY DEF VisitedCarryTick
  <2>5. TrackedCovers'  BY DEF TrackedCovers, Clearing
  <2> QED BY <2>1, <2>2, <2>3, <2>4, <2>5, <2>3a
<1>2. ASSUME NEW p \in Path, AdvanceRecord(w, p) PROVE IInv'
  <2> USE <1>0, <1>2 DEF AdvanceRecord, ghosts, TypeOK
  <2>1. CallerOK'  BY DEF CallerOK
  <2>2. TicksBounded'  BY DEF TicksBounded
  <2>3. WriterHoldsNewest'  BY DEF WriterHoldsNewest
  <2>3a. RegisterFresh'  BY DEF RegisterFresh, Clearing, Thread, TicksBounded
  <2>4. VisitedCarryTick'  BY DEF VisitedCarryTick
  <2>5. tick[w] = current /\ tick[w] # Untracked
    BY DEF WriterHoldsNewest
  <2>6. TrackedCovers'  BY <2>5 DEF TrackedCovers, Clearing, TicksBounded
  <2> QED BY <2>1, <2>2, <2>3, <2>4, <2>6, <2>3a
<1>3. ASSUME AdvanceJournal(w) PROVE IInv'
  <2> USE <1>0, <1>3 DEF AdvanceJournal, TypeOK
  <2>1. CallerOK'  BY DEF CallerOK
  <2>2. TicksBounded'  BY DEF TicksBounded, Larger
  <2>3. WriterHoldsNewest'  BY DEF WriterHoldsNewest
  <2>3a. RegisterFresh'
    BY DEF RegisterFresh, Clearing, Thread, TicksBounded, WriterHoldsNewest, Larger
  <2>4. VisitedCarryTick'  BY DEF VisitedCarryTick
  <2>5. ASSUME NEW p \in Path \ torn
        PROVE  \/ applied'[p] <= lastOverflow'
               \/ lastChange'[p] # Untracked => applied'[p] <= lastChange'[p]
    <3>1. CASE p \in batch[w]
      <4>1. applied'[p] = tick[w]
        BY <3>1 DEF Larger, TicksBounded, WriterHoldsNewest
      <4> QED BY <3>1, <4>1 DEF VisitedCarryTick
    <3>2. CASE p \notin batch[w]
      BY <3>2 DEF TrackedCovers, Clearing
    <3> QED BY <3>1, <3>2
  <2>6. TrackedCovers'  BY <2>5 DEF TrackedCovers
  <2> QED BY <2>1, <2>2, <2>3, <2>4, <2>6, <2>3a
<1>4. ASSUME OverflowTick(w) PROVE IInv'
  <2> USE <1>0, <1>4 DEF OverflowTick, ghosts, TypeOK
  <2>1. CallerOK'  BY DEF CallerOK, Clearing
  <2>2. TicksBounded'  BY DEF TicksBounded
  <2>3. WriterHoldsNewest'  BY DEF WriterHoldsNewest
  <2>3a. RegisterFresh'  BY DEF RegisterFresh, Clearing, Thread, TicksBounded
  <2>4. VisitedCarryTick'  BY DEF VisitedCarryTick
  <2>5. TrackedCovers'  BY DEF TrackedCovers, Clearing
  <2> QED BY <2>1, <2>2, <2>3, <2>4, <2>5, <2>3a
<1>5. ASSUME OverflowStore(w) PROVE IInv'
  <2> USE <1>0, <1>5 DEF OverflowStore, TypeOK
  <2>0. tick[w] = current  BY DEF WriterHoldsNewest
  <2>1. CallerOK'  BY DEF CallerOK
  <2>2. TicksBounded'  BY DEF TicksBounded
  <2>3. WriterHoldsNewest'  BY <2>0 DEF WriterHoldsNewest, Larger, TicksBounded
  <2>3a. RegisterFresh'
    BY <2>0 DEF RegisterFresh, TicksBounded, Thread
  <2>4. VisitedCarryTick'  BY DEF VisitedCarryTick
  <2>5. TrackedCovers'  BY <2>0 DEF TrackedCovers, TicksBounded
  <2> QED BY <2>1, <2>2, <2>3, <2>4, <2>5, <2>3a
<1>6. ASSUME ClearStart(w) PROVE IInv'
  <2> USE <1>0, <1>6 DEF ClearStart, ghosts, TypeOK
  <2>1. CallerOK'  BY DEF CallerOK, Clearing
  <2>2. TicksBounded'  BY DEF TicksBounded
  <2>3. WriterHoldsNewest'  BY DEF WriterHoldsNewest
  <2>3a. RegisterFresh'  BY DEF RegisterFresh, Clearing, Thread, TicksBounded
  <2>4. VisitedCarryTick'  BY DEF VisitedCarryTick
  <2>5. TrackedCovers'  BY DEF TrackedCovers, Clearing
  <2> QED BY <2>1, <2>2, <2>3, <2>4, <2>5, <2>3a
<1>7. ASSUME NEW p \in Path, ClearPath(w, p) PROVE IInv'
  <2> USE <1>0, <1>7 DEF ClearPath, ghosts, TypeOK
  <2>1. CallerOK'  BY DEF CallerOK
  <2>2. TicksBounded'  BY DEF TicksBounded
  <2>3. WriterHoldsNewest'  BY DEF WriterHoldsNewest
  <2>3a. RegisterFresh'  BY DEF RegisterFresh, Clearing, Thread, TicksBounded
  <2>4. VisitedCarryTick'  BY DEF VisitedCarryTick
  <2>5. TrackedCovers'  BY DEF TrackedCovers, Clearing
  <2> QED BY <2>1, <2>2, <2>3, <2>4, <2>5, <2>3a
<1>8. ASSUME ClearJournal(w) PROVE IInv'
  <2> USE <1>0, <1>8 DEF ClearJournal, ghosts, TypeOK
  <2>1. CallerOK'  BY DEF CallerOK, Clearing
  <2>2. TicksBounded'  BY DEF TicksBounded
  <2>3. WriterHoldsNewest'  BY DEF WriterHoldsNewest
  <2>3a. RegisterFresh'  BY DEF RegisterFresh, Clearing, Thread, TicksBounded
  <2>4. VisitedCarryTick'  BY DEF VisitedCarryTick
  <2>5. TrackedCovers'  BY DEF TrackedCovers, Clearing
  <2> QED BY <2>1, <2>2, <2>3, <2>4, <2>5, <2>3a
<1> QED
  BY <1>1, <1>2, <1>3, <1>4, <1>5, <1>6, <1>7, <1>8 DEF WriterStep

\* register() preserves IInv: the tick it inserts hides no batch, or it was
\* overtaken and the path is torn.
LEMMA RegistrarStepKeepsIInv ==
    ASSUME OneWriter, IInv, TypeOK', NEW r \in Registrar, RegistrarStep(r)
    PROVE  IInv'
<1> USE JournalConstants DEF IInv
<1>0. /\ r \in Thread
      /\ r \notin Writer
  BY DEF Thread
<1>1. ASSUME NEW p \in Path, RegisterRead(r, p) PROVE IInv'
  <2> USE <1>0, <1>1 DEF RegisterRead, ghosts, TypeOK
  <2>1. CallerOK'  BY DEF CallerOK
  <2>2. TicksBounded'  BY DEF TicksBounded
  <2>3. WriterHoldsNewest'  BY DEF WriterHoldsNewest, Thread
  <2>3a. RegisterFresh'  BY DEF RegisterFresh, Clearing, Thread, TicksBounded
  <2>4. VisitedCarryTick'  BY DEF VisitedCarryTick, Thread
  <2>5. TrackedCovers'  BY DEF TrackedCovers, Thread
  <2> QED BY <2>1, <2>2, <2>3, <2>4, <2>5, <2>3a
<1>2. ASSUME NEW p \in Path, RegisterInsert(r, p) PROVE IInv'
  <2> USE <1>0, <1>2 DEF RegisterInsert, ghosts, TypeOK
  <2>1. CallerOK'  BY DEF CallerOK
  <2>2. TicksBounded'  BY DEF TicksBounded
  <2>3. WriterHoldsNewest'  BY DEF WriterHoldsNewest, Thread
  <2>3a. RegisterFresh'  BY DEF RegisterFresh, Clearing, Thread, TicksBounded
  <2>4. VisitedCarryTick'
    BY DEF VisitedCarryTick, RegisterFresh, WriterHoldsNewest, Thread
  <2>5. TrackedCovers'
    <3>1. CASE lastChange[p] = Untracked /\ r \notin overtaken
      BY <3>1 DEF TrackedCovers, RegisterFresh, Thread
    <3>2. CASE ~(lastChange[p] = Untracked /\ r \notin overtaken)
      BY <3>2 DEF TrackedCovers, Thread
    <3> QED BY <3>1, <3>2
  <2> QED BY <2>1, <2>2, <2>3, <2>4, <2>5, <2>3a
<1> QED BY <1>1, <1>2 DEF RegistrarStep

\* retain_paths() preserves IInv: a path it drops is untracked, which every
\* query reads as changed.
LEMMA EvictorStepKeepsIInv ==
    ASSUME IInv, TypeOK', NEW e \in Evictor, EvictorStep(e)
    PROVE  IInv'
<1> USE JournalConstants DEF IInv
<1>0. e \in Thread /\ e \notin Writer
  BY DEF Thread
<1>1. ASSUME NEW live \in SUBSET Path, RetainStart(e, live) PROVE IInv'
  <2> USE <1>0, <1>1 DEF RetainStart, ghosts, TypeOK
  <2>1. CallerOK'  BY DEF CallerOK
  <2>2. TicksBounded'  BY DEF TicksBounded
  <2>3. WriterHoldsNewest'  BY DEF WriterHoldsNewest, Thread
  <2>3a. RegisterFresh'  BY DEF RegisterFresh, Clearing, Thread, TicksBounded
  <2>4. VisitedCarryTick'  BY DEF VisitedCarryTick, Thread
  <2>5. TrackedCovers'  BY DEF TrackedCovers, Thread
  <2> QED BY <2>1, <2>2, <2>3, <2>4, <2>5, <2>3a
<1>2. ASSUME NEW p \in Path, RetainPath(e, p) PROVE IInv'
  <2> USE <1>0, <1>2 DEF RetainPath, ghosts, TypeOK
  <2>1. CallerOK'  BY DEF CallerOK
  <2>2. TicksBounded'  BY DEF TicksBounded
  <2>3. WriterHoldsNewest'  BY DEF WriterHoldsNewest, Thread
  <2>3a. RegisterFresh'  BY DEF RegisterFresh, Clearing, Thread, TicksBounded
  <2>4. VisitedCarryTick'  BY DEF VisitedCarryTick, Thread
  <2>5. TrackedCovers'  BY DEF TrackedCovers, Thread
  <2> QED BY <2>1, <2>2, <2>3, <2>4, <2>5, <2>3a
<1>3. ASSUME RetainEnd(e) PROVE IInv'
  <2> USE <1>0, <1>3 DEF RetainEnd, ghosts, TypeOK
  <2>1. CallerOK'  BY DEF CallerOK
  <2>2. TicksBounded'  BY DEF TicksBounded
  <2>3. WriterHoldsNewest'  BY DEF WriterHoldsNewest, Thread
  <2>3a. RegisterFresh'  BY DEF RegisterFresh, Clearing, Thread, TicksBounded
  <2>4. VisitedCarryTick'  BY DEF VisitedCarryTick, Thread
  <2>5. TrackedCovers'  BY DEF TrackedCovers, Thread
  <2> QED BY <2>1, <2>2, <2>3, <2>4, <2>5, <2>3a
<1> QED BY <1>1, <1>2, <1>3 DEF EvictorStep

\* The answer FALSE of changed_since is evidence, whatever the interleaving,
\* as long as one thread applies the batches, for every path but the torn ones.
THEOREM UnchangedIsEvidenceHolds ==
    ASSUME OneWriter
    PROVE  Spec => []UnchangedIsEvidence
<1>1. Init => IInv
  BY IInvInit
<1>2. IInv /\ TypeOK' /\ [Next]_vars => IInv'
  <2> SUFFICES ASSUME IInv, TypeOK', [Next]_vars PROVE IInv'
    OBVIOUS
  <2>1. CASE UNCHANGED vars
    BY <2>1 DEF IInv, TypeOK, CallerOK, TicksBounded, WriterHoldsNewest,
       VisitedCarryTick, RegisterFresh, TrackedCovers, vars
  <2>2. CASE Next
    BY <2>2, OneWriter, WriterStepKeepsIInv, RegistrarStepKeepsIInv,
       EvictorStepKeepsIInv DEF Next
  <2> QED BY <2>1, <2>2
<1>3. IInv => UnchangedIsEvidence
  <2> SUFFICES ASSUME IInv, \A w \in Writer : pc[w] \notin Clearing,
                      NEW p \in Path \ torn, NEW since \in 0..current, ~ChangedSince(p, since)
               PROVE  applied[p] <= since /\ overflowed <= since
    BY DEF UnchangedIsEvidence
  <2>1. lastOverflow <= since /\ lastChange[p] # Untracked /\ lastChange[p] <= since
    BY JournalConstants DEF ChangedSince, IInv, TypeOK
  <2> QED BY <2>1 DEF IInv, TypeOK, TrackedCovers, WriterHoldsNewest
<1> QED BY <1>1, <1>2, <1>3, TypeCorrect, PTL DEF Spec

-----------------------------------------------------------------------------
\* The ordered journal, for any number of writers.  One entry per tick, none of
\* them in the future, and none yet with the tick of an advance under way.
JournalTicks ==
    /\ \A e \in journal : e.clock <= current
    /\ \A d, e \in journal : d.clock = e.clock => d = e
    /\ \A t \in Thread : tick[t] <= current
    /\ \A w \in Writer : pc[w] = "advance" => \A e \in journal : e.clock # tick[w]
    /\ \A v, w \in Writer :
         pc[v] = "advance" /\ pc[w] = "advance" /\ tick[v] = tick[w] => v = w

\* A clear that has emptied the journal and whose overflow will be newer than `at'.
ClearCovers(at) ==
    \E w \in Writer : \/ pc[w] = "clear_mark"
                      \/ pc[w] = "clear_store" /\ tick[w] > at

\* The newest batch of a path is in the journal while the capacity and the
\* clears allow.
NewestBatchKept ==
    \A p \in Path :
        /\ applied[p] <= current
        /\ applied[p] > overflowed /\ applied[p] + MaxJournalEntries > current =>
             ClearCovers(applied[p]) \/ \E e \in journal : e.clock = applied[p] /\ p \in e.paths

JournalInv == TypeOK /\ CallerOK /\ JournalTicks /\ NewestBatchKept

\* pop_first spares an entry that is younger than the capacity: the entries
\* after it have different ticks, of which there are too few.
LEMMA YoungEntryStays ==
    ASSUME NEW entries \in SUBSET JournalEntry, NEW now \in Nat,
           \A e \in entries : e.clock <= now,
           \A d, e \in entries : d.clock = e.clock => d = e,
           NEW e \in entries, e.clock + MaxJournalEntries > now
    PROVE  e \in Trimmed(entries)
<1> DEFINE later == {x \in entries : x.clock > e.clock}
           ticks == (e.clock + 1)..now
           clockOf == [x \in later |-> x.clock]
<1>1. e.clock \in Nat /\ MaxJournalEntries \in Nat /\ e.clock <= now
  BY JournalConstants DEF JournalEntry
<1>2. clockOf \in Injection(later, ticks)
  <2>1. ASSUME NEW x \in later PROVE x.clock \in ticks
    BY <1>1 DEF JournalEntry
  <2>2. clockOf \in [later -> ticks]
    BY <2>1
  <2>3. ASSUME NEW x \in later, NEW y \in later, clockOf[x] = clockOf[y] PROVE x = y
    BY <2>3
  <2>4. IsInjective(clockOf)
    BY <2>2, <2>3 DEF IsInjective
  <2> HIDE DEF clockOf, ticks, later
  <2> QED BY <2>2, <2>4 DEF Injection
<1>3. IsFiniteSet(ticks) /\ Cardinality(ticks) = now - e.clock
  <2>1. e.clock + 1 \in Int /\ now \in Int
    BY <1>1
  <2>2. Cardinality(ticks) = IF e.clock + 1 > now THEN 0 ELSE now - (e.clock + 1) + 1
    BY <2>1, FS_Interval
  <2>3. IsFiniteSet(ticks)
    BY <2>1, FS_Interval
  <2>4. Cardinality(ticks) = now - e.clock
    BY <1>1, <2>2
  <2> QED BY <2>3, <2>4
<1>4. Cardinality(later) \in Nat /\ Cardinality(later) <= now - e.clock
  <2> HIDE DEF clockOf, ticks, later
  <2>1. IsFiniteSet(later) /\ Cardinality(later) <= Cardinality(ticks)
    BY <1>2, <1>3, FS_Injection
  <2> QED BY <1>3, <2>1, FS_CardinalityType
<1>5. Cardinality(later) < MaxJournalEntries
  BY <1>1, <1>4
<1> QED BY <1>5 DEF Trimmed

\* The ordered journal's invariant holds initially and every caller keeps it.
LEMMA JournalInvInit == Init => JournalInv
BY JournalConstants DEF Init, JournalInv, TypeOK, CallerOK, JournalTicks, NewestBatchKept,
   Steps, Clearing, Thread

\* A step of advance, mark_overflow or clear keeps the agreement.
LEMMA JournalInvWriter ==
    ASSUME JournalInv, TypeOK', NEW w \in Writer, WriterStep(w)
    PROVE  JournalInv'
<1> USE JournalConstants DEF JournalInv
<1>0. /\ w \in Thread
      /\ w \notin Registrar
      /\ w \notin Evictor
      /\ Writer \subseteq Thread
  BY DEF Thread
<1>1. ASSUME NEW paths \in SUBSET Path, AdvanceTick(w, paths) PROVE JournalInv'
  <2> USE <1>0, <1>1 DEF AdvanceTick, ghosts, TypeOK
  <2>1. CallerOK'  BY DEF CallerOK, Thread
  <2>2. JournalTicks'  BY DEF JournalTicks, JournalEntry
  <2>3. NewestBatchKept'  BY DEF NewestBatchKept, ClearCovers
  <2> QED BY <2>1, <2>2, <2>3
<1>2. ASSUME NEW p \in Path, AdvanceRecord(w, p) PROVE JournalInv'
  <2> USE <1>0, <1>2 DEF AdvanceRecord, ghosts, TypeOK
  <2>1. CallerOK'  BY DEF CallerOK
  <2>2. JournalTicks'  BY DEF JournalTicks
  <2>3. NewestBatchKept'  BY DEF NewestBatchKept, ClearCovers
  <2> QED BY <2>1, <2>2, <2>3
<1>3. ASSUME AdvanceJournal(w) PROVE JournalInv'
  <2> DEFINE new == [clock |-> tick[w], paths |-> batch[w]]
             entries == journal \cup {new}
  <2> USE <1>0, <1>3 DEF AdvanceJournal, TypeOK
  <2>1. CallerOK'  BY DEF CallerOK
  <2>2. new \in JournalEntry /\ new.clock = tick[w] /\ new.paths = batch[w]
    BY DEF JournalEntry
  <2>3. /\ entries \in SUBSET JournalEntry
        /\ \A e \in entries : e.clock <= current
        /\ \A d, e \in entries : d.clock = e.clock => d = e
    BY <2>2 DEF JournalTicks
  <2>4. journal' = Trimmed(entries) /\ journal' \subseteq entries
    BY DEF Trimmed
  <2> HIDE DEF new
  <2>5. JournalTicks'
    <3>1. /\ \A e \in journal' : e.clock <= current'
          /\ \A d, e \in journal' : d.clock = e.clock => d = e
          /\ \A t \in Thread : tick'[t] <= current'
      BY <2>3, <2>4 DEF JournalTicks
    <3>2. ASSUME NEW v \in Writer, pc'[v] = "advance", NEW e \in journal'
          PROVE  e.clock # tick'[v]
      BY <2>2, <2>4, <3>2 DEF JournalTicks
    <3> QED BY <3>1, <3>2 DEF JournalTicks
  <2>6. \A v \in Writer : pc[v] \in {"clear_mark", "clear_store"} =>
            pc'[v] = pc[v] /\ tick'[v] = tick[v]
    OBVIOUS
  <2>7. ASSUME NEW p \in Path
        PROVE  /\ applied'[p] <= current'
               /\ applied'[p] > overflowed' /\ applied'[p] + MaxJournalEntries > current' =>
                    \/ ClearCovers(applied[p])'
                    \/ \E e \in journal' : e.clock = applied'[p] /\ p \in e.paths
    <3>1. applied'[p] <= current'
      BY DEF NewestBatchKept, JournalTicks, Larger
    <3>2. CASE p \in batch[w] /\ tick[w] >= applied[p]
      <4>1. applied'[p] = tick[w]
        BY <3>2 DEF Larger
      <4>2. applied'[p] + MaxJournalEntries > current => new \in Trimmed(entries)
        <5> SUFFICES ASSUME new.clock + MaxJournalEntries > current PROVE new \in Trimmed(entries)
          BY <2>2, <4>1
        <5>1. new \in entries
          OBVIOUS
        <5> HIDE DEF entries
        <5> QED BY <2>3, <5>1, YoungEntryStays
      <4> QED BY <2>2, <2>4, <3>1, <3>2, <4>1, <4>2
    <3>3. CASE ~(p \in batch[w] /\ tick[w] >= applied[p])
      <4>1. applied'[p] = applied[p]
        BY <3>3 DEF Larger
      <4> SUFFICES ASSUME applied[p] > overflowed, applied[p] + MaxJournalEntries > current,
                          ~ClearCovers(applied[p])
                   PROVE  \E e \in journal' : e.clock = applied[p] /\ p \in e.paths
        BY <2>6, <3>1, <4>1 DEF ClearCovers
      <4>2. PICK e \in journal : e.clock = applied[p] /\ p \in e.paths
        BY DEF NewestBatchKept
      <4>3. e \in Trimmed(entries)
        <5>1. e \in entries /\ e.clock + MaxJournalEntries > current
          BY <4>2
        <5> HIDE DEF entries
        <5> QED BY <2>3, <5>1, YoungEntryStays
      <4> QED BY <2>4, <4>2, <4>3
    <3> QED BY <3>2, <3>3
  <2>8. NewestBatchKept'
    BY <2>7 DEF NewestBatchKept
  <2> QED BY <2>1, <2>5, <2>8
<1>4. ASSUME OverflowTick(w) PROVE JournalInv'
  <2> USE <1>0, <1>4 DEF OverflowTick, ghosts, TypeOK
  <2>1. CallerOK'  BY DEF CallerOK, Clearing
  <2>2. JournalTicks'  BY DEF JournalTicks, JournalEntry
  <2>3. NewestBatchKept'  BY DEF NewestBatchKept, ClearCovers
  <2> QED BY <2>1, <2>2, <2>3
<1>5. ASSUME OverflowStore(w) PROVE JournalInv'
  <2> USE <1>0, <1>5 DEF OverflowStore, TypeOK
  <2>1. CallerOK'  BY DEF CallerOK
  <2>2. JournalTicks'  BY DEF JournalTicks
  <2>3. NewestBatchKept'  BY DEF NewestBatchKept, ClearCovers, Larger
  <2> QED BY <2>1, <2>2, <2>3
<1>6. ASSUME ClearStart(w) PROVE JournalInv'
  <2> USE <1>0, <1>6 DEF ClearStart, ghosts, TypeOK
  <2>1. CallerOK'  BY DEF CallerOK, Clearing
  <2>2. JournalTicks'  BY DEF JournalTicks
  <2>3. NewestBatchKept'  BY DEF NewestBatchKept, ClearCovers
  <2> QED BY <2>1, <2>2, <2>3
<1>7. ASSUME NEW p \in Path, ClearPath(w, p) PROVE JournalInv'
  <2> USE <1>0, <1>7 DEF ClearPath, ghosts, TypeOK
  <2>1. CallerOK'  BY DEF CallerOK
  <2>2. JournalTicks'  BY DEF JournalTicks
  <2>3. NewestBatchKept'  BY DEF NewestBatchKept, ClearCovers
  <2> QED BY <2>1, <2>2, <2>3
<1>8. ASSUME ClearJournal(w) PROVE JournalInv'
  <2> USE <1>0, <1>8 DEF ClearJournal, ghosts, TypeOK
  <2>1. CallerOK'  BY DEF CallerOK, Clearing
  <2>2. JournalTicks'  BY DEF JournalTicks
  <2>3. NewestBatchKept'  BY DEF NewestBatchKept, ClearCovers
  <2> QED BY <2>1, <2>2, <2>3
<1> QED
  BY <1>1, <1>2, <1>3, <1>4, <1>5, <1>6, <1>7, <1>8 DEF WriterStep

\* register() and retain_paths() leave the ordered journal and its ticks alone.
LEMMA JournalInvRegistrar ==
    ASSUME JournalInv, TypeOK', NEW t \in Registrar, RegistrarStep(t)
    PROVE  JournalInv'
<1> USE JournalConstants DEF JournalInv
<1>0. /\ t \in Thread
      /\ t \notin Writer
      /\ Writer \subseteq Thread
  BY DEF Thread
<1>1. /\ UNCHANGED <<current, journal, applied, overflowed>>
      /\ \A w \in Writer : pc'[w] = pc[w] /\ tick'[w] = tick[w]
      /\ CallerOK'
      /\ \A u \in Thread : tick'[u] = tick[u] \/ tick'[u] = current
  BY <1>0 DEF RegistrarStep, TypeOK, CallerOK, RegisterRead, RegisterInsert, Thread, Clearing
<1>2. JournalTicks'
  BY <1>0, <1>1 DEF JournalTicks, TypeOK
<1>3. NewestBatchKept'
  BY <1>1 DEF NewestBatchKept, ClearCovers
<1> QED BY <1>1, <1>2, <1>3

\* A step of retain_paths keeps the agreement.
LEMMA JournalInvEvictor ==
    ASSUME JournalInv, TypeOK', NEW t \in Evictor, EvictorStep(t)
    PROVE  JournalInv'
<1> USE JournalConstants DEF JournalInv
<1>0. /\ t \in Thread
      /\ t \notin Writer
      /\ Writer \subseteq Thread
  BY DEF Thread
<1>1. /\ UNCHANGED <<current, journal, applied, overflowed>>
      /\ \A w \in Writer : pc'[w] = pc[w] /\ tick'[w] = tick[w]
      /\ CallerOK'
      /\ \A u \in Thread : tick'[u] = tick[u] \/ tick'[u] = current
  <2>1. ASSUME NEW live \in SUBSET Path, RetainStart(t, live) PROVE <1>1!:
    BY <1>0, <2>1 DEF TypeOK, CallerOK, RetainStart, ghosts, Thread, Clearing
  <2>2. ASSUME NEW p \in Path, RetainPath(t, p) PROVE <1>1!:
    BY <1>0, <2>2 DEF TypeOK, CallerOK, RetainPath, Thread, Clearing
  <2>3. ASSUME RetainEnd(t) PROVE <1>1!:
    BY <1>0, <2>3 DEF TypeOK, CallerOK, RetainEnd, ghosts, Thread, Clearing
  <2> QED BY <2>1, <2>2, <2>3 DEF EvictorStep
<1>2. JournalTicks'
  BY <1>0, <1>1 DEF JournalTicks, TypeOK
<1>3. NewestBatchKept'
  BY <1>1 DEF NewestBatchKept, ClearCovers
<1> QED BY <1>1, <1>2, <1>3

\* changes_since agrees with last_change, whatever the number of writers: the
\* newest batch of a path is reported as long as the capacity of the journal and
\* the clears allow.
THEOREM JournalAgreesHolds == Spec => []JournalAgrees
<1>1. Init => JournalInv
  BY JournalInvInit
<1>2. JournalInv /\ TypeOK' /\ [Next]_vars => JournalInv'
  <2> SUFFICES ASSUME JournalInv, TypeOK', [Next]_vars PROVE JournalInv'
    OBVIOUS
  <2>1. CASE UNCHANGED vars
    BY <2>1 DEF JournalInv, TypeOK, CallerOK, JournalTicks, NewestBatchKept, ClearCovers, vars
  <2>2. CASE \E w \in Writer : WriterStep(w)
    BY <2>2, JournalInvWriter
  <2>3. CASE \E r \in Registrar : RegistrarStep(r)
    <3>1. PICK r \in Registrar : RegistrarStep(r)
      BY <2>3
    <3> QED BY <3>1, JournalInvRegistrar
  <2>4. CASE \E e \in Evictor : EvictorStep(e)
    <3>1. PICK e \in Evictor : EvictorStep(e)
      BY <2>4
    <3> QED BY <3>1, JournalInvEvictor
  <2> QED BY <2>1, <2>2, <2>3, <2>4 DEF Next
<1>3. JournalInv => JournalAgrees
  <2> SUFFICES ASSUME JournalInv, \A w \in Writer : pc[w] = "idle", NEW p \in Path,
                      applied[p] > overflowed, applied[p] + MaxJournalEntries > current
               PROVE  p \in ChangesSince(applied[p] - 1)
    BY DEF JournalAgrees
  <2>1. ~ClearCovers(applied[p])
    BY DEF ClearCovers
  <2>2. PICK e \in journal : e.clock = applied[p] /\ p \in e.paths
    BY <2>1 DEF JournalInv, NewestBatchKept
  <2>3. e.clock > applied[p] - 1
    BY <2>2 DEF JournalInv, TypeOK
  <2> QED BY <2>2, <2>3 DEF ChangesSince
<1> QED BY <1>1, <1>2, <1>3, TypeCorrect, PTL DEF Spec

-----------------------------------------------------------------------------
(* The staged store *)


StWorking == {"staging", "staged", "conflict", "unpoint", "manifest", "renamed", "synced",
              "pointed", "committed", "failed"}

\* A publication holds the store lock, and the key's lock while it works.
StPublisherHolds(p) ==
    /\ stPub[p].pc # "idle" => p \in stShared /\ stPub[p].gen \in StGeneration
    /\ stPub[p].pc \in StWorking => stKeyLock = p
    /\ stPub[p].pc \in {"staging", "staged", "conflict", "unpoint", "manifest"} => p \in stTemp

\* What it read in the pointer is still there until it writes the pointer, and
\* the generation it will remove is not one a lookup accepts.
StPublisherSaw(p) ==
    /\ stPub[p].pc = "conflict" => stPub[p].previous \in StGeneration
    /\ stPub[p].pc = "unpoint" => stAcked = StNone
    /\ stPub[p].pc \in {"manifest", "renamed", "synced", "pointed", "committed"} =>
         ~StValid(stPub[p].previous) /\ stPub[p].previous # stPub[p].gen
    /\ stPub[p].pc \in {"manifest", "renamed", "synced"} =>
         stPtr.visible = stPub[p].gen \/ stPtr.visible = stPub[p].previous

\* What it put on disk stays: the name, then the durable name, then the pointer.
StPublisherWrote(p) ==
    /\ stPub[p].pc \in {"renamed", "synced", "pointed", "committed"} =>
         stGen[stPub[p].gen].visible # "absent"
    /\ stPub[p].pc \in {"synced", "pointed", "committed"} =>
         stGen[stPub[p].gen].durable # "absent"
    /\ stPub[p].pc \in {"pointed", "committed"} => stPtr.visible = stPub[p].gen
    /\ stPub[p].pc = "committed" => stPtr.durable = stPub[p].gen

\* A reader holds the store lock; the generation it delivers is complete unless
\* a conflicting publication removed it ...
StReaderHolds(r) ==
    /\ stRead[r].pc \in {"locked", "resolved", "copied"} => r \in stShared
    /\ StDelivering(r) => stRead[r].gen \in StGeneration
    /\ StDelivering(r) /\ ~stRead[r].conflict => StValid(stRead[r].gen)

\* ... and is none that a publication has renamed and may still roll back.
StReaderSpared(r, p) ==
    /\ stPub[p].pc \in {"renamed", "synced"} /\ stPub[p].renamed
    /\ stPtr.visible # stPub[p].gen
    /\ StDelivering(r) /\ ~stRead[r].conflict
    => stRead[r].gen # stPub[p].gen

\* Maintenance at work has the store lock to itself; it removes the pointer
\* once no publication is vouched for.
StMaintenanceHolds ==
    /\ stMaint.pc \in {"tree", "pointer", "release"} => stExclusive
    /\ stMaint.pc = "pointer" => stAcked = StNone

StInv ==
    /\ \A p \in StPublisher : StPublisherHolds(p) /\ StPublisherSaw(p) /\ StPublisherWrote(p)
    /\ \A r \in StReader : StReaderHolds(r)
    /\ \A r \in StReader, p \in StPublisher : StReaderSpared(r, p)
    /\ StMaintenanceHolds
    /\ StAckedIsDurable

-----------------------------------------------------------------------------
(* The steps, by who takes them *)

StPublisherStep(p) ==
    \/ \E g \in StGeneration : StPublishLock(p, g)
    \/ StPublishKeyLock(p) \/ StStageOutputs(p) \/ StCheckPointer(p)
    \/ StConflictTree(p) \/ StConflictPointer(p)
    \/ StRenameGeneration(p) \/ StSyncKeyRoot(p) \/ StCommitPointer(p)
    \/ StCommitFails(p) \/ StSyncPointer(p) \/ StPublished(p)
    \/ StPublishFails(p) \/ StPublisherDies(p)

StReaderStep(r) ==
    StProbe(r) \/ StReadLock(r) \/ StResolve(r) \/ StDeliver(r) \/ StReadRelease(r)

StMaintenanceStep ==
    \/ \E op \in {"evict", "clear", "cleanup"} : StScan(op)
    \/ StMaintLock \/ StMaintDefer \/ StEvictChanged \/ StRemoveTree \/ StRemovePointer
    \/ StClearPointerFirst \/ StCleanup \/ StMaintRelease

\* Whoever a load names is a publisher or a reader.
LEMMA StStepCases ==
    ASSUME StTypeOK, StNext
    PROVE  \/ \E p \in StPublisher : StPublisherStep(p)
           \/ \E r \in StReader : StReaderStep(r)
           \/ StMaintenanceStep \/ StPowerLoss \/ StBoot
<1>1. stLoad.publish \subseteq StPublisher /\ stLoad.read \subseteq StReader
  BY StAssumption DEF StTypeOK
<1> QED
  BY <1>1, Zenon DEF StNext, StPublisherStep, StReaderStep, StMaintenanceStep

-----------------------------------------------------------------------------
(* Type correctness *)

\* A publisher that moves on, or is given a new record, keeps its type.
LEMMA StPublisherMoves ==
    ASSUME NEW pub \in [StPublisher -> StPublisherState], NEW p \in StPublisher
    PROVE  /\ \A s \in StPublisherState :
                [pub EXCEPT ![p] = s] \in [StPublisher -> StPublisherState]
           /\ \A to \in StWorking :
                [pub EXCEPT ![p].pc = to] \in [StPublisher -> StPublisherState]
BY DEF StPublisherState, StWorking

\* remove_staged_tree leaves a directory, and nothing where there was nothing.
LEMMA StRemovedIsDir ==
    ASSUME NEW dir \in StDir, NEW left \in StRemoved(dir)
    PROVE  left \in StDir /\ (left = "complete" => dir = "complete")
BY DEF StRemoved, StDir

\* A directory that changes keeps its type.
LEMMA StTreeChanges ==
    ASSUME NEW gen \in [StGeneration -> StDirState], NEW g, NEW left \in StDir
    PROVE  [gen EXCEPT ![g].visible = left] \in [StGeneration -> StDirState]
BY DEF StDirState

\* The steps of a publication keep the types.
LEMMA StTypePublisherStep ==
    ASSUME StTypeOK, NEW p \in StPublisher, StPublisherStep(p)
    PROVE  StTypeOK'
<1> USE DEF StTypeOK, stDisk, stLocks
<1>a. \A to \in StWorking : StPubGoto(p, to) => stPub' \in [StPublisher -> StPublisherState]
  BY StPublisherMoves DEF StPubGoto
<1>b. StPublisherLeaves(p) =>
        /\ stPub' \in [StPublisher -> StPublisherState]
        /\ stShared' \subseteq StPublisher \cup StReader
        /\ stShared = {} => stShared' = {}
        /\ stKeyLock' \in StPublisher \cup {StNone}
  BY DEF StPublisherLeaves, StIdlePublisher, StPublisherState, StPointer
<1>1. CASE \E g \in StGeneration : StPublishLock(p, g)
  BY <1>1 DEF StPublishLock, StPublisherState, StPointer
<1>2. CASE StPublishKeyLock(p)
  BY <1>2, <1>a DEF StPublishKeyLock, StWorking
<1>3. CASE StStageOutputs(p)
  BY <1>3, <1>a DEF StStageOutputs, StWorking
<1>4. CASE StCheckPointer(p)
  <2>1. PICK previous \in StPointer, to \in {"conflict", "manifest"} :
          stPub' = [stPub EXCEPT ![p].previous = previous, ![p].pc = to]
    BY <1>4 DEF StCheckPointer, StPointer
  <2>2. stPub' \in [StPublisher -> StPublisherState]
    BY <2>1 DEF StPublisherState
  <2> QED
    BY <1>4, <2>2 DEF StCheckPointer
<1>5. CASE StConflictTree(p)
  <2>1. PICK left \in StRemoved(stGen[stPub[p].previous].visible) :
          /\ stGen' = [stGen EXCEPT ![stPub[p].previous].visible = left]
          /\ stRead' = [r \in StReader |-> [stRead[r] EXCEPT !.conflict =
               @ \/ (r \in stShared /\ ~(left = "complete"))]]
    BY <1>5, Zenon DEF StConflictTree
  <2>2. stGen' \in [StGeneration -> StDirState]
    <3>1. CASE stPub[p].previous \in StGeneration
      BY <2>1, <3>1, StRemovedIsDir, StTreeChanges DEF StDirState
    <3>2. CASE stPub[p].previous \notin StGeneration
      BY <2>1, <3>2
    <3> QED
      BY <3>1, <3>2
  <2>3. stRead' \in [StReader -> StReaderState]
    <3>1. ASSUME NEW r \in StReader, NEW b \in BOOLEAN
          PROVE  [stRead[r] EXCEPT !.conflict = b] \in StReaderState
      BY DEF StReaderState
    <3>2. \A r \in StReader :
            (stRead[r].conflict \/ (r \in stShared /\ ~(left = "complete"))) \in BOOLEAN
      BY Zenon
    <3>3. stRead' = [r \in StReader |-> [stRead[r] EXCEPT !.conflict =
             stRead[r].conflict \/ (r \in stShared /\ ~(left = "complete"))]]
      BY <2>1, Zenon
    <3> QED
      BY <3>1, <3>2, <3>3, Zenon
  <2> QED
    BY <1>5, <1>a, <2>2, <2>3 DEF StConflictTree, StWorking, StPointer
<1>6. CASE StConflictPointer(p)
  BY <1>6, <1>a DEF StConflictPointer, StWorking, StPointer
<1>7. CASE StRenameGeneration(p)
  <2>1. stGen' \in [StGeneration -> StDirState]
    BY <1>7, StTreeChanges DEF StRenameGeneration, StDir
  <2>2. PICK free \in BOOLEAN :
          stPub' = [stPub EXCEPT ![p].pc = "renamed", ![p].renamed = free]
    BY <1>7 DEF StRenameGeneration
  <2>3. stPub' \in [StPublisher -> StPublisherState]
    BY <2>2 DEF StPublisherState
  <2> QED
    BY <1>7, <2>1, <2>3 DEF StRenameGeneration
<1>8. CASE StSyncKeyRoot(p)
  BY <1>8, <1>a DEF StSyncKeyRoot, StDir, StDirState, StWorking
<1>9. CASE StCommitPointer(p)
  BY <1>9, <1>a DEF StCommitPointer, StWorking, StPublisherState, StPointer
<1>10. CASE StCommitFails(p)
  <2>1. PICK left : /\ stGen' = [stGen EXCEPT ![stPub[p].gen].visible = left]
                    /\ \/ left \in StRemoved(stGen[stPub[p].gen].visible)
                       \/ left = stGen[stPub[p].gen].visible
    BY <1>10 DEF StCommitFails
  <2>2. stGen' \in [StGeneration -> StDirState]
    <3>1. CASE stPub[p].gen \in StGeneration
      BY <2>1, <3>1, StRemovedIsDir, StTreeChanges DEF StDirState
    <3>2. CASE stPub[p].gen \notin StGeneration
      BY <2>1, <3>2
    <3> QED
      BY <3>1, <3>2
  <2> QED
    BY <1>10, <1>a, <2>2 DEF StCommitFails, StWorking
<1>11. CASE StSyncPointer(p)
  BY <1>11, <1>a DEF StSyncPointer, StWorking
<1>12. CASE StPublished(p)
  <2>1. \/ stGen' = stGen
        \/ \E left \in StRemoved(stGen[stPub[p].previous].visible) :
             stGen' = [stGen EXCEPT ![stPub[p].previous].visible = left]
    BY <1>12 DEF StPublished
  <2>2. CASE stPub[p].previous \in StGeneration
    <3>1. \A left \in StRemoved(stGen[stPub[p].previous].visible) : left \in StDir
      BY <2>2, StRemovedIsDir DEF StDirState
    <3>2. ASSUME NEW left \in StDir
          PROVE  [stGen EXCEPT ![stPub[p].previous].visible = left] \in [StGeneration -> StDirState]
      BY StTreeChanges
    <3>3. stGen' \in [StGeneration -> StDirState]
      BY <2>1, <3>1, <3>2, Zenon
    <3> QED
      BY <1>12, <1>b, <3>3 DEF StPublished, StPublisherState
  <2>3. CASE stPub[p].previous \notin StGeneration
    BY <1>12, <1>b, <2>1, <2>3 DEF StPublished, StPublisherState
  <2> QED
    BY <2>2, <2>3
<1>13. CASE StPublishFails(p)
  BY <1>13, <1>b DEF StPublishFails
<1>14. CASE StPublisherDies(p)
  BY <1>14, <1>b DEF StPublisherDies
<1> QED
  BY <1>1, <1>2, <1>3, <1>4, <1>5, <1>6, <1>7, <1>8, <1>9, <1>10, <1>11, <1>12, <1>13, <1>14
     DEF StPublisherStep

\* The steps of a reader keep the types.
LEMMA StTypeReaderStep ==
    ASSUME StTypeOK, NEW r \in StReader, StReaderStep(r)
    PROVE  StTypeOK'
<1> USE DEF StTypeOK, StReadGoto, StPointer, stDisk, stLocks, StIdleReader, StReaderState
<1>1. CASE StProbe(r)
  BY <1>1 DEF StProbe
<1>2. CASE StReadLock(r)
  BY <1>2 DEF StReadLock
<1>3. CASE StResolve(r)
  BY <1>3 DEF StResolve
<1>4. CASE StDeliver(r)
  BY <1>4 DEF StDeliver
<1>5. CASE StReadRelease(r)
  BY <1>5 DEF StReadRelease
<1> QED
  BY <1>1, <1>2, <1>3, <1>4, <1>5 DEF StReaderStep

\* The steps of maintenance keep the types.
LEMMA StTypeMaintenanceStep ==
    ASSUME StTypeOK, StMaintenanceStep
    PROVE  StTypeOK'
<1> USE StAssumption
    DEF StTypeOK, StMaintGoto, StPointer, stDisk, stLocks, StIdleMaintenance,
        StMaintenanceState
<1>1. CASE \E op \in {"evict", "clear", "cleanup"} : StScan(op)
  BY <1>1 DEF StScan
<1>2. CASE StMaintLock
  BY <1>2 DEF StMaintLock
<1>3. CASE StMaintDefer
  BY <1>3 DEF StMaintDefer
<1>4. CASE StEvictChanged
  BY <1>4 DEF StEvictChanged
<1>5. CASE StRemoveTree
  <2>1. stGen' \in [StGeneration -> StDirState]
    BY <1>5 DEF StRemoveTree, StDirState
  <2>2. \/ stTemp' = {} /\ stMaint' = [stMaint EXCEPT !.pc = "pointer"]
        \/ stTemp' = stTemp /\ stMaint' = [stMaint EXCEPT !.pc = "release"]
    BY <1>5 DEF StRemoveTree
  <2> QED
    BY <1>5, <2>1, <2>2 DEF StRemoveTree
<1>6. CASE StRemovePointer
  BY <1>6 DEF StRemovePointer
<1>7. CASE StClearPointerFirst
  BY <1>7 DEF StClearPointerFirst
<1>8. CASE StCleanup
  <2>1. stGen' \in [StGeneration -> StDirState]
    BY <1>8 DEF StCleanup, StDirState
  <2> QED
    BY <1>8, <2>1 DEF StCleanup
<1>9. CASE StMaintRelease
  BY <1>9 DEF StMaintRelease
<1> QED
  BY <1>1, <1>2, <1>3, <1>4, <1>5, <1>6, <1>7, <1>8, <1>9 DEF StMaintenanceStep

\* Type correctness of the staged store (staged_store.rs, maintenance.rs).
THEOREM StTypeCorrect == StSpec => []StTypeOK
<1>1. StInit => StTypeOK
  <2> SUFFICES ASSUME StInit PROVE StTypeOK
    OBVIOUS
  <2>1. /\ stGen \in [StGeneration -> StDirState]
        /\ stPub \in [StPublisher -> StPublisherState]
        /\ stRead \in [StReader -> StReaderState]
        /\ stMaint \in StMaintenanceState
    BY DEF StInit, StDirState, StDir, StPointer, StIdlePublisher, StIdleReader,
           StIdleMaintenance, StPublisherState, StReaderState, StMaintenanceState
  <2> QED
    BY <2>1 DEF StInit, StTypeOK, StPointer
<1>2. StTypeOK /\ [StNext]_stVars => StTypeOK'
  <2> SUFFICES ASSUME StTypeOK, [StNext]_stVars PROVE StTypeOK'
    OBVIOUS
  <2>1. CASE UNCHANGED stVars
    BY <2>1 DEF StTypeOK, stVars, stDisk, stLocks
  <2>2. CASE StPowerLoss
    <3>1. /\ stPub' \in [StPublisher -> StPublisherState]
          /\ stRead' \in [StReader -> StReaderState]
          /\ stMaint' \in StMaintenanceState
      BY <2>2 DEF StPowerLoss, StPointer, StIdlePublisher, StIdleReader, StIdleMaintenance,
                  StPublisherState, StReaderState, StMaintenanceState
    <3>2. stGen' \in [StGeneration -> StDirState]
      BY <2>2 DEF StPowerLoss, StDirState
    <3>3. stPtr' \in [visible : StPointer, durable : StPointer]
      BY <2>2 DEF StPowerLoss, StTypeOK
    <3> QED
      BY <2>2, <3>1, <3>2, <3>3 DEF StTypeOK, StPowerLoss
  <2>3. CASE StBoot
    BY <2>3 DEF StTypeOK, StBoot, stDisk, stLocks
  <2> QED
    BY <2>1, <2>2, <2>3, StStepCases, StTypePublisherStep, StTypeReaderStep,
       StTypeMaintenanceStep
<1> QED
  BY <1>1, <1>2, PTL DEF StSpec

-----------------------------------------------------------------------------
(* The invariant *)

\* The steps of a publication keep the invariant: what it relies on is changed
\* by no other, for nobody else works on the key and maintenance is locked out.
LEMMA StInvPublisherStep ==
    ASSUME StTypeOK, StTypeOK', StInv, NEW p \in StPublisher, StPublisherStep(p)
    PROVE  StInv'
<1> USE DEF StTypeOK, StInv, stDisk, stLocks
<1>a. \A q \in StPublisher :
        q # p /\ stPub[p].pc \in StWorking => stPub[q].pc \notin StWorking
  BY DEF StPublisherHolds
<1>b. stPub[p].pc # "idle" => stMaint.pc \notin {"tree", "pointer", "release"}
  BY DEF StPublisherHolds, StMaintenanceHolds
<1>1. CASE \E g \in StGeneration : StPublishLock(p, g)
  <2>1. \A q \in StPublisher :
          StPublisherHolds(q)' /\ StPublisherSaw(q)' /\ StPublisherWrote(q)'
    BY <1>1
       DEF StPublishLock, StPubAt, StPublisherHolds, StPublisherSaw, StPublisherWrote, StValid,
           StPublisherState, StWorking
  <2>2. \A r \in StReader : StReaderHolds(r)'
    BY <1>1 DEF StPublishLock, StReaderHolds, StDelivering, StValid
  <2>3. \A r \in StReader, q \in StPublisher : StReaderSpared(r, q)'
    BY <1>1 DEF StPublishLock, StReaderSpared, StDelivering
  <2>4. StMaintenanceHolds' /\ StAckedIsDurable'
    BY <1>1 DEF StPublishLock, StMaintenanceHolds, StAckedIsDurable
  <2> QED
    BY <2>1, <2>2, <2>3, <2>4
<1>2. CASE StPublishKeyLock(p)
  <2>1. \A q \in StPublisher :
          StPublisherHolds(q)' /\ StPublisherSaw(q)' /\ StPublisherWrote(q)'
    BY <1>2, <1>a, <1>b, StAssumption
       DEF StPublishKeyLock, StPubAt, StPubGoto, StPublisherHolds, StPublisherSaw,
           StPublisherWrote, StValid, StWorking
  <2>2. \A r \in StReader : StReaderHolds(r)'
    BY <1>2, StAssumption
       DEF StPublishKeyLock, StPubAt, StPubGoto, StReaderHolds, StDelivering, StValid,
           StPublisherSaw, StReaderSpared
  <2>3. \A r \in StReader, q \in StPublisher : StReaderSpared(r, q)'
    BY <1>2, <1>a
       DEF StPublishKeyLock, StPubAt, StPubGoto, StReaderSpared, StReaderHolds, StDelivering,
           StWorking, StValid
  <2>4. StMaintenanceHolds' /\ StAckedIsDurable'
    BY <1>2, <1>b
       DEF StPublishKeyLock, StPubAt, StPubGoto, StMaintenanceHolds, StAckedIsDurable,
           StPublisherSaw, StPublisherWrote
  <2> QED
    BY <2>1, <2>2, <2>3, <2>4
<1>3. CASE StStageOutputs(p)
  <2>1. \A q \in StPublisher :
          StPublisherHolds(q)' /\ StPublisherSaw(q)' /\ StPublisherWrote(q)'
    BY <1>3, <1>a, <1>b, StAssumption
       DEF StStageOutputs, StPubAt, StPubGoto, StPublisherHolds, StPublisherSaw,
           StPublisherWrote, StValid, StWorking
  <2>2. \A r \in StReader : StReaderHolds(r)'
    BY <1>3, StAssumption
       DEF StStageOutputs, StPubAt, StPubGoto, StReaderHolds, StDelivering, StValid,
           StPublisherSaw, StReaderSpared
  <2>3. \A r \in StReader, q \in StPublisher : StReaderSpared(r, q)'
    BY <1>3, <1>a
       DEF StStageOutputs, StPubAt, StPubGoto, StReaderSpared, StReaderHolds, StDelivering,
           StWorking, StValid
  <2>4. StMaintenanceHolds' /\ StAckedIsDurable'
    BY <1>3, <1>b
       DEF StStageOutputs, StPubAt, StPubGoto, StMaintenanceHolds, StAckedIsDurable,
           StPublisherSaw, StPublisherWrote
  <2> QED
    BY <2>1, <2>2, <2>3, <2>4
<1>4. CASE StCheckPointer(p)
  <2>1. \A q \in StPublisher :
          StPublisherHolds(q)' /\ StPublisherSaw(q)' /\ StPublisherWrote(q)'
    <3>1. PICK previous :
            /\ previous = IF stPtr.visible = stPub[p].gen THEN StNone ELSE stPtr.visible
            /\ stPub' = [stPub EXCEPT ![p].previous = previous,
                                      ![p].pc = IF StValid(previous) THEN "conflict" ELSE "manifest"]
      BY <1>4 DEF StCheckPointer
    <3>2. /\ stPub'[p].pc = IF StValid(previous) THEN "conflict" ELSE "manifest"
          /\ stPub'[p].previous = previous
          /\ stPub'[p].gen = stPub[p].gen
          /\ \A q \in StPublisher \ {p} : stPub'[q] = stPub[q]
      BY <3>1 DEF StPublisherState
    <3>3. /\ StPublisherHolds(p) /\ stPub[p].pc = "staged"
          /\ UNCHANGED <<stPtr, stGen, stTemp, stShared, stKeyLock, stAcked>>
      BY <1>4 DEF StCheckPointer, StPubAt
    <3>4. StPublisherHolds(p)' /\ StPublisherWrote(p)'
      BY <3>2, <3>3 DEF StPublisherHolds, StPublisherWrote, StWorking
    <3>5. StPublisherSaw(p)'
      BY <3>1, <3>2, <3>3, StAssumption DEF StPublisherHolds, StPublisherSaw, StValid, StPointer
    <3>6. \A q \in StPublisher \ {p} :
            StPublisherHolds(q)' /\ StPublisherSaw(q)' /\ StPublisherWrote(q)'
      BY <3>2, <3>3 DEF StPublisherHolds, StPublisherSaw, StPublisherWrote, StValid
    <3> QED
      BY <3>4, <3>5, <3>6
  <2>2. \A r \in StReader : StReaderHolds(r)'
    BY <1>4, StAssumption
       DEF StCheckPointer, StPubAt, StReaderHolds, StDelivering, StValid, StPublisherSaw,
           StReaderSpared
  <2>3. \A r \in StReader, q \in StPublisher : StReaderSpared(r, q)'
    BY <1>4, <1>a
       DEF StCheckPointer, StPubAt, StReaderSpared, StReaderHolds, StDelivering, StWorking,
           StValid
  <2>4. StMaintenanceHolds' /\ StAckedIsDurable'
    BY <1>4, <1>b
       DEF StCheckPointer, StPubAt, StMaintenanceHolds, StAckedIsDurable, StPublisherSaw,
           StPublisherWrote
  <2> QED
    BY <2>1, <2>2, <2>3, <2>4
<1>5. CASE StConflictTree(p)
  <2>1. \A q \in StPublisher :
          StPublisherHolds(q)' /\ StPublisherSaw(q)' /\ StPublisherWrote(q)'
    BY <1>5, <1>a, <1>b, StAssumption
       DEF StConflictTree, StPubAt, StPubGoto, StRemoved, StPublisherHolds, StPublisherSaw,
           StPublisherWrote, StValid, StWorking
  <2>2. \A r \in StReader : StReaderHolds(r)'
    <3> TAKE r \in StReader
    <3>1. PICK left \in StRemoved(stGen[stPub[p].previous].visible) :
            /\ stGen' = [stGen EXCEPT ![stPub[p].previous].visible = left]
            /\ stRead' = [s \in StReader |-> [stRead[s] EXCEPT !.conflict =
                 @ \/ (s \in stShared /\ ~(left = "complete"))]]
      BY <1>5, Zenon DEF StConflictTree
    <3>2. /\ stRead'[r].pc = stRead[r].pc /\ stRead'[r].gen = stRead[r].gen
          /\ stRead'[r].conflict <=>
               stRead[r].conflict \/ (r \in stShared /\ ~(left = "complete"))
      BY <3>1 DEF StReaderState
    <3>3. /\ stShared' = stShared /\ StReaderHolds(r)
          /\ stPub[p].previous \in StGeneration
      BY <1>5 DEF StConflictTree, StPublisherSaw, StPubAt
    <3>4. left = "complete" => \A g \in StGeneration : stGen'[g].visible = stGen[g].visible
      BY <3>1, <3>3, StRemovedIsDir DEF StDirState
    <3> QED
      BY <3>2, <3>3, <3>4 DEF StReaderHolds, StDelivering, StValid
  <2>3. \A r \in StReader, q \in StPublisher : StReaderSpared(r, q)'
    BY <1>5, <1>a
       DEF StConflictTree, StPubAt, StPubGoto, StRemoved, StReaderSpared, StReaderHolds,
           StDelivering, StWorking, StValid
  <2>4. StMaintenanceHolds' /\ StAckedIsDurable'
    BY <1>5, <1>b
       DEF StConflictTree, StPubAt, StPubGoto, StRemoved, StMaintenanceHolds, StAckedIsDurable,
           StPublisherSaw, StPublisherWrote
  <2> QED
    BY <2>1, <2>2, <2>3, <2>4
<1>6. CASE StConflictPointer(p)
  <2>1. \A q \in StPublisher :
          StPublisherHolds(q)' /\ StPublisherSaw(q)' /\ StPublisherWrote(q)'
    BY <1>6, <1>a, <1>b, StAssumption
       DEF StConflictPointer, StPubAt, StPubGoto, StPublisherHolds, StPublisherSaw,
           StPublisherWrote, StValid, StWorking
  <2>2. \A r \in StReader : StReaderHolds(r)'
    BY <1>6, StAssumption
       DEF StConflictPointer, StPubAt, StPubGoto, StReaderHolds, StDelivering, StValid,
           StPublisherSaw, StReaderSpared
  <2>3. \A r \in StReader, q \in StPublisher : StReaderSpared(r, q)'
    BY <1>6, <1>a
       DEF StConflictPointer, StPubAt, StPubGoto, StReaderSpared, StReaderHolds, StDelivering,
           StWorking, StValid
  <2>4. StMaintenanceHolds' /\ StAckedIsDurable'
    BY <1>6, <1>b
       DEF StConflictPointer, StPubAt, StPubGoto, StMaintenanceHolds, StAckedIsDurable,
           StPublisherSaw, StPublisherWrote
  <2> QED
    BY <2>1, <2>2, <2>3, <2>4
<1>7. CASE StRenameGeneration(p)
  <2>1. \A q \in StPublisher :
          StPublisherHolds(q)' /\ StPublisherSaw(q)' /\ StPublisherWrote(q)'
    BY <1>7, <1>a, <1>b, StAssumption
       DEF StRenameGeneration, StPubAt, StPublisherHolds, StPublisherSaw, StPublisherWrote,
           StValid, StWorking
  <2>2. \A r \in StReader : StReaderHolds(r)'
    BY <1>7, StAssumption
       DEF StRenameGeneration, StPubAt, StReaderHolds, StDelivering, StValid, StPublisherSaw,
           StReaderSpared
  <2>3. \A r \in StReader, q \in StPublisher : StReaderSpared(r, q)'
    BY <1>7, <1>a
       DEF StRenameGeneration, StPubAt, StReaderSpared, StReaderHolds, StDelivering, StWorking,
           StValid
  <2>4. StMaintenanceHolds' /\ StAckedIsDurable'
    BY <1>7, <1>b
       DEF StRenameGeneration, StPubAt, StMaintenanceHolds, StAckedIsDurable, StPublisherSaw,
           StPublisherWrote
  <2> QED
    BY <2>1, <2>2, <2>3, <2>4
<1>8. CASE StSyncKeyRoot(p)
  <2>0. \A g \in StGeneration :
          /\ stGen'[g].visible = stGen[g].visible
          /\ stGen[g].visible # "absent" => stGen'[g].durable # "absent"
    BY <1>8 DEF StSyncKeyRoot, StDirState, StDir
  <2>1. \A q \in StPublisher :
          StPublisherHolds(q)' /\ StPublisherSaw(q)' /\ StPublisherWrote(q)'
    <3>1. /\ stPub[p].pc = "renamed" /\ stPub'[p].pc = "synced"
          /\ stPub'[p].gen = stPub[p].gen /\ stPub'[p].previous = stPub[p].previous
          /\ \A q \in StPublisher \ {p} : stPub'[q] = stPub[q]
          /\ UNCHANGED <<stPtr, stTemp, stShared, stKeyLock, stAcked>>
      BY <1>8 DEF StSyncKeyRoot, StPubAt, StPubGoto, StPublisherState
    <3>2. StPublisherHolds(p)' /\ StPublisherSaw(p)' /\ StPublisherWrote(p)'
      BY <2>0, <3>1, StAssumption
         DEF StPublisherHolds, StPublisherSaw, StPublisherWrote, StValid, StWorking,
             StPublisherState, StPointer
    <3>3. \A q \in StPublisher \ {p} :
            StPublisherHolds(q)' /\ StPublisherSaw(q)' /\ StPublisherWrote(q)'
      BY <1>a, <3>1 DEF StPublisherHolds, StPublisherSaw, StPublisherWrote, StWorking
    <3> QED
      BY <3>2, <3>3
  <2>2. \A r \in StReader : StReaderHolds(r)'
    BY <1>8, StAssumption
       DEF StSyncKeyRoot, StPubAt, StPubGoto, StReaderHolds, StDelivering, StValid,
           StPublisherSaw, StReaderSpared
  <2>3. \A r \in StReader, q \in StPublisher : StReaderSpared(r, q)'
    BY <1>8, <1>a
       DEF StSyncKeyRoot, StPubAt, StPubGoto, StReaderSpared, StReaderHolds, StDelivering,
           StWorking, StValid
  <2>4. StMaintenanceHolds' /\ StAckedIsDurable'
    BY <1>8, <1>b, <2>0
       DEF StSyncKeyRoot, StPubAt, StMaintenanceHolds, StAckedIsDurable, StPointer
  <2> QED
    BY <2>1, <2>2, <2>3, <2>4
<1>9. CASE StCommitPointer(p)
  <2>1. \A q \in StPublisher :
          StPublisherHolds(q)' /\ StPublisherSaw(q)' /\ StPublisherWrote(q)'
    BY <1>9, <1>a, <1>b, StAssumption
       DEF StCommitPointer, StPubAt, StPubGoto, StPublisherHolds, StPublisherSaw,
           StPublisherWrote, StValid, StWorking
  <2>2. \A r \in StReader : StReaderHolds(r)'
    BY <1>9, StAssumption
       DEF StCommitPointer, StPubAt, StPubGoto, StReaderHolds, StDelivering, StValid,
           StPublisherSaw, StReaderSpared
  <2>3. \A r \in StReader, q \in StPublisher : StReaderSpared(r, q)'
    BY <1>9, <1>a
       DEF StCommitPointer, StPubAt, StPubGoto, StReaderSpared, StReaderHolds, StDelivering,
           StWorking, StValid
  <2>4. StMaintenanceHolds' /\ StAckedIsDurable'
    BY <1>9, <1>b
       DEF StCommitPointer, StPubAt, StPubGoto, StMaintenanceHolds, StAckedIsDurable,
           StPublisherSaw, StPublisherWrote
  <2> QED
    BY <2>1, <2>2, <2>3, <2>4
<1>10. CASE StCommitFails(p)
  <2>1. \A q \in StPublisher :
          StPublisherHolds(q)' /\ StPublisherSaw(q)' /\ StPublisherWrote(q)'
    BY <1>10, <1>a, <1>b, StAssumption
       DEF StCommitFails, StPubAt, StPubGoto, StRemoved, StPublisherHolds, StPublisherSaw,
           StPublisherWrote, StValid, StWorking
  <2>2. \A r \in StReader : StReaderHolds(r)'
    <3> TAKE r \in StReader
    <3>1. /\ StReaderHolds(r) /\ StReaderSpared(r, p) /\ StPublisherWrote(p) /\ StPublisherHolds(p)
          /\ stPub[p].pc \in {"synced", "pointed"}
          /\ UNCHANGED <<stRead, stShared>>
      BY <1>10 DEF StCommitFails, StPubAt
    <3>2. \A g \in StGeneration : stGen'[g].visible # stGen[g].visible =>
            g = stPub[p].gen /\ stPub[p].renamed /\ stPtr.visible # g
      BY <1>10, <3>1 DEF StCommitFails, StPublisherHolds, StDirState
    <3>3. StDelivering(r) /\ ~stRead[r].conflict =>
            stGen'[stRead[r].gen].visible = stGen[stRead[r].gen].visible
      BY <3>1, <3>2 DEF StReaderHolds, StReaderSpared, StPublisherWrote
    <3> QED
      BY <3>1, <3>3 DEF StReaderHolds, StDelivering, StValid
  <2>3. \A r \in StReader, q \in StPublisher : StReaderSpared(r, q)'
    BY <1>10, <1>a
       DEF StCommitFails, StPubAt, StPubGoto, StRemoved, StReaderSpared, StReaderHolds,
           StDelivering, StWorking, StValid
  <2>4. StMaintenanceHolds' /\ StAckedIsDurable'
    BY <1>10, <1>b
       DEF StCommitFails, StPubAt, StPubGoto, StRemoved, StMaintenanceHolds, StAckedIsDurable,
           StPublisherSaw, StPublisherWrote
  <2> QED
    BY <2>1, <2>2, <2>3, <2>4
<1>11. CASE StSyncPointer(p)
  <2>1. \A q \in StPublisher :
          StPublisherHolds(q)' /\ StPublisherSaw(q)' /\ StPublisherWrote(q)'
    BY <1>11, <1>a, <1>b, StAssumption
       DEF StSyncPointer, StPubAt, StPubGoto, StPublisherHolds, StPublisherSaw,
           StPublisherWrote, StValid, StWorking
  <2>2. \A r \in StReader : StReaderHolds(r)'
    BY <1>11, StAssumption
       DEF StSyncPointer, StPubAt, StPubGoto, StReaderHolds, StDelivering, StValid,
           StPublisherSaw, StReaderSpared
  <2>3. \A r \in StReader, q \in StPublisher : StReaderSpared(r, q)'
    BY <1>11, <1>a
       DEF StSyncPointer, StPubAt, StPubGoto, StReaderSpared, StReaderHolds, StDelivering,
           StWorking, StValid
  <2>4. StMaintenanceHolds' /\ StAckedIsDurable'
    BY <1>11, <1>b
       DEF StSyncPointer, StPubAt, StPubGoto, StMaintenanceHolds, StAckedIsDurable,
           StPublisherSaw, StPublisherWrote
  <2> QED
    BY <2>1, <2>2, <2>3, <2>4
<1>12. CASE StPublished(p)
  <2>1. \A q \in StPublisher :
          StPublisherHolds(q)' /\ StPublisherSaw(q)' /\ StPublisherWrote(q)'
    BY <1>12, <1>a, <1>b, StAssumption
       DEF StPublished, StPubAt, StPublisherLeaves, StRemoved, StIdlePublisher,
           StPublisherHolds, StPublisherSaw, StPublisherWrote, StValid, StWorking
  <2>2. \A r \in StReader : StReaderHolds(r)'
    BY <1>12, StAssumption
       DEF StPublished, StPubAt, StPublisherLeaves, StRemoved, StIdlePublisher, StReaderHolds,
           StDelivering, StValid, StPublisherSaw, StReaderSpared
  <2>3. \A r \in StReader, q \in StPublisher : StReaderSpared(r, q)'
    BY <1>12, <1>a
       DEF StPublished, StPubAt, StPublisherLeaves, StRemoved, StIdlePublisher, StReaderSpared,
           StReaderHolds, StDelivering, StWorking, StValid
  <2>4. StMaintenanceHolds' /\ StAckedIsDurable'
    <3>1. /\ StPublisherSaw(p) /\ StPublisherWrote(p) /\ stPub[p].pc = "committed"
          /\ stAcked' = stPub[p].gen /\ UNCHANGED <<stPtr, stMaint, stExclusive>>
      BY <1>12 DEF StPublished, StPubAt
    <3>2. stPtr = [visible |-> stPub[p].gen, durable |-> stPub[p].gen]
      BY <3>1 DEF StPublisherWrote
    <3>3. stPub[p].gen \in StGeneration
      BY <3>1 DEF StPublisherHolds
    <3>4. stGen'[stPub[p].gen] = stGen[stPub[p].gen]
      BY <1>12, <3>1, <3>3 DEF StPublished, StPublisherSaw
    <3> QED
      BY <1>b, <3>1, <3>2, <3>3, <3>4 DEF StMaintenanceHolds, StAckedIsDurable, StPublisherWrote
  <2> QED
    BY <2>1, <2>2, <2>3, <2>4
<1>13. CASE StPublishFails(p)
  <2>1. \A q \in StPublisher :
          StPublisherHolds(q)' /\ StPublisherSaw(q)' /\ StPublisherWrote(q)'
    BY <1>13, <1>a, <1>b, StAssumption
       DEF StPublishFails, StPubAt, StPublisherLeaves, StIdlePublisher, StPublisherHolds,
           StPublisherSaw, StPublisherWrote, StValid, StWorking
  <2>2. \A r \in StReader : StReaderHolds(r)'
    BY <1>13, StAssumption
       DEF StPublishFails, StPubAt, StPublisherLeaves, StIdlePublisher, StReaderHolds,
           StDelivering, StValid, StPublisherSaw, StReaderSpared
  <2>3. \A r \in StReader, q \in StPublisher : StReaderSpared(r, q)'
    BY <1>13, <1>a
       DEF StPublishFails, StPubAt, StPublisherLeaves, StIdlePublisher, StReaderSpared,
           StReaderHolds, StDelivering, StWorking, StValid
  <2>4. StMaintenanceHolds' /\ StAckedIsDurable'
    BY <1>13, <1>b
       DEF StPublishFails, StPubAt, StPublisherLeaves, StIdlePublisher, StMaintenanceHolds,
           StAckedIsDurable, StPublisherSaw, StPublisherWrote
  <2> QED
    BY <2>1, <2>2, <2>3, <2>4
<1>14. CASE StPublisherDies(p)
  <2>1. \A q \in StPublisher :
          StPublisherHolds(q)' /\ StPublisherSaw(q)' /\ StPublisherWrote(q)'
    BY <1>14, <1>a, <1>b, StAssumption
       DEF StPublisherDies, StPublisherLeaves, StIdlePublisher, StPublisherHolds,
           StPublisherSaw, StPublisherWrote, StValid, StWorking
  <2>2. \A r \in StReader : StReaderHolds(r)'
    BY <1>14, StAssumption
       DEF StPublisherDies, StPublisherLeaves, StIdlePublisher, StReaderHolds, StDelivering,
           StValid, StPublisherSaw, StReaderSpared
  <2>3. \A r \in StReader, q \in StPublisher : StReaderSpared(r, q)'
    BY <1>14, <1>a
       DEF StPublisherDies, StPublisherLeaves, StIdlePublisher, StReaderSpared, StReaderHolds,
           StDelivering, StWorking, StValid
  <2>4. StMaintenanceHolds' /\ StAckedIsDurable'
    BY <1>14, <1>b
       DEF StPublisherDies, StPublisherLeaves, StIdlePublisher, StMaintenanceHolds,
           StAckedIsDurable, StPublisherSaw, StPublisherWrote
  <2> QED
    BY <2>1, <2>2, <2>3, <2>4
<1> QED
  BY <1>1, <1>2, <1>3, <1>4, <1>5, <1>6, <1>7, <1>8, <1>9, <1>10, <1>11, <1>12, <1>13, <1>14
     DEF StPublisherStep

\* The steps of a reader change nothing but its lease.
LEMMA StInvReaderStep ==
    ASSUME StTypeOK, StTypeOK', StInv, NEW r \in StReader, StReaderStep(r)
    PROVE  StInv'
<1> USE DEF StTypeOK, StInv, stDisk, stLocks
<1>1. CASE StProbe(r)
  <2>1. \A q \in StPublisher :
          StPublisherHolds(q)' /\ StPublisherSaw(q)' /\ StPublisherWrote(q)'
    BY <1>1, StAssumption
       DEF StProbe, StReadAt, StReadGoto, StPublisherHolds, StPublisherSaw, StPublisherWrote,
           StValid
  <2>2. \A s \in StReader : StReaderHolds(s)'
    BY <1>1
       DEF StProbe, StReadAt, StReadGoto, StReaderHolds, StDelivering, StValid, StReaderState,
           StPointer
  <2>3. \A s \in StReader, q \in StPublisher : StReaderSpared(s, q)'
    BY <1>1 DEF StProbe, StReadAt, StReadGoto, StReaderSpared, StDelivering
  <2>4. StMaintenanceHolds' /\ StAckedIsDurable'
    BY <1>1 DEF StProbe, StReadAt, StReadGoto, StMaintenanceHolds, StAckedIsDurable
  <2> QED
    BY <2>1, <2>2, <2>3, <2>4
<1>2. CASE StReadLock(r)
  <2>1. \A q \in StPublisher :
          StPublisherHolds(q)' /\ StPublisherSaw(q)' /\ StPublisherWrote(q)'
    BY <1>2, StAssumption
       DEF StReadLock, StReadAt, StReadGoto, StPublisherHolds, StPublisherSaw,
           StPublisherWrote, StValid
  <2>2. \A s \in StReader : StReaderHolds(s)'
    BY <1>2
       DEF StReadLock, StReadAt, StReadGoto, StReaderHolds, StDelivering, StValid,
           StReaderState, StPointer
  <2>3. \A s \in StReader, q \in StPublisher : StReaderSpared(s, q)'
    BY <1>2 DEF StReadLock, StReadAt, StReadGoto, StReaderSpared, StDelivering
  <2>4. StMaintenanceHolds' /\ StAckedIsDurable'
    BY <1>2 DEF StReadLock, StReadAt, StReadGoto, StMaintenanceHolds, StAckedIsDurable
  <2> QED
    BY <2>1, <2>2, <2>3, <2>4
<1>3. CASE StResolve(r)
  <2>1. \A q \in StPublisher :
          StPublisherHolds(q)' /\ StPublisherSaw(q)' /\ StPublisherWrote(q)'
    BY <1>3, StAssumption
       DEF StResolve, StReadAt, StPublisherHolds, StPublisherSaw, StPublisherWrote, StValid
  <2>2. \A s \in StReader : StReaderHolds(s)'
    BY <1>3
       DEF StResolve, StReadAt, StReaderHolds, StDelivering, StValid, StReaderState, StPointer
  <2>3. \A s \in StReader, q \in StPublisher : StReaderSpared(s, q)'
    BY <1>3 DEF StResolve, StReadAt, StReaderSpared, StDelivering
  <2>4. StMaintenanceHolds' /\ StAckedIsDurable'
    BY <1>3 DEF StResolve, StReadAt, StMaintenanceHolds, StAckedIsDurable
  <2> QED
    BY <2>1, <2>2, <2>3, <2>4
<1>4. CASE StDeliver(r)
  <2>1. \A q \in StPublisher :
          StPublisherHolds(q)' /\ StPublisherSaw(q)' /\ StPublisherWrote(q)'
    BY <1>4, StAssumption
       DEF StDeliver, StReadAt, StReadGoto, StPublisherHolds, StPublisherSaw, StPublisherWrote,
           StValid
  <2>2. \A s \in StReader : StReaderHolds(s)'
    BY <1>4
       DEF StDeliver, StReadAt, StReadGoto, StReaderHolds, StDelivering, StValid,
           StReaderState, StPointer
  <2>3. \A s \in StReader, q \in StPublisher : StReaderSpared(s, q)'
    BY <1>4 DEF StDeliver, StReadAt, StReadGoto, StReaderSpared, StDelivering
  <2>4. StMaintenanceHolds' /\ StAckedIsDurable'
    BY <1>4 DEF StDeliver, StReadAt, StReadGoto, StMaintenanceHolds, StAckedIsDurable
  <2> QED
    BY <2>1, <2>2, <2>3, <2>4
<1>5. CASE StReadRelease(r)
  <2>1. \A q \in StPublisher :
          StPublisherHolds(q)' /\ StPublisherSaw(q)' /\ StPublisherWrote(q)'
    BY <1>5, StAssumption
       DEF StReadRelease, StIdleReader, StPublisherHolds, StPublisherSaw, StPublisherWrote,
           StValid
  <2>2. \A s \in StReader : StReaderHolds(s)'
    BY <1>5
       DEF StReadRelease, StIdleReader, StReaderHolds, StDelivering, StValid, StReaderState,
           StPointer
  <2>3. \A s \in StReader, q \in StPublisher : StReaderSpared(s, q)'
    BY <1>5 DEF StReadRelease, StIdleReader, StReaderSpared, StDelivering
  <2>4. StMaintenanceHolds' /\ StAckedIsDurable'
    BY <1>5 DEF StReadRelease, StIdleReader, StMaintenanceHolds, StAckedIsDurable
  <2> QED
    BY <2>1, <2>2, <2>3, <2>4
<1> QED
  BY <1>1, <1>2, <1>3, <1>4, <1>5 DEF StReaderStep

\* Maintenance removes files only while nobody publishes or delivers.
LEMMA StInvMaintenanceStep ==
    ASSUME StTypeOK, StTypeOK', StInv, StMaintenanceStep
    PROVE  StInv'
<1> USE DEF StTypeOK, StInv, stDisk, stLocks
<1>a. stMaint.pc \in {"tree", "pointer", "release"} =>
        /\ \A p \in StPublisher : stPub[p].pc = "idle"
        /\ \A r \in StReader : stRead[r].pc \notin {"locked", "resolved", "copied"}
  BY DEF StMaintenanceHolds, StPublisherHolds, StReaderHolds
<1>1. CASE \E op \in {"evict", "clear", "cleanup"} : StScan(op)
  <2>1. \A q \in StPublisher :
          StPublisherHolds(q)' /\ StPublisherSaw(q)' /\ StPublisherWrote(q)'
    BY <1>1, <1>a
       DEF StScan, StMaintAt, StPublisherHolds, StPublisherSaw, StPublisherWrote, StValid,
           StWorking
  <2>2. \A r \in StReader : StReaderHolds(r)'
    BY <1>1, <1>a DEF StScan, StMaintAt, StReaderHolds, StDelivering, StValid
  <2>3. \A r \in StReader, q \in StPublisher : StReaderSpared(r, q)'
    BY <1>1, <1>a DEF StScan, StMaintAt, StReaderSpared, StDelivering
  <2>4. StMaintenanceHolds' /\ StAckedIsDurable'
    BY <1>1 DEF StScan, StMaintAt, StMaintenanceHolds, StAckedIsDurable, StMaintenanceState
  <2> QED
    BY <2>1, <2>2, <2>3, <2>4
<1>2. CASE StMaintLock
  <2>1. \A q \in StPublisher :
          StPublisherHolds(q)' /\ StPublisherSaw(q)' /\ StPublisherWrote(q)'
    BY <1>2, <1>a
       DEF StMaintLock, StMaintGoto, StMaintAt, StPublisherHolds, StPublisherSaw,
           StPublisherWrote, StValid, StWorking
  <2>2. \A r \in StReader : StReaderHolds(r)'
    BY <1>2, <1>a DEF StMaintLock, StMaintGoto, StMaintAt, StReaderHolds, StDelivering, StValid
  <2>3. \A r \in StReader, q \in StPublisher : StReaderSpared(r, q)'
    BY <1>2, <1>a DEF StMaintLock, StMaintGoto, StMaintAt, StReaderSpared, StDelivering
  <2>4. StMaintenanceHolds' /\ StAckedIsDurable'
    BY <1>2
       DEF StMaintLock, StMaintGoto, StMaintAt, StMaintenanceHolds, StAckedIsDurable,
           StMaintenanceState
  <2> QED
    BY <2>1, <2>2, <2>3, <2>4
<1>3. CASE StMaintDefer
  <2>1. \A q \in StPublisher :
          StPublisherHolds(q)' /\ StPublisherSaw(q)' /\ StPublisherWrote(q)'
    BY <1>3, <1>a
       DEF StMaintDefer, StIdleMaintenance, StMaintAt, StPublisherHolds, StPublisherSaw,
           StPublisherWrote, StValid, StWorking
  <2>2. \A r \in StReader : StReaderHolds(r)'
    BY <1>3, <1>a
       DEF StMaintDefer, StIdleMaintenance, StMaintAt, StReaderHolds, StDelivering, StValid
  <2>3. \A r \in StReader, q \in StPublisher : StReaderSpared(r, q)'
    BY <1>3, <1>a DEF StMaintDefer, StIdleMaintenance, StMaintAt, StReaderSpared, StDelivering
  <2>4. StMaintenanceHolds' /\ StAckedIsDurable'
    BY <1>3
       DEF StMaintDefer, StIdleMaintenance, StMaintAt, StMaintenanceHolds, StAckedIsDurable,
           StMaintenanceState
  <2> QED
    BY <2>1, <2>2, <2>3, <2>4
<1>4. CASE StEvictChanged
  <2>1. \A q \in StPublisher :
          StPublisherHolds(q)' /\ StPublisherSaw(q)' /\ StPublisherWrote(q)'
    BY <1>4, <1>a
       DEF StEvictChanged, StMaintGoto, StMaintAt, StPublisherHolds, StPublisherSaw,
           StPublisherWrote, StValid, StWorking
  <2>2. \A r \in StReader : StReaderHolds(r)'
    BY <1>4, <1>a
       DEF StEvictChanged, StMaintGoto, StMaintAt, StReaderHolds, StDelivering, StValid
  <2>3. \A r \in StReader, q \in StPublisher : StReaderSpared(r, q)'
    BY <1>4, <1>a DEF StEvictChanged, StMaintGoto, StMaintAt, StReaderSpared, StDelivering
  <2>4. StMaintenanceHolds' /\ StAckedIsDurable'
    BY <1>4
       DEF StEvictChanged, StMaintGoto, StMaintAt, StMaintenanceHolds, StAckedIsDurable,
           StMaintenanceState
  <2> QED
    BY <2>1, <2>2, <2>3, <2>4
<1>5. CASE StRemoveTree
  <2>1. \A q \in StPublisher :
          StPublisherHolds(q)' /\ StPublisherSaw(q)' /\ StPublisherWrote(q)'
    BY <1>5, <1>a
       DEF StRemoveTree, StMaintGoto, StMaintAt, StPublisherHolds, StPublisherSaw,
           StPublisherWrote, StValid, StWorking
  <2>2. \A r \in StReader : StReaderHolds(r)'
    BY <1>5, <1>a DEF StRemoveTree, StMaintGoto, StMaintAt, StReaderHolds, StDelivering, StValid
  <2>3. \A r \in StReader, q \in StPublisher : StReaderSpared(r, q)'
    BY <1>5, <1>a DEF StRemoveTree, StMaintGoto, StMaintAt, StReaderSpared, StDelivering
  <2>4. StMaintenanceHolds' /\ StAckedIsDurable'
    BY <1>5
       DEF StRemoveTree, StMaintGoto, StMaintAt, StMaintenanceHolds, StAckedIsDurable,
           StMaintenanceState
  <2> QED
    BY <2>1, <2>2, <2>3, <2>4
<1>6. CASE StRemovePointer
  <2>1. \A q \in StPublisher :
          StPublisherHolds(q)' /\ StPublisherSaw(q)' /\ StPublisherWrote(q)'
    BY <1>6, <1>a
       DEF StRemovePointer, StMaintGoto, StMaintAt, StPublisherHolds, StPublisherSaw,
           StPublisherWrote, StValid, StWorking
  <2>2. \A r \in StReader : StReaderHolds(r)'
    BY <1>6, <1>a
       DEF StRemovePointer, StMaintGoto, StMaintAt, StReaderHolds, StDelivering, StValid
  <2>3. \A r \in StReader, q \in StPublisher : StReaderSpared(r, q)'
    BY <1>6, <1>a DEF StRemovePointer, StMaintGoto, StMaintAt, StReaderSpared, StDelivering
  <2>4. StMaintenanceHolds' /\ StAckedIsDurable'
    BY <1>6
       DEF StRemovePointer, StMaintGoto, StMaintAt, StMaintenanceHolds, StAckedIsDurable,
           StMaintenanceState
  <2> QED
    BY <2>1, <2>2, <2>3, <2>4
<1>7. CASE StClearPointerFirst
  <2>1. \A q \in StPublisher :
          StPublisherHolds(q)' /\ StPublisherSaw(q)' /\ StPublisherWrote(q)'
    BY <1>7, <1>a
       DEF StClearPointerFirst, StMaintAt, StPublisherHolds, StPublisherSaw, StPublisherWrote,
           StValid, StWorking
  <2>2. \A r \in StReader : StReaderHolds(r)'
    BY <1>7, <1>a DEF StClearPointerFirst, StMaintAt, StReaderHolds, StDelivering, StValid
  <2>3. \A r \in StReader, q \in StPublisher : StReaderSpared(r, q)'
    BY <1>7, <1>a DEF StClearPointerFirst, StMaintAt, StReaderSpared, StDelivering
  <2>4. StMaintenanceHolds' /\ StAckedIsDurable'
    BY <1>7
       DEF StClearPointerFirst, StMaintAt, StMaintenanceHolds, StAckedIsDurable,
           StMaintenanceState
  <2> QED
    BY <2>1, <2>2, <2>3, <2>4
<1>8. CASE StCleanup
  <2>1. \A q \in StPublisher :
          StPublisherHolds(q)' /\ StPublisherSaw(q)' /\ StPublisherWrote(q)'
    BY <1>8, <1>a
       DEF StCleanup, StMaintGoto, StMaintAt, StPublisherHolds, StPublisherSaw,
           StPublisherWrote, StValid, StWorking
  <2>2. \A r \in StReader : StReaderHolds(r)'
    BY <1>8, <1>a DEF StCleanup, StMaintGoto, StMaintAt, StReaderHolds, StDelivering, StValid
  <2>3. \A r \in StReader, q \in StPublisher : StReaderSpared(r, q)'
    BY <1>8, <1>a DEF StCleanup, StMaintGoto, StMaintAt, StReaderSpared, StDelivering
  <2>4. StMaintenanceHolds' /\ StAckedIsDurable'
    <3>1. stGen'[stPtr.visible].visible = stGen[stPtr.visible].visible
          \/ stPtr.visible \notin StGeneration
      BY <1>8 DEF StCleanup, StDirState
    <3>2. \A g \in StGeneration : stGen'[g].durable = stGen[g].durable
      BY <1>8 DEF StCleanup, StDirState
    <3>3. stMaint'.pc = "release" /\ UNCHANGED <<stExclusive, stAcked, stPtr>>
      BY <1>8 DEF StCleanup, StMaintGoto, StMaintenanceState
    <3> QED
      BY <1>8, <3>1, <3>2, <3>3
         DEF StCleanup, StMaintAt, StMaintenanceHolds, StAckedIsDurable, StPointer
  <2> QED
    BY <2>1, <2>2, <2>3, <2>4
<1>9. CASE StMaintRelease
  <2>1. \A q \in StPublisher :
          StPublisherHolds(q)' /\ StPublisherSaw(q)' /\ StPublisherWrote(q)'
    BY <1>9, <1>a
       DEF StMaintRelease, StIdleMaintenance, StMaintAt, StPublisherHolds, StPublisherSaw,
           StPublisherWrote, StValid, StWorking
  <2>2. \A r \in StReader : StReaderHolds(r)'
    BY <1>9, <1>a
       DEF StMaintRelease, StIdleMaintenance, StMaintAt, StReaderHolds, StDelivering, StValid
  <2>3. \A r \in StReader, q \in StPublisher : StReaderSpared(r, q)'
    BY <1>9, <1>a DEF StMaintRelease, StIdleMaintenance, StMaintAt, StReaderSpared, StDelivering
  <2>4. StMaintenanceHolds' /\ StAckedIsDurable'
    BY <1>9
       DEF StMaintRelease, StIdleMaintenance, StMaintAt, StMaintenanceHolds, StAckedIsDurable,
           StMaintenanceState
  <2> QED
    BY <2>1, <2>2, <2>3, <2>4
<1> QED
  BY <1>1, <1>2, <1>3, <1>4, <1>5, <1>6, <1>7, <1>8, <1>9 DEF StMaintenanceStep

\* Power loss ends every publication and delivery; a name that is both visible
\* and durable survives.
LEMMA StInvPowerLoss ==
    ASSUME StTypeOK, StTypeOK', StInv, StPowerLoss
    PROVE  StInv'
<1> USE DEF StTypeOK, StInv
<1>1. /\ \A q \in StPublisher : stPub'[q] = StIdlePublisher
      /\ \A r \in StReader : stRead'[r] = StIdleReader
      /\ stMaint' = StIdleMaintenance /\ stAcked' = stAcked
  BY DEF StPowerLoss
<1>2. StAckedIsDurable'
  <2>1. /\ stPtr' \in {[visible |-> stPtr.visible, durable |-> stPtr.visible],
                       [visible |-> stPtr.durable, durable |-> stPtr.durable]}
        /\ \A g \in StGeneration :
             /\ stGen'[g].visible \in {stGen[g].visible, stGen[g].durable}
             /\ stGen'[g].durable \in {stGen[g].visible, stGen[g].durable}
    BY DEF StPowerLoss
  <2> QED
    BY <1>1, <2>1 DEF StAckedIsDurable, StPointer
<1> QED
  BY <1>1, <1>2 DEF StIdlePublisher, StIdleReader, StIdleMaintenance, StPublisherHolds,
     StPublisherSaw, StPublisherWrote, StReaderHolds, StReaderSpared, StDelivering,
     StMaintenanceHolds, StWorking

\* The invariant holds in every reachable state.
LEMMA StInvariant == StSpec => [](StTypeOK /\ StInv)
<1>1. StInit => StInv
  <2> SUFFICES ASSUME StInit PROVE StInv
    OBVIOUS
  <2>1. /\ \A p \in StPublisher : stPub[p].pc = "idle"
        /\ \A r \in StReader : stRead[r].pc = "idle"
        /\ stMaint.pc = "idle" /\ stAcked = StNone
    BY DEF StInit, StIdlePublisher, StIdleReader, StIdleMaintenance
  <2> QED
    BY <2>1 DEF StInv, StPublisherHolds, StPublisherSaw, StPublisherWrote, StReaderHolds,
       StReaderSpared, StDelivering, StMaintenanceHolds, StWorking, StAckedIsDurable
<1>2. StTypeOK /\ StTypeOK' /\ StInv /\ [StNext]_stVars => StInv'
  <2> SUFFICES ASSUME StTypeOK, StTypeOK', StInv, [StNext]_stVars PROVE StInv'
    OBVIOUS
  <2>1. CASE UNCHANGED stVars \/ StBoot
    BY <2>1 DEF StInv, StBoot, stVars, stDisk, stLocks, StPublisherHolds, StPublisherSaw,
       StPublisherWrote, StReaderHolds, StReaderSpared, StDelivering, StMaintenanceHolds,
       StAckedIsDurable, StValid
  <2> QED
    BY <2>1, StStepCases, StInvPublisherStep, StInvReaderStep, StInvMaintenanceStep,
       StInvPowerLoss
<1> QED
  BY <1>1, <1>2, StTypeCorrect, PTL DEF StSpec

\* The lease of a cache hit protects the generation it resolved, the temporary
\* directory of a publication at work stays, and it has the key to itself.
THEOREM StMaintenanceIsAloneHolds == StSpec => []StMaintenanceIsAlone
<1>1. StTypeOK /\ StInv => StMaintenanceIsAlone
  BY DEF StInv, StMaintenanceIsAlone, StReaderHolds, StPublisherHolds, StWorking
<1> QED
  BY <1>1, StInvariant, PTL

\* A publication that was reported and not withdrawn is durable: power loss
\* keeps its pointer and its generation.
THEOREM StAckedIsDurableHolds == StSpec => []StAckedIsDurable
<1>1. StInv => StAckedIsDurable
  BY DEF StInv
<1> QED
  BY <1>1, StInvariant, PTL

-----------------------------------------------------------------------------
(* The refinement *)

\* What a lookup finds.
StFound == IF stUp /\ StValid(stPtr.visible) THEN stPtr.visible ELSE StNone

\* The pointer never moves from a complete generation to another: a publication
\* that writes it has seen that it names its own generation or an invalid one.
LEMMA StPointerMoves ==
    ASSUME StTypeOK, StInv, StNext, stUp', stPtr'.visible # stPtr.visible
    PROVE  stPtr'.visible = StNone \/ ~StValid(stPtr.visible)
<1> USE DEF StTypeOK, stDisk
<1>1. ASSUME NEW p \in StPublisher, StPublisherStep(p)
      PROVE  stPtr'.visible = StNone \/ ~StValid(stPtr.visible)
  <2>1. CASE StCommitPointer(p)
    BY <2>1 DEF StCommitPointer, StPubAt, StInv, StPublisherSaw
  <2>2. CASE StConflictPointer(p)
    BY <2>2 DEF StConflictPointer
  <2>3. CASE StSyncPointer(p)
    BY <2>3 DEF StSyncPointer
  <2> QED
    BY <1>1, <2>1, <2>2, <2>3 DEF StPublisherStep, StPublishLock, StPublishKeyLock,
       StStageOutputs, StCheckPointer, StConflictTree, StRenameGeneration, StSyncKeyRoot,
       StCommitFails, StPublished, StPublishFails, StPublisherDies
<1>2. ASSUME NEW r \in StReader, StReaderStep(r) PROVE UNCHANGED stPtr
  BY <1>2 DEF StReaderStep, StProbe, StReadLock, StResolve, StDeliver, StReadRelease
<1>3. CASE StMaintenanceStep
  <2>1. CASE StRemovePointer
    BY <2>1 DEF StRemovePointer
  <2>2. CASE StClearPointerFirst
    BY <2>2 DEF StClearPointerFirst
  <2> QED
    BY <1>3, <2>1, <2>2 DEF StMaintenanceStep, StScan, StMaintLock, StMaintDefer,
       StEvictChanged, StRemoveTree, StCleanup, StMaintRelease
<1>4. CASE StPowerLoss \/ StBoot
  BY <1>4 DEF StPowerLoss, StBoot
<1> QED
  BY <1>1, <1>2, <1>3, <1>4, StStepCases

\* The staged store implements the published cell: whatever fails, is killed or
\* loses power, one complete set of outputs is never replaced by another
\* without a miss in between.
THEOREM StRefinesCell == StSpec => StImplementsCell
<1>1. StInit => StCell!CellInit
  BY DEF StInit, StCell!CellInit, StValid
<1>2. StTypeOK /\ StTypeOK' /\ StInv /\ [StNext]_stVars => [StCell!CellNext]_StFound
  <2> SUFFICES ASSUME StTypeOK, StTypeOK', StInv, [StNext]_stVars, StFound' # StFound
               PROVE  StCell!CellNext
    OBVIOUS
  <2>1. StNext
    BY DEF StFound, StValid, stVars, stDisk
  <2>2. StFound = StNone \/ StFound' = StNone
    BY <2>1, StPointerMoves DEF StFound, StValid
  <2>3. StFound \in StPointer /\ StFound' \in StPointer
    BY DEF StTypeOK, StFound, StPointer
  <2> QED
    BY <2>2, <2>3 DEF StCell!CellNext, StCell!Publish, StCell!Withdraw, StFound, StPointer
<1> QED
  BY <1>1, <1>2, StInvariant, StTypeCorrect, PTL
     DEF StSpec, StImplementsCell, StCell!CellSpec, StFound

-----------------------------------------------------------------------------
(* The state together *)

\* Every behaviour of what a daemon keeps (journal, staged store, index and log)
\* is type correct, whichever of them takes the steps.
THEOREM StateTypeCorrect == MCSpec => []TypesOK
<1>1. MCInit => Init /\ StInit /\ IxInit
  BY DEF MCInit
<1>2. [MCNext]_<<focus, vars, stVars, ixVars>> =>
        [Next]_vars /\ [StNext]_stVars /\ [IxNext]_ixVars
  BY Zenon DEF MCNext, Journal, Staged, Index
<1>3. MCSpec => Spec /\ StSpec /\ IxSpec
  BY <1>1, <1>2, PTL DEF MCSpec, Spec, StSpec, IxSpec
<1> QED BY <1>3, TypeCorrect, StTypeCorrect, IxTypeCorrect, PTL DEF TypesOK
=============================================================================
