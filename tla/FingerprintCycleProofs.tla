------------------------ MODULE FingerprintCycleProofs ------------------------
(***************************************************************************)
(* Proofs about the fingerprint files (FingerprintCycle), for any inputs,  *)
(* contents, cycles, edits, lock timeouts and dying processes: type        *)
(* correctness, and that what is said to be unchanged was there when an    *)
(* operation succeeded.                                                    *)
(***************************************************************************)
EXTENDS FingerprintCycle, FiniteSetTheorems, TLAPS

-----------------------------------------------------------------------------
(* The fingerprint files *)

\* A caller marks what it ran, and a mark by a process of its own belongs to the
\* only cycle there is: with more of them it takes whichever .pending is there.
FcOwnMarks == ~fcLoad.skipMarks /\ (fcLoad.cli => \A c, d \in fcLoad.cycles : c = d)

FcPcs == {"idle", "fast", "fast_read", "read", "files", "decide", "stage", "stage_remove",
          "stage_rename", "answered", "commit", "commit_remove", "commit_rename",
          "commit_pending"}
FcEntry == [mtime : Nat, hash : FcContent]
FcStats == UNION {[names -> Nat] : names \in SUBSET FcName}
FcWindows == [FcName -> SUBSET (FcContent \cup {FcNone})]

\* The locals of a cycle.
FcCycleType ==
    [pc : FcPcs, scan : SUBSET FcName, max : Nat, base : FcData \cup {FcNone},
     stat : FcStats, files : FcEntries, run : BOOLEAN, staged : FcData \cup {FcNone},
     ours : BOOLEAN, window : FcWindows]

FcTypes ==
    /\ fcLoad \in FcLoads
    /\ fcNow \in Nat \ {0} /\ fcNow <= fcLoad.edits + 1
    /\ fcCalls \in Nat /\ fcCalls <= fcLoad.calls
    /\ fcDisk \in [FcName -> [mtime : Nat, content : FcContent \cup {FcNone}]]
    /\ fcFiles \in [FcPath -> [data : FcData, time : Nat] \cup {FcNone}]
    /\ fcLock \in [holder : FcCycle \cup {FcNone}, timeouts : Nat]
    /\ fcLock.timeouts <= fcLoad.timeouts
    /\ fcCheck \in [FcCycle -> FcCycleType]
    /\ fcCovered \subseteq FcWindows
    /\ fcMoved \in BOOLEAN

\* An input that is there has an mtime that has been, and a content.
FcDiskOK ==
    \A f \in FcName : fcDisk[f] # FcAbsent =>
        fcDisk[f].mtime \in 1 .. fcNow /\ fcDisk[f].content \in FcContent

\* The entries of a snapshot.  Without renames an mtime of an input is that of
\* one content: what a TwoLayerCache has for it is right while it is current.
FcEntriesAt(load, now, moved, disk, files) ==
    \A f \in DOMAIN files :
        /\ files[f].mtime <= now
        /\ load.kind = "two_layer" =>
             /\ files[f].mtime > 0
             /\ ~moved /\ files[f].mtime = disk[f].mtime => files[f].hash = disk[f].content

FcDataAt(load, now, moved, disk, d) ==
    d # FcNone => d.max <= now /\ FcEntriesAt(load, now, moved, disk, d.files)

\* Hashes reused for their mtime are not to be relied on once an input moved.
FcTrusted(load, moved) == moved => load.kind = "hash"

FcCheckingPcs == {"fast", "fast_read", "read", "files", "decide"}
FcStagingPcs == {"stage", "stage_remove", "stage_rename"}

\* The locals of a cycle.  A check under way has seen the inputs as they are,
\* the absence of what its scan has not, and what it hashed.
FcLocalsAt(load, now, moved, disk, k) ==
    /\ FcDataAt(load, now, moved, disk, k.base) /\ FcDataAt(load, now, moved, disk, k.staged)
    /\ FcEntriesAt(load, now, moved, disk, k.files)
    /\ k.max <= now /\ DOMAIN k.files \subseteq k.scan
    /\ \A f \in DOMAIN k.stat : k.stat[f] \in 1 .. now
    /\ k.pc \in {"fast", "fast_read", "read"} => DOMAIN k.files = {}
    /\ k.pc \in FcCheckingPcs =>
         /\ ~k.run
         /\ \A f \in FcName : disk[f].content \in k.window[f]
         /\ \A f \in FcName \ k.scan : FcNone \in k.window[f]
         /\ FcTrusted(load, moved) => \A f \in DOMAIN k.files : k.files[f].hash \in k.window[f]
         /\ k.pc = "decide" => DOMAIN k.files = k.scan

FcLocalsOK == \A c \in FcCycle : FcLocalsAt(fcLoad, fcNow, fcMoved, fcDisk, fcCheck[c])

\* Two windows of checks that overlapped.
FcOverlap(w, v) == \A f \in FcName : w[f] \cap v[f] # {}

\* A fast path that found the newest mtime of a snapshot saw, of every input of
\* its scan, a content that the window w of the snapshot's check has.
FcFastMeets(k, max, w) ==
    \/ FcOverlap(w, k.window)
    \/ k.max = max => \A f \in k.scan : \E x \in FcContent : x \in w[f] \cap k.window[f]

\* A snapshot d and the window w of its check: it has the hashes, and what was
\* there at the newest mtime of the snapshot and still is.
FcSoundAt(load, moved, disk, check, d, w) ==
    /\ FcTrusted(load, moved) => FcHashed(d.files, w)
    /\ ~moved => \A f \in FcName :
         disk[f] # FcAbsent /\ disk[f].mtime <= d.max => disk[f].content \in w[f]
    /\ ~moved => \A c \in FcCycle :
         check[c].pc = "fast_read" => FcFastMeets(check[c], d.max, w)

FcSound(d, w) == FcSoundAt(fcLoad, fcMoved, fcDisk, fcCheck, d, w)

\* What the files hold.
FcFilesOK ==
    /\ \A p \in FcPath : fcFiles[p] # FcNone =>
         /\ FcDataAt(fcLoad, fcNow, fcMoved, fcDisk, fcFiles[p].data)
         /\ fcFiles[p].time <= fcNow
    /\ \A p \in {"cache", "cache_tmp"} : fcFiles[p] # FcNone =>
         /\ fcFiles[p].data.status # "pending"
         /\ fcFiles[p].data.status = "success" => \E w \in fcCovered : FcSound(fcFiles[p].data, w)

\* What a cycle with the locals k may rely on.
FcCycleOK(c, k) ==
    /\ k.pc # "idle" => c \in fcLoad.cycles
    /\ FcUsable(k.base) /\ FcTrusted(fcLoad, fcMoved) =>
         \E w \in fcCovered : FcHashed(k.base.files, w)
    /\ k.pc \in FcStagingPcs => FcSound(k, k.window)
    /\ k.pc \in FcStagingPcs \cup {"answered"} /\ ~k.run /\ ~fcMoved =>
         \E w \in fcCovered : FcMeets(k.window, w)
    /\ k.pc = "answered" /\ k.run =>
         /\ k.staged # FcNone => FcSound(k.staged, k.window)
         /\ ~fcLoad.cli => k.staged # FcNone
         /\ fcLoad.cli /\ fcFiles["pending"] # FcNone => FcSound(fcFiles["pending"].data, k.window)
    /\ fcLoad.cli /\ k.pc \in {"stage_remove", "stage_rename"} /\ fcFiles["pending_tmp"] # FcNone =>
         /\ fcFiles["pending_tmp"].data.files = k.files
         /\ fcFiles["pending_tmp"].data.max = k.max
    /\ k.pc = "commit" => k.staged # FcNone /\ (k.run => \E w \in fcCovered : FcSound(k.staged, w))

FcCyclesOK == \A c \in FcCycle : FcCycleOK(c, fcCheck[c])

FcInv == FcTypes /\ FcDiskOK /\ FcLocalsOK /\ FcFilesOK /\ FcCyclesOK

-----------------------------------------------------------------------------
(* Operators *)

\* A finite set of numbers has a largest one, and Max is that.
LEMMA FcMaxOf ==
    ASSUME NEW S \in SUBSET Nat, IsFiniteSet(S), S # {}
    PROVE  Max(S) \in S /\ \A y \in S : Max(S) >= y
<1> DEFINE Above(x) == {y \in S : y > x}
           T == {Above(x) : x \in S}
<1>1. IsWellFoundedOn(StrictSubsetOrdering(S), SUBSET S)
  <2>1. FiniteSubsetsOf(S) = SUBSET S
    BY FS_FiniteSubsetsOfFinite
  <2>2. IsWellFoundedOn(StrictSubsetOrdering(S), FiniteSubsetsOf(S))
    BY FS_StrictSubsetOrderingWellFounded
  <2> QED BY <2>1, <2>2
<1>2. T \in SUBSET (SUBSET S) /\ T # {}
  OBVIOUS
<1>3. PICK s \in T : \A t \in T : ~(<<t, s>> \in StrictSubsetOrdering(S))
  BY <1>1, <1>2, WFMin
<1>4. PICK x \in S : s = Above(x)
  BY <1>3
<1>5. \A y \in S : x >= y
  <2> SUFFICES ASSUME NEW y \in S, y > x PROVE FALSE
    OBVIOUS
  <2>0. \A z \in S : z \in Int
    OBVIOUS
  <2>1. Above(y) \in T
    OBVIOUS
  <2>2. Above(y) \subseteq Above(x) /\ y \in Above(x) /\ y \notin Above(y)
    <3>1. \A z \in S : z > y => z > x
      BY <2>0
    <3>2. ~(y > y)
      BY <2>0
    <3> QED BY <3>1, <3>2
  <2> HIDE DEF Above, T
  <2>3. <<Above(y), s>> \in StrictSubsetOrdering(S)
    BY <1>2, <1>3, <1>4, <2>1, <2>2 DEF StrictSubsetOrdering
  <2> QED BY <1>3, <2>1, <2>3
<1>6. \E z \in S : \A y \in S : z >= y
  BY <1>5
<1> QED BY <1>6 DEF Max

\* The largest of a function's values, or 0.
LEMMA FcMaxOver ==
    ASSUME NEW names, IsFiniteSet(names), NEW g \in [names -> Nat]
    PROVE  LET S == {0} \cup {g[f] : f \in names}
           IN  S \subseteq Nat /\ Max(S) \in S /\ \A y \in S : Max(S) >= y
<1> DEFINE T == {g[f] : f \in names}
<1>1. g \in Surjection(names, T)
  BY DEF Surjection
<1>2. IsFiniteSet(T)
  BY <1>1, FS_Surjection
<1>3. IsFiniteSet(T \cup {0})
  BY <1>2, FS_AddElement
<1>4. T \cup {0} \in SUBSET Nat /\ T \cup {0} # {} /\ {0} \cup T = T \cup {0}
  OBVIOUS
<1> HIDE DEF T
<1>5. Max(T \cup {0}) \in T \cup {0} /\ \A y \in T \cup {0} : Max(T \cup {0}) >= y
  BY <1>3, <1>4, FcMaxOf
<1> QED BY <1>4, <1>5 DEF T

\* The empty map is a map of entries and of mtimes.
LEMMA FcEmptyMaps == <<>> \in FcEntries /\ <<>> \in FcStats /\ DOMAIN <<>> = {}
<1>1. DOMAIN <<>> = {}
  OBVIOUS
<1>2. <<>> \in [{} -> FcEntry]
  OBVIOUS
<1>3. <<>> \in [{} -> Nat]
  OBVIOUS
<1>4. {} \in SUBSET FcName
  OBVIOUS
<1> QED BY <1>1, <1>2, <1>3, <1>4 DEF FcEntries, FcEntry, FcStats

\* The locals of a cycle that has not begun have their type.
LEMMA FcIdleType == FcIdle \in FcCycleType
BY FcEmptyMaps DEF FcIdle, FcCycleType, FcPcs, FcWindows

\* The functions of a check gain an argument.
LEMMA FcEntriesWith ==
    ASSUME NEW g \in FcEntries, NEW f \in FcName, NEW v \in FcEntry
    PROVE  /\ FcWith(g, f, v) \in FcEntries
           /\ DOMAIN FcWith(g, f, v) = DOMAIN g \cup {f}
           /\ FcWith(g, f, v)[f] = v
           /\ \A x \in DOMAIN g \ {f} : FcWith(g, f, v)[x] = g[x]
<1>1. PICK names \in SUBSET FcName : g \in [names -> FcEntry]
  BY DEF FcEntries, FcEntry
<1>2. FcWith(g, f, v) \in [names \cup {f} -> FcEntry]
  BY <1>1 DEF FcWith
<1>3. names \cup {f} \in SUBSET FcName
  BY <1>1
<1>4. FcWith(g, f, v) \in FcEntries
  BY <1>2, <1>3 DEF FcEntries, FcEntry
<1> QED BY <1>1, <1>4 DEF FcWith

\* What setting one mtime does to a map of mtimes.
LEMMA FcStatsWith ==
    ASSUME NEW g \in FcStats, NEW f \in FcName, NEW v \in Nat
    PROVE  /\ FcWith(g, f, v) \in FcStats
           /\ DOMAIN FcWith(g, f, v) = DOMAIN g \cup {f}
           /\ FcWith(g, f, v)[f] = v
           /\ \A x \in DOMAIN g \ {f} : FcWith(g, f, v)[x] = g[x]
<1>1. PICK names \in SUBSET FcName : g \in [names -> Nat]
  BY DEF FcStats
<1>2. FcWith(g, f, v) \in [names \cup {f} -> Nat]
  BY <1>1 DEF FcWith
<1>3. names \cup {f} \in SUBSET FcName
  BY <1>1
<1>4. FcWith(g, f, v) \in FcStats
  BY <1>2, <1>3 DEF FcStats
<1> QED BY <1>1, <1>4 DEF FcWith

\* What a map of entries holds.
LEMMA FcEntriesGet ==
    ASSUME NEW g \in FcEntries
    PROVE  /\ DOMAIN g \subseteq FcName
           /\ \A f \in DOMAIN g : g[f] \in FcEntry
<1>1. PICK names \in SUBSET FcName : g \in [names -> FcEntry]
  BY DEF FcEntries, FcEntry
<1> QED BY <1>1

\* What a map of mtimes holds.
LEMMA FcStatsGet ==
    ASSUME NEW g \in FcStats
    PROVE  DOMAIN g \subseteq FcName /\ \A f \in DOMAIN g : g[f] \in Nat
<1>1. PICK names \in SUBSET FcName : g \in [names -> Nat]
  BY DEF FcStats
<1> QED BY <1>1

-----------------------------------------------------------------------------
(* The step of a cycle *)

\* A cycle that goes from the first half of the fast path to the second: its
\* scan was there, and its newest mtime is at least those of the scan.
FcFastSaw(k) ==
    k.pc = "fast_read" => \A f \in k.scan :
        /\ fcDisk[f] # FcAbsent /\ fcDisk[f].mtime <= k.max
        /\ fcDisk[f].content \in k.window[f]

\* A sound snapshot stays sound when one cycle takes a step.
LEMMA FcSoundKept ==
    ASSUME FcDiskOK, NEW c \in FcCycle, NEW k \in FcCycleType, FcFastSaw(k),
           fcCheck \in [FcCycle -> FcCycleType], fcCheck' = [fcCheck EXCEPT ![c] = k],
           UNCHANGED <<fcLoad, fcDisk, fcMoved>>,
           NEW d, NEW w, FcSound(d, w)
    PROVE  FcSoundAt(fcLoad', fcMoved', fcDisk', fcCheck', d, w)
<1>1. ASSUME ~fcMoved, NEW b \in FcCycle, fcCheck'[b].pc = "fast_read"
      PROVE  FcFastMeets(fcCheck'[b], d.max, w)
  <2>1. CASE b # c
    <3>1. fcCheck'[b] = fcCheck[b]
      BY <2>1
    <3> QED BY <1>1, <3>1 DEF FcSound, FcSoundAt
  <2>2. CASE b = c
    <3>1. fcCheck'[b] = k
      BY <2>2
    <3>2. ASSUME k.max = d.max, NEW f \in k.scan
          PROVE  \E x \in FcContent : x \in w[f] \cap k.window[f]
      <4>1. f \in FcName
        BY <3>2 DEF FcCycleType
      <4>2. fcDisk[f] # FcAbsent /\ fcDisk[f].mtime <= k.max /\ fcDisk[f].content \in k.window[f]
        BY <1>1, <3>1, <3>2 DEF FcFastSaw
      <4>3. fcDisk[f].content \in w[f]
        BY <1>1, <3>2, <4>1, <4>2 DEF FcSound, FcSoundAt
      <4> QED BY <4>1, <4>2, <4>3 DEF FcDiskOK
    <3> QED BY <3>1, <3>2 DEF FcFastMeets
  <2> QED BY <2>1, <2>2
<1>2. FcTrusted(fcLoad', fcMoved') => FcHashed(d.files, w)
  BY DEF FcSound, FcSoundAt
<1>3. ~fcMoved' => \A f \in FcName :
        fcDisk'[f] # FcAbsent /\ fcDisk'[f].mtime <= d.max => fcDisk'[f].content \in w[f]
  BY DEF FcSound, FcSoundAt
<1> QED BY <1>1, <1>2, <1>3 DEF FcSoundAt

\* What a step of the cycle c to the locals k has to establish.
FcStepOK(c, k) ==
    /\ k \in FcCycleType /\ c \in fcLoad.cycles
    /\ FcFastSaw(k)
    /\ FcLocalsAt(fcLoad, fcNow, fcMoved, fcDisk, k)
    /\ FcUsable(k.base) /\ FcTrusted(fcLoad, fcMoved) =>
         \E w \in fcCovered : FcHashed(k.base.files, w)
    /\ k.pc \in FcStagingPcs => FcSound(k, k.window)
    /\ k.pc \in FcStagingPcs \cup {"answered"} /\ ~k.run /\ ~fcMoved =>
         \E w \in fcCovered : FcMeets(k.window, w)

FcFileSet == [data : FcData, time : Nat] \cup {FcNone}

\* A step of one cycle that keeps its own part keeps the invariant.
LEMMA FcCycleStep ==
    ASSUME FcInv, FcOwnMarks, NEW c \in FcCycle, NEW k, FcStepOK(c, k),
           fcCheck' = [fcCheck EXCEPT ![c] = k],
           UNCHANGED <<fcLoad, fcDisk, fcNow, fcMoved>>,
           fcCalls' \in Nat /\ fcCalls' <= fcLoad.calls,
           fcLock' \in [holder : FcCycle \cup {FcNone}, timeouts : Nat],
           fcLock'.timeouts <= fcLoad.timeouts,
           fcCovered \subseteq fcCovered', fcCovered' \subseteq FcWindows,
           fcFiles' \in [FcPath -> FcFileSet],
           \A p \in FcPath : fcFiles'[p] # FcNone =>
               /\ FcDataAt(fcLoad, fcNow, fcMoved, fcDisk, fcFiles'[p].data)
               /\ fcFiles'[p].time <= fcNow,
           \A p \in {"cache", "cache_tmp"} : fcFiles'[p] # FcNone =>
               /\ fcFiles'[p].data.status # "pending"
               /\ fcFiles'[p].data.status = "success" =>
                    \E w \in fcCovered : FcSound(fcFiles'[p].data, w),
           k.pc = "answered" /\ k.run =>
               /\ k.staged # FcNone => FcSound(k.staged, k.window)
               /\ ~fcLoad.cli => k.staged # FcNone
               /\ fcLoad.cli /\ fcFiles'["pending"] # FcNone =>
                    FcSound(fcFiles'["pending"].data, k.window),
           fcLoad.cli /\ k.pc \in {"stage_remove", "stage_rename"} /\ fcFiles'["pending_tmp"] # FcNone =>
               /\ fcFiles'["pending_tmp"].data.files = k.files
               /\ fcFiles'["pending_tmp"].data.max = k.max,
           k.pc = "commit" =>
               k.staged # FcNone /\ (k.run => \E w \in fcCovered' : FcSound(k.staged, w))
    PROVE  FcInv'
<1> USE DEF FcInv
<1>1. FcTypes'
  BY DEF FcTypes, FcStepOK, FcFileSet
<1>2. FcDiskOK'
  BY DEF FcDiskOK
<1>3. /\ \A b \in FcCycle \ {c} : fcCheck'[b] = fcCheck[b]
      /\ fcCheck'[c] = k
      /\ fcCheck \in [FcCycle -> FcCycleType]
  BY DEF FcTypes
<1>4. ASSUME NEW d, NEW w, FcSound(d, w)
      PROVE  FcSoundAt(fcLoad', fcMoved', fcDisk', fcCheck', d, w)
  BY <1>3, <1>4, FcSoundKept DEF FcStepOK
<1>5. FcLocalsOK'
  BY <1>3 DEF FcLocalsOK, FcStepOK
<1>6. FcFilesOK'
  <2>1. ASSUME NEW p \in {"cache", "cache_tmp"}, fcFiles'[p] # FcNone,
               fcFiles'[p].data.status = "success"
        PROVE  \E w \in fcCovered' : FcSoundAt(fcLoad', fcMoved', fcDisk', fcCheck', fcFiles'[p].data, w)
    <3>1. PICK w \in fcCovered : FcSound(fcFiles'[p].data, w)
      BY <2>1
    <3> QED BY <3>1, <1>4
  <2> QED BY <2>1 DEF FcFilesOK, FcSound
<1>7. ASSUME NEW b \in FcCycle PROVE FcCycleOK(b, fcCheck[b])'
  <2>1. CASE b # c
    <3> DEFINE j == fcCheck[b]
    <3>1. fcCheck'[b] = j /\ FcCycleOK(b, j)
      BY <1>3, <2>1 DEF FcCyclesOK
    <3>2. fcLoad.cli => j.pc = "idle"
      BY <2>1, <3>1 DEF FcCycleOK, FcStepOK, FcOwnMarks, FcTypes
    <3> HIDE DEF j
    <3>3. j.pc # "idle" => b \in fcLoad'.cycles
      BY <3>1 DEF FcCycleOK
    <3>4. FcUsable(j.base) /\ FcTrusted(fcLoad', fcMoved') =>
            \E w \in fcCovered' : FcHashed(j.base.files, w)
      BY <3>1 DEF FcCycleOK
    <3>5. j.pc \in FcStagingPcs => FcSoundAt(fcLoad', fcMoved', fcDisk', fcCheck', j, j.window)
      BY <3>1, <1>4 DEF FcCycleOK
    <3>6. j.pc \in FcStagingPcs \cup {"answered"} /\ ~j.run /\ ~fcMoved' =>
            \E w \in fcCovered' : FcMeets(j.window, w)
      BY <3>1 DEF FcCycleOK
    <3>7. j.pc = "answered" /\ j.run =>
            /\ j.staged # FcNone =>
                 FcSoundAt(fcLoad', fcMoved', fcDisk', fcCheck', j.staged, j.window)
            /\ ~fcLoad'.cli => j.staged # FcNone
            /\ ~fcLoad'.cli
      BY <3>1, <3>2, <1>4 DEF FcCycleOK
    <3>8. j.pc \in {"stage_remove", "stage_rename"} => ~fcLoad'.cli
      BY <3>2
    <3>9. j.pc = "commit" => j.staged # FcNone /\ (j.run =>
            \E w \in fcCovered' : FcSoundAt(fcLoad', fcMoved', fcDisk', fcCheck', j.staged, w))
      BY <3>1, <1>4 DEF FcCycleOK
    <3> QED BY <3>1, <3>3, <3>4, <3>5, <3>6, <3>7, <3>8, <3>9 DEF FcCycleOK, FcSound
  <2>2. CASE b = c
    <3>1. fcCheck'[b] = k
      BY <1>3, <2>2
    <3>2. k.pc # "idle" => b \in fcLoad'.cycles
      BY <2>2 DEF FcStepOK
    <3>3. FcUsable(k.base) /\ FcTrusted(fcLoad', fcMoved') =>
            \E w \in fcCovered' : FcHashed(k.base.files, w)
      BY DEF FcStepOK
    <3>4. k.pc \in FcStagingPcs => FcSoundAt(fcLoad', fcMoved', fcDisk', fcCheck', k, k.window)
      BY <1>4 DEF FcStepOK
    <3>5. k.pc \in FcStagingPcs \cup {"answered"} /\ ~k.run /\ ~fcMoved' =>
            \E w \in fcCovered' : FcMeets(k.window, w)
      BY DEF FcStepOK
    <3>6. k.pc = "answered" /\ k.run =>
            /\ k.staged # FcNone =>
                 FcSoundAt(fcLoad', fcMoved', fcDisk', fcCheck', k.staged, k.window)
            /\ ~fcLoad'.cli => k.staged # FcNone
            /\ fcLoad'.cli /\ fcFiles'["pending"] # FcNone =>
                 FcSoundAt(fcLoad', fcMoved', fcDisk', fcCheck', fcFiles'["pending"].data, k.window)
      BY <1>4
    <3>7. k.pc = "commit" => k.staged # FcNone /\ (k.run =>
            \E w \in fcCovered' : FcSoundAt(fcLoad', fcMoved', fcDisk', fcCheck', k.staged, w))
      BY <1>4
    <3> QED BY <3>1, <3>2, <3>3, <3>4, <3>5, <3>6, <3>7 DEF FcCycleOK, FcSound
  <2> QED BY <2>1, <2>2
<1> QED BY <1>1, <1>2, <1>5, <1>6, <1>7 DEF FcCyclesOK

\* Whatever a step does to the lock keeps its type.
LEMMA FcLockStep ==
    ASSUME FcTypes, NEW c \in FcCycle,
           UNCHANGED fcLock \/ FcShared \/ FcExclusive(c) \/ FcUnlock(c)
    PROVE  /\ fcLock' \in [holder : FcCycle \cup {FcNone}, timeouts : Nat]
           /\ fcLock'.timeouts <= fcLoad.timeouts
<1>1. /\ fcLock \in [holder : FcCycle \cup {FcNone}, timeouts : Nat]
      /\ fcLock.timeouts <= fcLoad.timeouts /\ fcLoad.timeouts \in Nat
  BY FcAssumption DEF FcTypes, FcLoadType
<1>2. CASE FcTimesOut
  BY <1>1, <1>2 DEF FcTimesOut
<1>3. CASE UNCHANGED fcLock
  BY <1>1, <1>3
<1>4. CASE fcLock' = [fcLock EXCEPT !.holder = c]
  BY <1>1, <1>4
<1>5. CASE fcLock' = [fcLock EXCEPT !.holder = FcNone]
  BY <1>1, <1>5
<1> QED BY <1>2, <1>3, <1>4, <1>5 DEF FcShared, FcExclusive, FcUnlock

\* The steps of a cycle that leave the files alone.
LEMMA FcLocalStep ==
    ASSUME FcInv, FcOwnMarks, NEW c \in FcCycle, NEW k, FcStepOK(c, k), FcStep(c, k),
           UNCHANGED <<fcLoad, fcDisk, fcNow, fcMoved, fcFiles, fcCovered>>,
           fcCalls' \in Nat /\ fcCalls' <= fcLoad.calls,
           UNCHANGED fcLock \/ FcShared,
           ~(k.pc = "answered" /\ k.run),
           k.pc \notin {"stage_remove", "stage_rename", "commit"}
    PROVE  FcInv'
<1>1. FcTypes /\ FcFilesOK
  BY DEF FcInv
<1>2. /\ fcLock' \in [holder : FcCycle \cup {FcNone}, timeouts : Nat]
      /\ fcLock'.timeouts <= fcLoad.timeouts
  BY <1>1, FcLockStep
<1>3. fcFiles' \in [FcPath -> FcFileSet] /\ fcCovered' \subseteq FcWindows
  BY <1>1 DEF FcTypes, FcFileSet
<1>4. \A p \in FcPath : fcFiles'[p] # FcNone =>
         /\ FcDataAt(fcLoad, fcNow, fcMoved, fcDisk, fcFiles'[p].data)
         /\ fcFiles'[p].time <= fcNow
  BY <1>1 DEF FcFilesOK
<1>5. \A p \in {"cache", "cache_tmp"} : fcFiles'[p] # FcNone =>
         /\ fcFiles'[p].data.status # "pending"
         /\ fcFiles'[p].data.status = "success" => \E w \in fcCovered : FcSound(fcFiles'[p].data, w)
  BY <1>1 DEF FcFilesOK
<1> QED BY <1>2, <1>3, <1>4, <1>5, FcCycleStep DEF FcStep

\* What the invariant says of one cycle and of the inputs.
LEMMA FcOfCycle ==
    ASSUME FcInv, NEW c \in FcCycle
    PROVE  /\ fcCheck[c] \in FcCycleType
           /\ FcLocalsAt(fcLoad, fcNow, fcMoved, fcDisk, fcCheck[c])
           /\ FcCycleOK(c, fcCheck[c])
           /\ fcNow \in Nat \ {0}
           /\ fcDisk \in [FcName -> [mtime : Nat, content : FcContent \cup {FcNone}]]
           /\ FcDiskOK
           /\ fcLoad \in FcLoadType
           /\ fcMoved \in BOOLEAN
           /\ fcCalls \in Nat /\ fcCalls <= fcLoad.calls
BY FcAssumption DEF FcInv, FcTypes, FcLocalsOK, FcCyclesOK

\* A cycle at rest.
LEMMA FcIdleOK ==
    ASSUME FcInv, NEW c \in FcCycle, c \in fcLoad.cycles
    PROVE  FcStepOK(c, FcIdle)
<1>1. fcNow \in Nat \ {0}
  BY DEF FcInv, FcTypes
<1>2. /\ FcIdle.pc = "idle" /\ FcIdle.base = FcNone /\ FcIdle.staged = FcNone /\ FcIdle.max = 0
      /\ FcIdle.files = <<>> /\ FcIdle.stat = <<>> /\ FcIdle.scan = {}
  BY DEF FcIdle
<1>3. DOMAIN FcIdle.files = {} /\ DOMAIN FcIdle.stat = {}
  BY <1>2, FcEmptyMaps
<1>4. FcLocalsAt(fcLoad, fcNow, fcMoved, fcDisk, FcIdle)
  <2> HIDE DEF FcIdle
  <2>1. FcDataAt(fcLoad, fcNow, fcMoved, fcDisk, FcNone)
    BY DEF FcDataAt
  <2>2. FcEntriesAt(fcLoad, fcNow, fcMoved, fcDisk, FcIdle.files)
    BY <1>3 DEF FcEntriesAt
  <2> QED BY <1>1, <1>2, <1>3, <2>1, <2>2 DEF FcLocalsAt, FcCheckingPcs
<1>5. FcFastSaw(FcIdle)
  BY <1>2 DEF FcFastSaw
<1> QED BY <1>2, <1>4, <1>5, FcIdleType DEF FcStepOK, FcUsable, FcStagingPcs

\* An operation that is skipped keeps the invariant.
LEMMA FcSkipStep ==
    ASSUME FcInv, FcOwnMarks, NEW c \in FcCycle, FcSkip(c) PROVE FcInv'
<1>1. c \in fcLoad.cycles /\ fcCalls \in Nat /\ fcCalls <= fcLoad.calls
  BY FcOfCycle DEF FcSkip, FcAt, FcCycleOK
<1>2. FcIdle.pc = "idle"
  BY DEF FcIdle
<1> QED BY <1>1, <1>2, FcIdleOK, FcLocalStep DEF FcSkip, FcLocal, FcInputsKept

-----------------------------------------------------------------------------
(* check *)

\* The start of a check keeps the invariant.
LEMMA FcBeginStep ==
    ASSUME FcInv, FcOwnMarks, NEW c \in FcCycle, FcBegin(c) PROVE FcInv'
<1> DEFINE k == [FcIdle EXCEPT !.pc = "fast",
                    !.scan = {f \in FcName : fcDisk[f] # FcAbsent},
                    !.window = [f \in FcName |-> {fcDisk[f].content}]]
<1>1. /\ c \in fcLoad.cycles /\ FcStep(c, k) /\ fcCalls < fcLoad.calls /\ fcCalls' = fcCalls + 1
      /\ UNCHANGED <<fcLoad, fcDisk, fcNow, fcMoved, fcFiles, fcCovered, fcLock>>
  BY DEF FcBegin, FcCall
<1>2. fcCalls \in Nat /\ fcLoad.calls \in Nat /\ fcNow \in Nat \ {0}
      /\ fcDisk \in [FcName -> [mtime : Nat, content : FcContent \cup {FcNone}]]
  BY FcOfCycle DEF FcLoadType
<1>3. fcCalls' \in Nat /\ fcCalls' <= fcLoad.calls
  BY <1>1, <1>2
<1>4. /\ k.pc = "fast" /\ k.base = FcNone /\ k.staged = FcNone /\ k.max = 0 /\ k.run = FALSE
      /\ k.files = <<>> /\ k.stat = <<>> /\ k.scan = {f \in FcName : fcDisk[f] # FcAbsent}
      /\ k.window = [f \in FcName |-> {fcDisk[f].content}]
  BY DEF FcIdle
<1>5. k \in FcCycleType
  <2>1. [f \in FcName |-> {fcDisk[f].content}] \in FcWindows
    BY <1>2 DEF FcWindows
  <2>2. {f \in FcName : fcDisk[f] # FcAbsent} \in SUBSET FcName
    OBVIOUS
  <2> QED BY <2>1, <2>2, FcIdleType DEF FcCycleType, FcPcs
<1> HIDE DEF k
<1>6. DOMAIN k.files = {} /\ DOMAIN k.stat = {}
  BY <1>4, FcEmptyMaps
<1>7. FcLocalsAt(fcLoad, fcNow, fcMoved, fcDisk, k)
  <2>1. FcDataAt(fcLoad, fcNow, fcMoved, fcDisk, FcNone)
    BY DEF FcDataAt
  <2>2. FcEntriesAt(fcLoad, fcNow, fcMoved, fcDisk, k.files)
    BY <1>6 DEF FcEntriesAt
  <2>3. \A f \in FcName : fcDisk[f].content \in k.window[f]
    BY <1>4
  <2>4. \A f \in FcName \ k.scan : FcNone \in k.window[f]
    BY <1>4 DEF FcAbsent
  <2> QED BY <1>2, <1>4, <1>6, <2>1, <2>2, <2>3, <2>4 DEF FcLocalsAt
<1>8. FcStepOK(c, k)
  BY <1>1, <1>4, <1>5, <1>7 DEF FcStepOK, FcUsable, FcStagingPcs, FcFastSaw
<1> QED BY <1>1, <1>3, <1>4, <1>8, FcLocalStep

\* The newest mtime of some inputs.
LEMMA FcMaxMtimeOK ==
    ASSUME FcTypes, FcDiskOK, NEW scan \in SUBSET FcName
    PROVE  /\ FcMaxMtime(scan) \in Nat /\ FcMaxMtime(scan) <= fcNow
           /\ \A f \in scan : fcDisk[f].mtime <= FcMaxMtime(scan)
<1> DEFINE g == [f \in scan |-> fcDisk[f].mtime]
           S == {0} \cup {g[f] : f \in scan}
<1>1. /\ fcNow \in Nat \ {0}
      /\ fcDisk \in [FcName -> [mtime : Nat, content : FcContent \cup {FcNone}]]
  BY DEF FcTypes
<1>2. \A f \in FcName : fcDisk[f].mtime \in 0 .. fcNow
  BY <1>1 DEF FcDiskOK, FcAbsent
<1>3. S \in SUBSET (0 .. fcNow) /\ S # {}
  BY <1>1, <1>2
<1>4. Max(S) \in S /\ \A y \in S : Max(S) >= y
  <2>1. IsFiniteSet(scan)
    BY FcAssumption, FS_Subset
  <2>2. g \in [scan -> Nat]
    BY <1>1
  <2> HIDE DEF g
  <2> QED BY <2>1, <2>2, FcMaxOver
<1>5. FcMaxMtime(scan) = Max(S)
  <2>1. S = {0} \cup {fcDisk[f].mtime : f \in scan}
    OBVIOUS
  <2> HIDE DEF S
  <2> QED BY <2>1 DEF FcMaxMtime
<1> HIDE DEF FcMaxMtime
<1>6. FcMaxMtime(scan) \in Nat /\ FcMaxMtime(scan) <= fcNow
  BY <1>1, <1>3, <1>4, <1>5
<1>7. ASSUME NEW f \in scan PROVE fcDisk[f].mtime <= FcMaxMtime(scan)
  <2>1. fcDisk[f].mtime \in S /\ fcDisk[f].mtime \in Nat
    BY <1>1
  <2> HIDE DEF S
  <2> QED BY <1>4, <1>5, <1>6, <2>1
<1> QED BY <1>6, <1>7

\* A check moves on without having answered: what it has seen it keeps.
LEMMA FcMovesOn ==
    ASSUME FcInv, NEW c \in FcCycle, FcChecking(c), NEW k \in FcCycleType,
           k.pc \in FcCheckingPcs, FcFastSaw(k),
           k.scan = fcCheck[c].scan, k.window = fcCheck[c].window, k.staged = fcCheck[c].staged,
           k.run = fcCheck[c].run, k.pc \in {"fast", "fast_read", "read"} => DOMAIN k.files = {},
           FcDataAt(fcLoad, fcNow, fcMoved, fcDisk, k.base),
           FcUsable(k.base) /\ FcTrusted(fcLoad, fcMoved) =>
               \E w \in fcCovered : FcHashed(k.base.files, w),
           FcEntriesAt(fcLoad, fcNow, fcMoved, fcDisk, k.files),
           k.max <= fcNow, DOMAIN k.files \subseteq k.scan,
           \A f \in DOMAIN k.stat : k.stat[f] \in 1 .. fcNow,
           FcTrusted(fcLoad, fcMoved) => \A f \in DOMAIN k.files : k.files[f].hash \in k.window[f],
           k.pc = "decide" => DOMAIN k.files = k.scan
    PROVE  FcStepOK(c, k)
<1> DEFINE j == fcCheck[c]
<1>1. /\ j.pc \in FcCheckingPcs /\ j \in FcCycleType
      /\ FcLocalsAt(fcLoad, fcNow, fcMoved, fcDisk, j) /\ FcCycleOK(c, j)
  BY FcOfCycle DEF FcChecking, FcCheckingPcs
<1> HIDE DEF j
<1>2. c \in fcLoad.cycles
  BY <1>1 DEF FcCycleOK, FcCheckingPcs
<1>3. /\ FcDataAt(fcLoad, fcNow, fcMoved, fcDisk, k.staged) /\ ~k.run
      /\ \A f \in FcName : fcDisk[f].content \in k.window[f]
      /\ \A f \in FcName \ k.scan : FcNone \in k.window[f]
  BY <1>1 DEF FcLocalsAt, j
<1>4. FcLocalsAt(fcLoad, fcNow, fcMoved, fcDisk, k)
  BY <1>3 DEF FcLocalsAt
<1>5. k.pc \notin FcStagingPcs \cup {"answered"}
  BY DEF FcCheckingPcs, FcStagingPcs
<1> QED BY <1>2, <1>4, <1>5 DEF FcStepOK

\* Comparing the age of the cache file with the inputs keeps the invariant.
LEMMA FcFastStep ==
    ASSUME FcInv, FcOwnMarks, NEW c \in FcCycle, FcFast(c) PROVE FcInv'
<1> DEFINE j == fcCheck[c]
           m == FcMaxMtime(j.scan)
<1>1. /\ j \in FcCycleType /\ FcLocalsAt(fcLoad, fcNow, fcMoved, fcDisk, j) /\ FcCycleOK(c, j)
      /\ fcNow \in Nat \ {0} /\ fcCalls \in Nat /\ fcCalls <= fcLoad.calls
  BY FcOfCycle
<1>2. j.pc = "fast" /\ FcChecking(c)
  BY DEF FcFast, FcAt, FcChecking
<1>3. m \in Nat /\ m <= fcNow /\ \A f \in j.scan : fcDisk[f].mtime <= m
  BY <1>1, FcMaxMtimeOK DEF FcCycleType, FcInv
<1>4. PICK k : /\ FcStep(c, k)
               /\ \/ k = [j EXCEPT !.pc = "fast_read", !.max = m] /\ FcAllHere(j.scan)
                  \/ k = [j EXCEPT !.pc = FcSlow]
  BY DEF FcFast
<1>5. UNCHANGED <<fcLoad, fcDisk, fcNow, fcMoved, fcFiles, fcCovered, fcCalls, fcLock>>
  BY DEF FcFast, FcLocal, FcInputsKept
<1>6. FcSlow \in {"files", "read"}
  BY DEF FcSlow
<1> HIDE DEF j, m
<1>7. /\ k \in FcCycleType /\ k.pc \in {"fast_read", "files", "read"}
      /\ k.scan = j.scan /\ k.window = j.window /\ k.staged = j.staged /\ k.base = j.base
      /\ k.files = j.files /\ k.stat = j.stat /\ k.max <= fcNow /\ k.run = j.run
      /\ k.pc = "fast_read" => FcAllHere(j.scan) /\ k.max = m
  <2>1. CASE k = [j EXCEPT !.pc = "fast_read", !.max = m] /\ FcAllHere(j.scan)
    BY <1>1, <1>3, <2>1 DEF FcCycleType, FcPcs
  <2>2. CASE k = [j EXCEPT !.pc = FcSlow]
    <3>1. j.max <= fcNow
      BY <1>1 DEF FcLocalsAt
    <3> QED BY <1>1, <1>6, <2>2, <3>1 DEF FcCycleType, FcPcs
  <2> QED BY <1>4, <2>1, <2>2
<1>8. FcFastSaw(k)
  <2>1. \A f \in j.scan : fcDisk[f].content \in j.window[f]
    BY <1>1, <1>2 DEF FcLocalsAt, FcCheckingPcs, FcCycleType
  <2> QED BY <1>3, <1>7, <2>1 DEF FcFastSaw, FcAllHere
<1>9. FcStepOK(c, k)
  <2>1. k.pc \in FcCheckingPcs /\ k.pc # "decide" /\ j.pc \in FcCheckingPcs
    BY <1>2, <1>7 DEF FcCheckingPcs
  <2>2. /\ FcDataAt(fcLoad, fcNow, fcMoved, fcDisk, k.base)
        /\ FcEntriesAt(fcLoad, fcNow, fcMoved, fcDisk, k.files)
        /\ DOMAIN k.files \subseteq k.scan /\ DOMAIN k.files = {}
        /\ \A f \in DOMAIN k.stat : k.stat[f] \in 1 .. fcNow
        /\ FcTrusted(fcLoad, fcMoved) => \A f \in DOMAIN k.files : k.files[f].hash \in k.window[f]
    BY <1>1, <1>2, <1>7, <2>1 DEF FcLocalsAt
  <2>3. FcUsable(k.base) /\ FcTrusted(fcLoad, fcMoved) =>
          \E w \in fcCovered : FcHashed(k.base.files, w)
    BY <1>1, <1>7 DEF FcCycleOK
  <2> QED BY <1>2, <1>7, <1>8, <2>1, <2>2, <2>3, FcMovesOn DEF j
<1> QED BY <1>1, <1>4, <1>5, <1>7, <1>9, FcLocalStep

\* Reading the previous snapshot keeps the invariant.
LEMMA FcReadBaseStep ==
    ASSUME FcInv, FcOwnMarks, NEW c \in FcCycle, FcReadBase(c) PROVE FcInv'
<1> DEFINE j == fcCheck[c]
           b == FcRead("cache")
           k == [j EXCEPT !.pc = "files", !.base = b]
<1>1. /\ j \in FcCycleType /\ FcLocalsAt(fcLoad, fcNow, fcMoved, fcDisk, j) /\ FcCycleOK(c, j)
      /\ fcNow \in Nat \ {0} /\ fcCalls \in Nat /\ fcCalls <= fcLoad.calls
  BY FcOfCycle
<1>2. j.pc = "read" /\ FcChecking(c)
  BY DEF FcReadBase, FcAt, FcChecking
<1>3. /\ FcStep(c, k) /\ FcShared
      /\ UNCHANGED <<fcLoad, fcDisk, fcNow, fcMoved, fcFiles, fcCovered, fcCalls>>
  BY DEF FcReadBase, FcReading, FcInputsKept
<1>4. b \in FcData \cup {FcNone}
  BY DEF FcInv, FcTypes, FcRead, FcPath
<1>5. FcDataAt(fcLoad, fcNow, fcMoved, fcDisk, b)
  BY DEF FcInv, FcFilesOK, FcRead, FcPath, FcDataAt
<1>6. FcUsable(b) /\ FcTrusted(fcLoad, fcMoved) => \E w \in fcCovered : FcHashed(b.files, w)
  <2> SUFFICES ASSUME FcUsable(b), FcTrusted(fcLoad, fcMoved)
               PROVE  \E w \in fcCovered : FcHashed(b.files, w)
    OBVIOUS
  <2>1. fcFiles["cache"] # FcNone /\ b = fcFiles["cache"].data
    BY DEF FcRead, FcUsable
  <2>2. b.status = "success"
    BY <1>4, <2>1 DEF FcInv, FcFilesOK, FcUsable, FcData, FcStatus
  <2>3. \E w \in fcCovered : FcSound(b, w)
    BY <2>1, <2>2 DEF FcInv, FcFilesOK
  <2> QED BY <2>3 DEF FcSound, FcSoundAt
<1> HIDE DEF j, b
<1>7. /\ k \in FcCycleType /\ k.pc = "files" /\ k.base = b
      /\ k.scan = j.scan /\ k.window = j.window /\ k.staged = j.staged
      /\ k.files = j.files /\ k.stat = j.stat /\ k.max = j.max /\ k.run = j.run
  BY <1>1, <1>4 DEF FcCycleType, FcPcs
<1> HIDE DEF k
<1>8. FcFastSaw(k)
  BY <1>7 DEF FcFastSaw
<1>9. FcStepOK(c, k)
  <2>1. k.pc \in FcCheckingPcs /\ k.pc # "decide" /\ j.pc \in FcCheckingPcs
    BY <1>2, <1>7 DEF FcCheckingPcs
  <2>2. /\ FcDataAt(fcLoad, fcNow, fcMoved, fcDisk, k.base)
        /\ FcEntriesAt(fcLoad, fcNow, fcMoved, fcDisk, k.files)
        /\ DOMAIN k.files \subseteq k.scan /\ k.max <= fcNow
        /\ \A f \in DOMAIN k.stat : k.stat[f] \in 1 .. fcNow
        /\ FcTrusted(fcLoad, fcMoved) => \A f \in DOMAIN k.files : k.files[f].hash \in k.window[f]
    BY <1>1, <1>5, <1>7, <2>1 DEF FcLocalsAt
  <2> QED BY <1>2, <1>6, <1>7, <1>8, <2>1, <2>2, FcMovesOn DEF j
<1> QED BY <1>1, <1>3, <1>7, <1>9, FcLocalStep

\* The fast path: as many files and the same newest mtime, and it has seen what
\* the check of the snapshot saw.
LEMMA FcFastAnswer ==
    ASSUME FcInv, ~fcMoved, NEW c \in FcCycle, FcAt(c, "fast_read"),
           NEW d \in FcData, NEW w \in FcWindows, FcSound(d, w),
           Cardinality(DOMAIN d.files) = Cardinality(fcCheck[c].scan), d.max = fcCheck[c].max
    PROVE  FcMeets(fcCheck[c].window, w)
<1> DEFINE k == fcCheck[c]
           D == DOMAIN d.files
<1>1. /\ k \in FcCycleType /\ FcLocalsAt(fcLoad, fcNow, fcMoved, fcDisk, k) /\ k.pc = "fast_read"
  BY FcOfCycle DEF FcAt
<1>2. k.scan \in SUBSET FcName /\ D \in SUBSET FcName
  <2>1. d.files \in FcEntries
    BY DEF FcData
  <2> QED BY <1>1, <2>1, FcEntriesGet DEF FcCycleType
<1>3. FcHashed(d.files, w) /\ FcFastMeets(k, d.max, w)
  BY <1>1 DEF FcSound, FcSoundAt, FcTrusted
<1>4. \A f \in FcName \ k.scan : FcNone \in k.window[f]
  BY <1>1 DEF FcLocalsAt, FcCheckingPcs
<1>5. FcNone \notin FcContent
  BY FcAssumption
<1> HIDE DEF k
<1>6. CASE FcOverlap(w, k.window)
  BY <1>6 DEF FcOverlap, FcMeets, k
<1>7. CASE \A f \in k.scan : \E x \in FcContent : x \in w[f] \cap k.window[f]
  <2> SUFFICES ASSUME NEW f \in FcName
               PROVE  \/ w[f] \cap k.window[f] # {}
                      \/ FcNone \in k.window[f] /\ \E g \in FcName : FcNone \in w[g] /\ w[g] # {FcNone}
    BY DEF FcMeets, k
  <2>1. CASE f \in k.scan
    BY <1>7, <2>1
  <2>2. CASE f \notin k.scan /\ f \notin D
    BY <1>3, <1>4, <2>2 DEF FcHashed
  <2>3. CASE f \notin k.scan /\ f \in D
    <3>1. PICK g \in k.scan : g \notin D
      <4> SUFFICES ASSUME k.scan \subseteq D PROVE FALSE
        OBVIOUS
      <4>1. IsFiniteSet(D)
        BY <1>2, FcAssumption, FS_Subset
      <4>2. k.scan \in SUBSET D /\ Cardinality(D) = Cardinality(k.scan)
        BY DEF k
      <4>3. D = k.scan
        BY <4>1, <4>2, FS_Subset
      <4> QED BY <2>3, <4>3
    <3>2. g \in FcName /\ FcNone \in w[g]
      BY <1>2, <1>3, <3>1 DEF FcHashed
    <3>3. PICK x \in FcContent : x \in w[g]
      BY <1>7, <3>1
    <3>4. w[g] # {FcNone}
      BY <1>5, <3>3
    <3> QED BY <1>4, <2>3, <3>2, <3>4
  <2> QED BY <2>1, <2>2, <2>3
<1> QED BY <1>3, <1>6, <1>7 DEF FcFastMeets, k

\* The answer of the mtime fast path keeps the invariant.
LEMMA FcFastReadStep ==
    ASSUME FcInv, FcOwnMarks, NEW c \in FcCycle, FcFastRead(c) PROVE FcInv'
<1> DEFINE j == fcCheck[c]
           b == FcRead("cache")
<1>1. /\ j \in FcCycleType /\ FcLocalsAt(fcLoad, fcNow, fcMoved, fcDisk, j) /\ FcCycleOK(c, j)
      /\ fcNow \in Nat \ {0} /\ fcCalls \in Nat /\ fcCalls <= fcLoad.calls /\ fcMoved \in BOOLEAN
  BY FcOfCycle
<1>2. j.pc = "fast_read" /\ FcAt(c, "fast_read") /\ FcChecking(c)
  BY DEF FcFastRead, FcAt, FcChecking
<1>3. PICK k : /\ FcStep(c, k)
               /\ IF FcFastMatches(b, j)
                  THEN k = [j EXCEPT !.pc = "answered", !.scan = {}, !.max = 0, !.staged = b]
                  ELSE k = [j EXCEPT !.pc = FcSlow, !.max = 0]
  BY DEF FcFastRead
<1>4. FcShared /\ UNCHANGED <<fcLoad, fcDisk, fcNow, fcMoved, fcFiles, fcCovered, fcCalls>>
  BY DEF FcFastRead, FcReading, FcInputsKept
<1>5. b \in FcData \cup {FcNone} /\ FcDataAt(fcLoad, fcNow, fcMoved, fcDisk, b)
  BY DEF FcInv, FcTypes, FcFilesOK, FcRead, FcPath, FcDataAt
<1>6. FcSlow \in {"files", "read"}
  BY DEF FcSlow
<1>7. c \in fcLoad.cycles
  BY <1>1, <1>2 DEF FcCycleOK
<1>8. CASE FcFastMatches(b, j)
  <2>1. b # FcNone /\ b.status = "success" /\ b = fcFiles["cache"].data /\ fcFiles["cache"] # FcNone
    BY <1>8 DEF FcFastMatches, FcRead
  <2>2. PICK w \in fcCovered : FcSound(b, w)
    BY <2>1 DEF FcInv, FcFilesOK
  <2>3. w \in FcWindows
    BY <2>2 DEF FcInv, FcTypes
  <2>4. ~fcMoved => FcMeets(j.window, w)
    BY <1>2, <1>5, <1>8, <2>1, <2>2, <2>3, FcFastAnswer DEF FcFastMatches
  <2>5. DOMAIN j.files = {} /\ ~j.run
    BY <1>1, <1>2 DEF FcLocalsAt, FcCheckingPcs
  <2>6. k = [j EXCEPT !.pc = "answered", !.scan = {}, !.max = 0, !.staged = b]
    BY <1>3, <1>8
  <2> HIDE DEF j, b
  <2>7. /\ k \in FcCycleType /\ k.pc = "answered" /\ k.staged = b /\ k.window = j.window
        /\ k.files = j.files /\ k.stat = j.stat /\ k.scan = {} /\ k.max = 0 /\ k.base = j.base
        /\ k.run = j.run
    BY <1>1, <1>5, <2>6 DEF FcCycleType, FcPcs
  <2>8. FcLocalsAt(fcLoad, fcNow, fcMoved, fcDisk, k)
    <3>1. /\ FcDataAt(fcLoad, fcNow, fcMoved, fcDisk, k.base)
          /\ FcDataAt(fcLoad, fcNow, fcMoved, fcDisk, k.staged)
          /\ FcEntriesAt(fcLoad, fcNow, fcMoved, fcDisk, k.files)
          /\ \A f \in DOMAIN k.stat : k.stat[f] \in 1 .. fcNow
      BY <1>1, <1>5, <2>7 DEF FcLocalsAt
    <3> QED BY <1>1, <2>5, <2>7, <3>1 DEF FcLocalsAt, FcCheckingPcs
  <2>9. FcStepOK(c, k)
    <3>1. FcFastSaw(k) /\ k.pc \notin FcStagingPcs
      BY <2>7 DEF FcFastSaw, FcStagingPcs
    <3>2. FcUsable(k.base) /\ FcTrusted(fcLoad, fcMoved) =>
            \E v \in fcCovered : FcHashed(k.base.files, v)
      BY <1>1, <2>7 DEF FcCycleOK
    <3>3. ~fcMoved => \E v \in fcCovered : FcMeets(k.window, v)
      BY <2>2, <2>4, <2>7
    <3> QED BY <1>7, <2>7, <2>8, <3>1, <3>2, <3>3 DEF FcStepOK
  <2> QED BY <1>1, <1>3, <1>4, <2>5, <2>7, <2>9, FcLocalStep
<1>9. CASE ~FcFastMatches(b, j)
  <2>1. k = [j EXCEPT !.pc = FcSlow, !.max = 0]
    BY <1>3, <1>9
  <2> HIDE DEF j, b
  <2>2. /\ k \in FcCycleType /\ k.pc \in {"files", "read"} /\ k.staged = j.staged /\ k.window = j.window
        /\ k.files = j.files /\ k.stat = j.stat /\ k.scan = j.scan /\ k.max = 0 /\ k.base = j.base
        /\ k.run = j.run
    BY <1>1, <1>6, <2>1 DEF FcCycleType, FcPcs
  <2>3. FcFastSaw(k)
    BY <2>2 DEF FcFastSaw
  <2>4. k.pc \in FcCheckingPcs /\ k.pc # "decide" /\ j.pc \in FcCheckingPcs
    BY <1>2, <2>2 DEF FcCheckingPcs
  <2>5. /\ FcDataAt(fcLoad, fcNow, fcMoved, fcDisk, k.base)
        /\ FcEntriesAt(fcLoad, fcNow, fcMoved, fcDisk, k.files)
        /\ DOMAIN k.files \subseteq k.scan /\ k.max <= fcNow /\ DOMAIN k.files = {}
        /\ \A f \in DOMAIN k.stat : k.stat[f] \in 1 .. fcNow
        /\ FcTrusted(fcLoad, fcMoved) => \A f \in DOMAIN k.files : k.files[f].hash \in k.window[f]
    BY <1>1, <1>2, <2>2, <2>4 DEF FcLocalsAt
  <2>6. FcUsable(k.base) /\ FcTrusted(fcLoad, fcMoved) =>
          \E w \in fcCovered : FcHashed(k.base.files, w)
    BY <1>1, <2>2 DEF FcCycleOK
  <2>7. FcStepOK(c, k)
    BY <1>2, <2>2, <2>3, <2>4, <2>5, <2>6, FcMovesOn DEF j
  <2> QED BY <1>1, <1>3, <1>4, <2>2, <2>7, FcLocalStep
<1> QED BY <1>8, <1>9

\* One more entry of a snapshot.
LEMMA FcEntriesMore ==
    ASSUME NEW load, NEW now, NEW moved, NEW disk, NEW g \in FcEntries, NEW f \in FcName,
           NEW e \in FcEntry,
           FcEntriesAt(load, now, moved, disk, g), e.mtime <= now,
           load.kind = "two_layer" =>
               e.mtime > 0 /\ (~moved /\ e.mtime = disk[f].mtime => e.hash = disk[f].content)
    PROVE  FcEntriesAt(load, now, moved, disk, FcWith(g, f, e))
<1>1. /\ DOMAIN FcWith(g, f, e) = DOMAIN g \cup {f} /\ FcWith(g, f, e)[f] = e
      /\ \A x \in DOMAIN g \ {f} : FcWith(g, f, e)[x] = g[x]
  BY FcEntriesWith
<1> QED BY <1>1 DEF FcEntriesAt

\* A check that finds a file gone ends with an error.
LEMMA FcGoneStep ==
    ASSUME FcInv, FcOwnMarks, NEW c \in FcCycle, FcChecking(c), FcStep(c, FcIdle), FcLocal
    PROVE  FcInv'
<1>1. c \in fcLoad.cycles /\ fcCalls \in Nat /\ fcCalls <= fcLoad.calls
  BY FcOfCycle DEF FcChecking, FcCycleOK
<1>2. FcIdle.pc = "idle"
  BY DEF FcIdle
<1> QED BY <1>1, <1>2, FcIdleOK, FcLocalStep DEF FcLocal, FcInputsKept

\* Reading the mtime of an input keeps the invariant.
LEMMA FcStatStep ==
    ASSUME FcInv, FcOwnMarks, NEW c \in FcCycle, NEW f \in FcName, FcStat(c, f) PROVE FcInv'
<1> DEFINE j == fcCheck[c]
           reused == /\ FcUsable(j.base) /\ f \in DOMAIN j.base.files
                     /\ j.base.files[f].mtime = fcDisk[f].mtime
           k == [j EXCEPT !.stat = FcWith(@, f, fcDisk[f].mtime),
                          !.files = IF reused THEN FcWith(@, f, j.base.files[f]) ELSE @]
<1>1. /\ j \in FcCycleType /\ FcLocalsAt(fcLoad, fcNow, fcMoved, fcDisk, j) /\ FcCycleOK(c, j)
      /\ fcNow \in Nat \ {0} /\ fcCalls \in Nat /\ fcCalls <= fcLoad.calls
      /\ fcDisk \in [FcName -> [mtime : Nat, content : FcContent \cup {FcNone}]] /\ FcDiskOK
  BY FcOfCycle
<1>2. /\ j.pc = "files" /\ FcChecking(c) /\ fcLoad.kind = "two_layer" /\ f \in j.scan /\ FcLocal
      /\ FcStep(c, IF fcDisk[f] = FcAbsent THEN FcIdle ELSE k)
  BY DEF FcStat, FcAt, FcChecking
<1>3. CASE fcDisk[f] = FcAbsent
  BY <1>2, <1>3, FcGoneStep
<1>4. CASE fcDisk[f] # FcAbsent
  <2>1. FcStep(c, k)
    BY <1>2, <1>4
  <2>2. fcDisk[f].mtime \in 1 .. fcNow /\ fcDisk[f].mtime \in Nat
    BY <1>1, <1>4 DEF FcDiskOK
  <2>3. /\ FcWith(j.stat, f, fcDisk[f].mtime) \in FcStats
        /\ DOMAIN FcWith(j.stat, f, fcDisk[f].mtime) = DOMAIN j.stat \cup {f}
        /\ FcWith(j.stat, f, fcDisk[f].mtime)[f] = fcDisk[f].mtime
        /\ \A x \in DOMAIN j.stat \ {f} : FcWith(j.stat, f, fcDisk[f].mtime)[x] = j.stat[x]
    <3>1. j.stat \in FcStats
      BY <1>1 DEF FcCycleType
    <3> QED BY <2>2, <3>1, FcStatsWith
  <2>4. PICK g : /\ g = IF reused THEN FcWith(j.files, f, j.base.files[f]) ELSE j.files
                 /\ k = [j EXCEPT !.stat = FcWith(j.stat, f, fcDisk[f].mtime), !.files = g]
    BY <1>1 DEF FcCycleType
  <2>5. j.files \in FcEntries /\ DOMAIN j.files \subseteq j.scan
        /\ FcEntriesAt(fcLoad, fcNow, fcMoved, fcDisk, j.files)
        /\ (FcTrusted(fcLoad, fcMoved) => \A x \in DOMAIN j.files : j.files[x].hash \in j.window[x])
        /\ \A x \in FcName : fcDisk[x].content \in j.window[x]
    BY <1>1, <1>2 DEF FcCycleType, FcLocalsAt, FcCheckingPcs
  <2>6. /\ g \in FcEntries /\ DOMAIN g \subseteq j.scan
        /\ FcEntriesAt(fcLoad, fcNow, fcMoved, fcDisk, g)
        /\ FcTrusted(fcLoad, fcMoved) => \A x \in DOMAIN g : g[x].hash \in j.window[x]
    <3>1. CASE ~reused
      BY <2>4, <2>5, <3>1
    <3>2. CASE reused
      <4> DEFINE e == j.base.files[f]
      <4>1. j.base \in FcData /\ j.base # FcNone /\ f \in DOMAIN j.base.files
        BY <1>1, <3>2 DEF FcUsable, FcCycleType
      <4>2. e \in FcEntry
        BY <4>1, FcEntriesGet DEF FcData
      <4>3. /\ e.mtime <= fcNow /\ e.mtime > 0 /\ e.mtime = fcDisk[f].mtime
            /\ ~fcMoved => e.hash = fcDisk[f].content
        BY <1>1, <1>2, <3>2, <4>1 DEF FcLocalsAt, FcDataAt, FcEntriesAt
      <4> HIDE DEF e
      <4>4. g = FcWith(j.files, f, e)
        BY <2>4, <3>2 DEF e
      <4>5. /\ g \in FcEntries /\ DOMAIN g = DOMAIN j.files \cup {f} /\ g[f] = e
            /\ \A x \in DOMAIN j.files \ {f} : g[x] = j.files[x]
        <5>1. /\ FcWith(j.files, f, e) \in FcEntries
              /\ DOMAIN FcWith(j.files, f, e) = DOMAIN j.files \cup {f}
              /\ FcWith(j.files, f, e)[f] = e
              /\ \A x \in DOMAIN j.files \ {f} : FcWith(j.files, f, e)[x] = j.files[x]
          BY <2>5, <4>2, FcEntriesWith
        <5> QED BY <4>4, <5>1
      <4>6. FcEntriesAt(fcLoad, fcNow, fcMoved, fcDisk, g)
        BY <2>5, <4>2, <4>3, <4>4, FcEntriesMore
      <4>7. FcTrusted(fcLoad, fcMoved) => g[f].hash \in j.window[f]
        BY <1>2, <2>5, <4>3, <4>5 DEF FcTrusted
      <4> QED BY <1>2, <2>5, <4>5, <4>6, <4>7
    <3> QED BY <3>1, <3>2
  <2> HIDE DEF j, k
  <2>7. /\ k \in FcCycleType /\ k.pc = "files" /\ k.base = j.base
        /\ k.scan = j.scan /\ k.window = j.window /\ k.staged = j.staged /\ k.run = j.run
        /\ k.files = g /\ k.stat = FcWith(j.stat, f, fcDisk[f].mtime) /\ k.max = j.max
    BY <1>1, <1>2, <2>3, <2>4, <2>6 DEF FcCycleType, FcPcs
  <2>8. \A x \in DOMAIN k.stat : k.stat[x] \in 1 .. fcNow
    BY <1>1, <2>2, <2>3, <2>7 DEF FcLocalsAt
  <2>9. FcStepOK(c, k)
    <3>1. k.pc \in FcCheckingPcs /\ k.pc # "decide" /\ FcFastSaw(k)
      BY <2>7 DEF FcCheckingPcs, FcFastSaw
    <3>2. FcDataAt(fcLoad, fcNow, fcMoved, fcDisk, k.base) /\ k.max <= fcNow
      BY <1>1, <2>7 DEF FcLocalsAt
    <3>3. FcUsable(k.base) /\ FcTrusted(fcLoad, fcMoved) =>
            \E w \in fcCovered : FcHashed(k.base.files, w)
      BY <1>1, <2>7 DEF FcCycleOK
    <3> QED BY <1>2, <2>6, <2>7, <2>8, <3>1, <3>2, <3>3, FcMovesOn DEF j
  <2> QED BY <1>1, <1>2, <2>1, <2>7, <2>9, FcLocalStep DEF FcLocal, FcInputsKept
<1> QED BY <1>3, <1>4

\* Hashing an input keeps the invariant.
LEMMA FcHashStep ==
    ASSUME FcInv, FcOwnMarks, NEW c \in FcCycle, NEW f \in FcName, FcHash(c, f) PROVE FcInv'
<1> DEFINE j == fcCheck[c]
           m == IF fcLoad.kind = "two_layer" THEN j.stat[f] ELSE 0
           e == [mtime |-> m, hash |-> fcDisk[f].content]
           g == FcWith(j.files, f, e)
           k == [j EXCEPT !.files = FcWith(@, f, e)]
<1>1. /\ j \in FcCycleType /\ FcLocalsAt(fcLoad, fcNow, fcMoved, fcDisk, j) /\ FcCycleOK(c, j)
      /\ fcNow \in Nat \ {0} /\ fcCalls \in Nat /\ fcCalls <= fcLoad.calls
      /\ fcDisk \in [FcName -> [mtime : Nat, content : FcContent \cup {FcNone}]] /\ FcDiskOK
  BY FcOfCycle
<1>2. /\ j.pc = "files" /\ FcChecking(c) /\ f \in j.scan /\ FcLocal
      /\ fcLoad.kind = "two_layer" => f \in DOMAIN j.stat
      /\ FcStep(c, IF fcDisk[f] = FcAbsent THEN FcIdle ELSE k)
  BY DEF FcHash, FcAt, FcChecking
<1>3. CASE fcDisk[f] = FcAbsent
  BY <1>2, <1>3, FcGoneStep
<1>4. CASE fcDisk[f] # FcAbsent
  <2>1. FcStep(c, k)
    BY <1>2, <1>4
  <2>2. fcDisk[f].content \in FcContent
    BY <1>1, <1>4 DEF FcDiskOK
  <2>3. m \in Nat /\ m <= fcNow /\ (fcLoad.kind = "two_layer" => m > 0)
    BY <1>1, <1>2 DEF FcLocalsAt
  <2>4. e \in FcEntry /\ e.mtime = m /\ e.hash = fcDisk[f].content
    BY <2>2, <2>3 DEF FcEntry
  <2>5. j.files \in FcEntries /\ DOMAIN j.files \subseteq j.scan
        /\ FcEntriesAt(fcLoad, fcNow, fcMoved, fcDisk, j.files)
        /\ (FcTrusted(fcLoad, fcMoved) => \A x \in DOMAIN j.files : j.files[x].hash \in j.window[x])
        /\ \A x \in FcName : fcDisk[x].content \in j.window[x]
    BY <1>1, <1>2 DEF FcCycleType, FcLocalsAt, FcCheckingPcs
  <2> HIDE DEF e, m
  <2>6. /\ g \in FcEntries /\ DOMAIN g = DOMAIN j.files \cup {f} /\ g[f] = e
        /\ \A x \in DOMAIN j.files \ {f} : g[x] = j.files[x]
    BY <2>4, <2>5, FcEntriesWith
  <2>7. FcEntriesAt(fcLoad, fcNow, fcMoved, fcDisk, g)
    BY <2>3, <2>4, <2>5, FcEntriesMore
  <2>8. k = [j EXCEPT !.files = g]
    BY <1>1 DEF FcCycleType
  <2> HIDE DEF j, k, g
  <2>9. FcTrusted(fcLoad, fcMoved) => \A x \in DOMAIN g : g[x].hash \in j.window[x]
    BY <2>4, <2>5, <2>6
  <2>10. /\ k \in FcCycleType /\ k.pc = "files" /\ k.base = j.base
         /\ k.scan = j.scan /\ k.window = j.window /\ k.staged = j.staged /\ k.run = j.run
         /\ k.files = g /\ k.stat = j.stat /\ k.max = j.max
    BY <1>1, <1>2, <2>6, <2>8 DEF FcCycleType, FcPcs
  <2>11. FcStepOK(c, k)
    <3>1. k.pc \in FcCheckingPcs /\ k.pc # "decide" /\ FcFastSaw(k)
      BY <2>10 DEF FcCheckingPcs, FcFastSaw
    <3>2. /\ FcDataAt(fcLoad, fcNow, fcMoved, fcDisk, k.base) /\ k.max <= fcNow
          /\ \A x \in DOMAIN k.stat : k.stat[x] \in 1 .. fcNow
      BY <1>1, <2>10 DEF FcLocalsAt
    <3>3. FcUsable(k.base) /\ FcTrusted(fcLoad, fcMoved) =>
            \E w \in fcCovered : FcHashed(k.base.files, w)
      BY <1>1, <2>10 DEF FcCycleOK
    <3>4. DOMAIN k.files \subseteq k.scan
      BY <1>2, <2>5, <2>6, <2>10
    <3> QED BY <1>2, <2>7, <2>9, <2>10, <3>1, <3>2, <3>3, <3>4, FcMovesOn DEF j
  <2> QED BY <1>1, <1>2, <2>1, <2>10, <2>11, FcLocalStep DEF FcLocal, FcInputsKept
<1> QED BY <1>3, <1>4

\* Reading the newest mtime keeps the invariant.
LEMMA FcMaxStep ==
    ASSUME FcInv, FcOwnMarks, NEW c \in FcCycle, FcMax(c) PROVE FcInv'
<1> DEFINE j == fcCheck[c]
           S == {0} \cup {j.files[f].mtime : f \in j.scan}
<1>1. /\ j \in FcCycleType /\ FcLocalsAt(fcLoad, fcNow, fcMoved, fcDisk, j) /\ FcCycleOK(c, j)
      /\ fcNow \in Nat \ {0} /\ fcCalls \in Nat /\ fcCalls <= fcLoad.calls
  BY FcOfCycle
<1>2. j.pc = "files" /\ FcChecking(c) /\ DOMAIN j.files = j.scan /\ FcLocal
  BY DEF FcMax, FcAt, FcChecking
<1>3. PICK m : /\ \/ m = Max(S) \/ m = FcMaxMtime(j.scan) \/ m = 0
               /\ FcStep(c, [j EXCEPT !.pc = "decide", !.max = m, !.stat = <<>>])
  BY DEF FcMax
<1>4. m \in Nat /\ m <= fcNow
  <2>1. Max(S) \in Nat /\ Max(S) <= fcNow
    <3>1. ASSUME NEW f \in j.scan PROVE j.files[f].mtime \in 0 .. fcNow
      <4>1. j.files[f] \in FcEntry
        BY <1>1, <1>2, FcEntriesGet DEF FcCycleType
      <4>2. j.files[f].mtime \in Nat
        BY <4>1 DEF FcEntry
      <4> QED BY <1>1, <1>2, <4>2 DEF FcLocalsAt, FcEntriesAt
    <3>2. S \in SUBSET (0 .. fcNow) /\ S # {}
      BY <1>1, <3>1
    <3>3. Max(S) \in S
      <4>0. IsFiniteSet(0 .. fcNow)
        BY <1>1, FS_Interval
      <4>1. IsFiniteSet(S)
        BY <3>2, <4>0, FS_Subset
      <4>2. S \in SUBSET Nat
        BY <1>1, <3>2
      <4> QED BY <3>2, <4>1, <4>2, FcMaxOf
    <3> HIDE DEF S
    <3>4. Max(S) \in 0 .. fcNow
      BY <3>2, <3>3
    <3> QED BY <1>1, <3>4
  <2>2. FcMaxMtime(j.scan) \in Nat /\ FcMaxMtime(j.scan) <= fcNow
    BY <1>1, FcMaxMtimeOK DEF FcCycleType, FcInv
  <2> QED BY <1>1, <1>3, <2>1, <2>2
<1> DEFINE k == [j EXCEPT !.pc = "decide", !.max = m, !.stat = <<>>]
<1> HIDE DEF j
<1>5. /\ k \in FcCycleType /\ k.pc = "decide" /\ k.base = j.base
      /\ k.scan = j.scan /\ k.window = j.window /\ k.staged = j.staged /\ k.run = j.run
      /\ k.files = j.files /\ k.stat = <<>> /\ k.max = m
  BY <1>1, <1>4, FcEmptyMaps DEF FcCycleType, FcPcs
<1>6. FcStep(c, k)
  BY <1>3
<1> HIDE DEF k
<1>7. FcStepOK(c, k)
  <2>1. k.pc \in FcCheckingPcs /\ FcFastSaw(k) /\ k.pc \notin {"fast", "fast_read", "read"}
    BY <1>5 DEF FcCheckingPcs, FcFastSaw
  <2>2. /\ FcDataAt(fcLoad, fcNow, fcMoved, fcDisk, k.base) /\ k.max <= fcNow
        /\ FcEntriesAt(fcLoad, fcNow, fcMoved, fcDisk, k.files)
        /\ FcTrusted(fcLoad, fcMoved) => \A f \in DOMAIN k.files : k.files[f].hash \in k.window[f]
    BY <1>1, <1>2, <1>4, <1>5 DEF FcLocalsAt, FcCheckingPcs
  <2>3. FcUsable(k.base) /\ FcTrusted(fcLoad, fcMoved) =>
          \E w \in fcCovered : FcHashed(k.base.files, w)
    BY <1>1, <1>5 DEF FcCycleOK
  <2>4. DOMAIN k.files = k.scan /\ DOMAIN k.stat = {}
    BY <1>2, <1>5, FcEmptyMaps
  <2> QED BY <1>2, <1>5, <2>1, <2>2, <2>3, <2>4, FcMovesOn DEF j
<1> QED BY <1>1, <1>2, <1>5, <1>6, <1>7, FcLocalStep DEF FcLocal, FcInputsKept

\* A check that is over: what it took is sound with what it saw.
LEMMA FcDecideSound ==
    ASSUME FcInv, NEW c \in FcCycle, FcAt(c, "decide"),
           NEW d, d.files = fcCheck[c].files, d.max = fcCheck[c].max
    PROVE  FcSound(d, fcCheck[c].window)
<1> DEFINE j == fcCheck[c]
<1>1. j \in FcCycleType /\ FcLocalsAt(fcLoad, fcNow, fcMoved, fcDisk, j) /\ j.pc = "decide"
  BY FcOfCycle DEF FcAt
<1>2. /\ \A f \in FcName : fcDisk[f].content \in j.window[f]
      /\ \A f \in FcName \ j.scan : FcNone \in j.window[f]
      /\ FcTrusted(fcLoad, fcMoved) => \A f \in DOMAIN j.files : j.files[f].hash \in j.window[f]
      /\ DOMAIN j.files = j.scan
  BY <1>1 DEF FcLocalsAt, FcCheckingPcs
<1>3. FcTrusted(fcLoad, fcMoved) => FcHashed(d.files, j.window)
  BY <1>2 DEF FcHashed
<1>4. ASSUME NEW b \in FcCycle, fcCheck[b].pc = "fast_read"
      PROVE  FcFastMeets(fcCheck[b], d.max, j.window)
  <2>1. FcLocalsAt(fcLoad, fcNow, fcMoved, fcDisk, fcCheck[b])
    BY FcOfCycle
  <2>2. \A f \in FcName : fcDisk[f].content \in fcCheck[b].window[f]
    BY <1>4, <2>1 DEF FcLocalsAt, FcCheckingPcs
  <2>3. FcOverlap(j.window, fcCheck[b].window)
    BY <1>2, <2>2 DEF FcOverlap
  <2> QED BY <2>3 DEF FcFastMeets
<1> QED BY <1>2, <1>3, <1>4 DEF FcSound, FcSoundAt

\* The verdict of the slow path keeps the invariant.
LEMMA FcDecideStep ==
    ASSUME FcInv, FcOwnMarks, NEW c \in FcCycle, FcDecide(c) PROVE FcInv'
<1> DEFINE j == fcCheck[c]
<1>1. /\ j \in FcCycleType /\ FcLocalsAt(fcLoad, fcNow, fcMoved, fcDisk, j) /\ FcCycleOK(c, j)
      /\ fcNow \in Nat \ {0} /\ fcCalls \in Nat /\ fcCalls <= fcLoad.calls
  BY FcOfCycle
<1>2. j.pc = "decide" /\ FcAt(c, "decide")
  BY DEF FcDecide, FcAt
<1>3. PICK b : (b = j.base \/ b = FcRead("cache")) /\ FcStep(c, FcDecided(j, b))
  BY DEF FcDecide
<1>4. /\ UNCHANGED <<fcLoad, fcDisk, fcNow, fcMoved, fcFiles, fcCovered, fcCalls>>
      /\ UNCHANGED fcLock \/ FcShared
  BY DEF FcDecide, FcLocal, FcReading, FcInputsKept
<1>5. FcUsable(b) /\ FcTrusted(fcLoad, fcMoved) => \E w \in fcCovered : FcHashed(b.files, w)
  <2>1. CASE b = j.base
    BY <1>1, <2>1 DEF FcCycleOK
  <2>2. CASE b = FcRead("cache")
    <3> SUFFICES ASSUME FcUsable(b), FcTrusted(fcLoad, fcMoved)
                 PROVE  \E w \in fcCovered : FcHashed(b.files, w)
      OBVIOUS
    <3>1. fcFiles["cache"] # FcNone /\ b = fcFiles["cache"].data
      BY <2>2 DEF FcRead, FcUsable
    <3>2. b \in FcData
      BY <3>1 DEF FcInv, FcTypes, FcPath
    <3>3. b.status = "success"
      BY <3>1, <3>2 DEF FcInv, FcFilesOK, FcUsable, FcData, FcStatus
    <3>4. \E w \in fcCovered : FcSound(b, w)
      BY <3>1, <3>3 DEF FcInv, FcFilesOK
    <3> QED BY <3>4 DEF FcSound, FcSoundAt
  <2> QED BY <1>3, <2>1, <2>2
<1>6. PICK r \in BOOLEAN : r = ~(FcUsable(b) /\ FcHashes(b.files) = FcHashes(j.files))
  OBVIOUS
<1>7. FcDecided(j, b) = [j EXCEPT !.pc = "stage", !.base = FcNone, !.run = r]
  BY <1>6 DEF FcDecided
<1> DEFINE k == [j EXCEPT !.pc = "stage", !.base = FcNone, !.run = r]
<1>8. FcStep(c, k)
  BY <1>3, <1>7
<1>9. FcSound(k, j.window)
  <2>1. k.files = j.files /\ k.max = j.max
    BY <1>1 DEF FcCycleType
  <2> HIDE DEF k
  <2> QED BY <1>2, <2>1, FcDecideSound
<1> HIDE DEF j
<1>10. /\ k \in FcCycleType /\ k.pc = "stage" /\ k.base = FcNone
       /\ k.scan = j.scan /\ k.window = j.window /\ k.staged = j.staged /\ k.run = r
       /\ k.files = j.files /\ k.stat = j.stat /\ k.max = j.max
  BY <1>1, <1>6 DEF FcCycleType, FcPcs
<1> HIDE DEF k
<1>11. ~k.run /\ ~fcMoved => \E w \in fcCovered : FcMeets(k.window, w)
  <2> SUFFICES ASSUME ~k.run, ~fcMoved PROVE \E w \in fcCovered : FcMeets(k.window, w)
    OBVIOUS
  <2>1. FcUsable(b) /\ FcHashes(b.files) = FcHashes(j.files)
    BY <1>6, <1>10
  <2>2. PICK w \in fcCovered : FcHashed(b.files, w)
    BY <1>5, <2>1 DEF FcTrusted
  <2>3. DOMAIN b.files = DOMAIN j.files /\ \A f \in DOMAIN j.files : b.files[f].hash = j.files[f].hash
    <3>1. DOMAIN FcHashes(b.files) = DOMAIN b.files /\ DOMAIN FcHashes(j.files) = DOMAIN j.files
      BY DEF FcHashes
    <3>2. /\ \A f \in DOMAIN b.files : FcHashes(b.files)[f] = b.files[f].hash
          /\ \A f \in DOMAIN j.files : FcHashes(j.files)[f] = j.files[f].hash
      BY DEF FcHashes
    <3> QED BY <2>1, <3>1, <3>2
  <2>4. FcHashed(j.files, j.window)
    BY <1>9, <1>10 DEF FcSound, FcSoundAt, FcTrusted
  <2>5. \A f \in FcName : w[f] \cap j.window[f] # {}
    BY <2>2, <2>3, <2>4 DEF FcHashed
  <2>6. FcMeets(j.window, w)
    BY <2>5 DEF FcMeets
  <2> QED BY <1>10, <2>2, <2>6
<1>12. FcLocalsAt(fcLoad, fcNow, fcMoved, fcDisk, k)
  <2>1. FcDataAt(fcLoad, fcNow, fcMoved, fcDisk, FcNone)
    BY DEF FcDataAt
  <2> QED BY <1>1, <1>10, <2>1 DEF FcLocalsAt, FcCheckingPcs
<1>13. FcStepOK(c, k)
  <2>1. c \in fcLoad.cycles
    BY <1>1, <1>2 DEF FcCycleOK
  <2>2. ~FcUsable(k.base) /\ FcFastSaw(k)
    BY <1>10 DEF FcUsable, FcFastSaw
  <2> QED BY <1>9, <1>10, <1>11, <1>12, <2>1, <2>2 DEF FcStepOK
<1> QED BY <1>1, <1>4, <1>8, <1>10, <1>13, FcLocalStep

-----------------------------------------------------------------------------
(* Staging and committing *)

\* What the files hold after a step that leaves the inputs alone.
FcFilesNext ==
    /\ fcFiles' \in [FcPath -> FcFileSet]
    /\ \A p \in FcPath : fcFiles'[p] # FcNone =>
         /\ FcDataAt(fcLoad, fcNow, fcMoved, fcDisk, fcFiles'[p].data)
         /\ fcFiles'[p].time <= fcNow
    /\ \A p \in {"cache", "cache_tmp"} : fcFiles'[p] # FcNone =>
         /\ fcFiles'[p].data.status # "pending"
         /\ fcFiles'[p].data.status = "success" => \E w \in fcCovered : FcSound(fcFiles'[p].data, w)

\* What the invariant says of the files, in one place.
LEMMA FcFilesNow ==
    ASSUME FcInv
    PROVE  /\ fcFiles \in [FcPath -> FcFileSet]
           /\ \A p \in FcPath : fcFiles[p] # FcNone =>
                /\ FcDataAt(fcLoad, fcNow, fcMoved, fcDisk, fcFiles[p].data)
                /\ fcFiles[p].time <= fcNow
           /\ \A p \in {"cache", "cache_tmp"} : fcFiles[p] # FcNone =>
                /\ fcFiles[p].data.status # "pending"
                /\ fcFiles[p].data.status = "success" => \E w \in fcCovered : FcSound(fcFiles[p].data, w)
BY DEF FcInv, FcTypes, FcFilesOK, FcFileSet

\* One file is written or removed.
LEMMA FcPutOK ==
    ASSUME FcInv, NEW p \in FcPath, NEW v \in FcFileSet, FcPut(p, v),
           v # FcNone =>
               FcDataAt(fcLoad, fcNow, fcMoved, fcDisk, v.data) /\ v.time <= fcNow,
           v # FcNone /\ p \in {"cache", "cache_tmp"} =>
               /\ v.data.status # "pending"
               /\ v.data.status = "success" => \E w \in fcCovered : FcSound(v.data, w)
    PROVE  FcFilesNext
<1>1. fcFiles' = [fcFiles EXCEPT ![p] = v] /\ fcFiles \in [FcPath -> FcFileSet]
  BY FcFilesNow DEF FcPut
<1>2. fcFiles' \in [FcPath -> FcFileSet] /\ \A q \in FcPath :
        fcFiles'[q] = IF q = p THEN v ELSE fcFiles[q]
  BY <1>1
<1>3. {"cache", "cache_tmp"} \subseteq FcPath
  BY DEF FcPath
<1> QED BY <1>2, <1>3, FcFilesNow DEF FcFilesNext

\* Files are removed or moved to where their contents are as good.
LEMMA FcRearranged ==
    ASSUME FcInv, fcFiles' \in [FcPath -> FcFileSet],
           \A p \in {"pending", "pending_tmp"} :
               fcFiles'[p] = FcNone \/ \E q \in FcPath : fcFiles'[p] = fcFiles[q],
           \A p \in {"cache", "cache_tmp"} :
               fcFiles'[p] = FcNone \/ \E q \in {"cache", "cache_tmp"} : fcFiles'[p] = fcFiles[q]
    PROVE  FcFilesNext
<1>1. FcPath = {"pending", "pending_tmp"} \cup {"cache", "cache_tmp"}
  BY DEF FcPath
<1>2. \A p \in FcPath : fcFiles'[p] = FcNone \/ \E q \in FcPath : fcFiles'[p] = fcFiles[q]
  BY <1>1
<1>3. \A p \in FcPath : fcFiles'[p] # FcNone =>
        /\ FcDataAt(fcLoad, fcNow, fcMoved, fcDisk, fcFiles'[p].data)
        /\ fcFiles'[p].time <= fcNow
  BY <1>2, FcFilesNow
<1>4. ASSUME NEW p \in {"cache", "cache_tmp"}, fcFiles'[p] # FcNone
      PROVE  /\ fcFiles'[p].data.status # "pending"
             /\ fcFiles'[p].data.status = "success" => \E w \in fcCovered : FcSound(fcFiles'[p].data, w)
  <2>1. PICK q \in {"cache", "cache_tmp"} : fcFiles'[p] = fcFiles[q]
    BY <1>4
  <2>2. fcFiles[q] # FcNone
    BY <1>4, <2>1
  <2>3. /\ fcFiles[q].data.status # "pending"
        /\ fcFiles[q].data.status = "success" => \E w \in fcCovered : FcSound(fcFiles[q].data, w)
    BY <2>2, FcFilesNow
  <2> QED BY <2>1, <2>3
<1> QED BY <1>3, <1>4 DEF FcFilesNext

\* The steps of a cycle that touch the files.
LEMMA FcFileStep ==
    ASSUME FcInv, FcOwnMarks, NEW c \in FcCycle, NEW k, FcStepOK(c, k), FcStep(c, k),
           UNCHANGED <<fcLoad, fcDisk, fcNow, fcMoved>>,
           fcCalls' \in Nat /\ fcCalls' <= fcLoad.calls,
           UNCHANGED fcLock \/ FcShared \/ FcExclusive(c) \/ FcUnlock(c),
           fcCovered \subseteq fcCovered', fcCovered' \subseteq FcWindows,
           FcFilesNext,
           k.pc = "answered" /\ k.run =>
               /\ k.staged # FcNone => FcSound(k.staged, k.window)
               /\ ~fcLoad.cli => k.staged # FcNone
               /\ fcLoad.cli /\ fcFiles'["pending"] # FcNone =>
                    FcSound(fcFiles'["pending"].data, k.window),
           fcLoad.cli /\ k.pc \in {"stage_remove", "stage_rename"} /\ fcFiles'["pending_tmp"] # FcNone =>
               /\ fcFiles'["pending_tmp"].data.files = k.files
               /\ fcFiles'["pending_tmp"].data.max = k.max,
           k.pc = "commit" =>
               k.staged # FcNone /\ (k.run => \E w \in fcCovered' : FcSound(k.staged, w))
    PROVE  FcInv'
<1>1. FcTypes
  BY DEF FcInv
<1>2. /\ fcLock' \in [holder : FcCycle \cup {FcNone}, timeouts : Nat]
      /\ fcLock'.timeouts <= fcLoad.timeouts
  BY <1>1, FcLockStep
<1> QED BY <1>2, FcCycleStep DEF FcFilesNext, FcStep

\* The locals but for the step of a cycle that does not check: they stay good.
LEMMA FcSameLocals ==
    ASSUME FcInv, NEW c \in FcCycle, NEW k \in FcCycleType, k.pc \notin FcCheckingPcs,
           fcCheck[c].pc # "idle",
           k.scan = fcCheck[c].scan, k.files = fcCheck[c].files, k.max = fcCheck[c].max,
           k.stat = fcCheck[c].stat, k.base = fcCheck[c].base,
           FcDataAt(fcLoad, fcNow, fcMoved, fcDisk, k.staged),
           k.pc \in FcStagingPcs => FcSound(k, k.window),
           k.pc \in FcStagingPcs \cup {"answered"} /\ ~k.run /\ ~fcMoved =>
               \E w \in fcCovered : FcMeets(k.window, w)
    PROVE  FcStepOK(c, k)
<1> DEFINE j == fcCheck[c]
<1>1. FcLocalsAt(fcLoad, fcNow, fcMoved, fcDisk, j) /\ FcCycleOK(c, j) /\ j.pc # "idle"
  BY FcOfCycle
<1>2. c \in fcLoad.cycles
  BY <1>1 DEF FcCycleOK
<1>3. FcLocalsAt(fcLoad, fcNow, fcMoved, fcDisk, k)
  BY <1>1 DEF FcLocalsAt, FcCheckingPcs
<1>4. FcFastSaw(k)
  BY DEF FcFastSaw, FcCheckingPcs
<1>5. FcUsable(k.base) /\ FcTrusted(fcLoad, fcMoved) =>
        \E w \in fcCovered : FcHashed(k.base.files, w)
  BY <1>1 DEF FcCycleOK
<1> QED BY <1>2, <1>3, <1>4, <1>5 DEF FcStepOK

\* The snapshot a cycle stages.
LEMMA FcSnapshotOK ==
    ASSUME FcInv, NEW c \in FcCycle, fcCheck[c].pc \in FcStagingPcs
    PROVE  /\ FcSnapshot(c) \in FcData /\ FcSnapshot(c) # FcNone
           /\ FcSnapshot(c).files = fcCheck[c].files /\ FcSnapshot(c).max = fcCheck[c].max
           /\ FcSnapshot(c).status = "pending"
           /\ FcDataAt(fcLoad, fcNow, fcMoved, fcDisk, FcSnapshot(c))
           /\ FcSound(FcSnapshot(c), fcCheck[c].window)
<1> DEFINE j == fcCheck[c]
           s == FcSnapshot(c)
<1>1. /\ j \in FcCycleType /\ FcLocalsAt(fcLoad, fcNow, fcMoved, fcDisk, j) /\ FcCycleOK(c, j)
  BY FcOfCycle
<1>2. s \in FcData /\ s.files = j.files /\ s.max = j.max /\ s.status = "pending"
  BY <1>1 DEF FcSnapshot, FcData, FcStatus, FcCycleType
<1>3. s # FcNone
  BY <1>2, FcAssumption
<1> HIDE DEF s
<1>4. FcDataAt(fcLoad, fcNow, fcMoved, fcDisk, s)
  BY <1>1, <1>2 DEF FcLocalsAt, FcDataAt
<1>5. FcSound(j, j.window)
  BY <1>1 DEF FcCycleOK
<1>6. FcSound(s, j.window)
  BY <1>2, <1>5 DEF FcSound, FcSoundAt
<1> QED BY <1>2, <1>3, <1>4, <1>6 DEF s

\* Staging a snapshot keeps the invariant.
LEMMA FcStageStep ==
    ASSUME FcInv, FcOwnMarks, NEW c \in FcCycle, FcStage(c) PROVE FcInv'
<1> DEFINE j == fcCheck[c]
           k == [j EXCEPT !.pc = "stage_remove"]
           v == FcWritten(FcSnapshot(c))
<1>1. /\ j \in FcCycleType /\ FcLocalsAt(fcLoad, fcNow, fcMoved, fcDisk, j) /\ FcCycleOK(c, j)
      /\ fcNow \in Nat \ {0} /\ fcCalls \in Nat /\ fcCalls <= fcLoad.calls
  BY FcOfCycle
<1>2. /\ j.pc = "stage" /\ j.pc \in FcStagingPcs /\ FcExclusive(c) /\ FcStep(c, k)
      /\ FcPut("pending_tmp", v)
      /\ UNCHANGED <<fcLoad, fcDisk, fcNow, fcMoved, fcCovered, fcCalls>>
  BY DEF FcStage, FcAt, FcStagingPcs, FcInputsKept
<1>3. /\ FcSnapshot(c) \in FcData /\ FcSnapshot(c).files = j.files /\ FcSnapshot(c).max = j.max
      /\ FcDataAt(fcLoad, fcNow, fcMoved, fcDisk, FcSnapshot(c))
  BY <1>2, FcSnapshotOK
<1>4. v \in FcFileSet /\ v.data = FcSnapshot(c) /\ v.time = fcNow
  <2> HIDE DEF FcSnapshot
  <2> QED BY <1>1, <1>3 DEF FcWritten, FcFileSet
<1> HIDE DEF v
<1>5. FcFilesNext
  <2>1. "pending_tmp" \in FcPath /\ "pending_tmp" \notin {"cache", "cache_tmp"}
    BY DEF FcPath
  <2> QED BY <1>1, <1>2, <1>3, <1>4, <2>1, FcPutOK
<1>6. fcFiles'["pending_tmp"] = v
  BY <1>2 DEF FcPut, FcInv, FcTypes, FcPath
<1> HIDE DEF j
<1>7. /\ k \in FcCycleType /\ k.pc = "stage_remove" /\ k.base = j.base
      /\ k.scan = j.scan /\ k.window = j.window /\ k.staged = j.staged /\ k.run = j.run
      /\ k.files = j.files /\ k.stat = j.stat /\ k.max = j.max
  BY <1>1 DEF FcCycleType, FcPcs
<1> HIDE DEF k
<1>8. FcStepOK(c, k)
  <2>1. k.pc \notin FcCheckingPcs /\ j.pc # "idle"
    BY <1>2, <1>7 DEF FcCheckingPcs
  <2>2. FcDataAt(fcLoad, fcNow, fcMoved, fcDisk, k.staged)
    BY <1>1, <1>7 DEF FcLocalsAt
  <2>3. FcSound(j, j.window) /\ (~j.run /\ ~fcMoved => \E w \in fcCovered : FcMeets(j.window, w))
    BY <1>1, <1>2 DEF FcCycleOK
  <2>4. FcSound(k, k.window)
    BY <1>7, <2>3 DEF FcSound, FcSoundAt
  <2> QED BY <1>7, <2>1, <2>2, <2>3, <2>4, FcSameLocals DEF j
<1>9. fcCovered' \subseteq FcWindows
  BY <1>2 DEF FcInv, FcTypes
<1> QED BY <1>1, <1>2, <1>3, <1>4, <1>5, <1>6, <1>7, <1>8, <1>9, FcFileStep

\* Removing the old .pending keeps the invariant.
LEMMA FcStageRemoveStep ==
    ASSUME FcInv, FcOwnMarks, NEW c \in FcCycle, FcStageRemove(c) PROVE FcInv'
<1> DEFINE j == fcCheck[c]
           k == [j EXCEPT !.pc = "stage_rename"]
<1>1. /\ j \in FcCycleType /\ FcLocalsAt(fcLoad, fcNow, fcMoved, fcDisk, j) /\ FcCycleOK(c, j)
      /\ fcCalls \in Nat /\ fcCalls <= fcLoad.calls
  BY FcOfCycle
<1>2. /\ j.pc = "stage_remove" /\ FcStep(c, k) /\ FcPut("pending", FcNone)
      /\ UNCHANGED <<fcLoad, fcDisk, fcNow, fcMoved, fcCovered, fcCalls, fcLock>>
  BY DEF FcStageRemove, FcAt, FcInputsKept
<1>3. FcFilesNext
  <2>1. "pending" \in FcPath /\ FcNone \in FcFileSet
    BY DEF FcPath, FcFileSet
  <2> QED BY <1>2, <2>1, FcPutOK
<1>4. fcFiles'["pending_tmp"] = fcFiles["pending_tmp"]
  BY <1>2 DEF FcPut, FcInv, FcTypes, FcPath
<1> HIDE DEF j
<1>5. /\ k \in FcCycleType /\ k.pc = "stage_rename" /\ k.base = j.base
      /\ k.scan = j.scan /\ k.window = j.window /\ k.staged = j.staged /\ k.run = j.run
      /\ k.files = j.files /\ k.stat = j.stat /\ k.max = j.max
  BY <1>1 DEF FcCycleType, FcPcs
<1> HIDE DEF k
<1>6. FcStepOK(c, k)
  <2>1. k.pc \notin FcCheckingPcs /\ j.pc # "idle" /\ j.pc \in FcStagingPcs
    BY <1>2, <1>5 DEF FcCheckingPcs, FcStagingPcs
  <2>2. FcDataAt(fcLoad, fcNow, fcMoved, fcDisk, k.staged)
    BY <1>1, <1>5 DEF FcLocalsAt
  <2>3. FcSound(j, j.window) /\ (~j.run /\ ~fcMoved => \E w \in fcCovered : FcMeets(j.window, w))
    BY <1>1, <2>1 DEF FcCycleOK
  <2>4. FcSound(k, k.window)
    BY <1>5, <2>3 DEF FcSound, FcSoundAt
  <2> QED BY <1>5, <2>1, <2>2, <2>3, <2>4, FcSameLocals DEF j
<1>7. fcCovered' \subseteq FcWindows
  BY <1>2 DEF FcInv, FcTypes
<1>8. fcLoad.cli /\ fcFiles'["pending_tmp"] # FcNone =>
        /\ fcFiles'["pending_tmp"].data.files = k.files
        /\ fcFiles'["pending_tmp"].data.max = k.max
  BY <1>1, <1>2, <1>4, <1>5 DEF FcCycleOK
<1> QED BY <1>1, <1>2, <1>3, <1>5, <1>6, <1>7, <1>8, FcFileStep

\* Moving a .tmp file into its place keeps what files hold.
LEMMA FcMoveOK ==
    ASSUME FcInv, NEW tmp, NEW target,
           \/ tmp = "pending_tmp" /\ target = "pending"
           \/ tmp = "cache_tmp" /\ target = "cache",
           FcMoveTmp(tmp, target)
    PROVE  FcFilesNext
<1>1. fcFiles \in [FcPath -> FcFileSet] /\ FcNone \in FcFileSet
  BY FcFilesNow DEF FcFileSet
<1>2. CASE fcFiles[tmp] = FcNone
  <2>1. fcFiles' = fcFiles
    BY <1>2 DEF FcMoveTmp
  <2> QED BY <1>1, <2>1, FcRearranged DEF FcPath
<1>3. CASE fcFiles[tmp] # FcNone
  <2>1. fcFiles' = [fcFiles EXCEPT ![target] = fcFiles[tmp], ![tmp] = FcNone]
    BY <1>3 DEF FcMoveTmp
  <2>2. tmp \in FcPath /\ target \in FcPath /\ tmp # target
    BY DEF FcPath
  <2>3. /\ fcFiles' \in [FcPath -> FcFileSet]
        /\ fcFiles'[target] = fcFiles[tmp] /\ fcFiles'[tmp] = FcNone
        /\ \A p \in FcPath \ {tmp, target} : fcFiles'[p] = fcFiles[p]
    BY <1>1, <2>1, <2>2
  <2>4. \A p \in {"pending", "pending_tmp"} :
          fcFiles'[p] = FcNone \/ \E q \in FcPath : fcFiles'[p] = fcFiles[q]
    BY <2>2, <2>3 DEF FcPath
  <2>5. \A p \in {"cache", "cache_tmp"} :
          fcFiles'[p] = FcNone \/ \E q \in {"cache", "cache_tmp"} : fcFiles'[p] = fcFiles[q]
    BY <2>2, <2>3 DEF FcPath
  <2> QED BY <2>3, <2>4, <2>5, FcRearranged
<1> QED BY <1>2, <1>3

\* A cycle ends, whatever became of the files.
LEMMA FcEndStep ==
    ASSUME FcInv, FcOwnMarks, NEW c \in FcCycle, fcCheck[c].pc # "idle", FcStep(c, FcIdle),
           FcFilesNext, FcInputsKept, UNCHANGED fcCovered,
           UNCHANGED fcLock \/ FcShared \/ FcExclusive(c) \/ FcUnlock(c)
    PROVE  FcInv'
<1>1. c \in fcLoad.cycles /\ fcCalls \in Nat /\ fcCalls <= fcLoad.calls
  BY FcOfCycle DEF FcCycleOK
<1>2. FcIdle.pc = "idle"
  BY DEF FcIdle
<1>3. fcCovered' \subseteq FcWindows
  BY DEF FcInv, FcTypes
<1> QED BY <1>1, <1>2, <1>3, FcIdleOK, FcFileStep DEF FcInputsKept

\* The rename that ends staging keeps the invariant.
LEMMA FcStageRenameStep ==
    ASSUME FcInv, FcOwnMarks, NEW c \in FcCycle, FcStageRename(c) PROVE FcInv'
<1> DEFINE j == fcCheck[c]
           s == FcSnapshot(c)
           k == [j EXCEPT !.pc = "answered", !.staged = s,
                          !.scan = {}, !.files = <<>>, !.max = 0]
<1>1. /\ j \in FcCycleType /\ FcLocalsAt(fcLoad, fcNow, fcMoved, fcDisk, j) /\ FcCycleOK(c, j)
      /\ fcNow \in Nat \ {0} /\ fcCalls \in Nat /\ fcCalls <= fcLoad.calls
  BY FcOfCycle
<1>2. /\ j.pc = "stage_rename" /\ j.pc \in FcStagingPcs /\ FcUnlock(c)
      /\ FcMoveTmp("pending_tmp", "pending")
      /\ FcStep(c, IF fcFiles["pending_tmp"] = FcNone THEN FcIdle ELSE k)
      /\ FcInputsKept /\ UNCHANGED fcCovered
  BY DEF FcStageRename, FcAt, FcStagingPcs
<1>3. FcFilesNext
  BY <1>2, FcMoveOK
<1>4. CASE fcFiles["pending_tmp"] = FcNone
  BY <1>2, <1>3, <1>4, FcEndStep
<1>5. CASE fcFiles["pending_tmp"] # FcNone
  <2>1. FcStep(c, k)
    BY <1>2, <1>5
  <2>2. fcFiles'["pending"] = fcFiles["pending_tmp"]
    BY <1>2, <1>5, FcFilesNow DEF FcMoveTmp, FcPath
  <2>3. /\ s \in FcData /\ s # FcNone /\ s.files = j.files /\ s.max = j.max
        /\ FcDataAt(fcLoad, fcNow, fcMoved, fcDisk, s) /\ FcSound(s, j.window)
    BY <1>2, FcSnapshotOK
  <2>4. fcLoad.cli /\ fcFiles'["pending"] # FcNone => FcSound(fcFiles'["pending"].data, j.window)
    <3> SUFFICES ASSUME fcLoad.cli PROVE FcSound(fcFiles["pending_tmp"].data, j.window)
      BY <2>2
    <3>1. /\ fcFiles["pending_tmp"].data.files = s.files
          /\ fcFiles["pending_tmp"].data.max = s.max
      BY <1>1, <1>2, <1>5, <2>3 DEF FcCycleOK
    <3> QED BY <2>3, <3>1 DEF FcSound, FcSoundAt
  <2> HIDE DEF j, s
  <2>5. /\ k \in FcCycleType /\ k.pc = "answered" /\ k.base = j.base
        /\ k.scan = {} /\ k.window = j.window /\ k.staged = s /\ k.run = j.run
        /\ k.files = <<>> /\ k.stat = j.stat /\ k.max = 0
    BY <1>1, <2>3, FcEmptyMaps DEF FcCycleType, FcPcs
  <2> HIDE DEF k
  <2>6. FcStepOK(c, k)
    <3>1. DOMAIN k.files = {}
      BY <2>5, FcEmptyMaps
    <3>2. FcEntriesAt(fcLoad, fcNow, fcMoved, fcDisk, k.files)
      BY <3>1 DEF FcEntriesAt
    <3>3. FcLocalsAt(fcLoad, fcNow, fcMoved, fcDisk, k)
      BY <1>1, <2>3, <2>5, <3>1, <3>2 DEF FcLocalsAt, FcCheckingPcs
    <3>4. c \in fcLoad.cycles /\ (~j.run /\ ~fcMoved => \E w \in fcCovered : FcMeets(j.window, w))
      BY <1>1, <1>2 DEF FcCycleOK
    <3>5. FcUsable(k.base) /\ FcTrusted(fcLoad, fcMoved) =>
            \E w \in fcCovered : FcHashed(k.base.files, w)
      BY <1>1, <2>5 DEF FcCycleOK
    <3>6. FcFastSaw(k) /\ k.pc \notin FcStagingPcs
      BY <2>5 DEF FcFastSaw, FcStagingPcs
    <3> QED BY <2>5, <3>3, <3>4, <3>5, <3>6 DEF FcStepOK
  <2>7. fcCovered' \subseteq FcWindows
    BY <1>2 DEF FcInv, FcTypes
  <2> QED BY <1>1, <1>2, <1>3, <2>1, <2>3, <2>4, <2>5, <2>6, <2>7, FcFileStep DEF FcInputsKept
<1> QED BY <1>4, <1>5

\* The exit of a check's process keeps the invariant.
LEMMA FcCheckExitsStep ==
    ASSUME FcInv, FcOwnMarks, NEW c \in FcCycle, FcCheckExits(c) PROVE FcInv'
<1> DEFINE j == fcCheck[c]
           k == [j EXCEPT !.staged = FcNone]
<1>1. /\ j \in FcCycleType /\ FcLocalsAt(fcLoad, fcNow, fcMoved, fcDisk, j) /\ FcCycleOK(c, j)
      /\ fcCalls \in Nat /\ fcCalls <= fcLoad.calls
  BY FcOfCycle
<1>2. /\ j.pc = "answered" /\ FcStep(c, k) /\ fcLoad.cli
      /\ UNCHANGED <<fcLoad, fcDisk, fcNow, fcMoved, fcCovered, fcCalls, fcLock, fcFiles>>
  BY DEF FcCheckExits, FcAt, FcLocal, FcInputsKept
<1>3. FcFilesNext
  BY <1>2, FcFilesNow DEF FcFilesNext
<1> HIDE DEF j
<1>4. /\ k \in FcCycleType /\ k.pc = "answered" /\ k.base = j.base
      /\ k.scan = j.scan /\ k.window = j.window /\ k.staged = FcNone /\ k.run = j.run
      /\ k.files = j.files /\ k.stat = j.stat /\ k.max = j.max
  BY <1>1, <1>2 DEF FcCycleType, FcPcs
<1> HIDE DEF k
<1>5. FcStepOK(c, k)
  <2>1. k.pc \notin FcCheckingPcs /\ j.pc # "idle" /\ k.pc \notin FcStagingPcs
    BY <1>2, <1>4 DEF FcCheckingPcs, FcStagingPcs
  <2>2. FcDataAt(fcLoad, fcNow, fcMoved, fcDisk, k.staged)
    BY <1>4 DEF FcDataAt
  <2>3. ~j.run /\ ~fcMoved => \E w \in fcCovered : FcMeets(j.window, w)
    BY <1>1, <1>2 DEF FcCycleOK
  <2> QED BY <1>4, <2>1, <2>2, <2>3, FcSameLocals DEF j
<1>6. fcCovered' \subseteq FcWindows
  BY <1>2 DEF FcInv, FcTypes
<1>7. k.run /\ fcFiles'["pending"] # FcNone => FcSound(fcFiles'["pending"].data, k.window)
  BY <1>1, <1>2, <1>4 DEF FcCycleOK
<1> QED BY <1>1, <1>2, <1>3, <1>4, <1>5, <1>6, <1>7, FcFileStep

\* What a mark claims is sound with what the check of its cycle saw.
LEMMA FcClaimOK ==
    ASSUME FcInv, NEW c \in FcCycle, FcAt(c, "answered"), fcCheck[c].run, FcClaim(c) # FcNone
    PROVE  /\ FcClaim(c) \in FcData
           /\ FcDataAt(fcLoad, fcNow, fcMoved, fcDisk, FcClaim(c))
           /\ FcSound(FcClaim(c), fcCheck[c].window)
<1> DEFINE j == fcCheck[c]
<1>1. /\ j \in FcCycleType /\ FcLocalsAt(fcLoad, fcNow, fcMoved, fcDisk, j) /\ FcCycleOK(c, j)
      /\ j.pc = "answered" /\ j.run
  BY FcOfCycle DEF FcAt
<1>2. CASE j.staged # FcNone
  <2>1. FcClaim(c) = j.staged
    BY <1>2 DEF FcClaim
  <2>2. j.staged \in FcData
    BY <1>1, <1>2 DEF FcCycleType
  <2>3. FcDataAt(fcLoad, fcNow, fcMoved, fcDisk, j.staged) /\ FcSound(j.staged, j.window)
    BY <1>1, <1>2 DEF FcLocalsAt, FcCycleOK
  <2> QED BY <2>1, <2>2, <2>3
<1>3. CASE j.staged = FcNone
  <2>1. FcClaim(c) = FcRead("pending")
    BY <1>3 DEF FcClaim
  <2>2. fcFiles["pending"] # FcNone /\ FcClaim(c) = fcFiles["pending"].data
    BY <2>1 DEF FcRead
  <2>3. fcLoad.cli
    BY <1>1, <1>3, FcOfCycle DEF FcCycleOK, FcLoadType
  <2>4. FcSound(fcFiles["pending"].data, j.window)
    BY <1>1, <2>2, <2>3 DEF FcCycleOK
  <2>5. /\ fcFiles["pending"].data \in FcData
        /\ FcDataAt(fcLoad, fcNow, fcMoved, fcDisk, fcFiles["pending"].data)
    BY <2>2, FcFilesNow DEF FcPath, FcFileSet
  <2> QED BY <2>2, <2>4, <2>5
<1> QED BY <1>2, <1>3

\* A mark that has claimed its snapshot keeps the invariant.
LEMMA FcMarkStep ==
    ASSUME FcInv, FcOwnMarks, NEW c \in FcCycle, NEW status \in {"success", "failure"},
           FcMark(c, status)
    PROVE  FcInv'
<1> DEFINE j == fcCheck[c]
           d == FcClaim(c)
<1>1. /\ j \in FcCycleType /\ FcLocalsAt(fcLoad, fcNow, fcMoved, fcDisk, j) /\ FcCycleOK(c, j)
      /\ fcNow \in Nat \ {0} /\ fcCalls \in Nat /\ fcCalls <= fcLoad.calls
  BY FcOfCycle
<1>2. FcAt(c, "answered") /\ j.pc = "answered" /\ j.run
  BY DEF FcMark, FcAt, FcOwnMarks, FcInv, FcTypes
<1>3. PICK r \in BOOLEAN : r = (status = "success")
  OBVIOUS
<1> DEFINE k == [FcIdle EXCEPT !.pc = "commit", !.run = r, !.staged = d]
<1>4. FcStep(c, IF d = FcNone THEN FcIdle ELSE k)
  BY <1>3 DEF FcMark
<1>5. /\ FcInputsKept /\ UNCHANGED fcFiles
      /\ UNCHANGED fcLock \/ FcShared
      /\ fcCovered' = IF status = "success" THEN fcCovered \cup {j.window} ELSE fcCovered
  BY <1>2 DEF FcMark
<1>6. fcCovered \subseteq fcCovered' /\ fcCovered' \subseteq FcWindows
  BY <1>1, <1>5 DEF FcInv, FcTypes, FcCycleType
<1>7. FcFilesNext
  BY <1>5, FcFilesNow DEF FcFilesNext
<1>8. c \in fcLoad.cycles
  BY <1>1, <1>2 DEF FcCycleOK
<1>9. CASE d = FcNone
  <2>1. FcStep(c, FcIdle) /\ FcIdle.pc = "idle"
    BY <1>4, <1>9 DEF FcIdle
  <2> QED BY <1>1, <1>5, <1>6, <1>7, <1>8, <2>1, FcIdleOK, FcFileStep DEF FcInputsKept
<1>10. CASE d # FcNone
  <2>1. FcStep(c, k)
    BY <1>4, <1>10
  <2>2. d \in FcData /\ FcDataAt(fcLoad, fcNow, fcMoved, fcDisk, d) /\ FcSound(d, j.window)
    BY <1>2, <1>10, FcClaimOK
  <2> HIDE DEF d
  <2>3. k \in FcCycleType
    BY <1>3, <2>2, FcIdleType DEF FcCycleType, FcPcs
  <2>4. /\ k.pc = "commit" /\ k.base = FcNone /\ k.staged = d /\ k.max = 0 /\ k.run = r
        /\ k.files = <<>> /\ k.stat = <<>> /\ k.scan = {}
    BY DEF FcIdle
  <2> HIDE DEF k
  <2>5. DOMAIN k.files = {} /\ DOMAIN k.stat = {}
    BY <2>4, FcEmptyMaps
  <2>6. FcStepOK(c, k)
    <3>1. FcDataAt(fcLoad, fcNow, fcMoved, fcDisk, FcNone)
      BY DEF FcDataAt
    <3>2. FcEntriesAt(fcLoad, fcNow, fcMoved, fcDisk, k.files)
      BY <2>5 DEF FcEntriesAt
    <3>3. FcLocalsAt(fcLoad, fcNow, fcMoved, fcDisk, k)
      BY <1>1, <2>2, <2>4, <2>5, <3>1, <3>2 DEF FcLocalsAt, FcCheckingPcs
    <3> QED BY <1>8, <2>3, <2>4, <3>3 DEF FcStepOK, FcUsable, FcStagingPcs, FcFastSaw
  <2>7. k.run => \E w \in fcCovered' : FcSound(k.staged, w)
    BY <1>3, <1>5, <2>2, <2>4
  <2> QED BY <1>1, <1>5, <1>6, <1>7, <1>10, <2>1, <2>4, <2>6, <2>7, FcFileStep DEF FcInputsKept
<1> QED BY <1>9, <1>10

\* Writing the snapshot that is committed keeps the invariant.
LEMMA FcCommitStep ==
    ASSUME FcInv, FcOwnMarks, NEW c \in FcCycle, FcCommit(c) PROVE FcInv'
<1> DEFINE j == fcCheck[c]
           s == IF j.run THEN "success" ELSE "failure"
           d == [j.staged EXCEPT !.status = s]
           v == FcWritten(d)
<1>1. /\ j \in FcCycleType /\ FcLocalsAt(fcLoad, fcNow, fcMoved, fcDisk, j) /\ FcCycleOK(c, j)
      /\ fcNow \in Nat \ {0} /\ fcCalls \in Nat /\ fcCalls <= fcLoad.calls
  BY FcOfCycle
<1>2. j.pc = "commit" /\ FcExclusive(c) /\ FcPut("cache_tmp", v)
      /\ UNCHANGED <<fcLoad, fcDisk, fcNow, fcMoved, fcCovered, fcCalls>>
  BY DEF FcCommit, FcAt, FcInputsKept
<1>3. PICK r \in BOOLEAN : r = (FcRead("pending") = j.staged)
  OBVIOUS
<1> DEFINE k == [j EXCEPT !.pc = "commit_remove", !.ours = r]
<1>4. FcStep(c, k)
  BY <1>3 DEF FcCommit
<1>5. j.staged \in FcData /\ j.staged # FcNone /\ (j.run => \E w \in fcCovered : FcSound(j.staged, w))
  BY <1>1, <1>2 DEF FcCycleOK, FcCycleType
<1>6. s \in FcStatus /\ s # "pending" /\ (s = "success" => j.run)
  BY <1>1 DEF FcStatus, FcCycleType
<1>7. FcDataAt(fcLoad, fcNow, fcMoved, fcDisk, j.staged)
  BY <1>1 DEF FcLocalsAt
<1> HIDE DEF s
<1>8. d \in FcData /\ d.status = s /\ d.files = j.staged.files /\ d.max = j.staged.max
  BY <1>5, <1>6 DEF FcData
<1> HIDE DEF d
<1>9. FcDataAt(fcLoad, fcNow, fcMoved, fcDisk, d)
  BY <1>5, <1>7, <1>8 DEF FcDataAt
<1>10. d.status = "success" => \E w \in fcCovered : FcSound(d, w)
  BY <1>5, <1>6, <1>8 DEF FcSound, FcSoundAt
<1>11. v \in FcFileSet /\ v.data = d /\ v.time = fcNow
  BY <1>1, <1>8 DEF FcWritten, FcFileSet
<1> HIDE DEF v
<1>12. FcFilesNext
  <2>1. "cache_tmp" \in FcPath
    BY DEF FcPath
  <2> QED BY <1>1, <1>2, <1>6, <1>8, <1>9, <1>10, <1>11, <2>1, FcPutOK
<1> HIDE DEF j
<1>13. /\ k \in FcCycleType /\ k.pc = "commit_remove" /\ k.base = j.base
       /\ k.scan = j.scan /\ k.window = j.window /\ k.staged = j.staged
       /\ k.files = j.files /\ k.stat = j.stat /\ k.max = j.max
  BY <1>1, <1>3 DEF FcCycleType, FcPcs
<1> HIDE DEF k
<1>14. FcStepOK(c, k)
  <2>1. /\ k.pc \notin FcCheckingPcs /\ j.pc # "idle"
        /\ k.pc \notin FcStagingPcs \cup {"answered"} /\ k.pc \notin FcStagingPcs
    BY <1>2, <1>13 DEF FcCheckingPcs, FcStagingPcs
  <2> QED BY <1>7, <1>13, <2>1, FcSameLocals DEF j
<1>15. fcCovered' \subseteq FcWindows
  BY <1>2 DEF FcInv, FcTypes
<1> QED BY <1>1, <1>2, <1>4, <1>12, <1>13, <1>14, <1>15, FcFileStep

\* A commit that goes on keeps the invariant if its files do.
LEMMA FcCommitGoesOn ==
    ASSUME FcInv, FcOwnMarks, NEW c \in FcCycle, FcFilesNext, FcInputsKept,
           UNCHANGED <<fcLock, fcCovered>>, fcCheck[c].pc # "idle",
           NEW pc \in {"commit_rename", "commit_pending"},
           FcStep(c, [fcCheck[c] EXCEPT !.pc = pc])
    PROVE  FcInv'
<1> DEFINE j == fcCheck[c]
           k == [j EXCEPT !.pc = pc]
<1>1. /\ j \in FcCycleType /\ FcLocalsAt(fcLoad, fcNow, fcMoved, fcDisk, j) /\ FcCycleOK(c, j)
      /\ fcCalls \in Nat /\ fcCalls <= fcLoad.calls
  BY FcOfCycle
<1>2. FcStep(c, k)
  OBVIOUS
<1>3. FcDataAt(fcLoad, fcNow, fcMoved, fcDisk, j.staged)
  BY <1>1 DEF FcLocalsAt
<1> HIDE DEF j
<1>4. /\ k \in FcCycleType /\ k.pc = pc /\ k.base = j.base
      /\ k.scan = j.scan /\ k.window = j.window /\ k.staged = j.staged
      /\ k.files = j.files /\ k.stat = j.stat /\ k.max = j.max
  BY <1>1 DEF FcCycleType, FcPcs
<1> HIDE DEF k
<1>5. FcStepOK(c, k)
  <2>1. /\ k.pc \notin FcCheckingPcs /\ k.pc \notin FcStagingPcs \cup {"answered"}
        /\ k.pc \notin FcStagingPcs
    BY <1>4 DEF FcCheckingPcs, FcStagingPcs
  <2> QED BY <1>3, <1>4, <2>1, FcSameLocals DEF j
<1>6. fcCovered' \subseteq FcWindows
  BY DEF FcInv, FcTypes
<1> QED BY <1>1, <1>2, <1>4, <1>5, <1>6, FcFileStep DEF FcInputsKept

\* Removing the old cache file keeps the invariant.
LEMMA FcCommitRemoveStep ==
    ASSUME FcInv, FcOwnMarks, NEW c \in FcCycle, FcCommitRemove(c) PROVE FcInv'
<1>1. FcFilesNext
  <2>1. "cache" \in FcPath /\ FcNone \in FcFileSet
    BY DEF FcPath, FcFileSet
  <2> QED BY <2>1, FcPutOK DEF FcCommitRemove
<1> QED BY <1>1, FcCommitGoesOn DEF FcCommitRemove, FcAt

\* The rename of a commit keeps the invariant.
LEMMA FcCommitRenameStep ==
    ASSUME FcInv, FcOwnMarks, NEW c \in FcCycle, FcCommitRename(c) PROVE FcInv'
<1>1. FcFilesNext
  BY FcMoveOK DEF FcCommitRename
<1>2. CASE fcFiles["cache_tmp"] = FcNone
  BY <1>1, <1>2, FcEndStep DEF FcCommitRename, FcAt
<1>3. CASE fcFiles["cache_tmp"] # FcNone
  BY <1>1, <1>3, FcCommitGoesOn DEF FcCommitRename, FcAt
<1> QED BY <1>2, <1>3

\* Removing .pending after a commit keeps the invariant.
LEMMA FcCommitPendingStep ==
    ASSUME FcInv, FcOwnMarks, NEW c \in FcCycle, FcCommitPending(c) PROVE FcInv'
<1>1. FcFilesNext
  <2>1. "pending" \in FcPath /\ FcNone \in FcFileSet
    BY DEF FcPath, FcFileSet
  <2>2. CASE FcPut("pending", FcNone)
    BY <2>1, <2>2, FcPutOK
  <2>3. CASE UNCHANGED fcFiles
    BY <2>3, FcFilesNow DEF FcFilesNext
  <2> QED BY <2>2, <2>3 DEF FcCommitPending
<1> QED BY <1>1, FcEndStep DEF FcCommitPending, FcAt

\* A process that dies keeps the invariant.
LEMMA FcDieStep ==
    ASSUME FcInv, FcOwnMarks, NEW c \in FcCycle, FcDie(c) PROVE FcInv'
<1>1. FcFilesNext
  BY FcFilesNow DEF FcFilesNext, FcDie
<1> QED BY <1>1, FcEndStep DEF FcDie, FcAt

\* Invalidation keeps the invariant.
LEMMA FcInvalidateStep ==
    ASSUME FcInv, FcOwnMarks, NEW c \in FcCycle, FcInvalidate(c) PROVE FcInv'
<1> DEFINE k == fcCheck[c]
<1>1. /\ k \in FcCycleType /\ FcLocalsAt(fcLoad, fcNow, fcMoved, fcDisk, k) /\ FcCycleOK(c, k)
      /\ fcCalls \in Nat /\ fcCalls <= fcLoad.calls /\ fcLoad.calls \in Nat
  BY FcOfCycle DEF FcLoadType
<1>2. /\ k.pc = "idle" /\ c \in fcLoad.cycles /\ FcShared
      /\ fcCalls < fcLoad.calls /\ fcCalls' = fcCalls + 1
      /\ UNCHANGED <<fcLoad, fcDisk, fcNow, fcMoved, fcCheck, fcCovered>>
      /\ fcFiles' = [fcFiles EXCEPT !["cache"] = FcNone, !["pending"] = FcNone,
                                    !["cache_tmp"] = FcNone]
  BY DEF FcInvalidate, FcCall, FcAt
<1>3. FcStep(c, k)
  BY <1>2 DEF FcStep, FcInv, FcTypes
<1>4. FcFilesNext
  <2>1. fcFiles \in [FcPath -> FcFileSet] /\ FcNone \in FcFileSet
    BY FcFilesNow DEF FcFileSet
  <2>2. /\ fcFiles' \in [FcPath -> FcFileSet]
        /\ fcFiles'["cache"] = FcNone /\ fcFiles'["pending"] = FcNone
        /\ fcFiles'["cache_tmp"] = FcNone /\ fcFiles'["pending_tmp"] = fcFiles["pending_tmp"]
    BY <1>2, <2>1 DEF FcPath
  <2>3. "pending_tmp" \in FcPath
    BY DEF FcPath
  <2> QED BY <2>2, <2>3, FcRearranged
<1> HIDE DEF k
<1>5. FcStepOK(c, k)
  <2>1. /\ FcFastSaw(k) /\ k.pc \notin FcStagingPcs /\ k.pc \notin FcStagingPcs \cup {"answered"}
    BY <1>2 DEF FcFastSaw, FcStagingPcs
  <2>2. FcUsable(k.base) /\ FcTrusted(fcLoad, fcMoved) =>
          \E w \in fcCovered : FcHashed(k.base.files, w)
    BY <1>1 DEF FcCycleOK
  <2> QED BY <1>1, <1>2, <2>1, <2>2 DEF FcStepOK
<1>6. fcCovered' \subseteq FcWindows
  BY <1>2 DEF FcInv, FcTypes
<1>7. fcCalls' \in Nat /\ fcCalls' <= fcLoad.calls
  BY <1>1, <1>2
<1> QED BY <1>2, <1>3, <1>4, <1>5, <1>6, <1>7, FcFileStep

-----------------------------------------------------------------------------
(* The inputs *)

\* A change of the inputs takes a new tick, or is a rename.
FcInputsChange ==
    /\ fcNow' = fcNow + 1 /\ fcNow' <= fcLoad.edits + 1
    /\ fcDisk' \in [FcName -> [mtime : Nat, content : FcContent \cup {FcNone}]]
    /\ FcDiskOK'
    /\ fcMoved' \in BOOLEAN /\ (fcMoved => fcMoved')
    /\ ~fcMoved' => \A f \in FcName :
         \/ fcDisk'[f] = fcDisk[f]
         \/ fcDisk'[f] = FcAbsent
         \/ fcDisk'[f].mtime = fcNow + 1
    /\ FcSeen(fcDisk')
    /\ FcKeepCycles

\* What is in a snapshot is as good as before.
LEMMA FcEntriesAged ==
    ASSUME FcInv, FcInputsChange, NEW g \in FcEntries,
           FcEntriesAt(fcLoad, fcNow, fcMoved, fcDisk, g)
    PROVE  FcEntriesAt(fcLoad', fcNow', fcMoved', fcDisk', g)
<1>1. fcNow \in Nat /\ fcNow' = fcNow + 1 /\ fcLoad' = fcLoad
  BY DEF FcInv, FcTypes, FcInputsChange, FcKeepCycles
<1> SUFFICES ASSUME NEW f \in DOMAIN g
             PROVE  /\ g[f].mtime <= fcNow + 1
                    /\ fcLoad.kind = "two_layer" =>
                         /\ g[f].mtime > 0
                         /\ ~fcMoved' /\ g[f].mtime = fcDisk'[f].mtime =>
                              g[f].hash = fcDisk'[f].content
  BY <1>1 DEF FcEntriesAt
<1>2. f \in FcName /\ g[f].mtime \in Nat
  BY FcEntriesGet DEF FcEntry
<1>3. /\ g[f].mtime <= fcNow
      /\ fcLoad.kind = "two_layer" =>
           /\ g[f].mtime > 0
           /\ ~fcMoved /\ g[f].mtime = fcDisk[f].mtime => g[f].hash = fcDisk[f].content
  BY DEF FcEntriesAt
<1>4. ASSUME fcLoad.kind = "two_layer", ~fcMoved', g[f].mtime = fcDisk'[f].mtime
      PROVE  g[f].hash = fcDisk'[f].content
  <2>1. fcDisk'[f] = fcDisk[f] \/ fcDisk'[f] = FcAbsent \/ fcDisk'[f].mtime = fcNow + 1
    BY <1>2, <1>4 DEF FcInputsChange
  <2>2. fcDisk'[f] # FcAbsent
    BY <1>2, <1>3, <1>4 DEF FcAbsent
  <2>3. fcDisk'[f].mtime # fcNow + 1
    BY <1>1, <1>2, <1>3, <1>4
  <2>4. ~fcMoved
    BY <1>4 DEF FcInputsChange
  <2> QED BY <1>3, <1>4, <2>1, <2>2, <2>3, <2>4
<1> QED BY <1>1, <1>2, <1>3, <1>4

\* A snapshot stays justified when inputs change.
LEMMA FcDataAged ==
    ASSUME FcInv, FcInputsChange, NEW d \in FcData \cup {FcNone},
           FcDataAt(fcLoad, fcNow, fcMoved, fcDisk, d)
    PROVE  FcDataAt(fcLoad', fcNow', fcMoved', fcDisk', d)
<1> SUFFICES ASSUME d # FcNone
             PROVE  d.max <= fcNow' /\ FcEntriesAt(fcLoad', fcNow', fcMoved', fcDisk', d.files)
  BY DEF FcDataAt
<1>1. fcNow \in Nat /\ fcNow' = fcNow + 1
  BY DEF FcInv, FcTypes, FcInputsChange
<1>2. d.files \in FcEntries /\ d.max \in Nat
  BY DEF FcData
<1>3. d.max <= fcNow /\ FcEntriesAt(fcLoad, fcNow, fcMoved, fcDisk, d.files)
  BY DEF FcDataAt
<1> QED BY <1>1, <1>2, <1>3, FcEntriesAged

\* A check under way sees the change; nothing else of a cycle changes.
LEMMA FcSeenBy ==
    ASSUME FcInv, FcInputsChange, NEW c \in FcCycle
    PROVE  /\ ~FcChecking(c) => fcCheck'[c] = fcCheck[c]
           /\ fcCheck'[c] \in FcCycleType
           /\ fcCheck'[c].pc = fcCheck[c].pc /\ fcCheck'[c].scan = fcCheck[c].scan
           /\ fcCheck'[c].max = fcCheck[c].max /\ fcCheck'[c].base = fcCheck[c].base
           /\ fcCheck'[c].stat = fcCheck[c].stat /\ fcCheck'[c].files = fcCheck[c].files
           /\ fcCheck'[c].run = fcCheck[c].run /\ fcCheck'[c].staged = fcCheck[c].staged
           /\ \A f \in FcName :
                /\ fcCheck[c].window[f] \subseteq fcCheck'[c].window[f]
                /\ FcChecking(c) => fcDisk'[f].content \in fcCheck'[c].window[f]
<1> DEFINE j == fcCheck[c]
           v == [f \in FcName |-> j.window[f] \cup {fcDisk'[f].content}]
<1>1. j \in FcCycleType /\ fcDisk' \in [FcName -> [mtime : Nat, content : FcContent \cup {FcNone}]]
  BY FcOfCycle DEF FcInputsChange
<1>2. fcCheck'[c] = IF ~FcChecking(c) THEN j ELSE [j EXCEPT !.window = v]
  BY <1>1 DEF FcInputsChange, FcSeen, FcCycleType
<1>3. v \in FcWindows
  BY <1>1 DEF FcWindows, FcCycleType
<1>4. CASE ~FcChecking(c)
  BY <1>1, <1>2, <1>4
<1>5. CASE FcChecking(c)
  <2>1. fcCheck'[c] = [j EXCEPT !.window = v]
    BY <1>2, <1>5
  <2>2. \A f \in FcName : j.window[f] \subseteq v[f] /\ fcDisk'[f].content \in v[f]
    OBVIOUS
  <2> HIDE DEF j, v
  <2>3. /\ fcCheck'[c] \in FcCycleType /\ fcCheck'[c].window = v
        /\ fcCheck'[c].pc = j.pc /\ fcCheck'[c].scan = j.scan
        /\ fcCheck'[c].max = j.max /\ fcCheck'[c].base = j.base
        /\ fcCheck'[c].stat = j.stat /\ fcCheck'[c].files = j.files
        /\ fcCheck'[c].run = j.run /\ fcCheck'[c].staged = j.staged
    BY <1>1, <1>3, <2>1 DEF FcCycleType
  <2> QED BY <1>5, <2>2, <2>3 DEF j
<1> QED BY <1>4, <1>5

\* A sound snapshot stays sound: what is new is newer than it.
LEMMA FcSoundAged ==
    ASSUME FcInv, FcInputsChange, NEW d, NEW w, d.max \in Nat, d.max <= fcNow, FcSound(d, w)
    PROVE  FcSoundAt(fcLoad', fcMoved', fcDisk', fcCheck', d, w)
<1>1. fcNow \in Nat /\ fcLoad' = fcLoad /\ (~fcMoved' => ~fcMoved)
  BY DEF FcInv, FcTypes, FcInputsChange, FcKeepCycles
<1>2. FcTrusted(fcLoad', fcMoved') => FcHashed(d.files, w)
  <2>1. FcTrusted(fcLoad', fcMoved') => FcTrusted(fcLoad, fcMoved)
    BY <1>1 DEF FcTrusted, FcInputsChange
  <2> QED BY <2>1 DEF FcSound, FcSoundAt
<1>3. ASSUME ~fcMoved', NEW f \in FcName, fcDisk'[f] # FcAbsent, fcDisk'[f].mtime <= d.max
      PROVE  fcDisk'[f].content \in w[f]
  <2>1. fcDisk'[f].mtime # fcNow + 1
    BY <1>1, <1>3
  <2>2. fcDisk'[f] = fcDisk[f]
    BY <1>3, <2>1 DEF FcInputsChange
  <2> QED BY <1>1, <1>3, <2>2 DEF FcSound, FcSoundAt
<1>4. ASSUME ~fcMoved', NEW b \in FcCycle, fcCheck'[b].pc = "fast_read"
      PROVE  FcFastMeets(fcCheck'[b], d.max, w)
  <2> DEFINE j == fcCheck[b]
             k == fcCheck'[b]
  <2>1. /\ j.pc = "fast_read" /\ k.scan = j.scan /\ k.max = j.max
        /\ \A f \in FcName : j.window[f] \subseteq k.window[f]
        /\ j.scan \subseteq FcName
    <3>1. j \in FcCycleType
      BY FcOfCycle
    <3>2. j.scan \subseteq FcName
      BY <3>1 DEF FcCycleType
    <3> QED BY <1>4, <3>2, FcSeenBy
  <2>2. FcFastMeets(j, d.max, w)
    BY <1>1, <1>4, <2>1 DEF FcSound, FcSoundAt
  <2> HIDE DEF j, k
  <2>3. FcOverlap(w, j.window) => FcOverlap(w, k.window)
    BY <2>1 DEF FcOverlap
  <2>4. \A f \in j.scan : \A x \in FcContent :
          x \in w[f] \cap j.window[f] => x \in w[f] \cap k.window[f]
    BY <2>1
  <2>5. FcFastMeets(k, d.max, w)
    BY <2>1, <2>2, <2>3, <2>4 DEF FcFastMeets
  <2> QED BY <2>5 DEF k
<1> QED BY <1>2, <1>3, <1>4 DEF FcSoundAt

\* A change of the inputs keeps the invariant.
LEMMA FcInputStep ==
    ASSUME FcInv, FcInputsChange
    PROVE  FcInv'
<1>1. /\ fcNow \in Nat \ {0} /\ fcNow' = fcNow + 1 /\ FcTypes
      /\ UNCHANGED <<fcLoad, fcFiles, fcLock, fcCalls, fcCovered>>
      /\ ~fcMoved' => ~fcMoved
      /\ FcTrusted(fcLoad', fcMoved') => FcTrusted(fcLoad, fcMoved)
  BY DEF FcInv, FcTypes, FcInputsChange, FcKeepCycles, FcTrusted
<1>2. FcTypes'
  <2>1. fcCheck' \in [FcCycle -> FcCycleType]
    <3>1. fcCheck' = [c \in FcCycle |-> fcCheck'[c]]
      BY DEF FcInputsChange, FcSeen
    <3> QED BY <3>1, FcSeenBy
  <2>2. fcNow' \in Nat \ {0} /\ fcNow' <= fcLoad'.edits + 1
    BY <1>1 DEF FcInputsChange
  <2> QED BY <1>1, <2>1, <2>2 DEF FcTypes, FcInputsChange
<1>3. FcDiskOK'
  BY DEF FcInputsChange
<1>4. FcLocalsOK'
  <2> SUFFICES ASSUME NEW c \in FcCycle
               PROVE  FcLocalsAt(fcLoad', fcNow', fcMoved', fcDisk', fcCheck'[c])
    BY DEF FcLocalsOK
  <2> DEFINE j == fcCheck[c]
             k == fcCheck'[c]
  <2>1. /\ j \in FcCycleType /\ FcLocalsAt(fcLoad, fcNow, fcMoved, fcDisk, j)
    BY FcOfCycle
  <2>2. /\ k.pc = j.pc /\ k.scan = j.scan /\ k.max = j.max /\ k.base = j.base
        /\ k.stat = j.stat /\ k.files = j.files /\ k.run = j.run /\ k.staged = j.staged
        /\ \A f \in FcName :
             /\ j.window[f] \subseteq k.window[f]
             /\ j.pc \in FcCheckingPcs => fcDisk'[f].content \in k.window[f]
    BY FcSeenBy DEF FcChecking, FcCheckingPcs
  <2> HIDE DEF j, k
  <2>3. /\ j.files \in FcEntries /\ j.base \in FcData \cup {FcNone}
        /\ j.staged \in FcData \cup {FcNone} /\ j.max \in Nat /\ j.stat \in FcStats
        /\ j.scan \subseteq FcName
    BY <2>1 DEF FcCycleType
  <2>4. DOMAIN j.files \subseteq FcName /\ \A f \in DOMAIN j.stat : j.stat[f] \in Nat
    BY <2>3, FcEntriesGet, FcStatsGet
  <2>5. /\ FcDataAt(fcLoad, fcNow, fcMoved, fcDisk, j.base)
        /\ FcDataAt(fcLoad, fcNow, fcMoved, fcDisk, j.staged)
        /\ FcEntriesAt(fcLoad, fcNow, fcMoved, fcDisk, j.files)
        /\ j.max <= fcNow /\ DOMAIN j.files \subseteq j.scan
        /\ \A f \in DOMAIN j.stat : j.stat[f] \in 1 .. fcNow
        /\ j.pc \in {"fast", "fast_read", "read"} => DOMAIN j.files = {}
    BY <2>1 DEF FcLocalsAt
  <2>6. /\ FcDataAt(fcLoad', fcNow', fcMoved', fcDisk', j.base)
        /\ FcDataAt(fcLoad', fcNow', fcMoved', fcDisk', j.staged)
        /\ FcEntriesAt(fcLoad', fcNow', fcMoved', fcDisk', j.files)
    BY <2>3, <2>5, FcDataAged, FcEntriesAged
  <2>7. k.max <= fcNow' /\ \A f \in DOMAIN k.stat : k.stat[f] \in 1 .. fcNow'
    BY <1>1, <2>2, <2>3, <2>4, <2>5
  <2>8. ASSUME j.pc \in FcCheckingPcs
        PROVE  /\ ~k.run
               /\ \A f \in FcName : fcDisk'[f].content \in k.window[f]
               /\ \A f \in FcName \ k.scan : FcNone \in k.window[f]
               /\ FcTrusted(fcLoad', fcMoved') =>
                    \A f \in DOMAIN k.files : k.files[f].hash \in k.window[f]
               /\ k.pc = "decide" => DOMAIN k.files = k.scan
    <3>1. /\ ~j.run
          /\ \A f \in FcName \ j.scan : FcNone \in j.window[f]
          /\ FcTrusted(fcLoad, fcMoved) => \A f \in DOMAIN j.files : j.files[f].hash \in j.window[f]
          /\ j.pc = "decide" => DOMAIN j.files = j.scan
      BY <2>1, <2>8 DEF FcLocalsAt
    <3> QED BY <1>1, <2>2, <2>4, <2>8, <3>1
  <2>9. FcLocalsAt(fcLoad', fcNow', fcMoved', fcDisk', k)
    BY <2>2, <2>5, <2>6, <2>7, <2>8 DEF FcLocalsAt
  <2> QED BY <2>9 DEF k
<1>5. FcFilesOK'
  <2>1. ASSUME NEW p \in FcPath, fcFiles[p] # FcNone
        PROVE  /\ fcFiles[p].data \in FcData /\ fcFiles[p].data.max \in Nat
               /\ fcFiles[p].data # FcNone
               /\ fcFiles[p].time \in Nat /\ fcFiles[p].time <= fcNow
               /\ FcDataAt(fcLoad, fcNow, fcMoved, fcDisk, fcFiles[p].data)
    <3>1. fcFiles[p] \in [data : FcData, time : Nat]
      BY <2>1, FcFilesNow DEF FcFileSet
    <3>2. fcFiles[p].data \in FcData /\ fcFiles[p].time \in Nat
      BY <3>1
    <3>3. fcFiles[p].data.max \in Nat
      BY <3>2 DEF FcData
    <3> QED BY <2>1, <3>2, <3>3, FcFilesNow, FcAssumption
  <2>2. \A p \in FcPath : fcFiles'[p] # FcNone =>
          /\ FcDataAt(fcLoad', fcNow', fcMoved', fcDisk', fcFiles'[p].data)
          /\ fcFiles'[p].time <= fcNow'
    BY <1>1, <2>1, FcDataAged
  <2>3. ASSUME NEW p \in {"cache", "cache_tmp"}, fcFiles'[p] # FcNone
        PROVE  /\ fcFiles'[p].data.status # "pending"
               /\ fcFiles'[p].data.status = "success" => \E w \in fcCovered' :
                    FcSoundAt(fcLoad', fcMoved', fcDisk', fcCheck', fcFiles'[p].data, w)
    <3>1. p \in FcPath /\ fcFiles'[p] = fcFiles[p]
      BY <1>1 DEF FcPath
    <3>2. fcFiles[p].data.max \in Nat /\ fcFiles[p].data.max <= fcNow
      BY <2>1, <2>3, <3>1 DEF FcDataAt
    <3>3. /\ fcFiles[p].data.status # "pending"
          /\ fcFiles[p].data.status = "success" => \E w \in fcCovered : FcSound(fcFiles[p].data, w)
      BY <2>3, <3>1, FcFilesNow
    <3> QED BY <1>1, <3>1, <3>2, <3>3, FcSoundAged
  <2> QED BY <2>2, <2>3 DEF FcFilesOK, FcSound
<1>6. ASSUME NEW c \in FcCycle PROVE FcCycleOK(c, fcCheck[c])'
  <2> DEFINE j == fcCheck[c]
             k == fcCheck'[c]
  <2>1. /\ j \in FcCycleType /\ FcLocalsAt(fcLoad, fcNow, fcMoved, fcDisk, j) /\ FcCycleOK(c, j)
    BY FcOfCycle
  <2>2. /\ k.pc = j.pc /\ k.base = j.base
        /\ j.pc \notin FcCheckingPcs => k = j
    BY FcSeenBy DEF FcChecking, FcCheckingPcs
  <2>3. /\ j.max \in Nat /\ j.max <= fcNow
        /\ j.staged # FcNone => j.staged.max \in Nat /\ j.staged.max <= fcNow
    BY <2>1 DEF FcCycleType, FcLocalsAt, FcDataAt, FcData
  <2>4. fcFiles["pending"] # FcNone =>
          fcFiles["pending"].data.max \in Nat /\ fcFiles["pending"].data.max <= fcNow
    <3> SUFFICES ASSUME fcFiles["pending"] # FcNone
                 PROVE  fcFiles["pending"].data.max \in Nat /\ fcFiles["pending"].data.max <= fcNow
      OBVIOUS
    <3>1. /\ fcFiles["pending"].data \in FcData
          /\ FcDataAt(fcLoad, fcNow, fcMoved, fcDisk, fcFiles["pending"].data)
      BY FcFilesNow DEF FcPath, FcFileSet
    <3>2. fcFiles["pending"].data # FcNone
      BY <3>1, FcAssumption
    <3> QED BY <3>1, <3>2 DEF FcData, FcDataAt
  <2> HIDE DEF j, k
  <2>5. k.pc # "idle" => c \in fcLoad'.cycles
    BY <1>1, <2>1, <2>2 DEF FcCycleOK
  <2>6. FcUsable(k.base) /\ FcTrusted(fcLoad', fcMoved') =>
          \E w \in fcCovered' : FcHashed(k.base.files, w)
    BY <1>1, <2>1, <2>2 DEF FcCycleOK
  <2>7. CASE j.pc \in FcCheckingPcs
    <3>1. /\ k.pc \notin FcStagingPcs /\ k.pc \notin FcStagingPcs \cup {"answered"}
          /\ k.pc \notin {"answered", "stage_remove", "stage_rename", "commit"}
      BY <2>2, <2>7 DEF FcCheckingPcs, FcStagingPcs
    <3> QED BY <2>5, <2>6, <3>1 DEF FcCycleOK, k
  <2>8. CASE j.pc \notin FcCheckingPcs
    <3>1. k = j
      BY <2>2, <2>8
    <3>2. k.pc \in FcStagingPcs => FcSoundAt(fcLoad', fcMoved', fcDisk', fcCheck', k, k.window)
      BY <2>1, <2>3, <3>1, FcSoundAged DEF FcCycleOK
    <3>3. k.pc \in FcStagingPcs \cup {"answered"} /\ ~k.run /\ ~fcMoved' =>
            \E w \in fcCovered' : FcMeets(k.window, w)
      BY <1>1, <2>1, <3>1 DEF FcCycleOK
    <3>4. k.pc = "answered" /\ k.run =>
            /\ k.staged # FcNone =>
                 FcSoundAt(fcLoad', fcMoved', fcDisk', fcCheck', k.staged, k.window)
            /\ ~fcLoad'.cli => k.staged # FcNone
            /\ fcLoad'.cli /\ fcFiles'["pending"] # FcNone =>
                 FcSoundAt(fcLoad', fcMoved', fcDisk', fcCheck', fcFiles'["pending"].data, k.window)
      BY <1>1, <2>1, <2>3, <2>4, <3>1, FcSoundAged DEF FcCycleOK
    <3>5. fcLoad'.cli /\ k.pc \in {"stage_remove", "stage_rename"}
              /\ fcFiles'["pending_tmp"] # FcNone =>
            /\ fcFiles'["pending_tmp"].data.files = k.files
            /\ fcFiles'["pending_tmp"].data.max = k.max
      BY <1>1, <2>1, <3>1 DEF FcCycleOK
    <3>6. k.pc = "commit" => k.staged # FcNone /\ (k.run =>
            \E w \in fcCovered' : FcSoundAt(fcLoad', fcMoved', fcDisk', fcCheck', k.staged, w))
      BY <1>1, <2>1, <2>3, <3>1, FcSoundAged DEF FcCycleOK
    <3> QED BY <2>5, <2>6, <3>2, <3>3, <3>4, <3>5, <3>6 DEF FcCycleOK, FcSound, k
  <2> QED BY <2>7, <2>8
<1> QED BY <1>2, <1>3, <1>4, <1>5, <1>6 DEF FcInv, FcCyclesOK


\* An edit takes a new tick; a rename keeps the mtime.
LEMMA FcEditStep ==
    ASSUME FcInv, NEW f \in FcName, NEW x \in FcContent \cup {FcNone}, FcEdit(f, x)
    PROVE  FcInv'
<1> DEFINE v == IF x = FcNone THEN FcAbsent ELSE [mtime |-> fcNow + 1, content |-> x]
<1>1. /\ fcNow \in Nat \ {0} /\ fcLoad.edits \in Nat /\ fcMoved \in BOOLEAN /\ FcDiskOK
      /\ fcDisk \in [FcName -> [mtime : Nat, content : FcContent \cup {FcNone}]]
  <2>1. fcLoad \in FcLoadType
    BY FcAssumption DEF FcInv, FcTypes
  <2> QED BY <2>1 DEF FcInv, FcTypes, FcLoadType
<1>2. /\ fcNow' = fcNow + 1 /\ fcDisk' = [fcDisk EXCEPT ![f] = v] /\ fcMoved' = fcMoved
      /\ fcNow <= fcLoad.edits /\ FcSeen(fcDisk') /\ FcKeepCycles
  BY DEF FcEdit
<1>3. /\ v \in [mtime : Nat, content : FcContent \cup {FcNone}]
      /\ v = FcAbsent \/ (v.mtime = fcNow + 1 /\ v.content \in FcContent)
  BY <1>1 DEF FcAbsent
<1> HIDE DEF v
<1>4. \A g \in FcName : fcDisk'[g] = IF g = f THEN v ELSE fcDisk[g]
  BY <1>1, <1>2
<1>5. FcDiskOK'
  BY <1>1, <1>2, <1>3, <1>4 DEF FcDiskOK
<1>6. fcDisk' \in [FcName -> [mtime : Nat, content : FcContent \cup {FcNone}]]
  BY <1>1, <1>2, <1>3
<1>7. \A g \in FcName :
        fcDisk'[g] = fcDisk[g] \/ fcDisk'[g] = FcAbsent \/ fcDisk'[g].mtime = fcNow + 1
  BY <1>3, <1>4
<1>8. FcInputsChange
  BY <1>1, <1>2, <1>5, <1>6, <1>7 DEF FcInputsChange
<1> QED BY <1>8, FcInputStep

\* A rename of an input keeps the invariant.
LEMMA FcRenameStep ==
    ASSUME FcInv, NEW f \in FcName, NEW g \in FcName, FcRename(f, g)
    PROVE  FcInv'
<1>1. /\ fcNow \in Nat \ {0} /\ fcLoad.edits \in Nat /\ FcDiskOK
      /\ fcDisk \in [FcName -> [mtime : Nat, content : FcContent \cup {FcNone}]]
  <2>1. fcLoad \in FcLoadType
    BY FcAssumption DEF FcInv, FcTypes
  <2> QED BY <2>1 DEF FcInv, FcTypes, FcLoadType
<1>2. /\ fcNow' = fcNow + 1 /\ fcDisk' = [fcDisk EXCEPT ![f] = FcAbsent, ![g] = fcDisk[f]]
      /\ fcMoved' = TRUE /\ fcNow <= fcLoad.edits /\ FcSeen(fcDisk') /\ FcKeepCycles
  BY DEF FcRename
<1>3. FcAbsent \in [mtime : Nat, content : FcContent \cup {FcNone}]
  BY DEF FcAbsent
<1>4. \A h \in FcName : fcDisk'[h] = fcDisk[h] \/ fcDisk'[h] = FcAbsent \/ fcDisk'[h] = fcDisk[f]
  BY <1>1, <1>2
<1>5. FcDiskOK'
  BY <1>1, <1>2, <1>4 DEF FcDiskOK
<1>6. fcDisk' \in [FcName -> [mtime : Nat, content : FcContent \cup {FcNone}]]
  BY <1>1, <1>2, <1>3
<1>7. FcInputsChange
  BY <1>1, <1>2, <1>5, <1>6 DEF FcInputsChange
<1> QED BY <1>7, FcInputStep

-----------------------------------------------------------------------------
(* The theorem *)

\* The invariant holds initially.
LEMMA FcInitOK == FcInit => FcInv
<1> SUFFICES ASSUME FcInit PROVE FcInv
  OBVIOUS
<1>1. /\ fcLoad \in FcLoads /\ fcLoad \in FcLoadType
      /\ fcLoad.edits \in Nat /\ fcLoad.calls \in Nat /\ fcLoad.timeouts \in Nat
  BY FcAssumption DEF FcInit, FcLoadType
<1> DEFINE x0 == CHOOSE x \in FcContent : TRUE
<1>2. x0 \in FcContent
  BY FcAssumption
<1> HIDE DEF x0
<1>3. \A f \in FcName : \/ fcDisk[f] = [mtime |-> 1, content |-> x0]
                        \/ fcDisk[f] = FcAbsent
  BY DEF FcInit, x0
<1>4. /\ fcDisk \in [FcName -> [mtime : Nat, content : FcContent \cup {FcNone}]]
      /\ FcDiskOK
  <2>1. fcDisk = [f \in FcName |-> fcDisk[f]]
    BY DEF FcInit
  <2>2. \A f \in FcName : fcDisk[f] \in [mtime : Nat, content : FcContent \cup {FcNone}]
    BY <1>2, <1>3 DEF FcAbsent
  <2>3. fcNow = 1
    BY DEF FcInit
  <2> QED BY <1>2, <1>3, <2>1, <2>2, <2>3 DEF FcDiskOK
<1>5. /\ \A c \in FcCycle : fcCheck[c] = FcIdle
      /\ \A p \in FcPath : fcFiles[p] = FcNone
  BY DEF FcInit
<1>6. FcTypes
  <2>1. fcFiles \in [FcPath -> [data : FcData, time : Nat] \cup {FcNone}]
    BY DEF FcInit
  <2>2. fcCheck \in [FcCycle -> FcCycleType]
    BY FcIdleType DEF FcInit
  <2>3. /\ fcNow = 1 /\ fcCalls = 0 /\ fcLock = [holder |-> FcNone, timeouts |-> 0]
        /\ fcCovered = {} /\ fcMoved = FALSE
    BY DEF FcInit
  <2>4. /\ fcNow \in Nat \ {0} /\ fcNow <= fcLoad.edits + 1
        /\ fcCalls \in Nat /\ fcCalls <= fcLoad.calls
        /\ fcLock \in [holder : FcCycle \cup {FcNone}, timeouts : Nat]
        /\ fcLock.timeouts <= fcLoad.timeouts
    BY <1>1, <2>3
  <2>5. fcCovered \subseteq FcWindows /\ fcMoved \in BOOLEAN
    BY <2>3
  <2> QED BY <1>1, <1>4, <2>1, <2>2, <2>4, <2>5 DEF FcTypes
<1>7. /\ FcIdle.pc = "idle" /\ FcIdle.base = FcNone /\ FcIdle.staged = FcNone /\ FcIdle.max = 0
      /\ FcIdle.files = <<>> /\ FcIdle.stat = <<>> /\ FcIdle.scan = {}
      /\ DOMAIN FcIdle.files = {} /\ DOMAIN FcIdle.stat = {}
  BY FcEmptyMaps DEF FcIdle
<1>8. FcLocalsAt(fcLoad, fcNow, fcMoved, fcDisk, FcIdle)
  <2>1. FcDataAt(fcLoad, fcNow, fcMoved, fcDisk, FcNone)
    BY DEF FcDataAt
  <2>2. FcEntriesAt(fcLoad, fcNow, fcMoved, fcDisk, FcIdle.files)
    BY <1>7 DEF FcEntriesAt
  <2>3. fcNow = 1
    BY DEF FcInit
  <2> QED BY <1>7, <2>1, <2>2, <2>3 DEF FcLocalsAt, FcCheckingPcs
<1>9. \A c \in FcCycle : FcCycleOK(c, FcIdle)
  BY <1>7 DEF FcCycleOK, FcUsable, FcStagingPcs
<1>10. FcFilesOK
  BY <1>5 DEF FcFilesOK, FcPath
<1> QED BY <1>4, <1>5, <1>6, <1>8, <1>9, <1>10 DEF FcInv, FcLocalsOK, FcCyclesOK

\* Every step keeps the invariant.
LEMMA FcNextOK ==
    ASSUME FcInv, FcOwnMarks, [FcNext]_fcVars
    PROVE  FcInv' /\ FcOwnMarks'
<1>1. CASE UNCHANGED fcVars
  BY <1>1 DEF fcVars, FcInv, FcTypes, FcDiskOK, FcLocalsOK, FcLocalsAt, FcDataAt, FcEntriesAt,
     FcTrusted, FcFilesOK, FcSound, FcSoundAt, FcFastMeets, FcCyclesOK, FcCycleOK, FcOwnMarks
<1>2. ASSUME NEW f \in FcName, NEW x \in FcContent \cup {FcNone}, FcEdit(f, x)
      PROVE  FcInv' /\ UNCHANGED fcLoad
  BY <1>2, FcEditStep DEF FcEdit, FcKeepCycles
<1>3. ASSUME NEW f \in FcName, NEW g \in FcName, FcRename(f, g)
      PROVE  FcInv' /\ UNCHANGED fcLoad
  BY <1>3, FcRenameStep DEF FcRename, FcKeepCycles
<1>4. ASSUME NEW c \in FcCycle,
             \/ FcBegin(c) \/ FcFast(c) \/ FcFastRead(c) \/ FcReadBase(c)
             \/ \E f \in FcName : FcStat(c, f) \/ FcHash(c, f)
             \/ FcMax(c) \/ FcDecide(c)
      PROVE  FcInv' /\ UNCHANGED fcLoad
  <2>1. FcInv'
    BY <1>4, FcBeginStep, FcFastStep, FcFastReadStep, FcReadBaseStep, FcStatStep, FcHashStep,
       FcMaxStep, FcDecideStep
  <2>2. FcLocal \/ FcReading => UNCHANGED fcLoad
    BY DEF FcLocal, FcReading, FcInputsKept
  <2>3. FcBegin(c) => UNCHANGED fcLoad
    BY Zenon DEF FcBegin
  <2>4. (\E f \in FcName : FcStat(c, f) \/ FcHash(c, f)) => FcLocal
    BY Zenon DEF FcStat, FcHash
  <2>5. FcFast(c) \/ FcFastRead(c) \/ FcReadBase(c) \/ FcMax(c) \/ FcDecide(c) =>
          FcLocal \/ FcReading
    BY Zenon DEF FcFast, FcFastRead, FcReadBase, FcMax, FcDecide
  <2> QED BY <1>4, <2>1, <2>2, <2>3, <2>4, <2>5
<1>5. ASSUME NEW c \in FcCycle,
             \/ FcStage(c) \/ FcStageRemove(c) \/ FcStageRename(c)
             \/ FcCheckExits(c) \/ FcSkip(c)
             \/ \E status \in {"success", "failure"} : FcMark(c, status)
             \/ FcCommit(c) \/ FcCommitRemove(c) \/ FcCommitRename(c) \/ FcCommitPending(c)
             \/ FcInvalidate(c) \/ FcDie(c)
      PROVE  FcInv' /\ UNCHANGED fcLoad
  <2>1. FcInv'
    BY <1>5, FcStageStep, FcStageRemoveStep, FcStageRenameStep, FcCheckExitsStep, FcSkipStep,
       FcMarkStep, FcCommitStep, FcCommitRemoveStep, FcCommitRenameStep, FcCommitPendingStep,
       FcInvalidateStep, FcDieStep
  <2>2. UNCHANGED fcLoad
    BY <1>5 DEF FcStage, FcStageRemove, FcStageRename, FcCheckExits, FcSkip, FcMark, FcCommit,
       FcCommitRemove, FcCommitRename, FcCommitPending, FcInvalidate, FcDie, FcLocal, FcInputsKept
  <2> QED BY <2>1, <2>2
<1>6. CASE FcNext
  <2>1. FcInv' /\ UNCHANGED fcLoad
    BY <1>2, <1>3, <1>4, <1>5, <1>6 DEF FcNext
  <2> QED BY <2>1 DEF FcOwnMarks
<1> QED BY <1>1, <1>6

\* What the fingerprint crate says is unchanged was there when an operation
\* succeeded (promote_with_status, commit_pending, try_mtime_fast_path): for any
\* number of inputs, contents, cycles, edits and timeouts, as long as a caller
\* marks what it ran and a mark of another process is that of the only cycle.
THEOREM FcSuccessCoveredHolds == FcSpec /\ FcOwnMarks => []FcSuccessCovered
<1>1. FcInv => FcSuccessCovered
  <2> SUFFICES ASSUME FcInv PROVE FcSuccessCovered
    OBVIOUS
  <2>1. ASSUME NEW c \in FcCycle, FcAt(c, "answered"), ~fcCheck[c].run, ~fcMoved
        PROVE  \E w \in fcCovered : FcMeets(fcCheck[c].window, w)
    BY <2>1, FcOfCycle DEF FcCycleOK, FcAt
  <2>2. ASSUME FcRead("cache") # FcNone, FcRead("cache").status = "success",
               fcMoved => fcLoad.kind = "hash"
        PROVE  \E w \in fcCovered : FcHashed(FcRead("cache").files, w)
    <3>1. fcFiles["cache"] # FcNone /\ FcRead("cache") = fcFiles["cache"].data
      BY <2>2 DEF FcRead
    <3>2. PICK w \in fcCovered : FcSound(fcFiles["cache"].data, w)
      BY <2>2, <3>1, FcFilesNow
    <3> QED BY <2>2, <3>1, <3>2 DEF FcSound, FcSoundAt, FcTrusted
  <2> QED BY <2>1, <2>2 DEF FcSuccessCovered
<1>2. FcInv /\ FcOwnMarks /\ [FcNext]_fcVars => FcInv' /\ FcOwnMarks'
  BY FcNextOK
<1> QED BY <1>1, <1>2, FcInitOK, PTL DEF FcSpec


-----------------------------------------------------------------------------
(* Types, whoever marks *)

\* The type invariant with the types of the locals.
FcFilesShape ==
    /\ \A p \in FcPath : fcFiles[p] # FcNone => fcFiles[p].time <= fcNow
    /\ \A p \in {"cache", "cache_tmp"} : fcFiles[p] # FcNone => fcFiles[p].data.status # "pending"

FcLocalShape(k) ==
    /\ k \in FcCycleType /\ DOMAIN k.files \subseteq k.scan
    /\ k.pc \in {"fast", "fast_read", "read"} => DOMAIN k.files = {}
    /\ k.pc = "commit" => k.staged # FcNone

FcShape ==
    FcTypes /\ FcDiskOK /\ FcFilesShape /\ \A c \in FcCycle : FcLocalShape(fcCheck[c])

\* A cycle that has not begun has the shape of the locals.
LEMMA FcIdleShape == FcLocalShape(FcIdle)
<1>1. FcIdle.pc = "idle" /\ DOMAIN FcIdle.files = {}
  BY FcEmptyMaps DEF FcIdle
<1> QED BY <1>1, FcIdleType DEF FcLocalShape

\* A cycle takes a step, perhaps with a file.
LEMMA FcShapeStep ==
    ASSUME FcShape, NEW c \in FcCycle, NEW k, FcLocalShape(k), FcStep(c, k),
           UNCHANGED <<fcLoad, fcDisk, fcNow, fcMoved>>,
           fcCalls' \in Nat /\ fcCalls' <= fcLoad.calls,
           UNCHANGED fcLock \/ FcShared \/ FcExclusive(c) \/ FcUnlock(c),
           fcCovered' \subseteq FcWindows,
           fcFiles' \in [FcPath -> FcFileSet], FcFilesShape'
    PROVE  FcShape'
<1>1. /\ fcLock' \in [holder : FcCycle \cup {FcNone}, timeouts : Nat]
      /\ fcLock'.timeouts <= fcLoad.timeouts
  BY FcLockStep DEF FcShape
<1>2. fcCheck \in [FcCycle -> FcCycleType]
  BY DEF FcShape, FcTypes
<1>3. FcTypes'
  BY <1>1, <1>2 DEF FcShape, FcTypes, FcStep, FcFileSet, FcLocalShape
<1>4. FcDiskOK'
  BY DEF FcShape, FcDiskOK
<1>5. ASSUME NEW b \in FcCycle PROVE FcLocalShape(fcCheck'[b])
  <2>1. fcCheck'[b] = IF b = c THEN k ELSE fcCheck[b]
    BY <1>2 DEF FcStep
  <2> QED BY <2>1 DEF FcShape
<1> QED BY <1>3, <1>4, <1>5 DEF FcShape, FcLocalShape

\* What the type invariant says of one cycle.
LEMMA FcOfShape ==
    ASSUME FcShape, NEW c \in FcCycle
    PROVE  /\ FcLocalShape(fcCheck[c]) /\ fcCheck[c] \in FcCycleType
           /\ fcNow \in Nat \ {0} /\ fcCalls \in Nat /\ fcCalls <= fcLoad.calls
           /\ fcLoad.calls \in Nat
           /\ fcDisk \in [FcName -> [mtime : Nat, content : FcContent \cup {FcNone}]]
           /\ FcDiskOK /\ fcCovered \subseteq FcWindows
           /\ fcFiles \in [FcPath -> FcFileSet] /\ FcFilesShape
<1>1. fcLoad \in FcLoadType
  BY FcAssumption DEF FcShape, FcTypes
<1>2. fcLoad.calls \in Nat
  BY <1>1 DEF FcLoadType
<1> QED BY <1>2 DEF FcShape, FcTypes, FcFileSet, FcLocalShape

\* The steps that leave the files alone.
LEMMA FcShapeLocal ==
    ASSUME FcShape, NEW c \in FcCycle, NEW k, FcLocalShape(k), FcStep(c, k),
           FcLocal \/ FcReading
    PROVE  FcShape'
<1>1. /\ UNCHANGED <<fcLoad, fcDisk, fcNow, fcMoved, fcCalls, fcFiles, fcCovered>>
      /\ UNCHANGED fcLock \/ FcShared
  BY DEF FcLocal, FcReading, FcInputsKept
<1>2. FcFilesShape'
  BY <1>1, FcOfShape DEF FcFilesShape
<1> QED BY <1>1, <1>2, FcOfShape, FcShapeStep

\* The start of a check keeps the shape of the state.
LEMMA FcBeginShape ==
    ASSUME FcShape, NEW c \in FcCycle, FcBegin(c) PROVE FcShape'
<1> DEFINE k == [FcIdle EXCEPT !.pc = "fast", !.scan = {f \in FcName : fcDisk[f] # FcAbsent},
                               !.window = [f \in FcName |-> {fcDisk[f].content}]]
<1>1. /\ FcStep(c, k) /\ fcCalls' = fcCalls + 1 /\ fcCalls < fcLoad.calls
      /\ UNCHANGED <<fcLoad, fcDisk, fcNow, fcFiles, fcLock, fcCovered, fcMoved>>
  BY DEF FcBegin, FcCall
<1>2. k \in FcCycleType
  <2>1. \A f \in FcName : {fcDisk[f].content} \in SUBSET (FcContent \cup {FcNone})
    BY FcOfShape
  <2>2. [f \in FcName |-> {fcDisk[f].content}] \in FcWindows
    BY <2>1 DEF FcWindows
  <2> QED BY <2>2, FcIdleType DEF FcCycleType, FcPcs
<1>3. k.pc = "fast" /\ DOMAIN k.files = {}
  BY FcEmptyMaps DEF FcIdle
<1> HIDE DEF k
<1>4. FcLocalShape(k)
  BY <1>2, <1>3 DEF FcLocalShape
<1>5. FcFilesShape'
  BY <1>1, FcOfShape DEF FcFilesShape
<1>6. fcCalls' \in Nat /\ fcCalls' <= fcLoad.calls
  BY <1>1, FcOfShape
<1> QED BY <1>1, <1>4, <1>5, <1>6, FcOfShape, FcShapeStep

\* The steps of a check: locals that keep what the scan has hashed.
LEMMA FcFastShape ==
    ASSUME FcShape, NEW c \in FcCycle, FcFast(c) \/ FcFastRead(c) \/ FcReadBase(c)
    PROVE  FcShape'
<1> DEFINE j == fcCheck[c]
           d == FcRead("cache")
<1>1. j \in FcCycleType /\ DOMAIN j.files \subseteq j.scan
  BY FcOfShape DEF FcLocalShape
<1>2. FcMaxMtime(j.scan) \in Nat
  BY <1>1, FcMaxMtimeOK DEF FcShape, FcCycleType
<1>3. d \in FcData \cup {FcNone}
  BY FcOfShape DEF FcRead, FcFileSet, FcPath
<1>4. FcSlow \in {"files", "read"}
  BY DEF FcSlow
<1>5. CASE FcFast(c)
  <2>1. /\ j.pc = "fast" /\ FcLocal
        /\ \/ FcStep(c, [j EXCEPT !.pc = "fast_read", !.max = FcMaxMtime(j.scan)])
           \/ FcStep(c, [j EXCEPT !.pc = FcSlow])
    BY <1>5 DEF FcFast, FcAt
  <2>2. DOMAIN j.files = {}
    BY <2>1, FcOfShape DEF FcLocalShape
  <2> HIDE DEF j
  <2>3. /\ FcLocalShape([j EXCEPT !.pc = "fast_read", !.max = FcMaxMtime(j.scan)])
        /\ FcLocalShape([j EXCEPT !.pc = FcSlow])
    BY <1>1, <1>2, <1>4, <2>2 DEF FcLocalShape, FcCycleType, FcPcs
  <2> QED BY <2>1, <2>3, FcShapeLocal
<1>6. CASE FcFastRead(c)
  <2>1. \/ FcStep(c, [j EXCEPT !.pc = "answered", !.scan = {}, !.max = 0, !.staged = d])
        \/ FcStep(c, [j EXCEPT !.pc = FcSlow, !.max = 0])
    BY <1>6 DEF FcFastRead
  <2>2. j.pc = "fast_read" /\ FcReading
    BY <1>6 DEF FcFastRead, FcAt
  <2>3. DOMAIN j.files = {}
    BY <2>2, FcOfShape DEF FcLocalShape
  <2> HIDE DEF j, d
  <2>4. /\ FcLocalShape([j EXCEPT !.pc = "answered", !.scan = {}, !.max = 0, !.staged = d])
        /\ FcLocalShape([j EXCEPT !.pc = FcSlow, !.max = 0])
    BY <1>1, <1>3, <1>4, <2>3 DEF FcLocalShape, FcCycleType, FcPcs
  <2> QED BY <2>1, <2>2, <2>4, FcShapeLocal
<1>7. CASE FcReadBase(c)
  <2>1. FcStep(c, [j EXCEPT !.pc = "files", !.base = d]) /\ FcReading
    BY <1>7 DEF FcReadBase
  <2> HIDE DEF j, d
  <2>2. FcLocalShape([j EXCEPT !.pc = "files", !.base = d])
    BY <1>1, <1>3 DEF FcLocalShape, FcCycleType, FcPcs
  <2> QED BY <2>1, <2>2, FcShapeLocal
<1> QED BY <1>5, <1>6, <1>7

\* Reading an mtime keeps the shape.
LEMMA FcStatShape ==
    ASSUME FcShape, NEW c \in FcCycle, NEW f \in FcName, FcStat(c, f) PROVE FcShape'
<1> DEFINE j == fcCheck[c]
           reused == /\ FcUsable(j.base) /\ f \in DOMAIN j.base.files
                     /\ j.base.files[f].mtime = fcDisk[f].mtime
           t == FcWith(j.stat, f, fcDisk[f].mtime)
           g == IF reused THEN FcWith(j.files, f, j.base.files[f]) ELSE j.files
           k == [j EXCEPT !.stat = t, !.files = g]
<1>1. /\ j \in FcCycleType /\ DOMAIN j.files \subseteq j.scan
      /\ j.stat \in FcStats /\ j.files \in FcEntries /\ j.base \in FcData \cup {FcNone}
  BY FcOfShape DEF FcLocalShape, FcCycleType
<1>2. j.pc = "files" /\ f \in j.scan /\ FcLocal
  BY DEF FcStat, FcAt
<1>3. FcStep(c, IF fcDisk[f] = FcAbsent THEN FcIdle ELSE k)
  BY <1>1 DEF FcStat, FcCycleType
<1>4. t \in FcStats
  BY <1>1, FcOfShape, FcStatsWith
<1>5. g \in FcEntries /\ DOMAIN g \subseteq j.scan
  <2>1. CASE ~reused
    BY <1>1, <2>1
  <2>2. CASE reused
    <3>1. j.base \in FcData /\ f \in DOMAIN j.base.files
      BY <1>1, <2>2 DEF FcUsable
    <3>2. j.base.files[f] \in FcEntry
      BY <3>1, FcEntriesGet DEF FcData
    <3>3. /\ FcWith(j.files, f, j.base.files[f]) \in FcEntries
          /\ DOMAIN FcWith(j.files, f, j.base.files[f]) = DOMAIN j.files \cup {f}
      BY <1>1, <3>2, FcEntriesWith
    <3> QED BY <1>1, <1>2, <2>2, <3>3
  <2> QED BY <2>1, <2>2
<1> HIDE DEF j, t, g
<1>6. FcLocalShape(k)
  BY <1>1, <1>2, <1>4, <1>5 DEF FcLocalShape, FcCycleType, FcPcs
<1> QED BY <1>2, <1>3, <1>6, FcIdleShape, FcShapeLocal

\* Hashing an input keeps the shape.
LEMMA FcHashShape ==
    ASSUME FcShape, NEW c \in FcCycle, NEW f \in FcName, FcHash(c, f) PROVE FcShape'
<1> DEFINE j == fcCheck[c]
           m == IF fcLoad.kind = "two_layer" THEN j.stat[f] ELSE 0
           e == [mtime |-> m, hash |-> fcDisk[f].content]
           g == FcWith(j.files, f, e)
           k == [j EXCEPT !.files = g]
<1>1. /\ j \in FcCycleType /\ DOMAIN j.files \subseteq j.scan
      /\ j.stat \in FcStats /\ j.files \in FcEntries
  BY FcOfShape DEF FcLocalShape, FcCycleType
<1>2. /\ j.pc = "files" /\ f \in j.scan /\ FcLocal
      /\ fcLoad.kind = "two_layer" => f \in DOMAIN j.stat
  BY DEF FcHash, FcAt
<1>3. FcStep(c, IF fcDisk[f] = FcAbsent THEN FcIdle ELSE k)
  BY <1>1 DEF FcHash, FcCycleType
<1>4. CASE fcDisk[f] = FcAbsent
  BY <1>2, <1>3, <1>4, FcIdleShape, FcShapeLocal
<1>5. CASE fcDisk[f] # FcAbsent
  <2>1. m \in Nat
    BY <1>1, <1>2, FcStatsGet
  <2>2. fcDisk[f].content \in FcContent
    BY <1>5, FcOfShape DEF FcDiskOK
  <2>3. e \in FcEntry
    BY <2>1, <2>2 DEF FcEntry
  <2> HIDE DEF e
  <2>4. g \in FcEntries /\ DOMAIN g = DOMAIN j.files \cup {f}
    BY <1>1, <2>3, FcEntriesWith
  <2> HIDE DEF j, g
  <2>5. FcLocalShape(k)
    BY <1>1, <1>2, <2>4 DEF FcLocalShape, FcCycleType, FcPcs
  <2> QED BY <1>2, <1>3, <1>5, <2>5, FcShapeLocal
<1> QED BY <1>4, <1>5

\* Reading the newest mtime keeps the shape.
LEMMA FcMaxShape ==
    ASSUME FcShape, NEW c \in FcCycle, FcMax(c) PROVE FcShape'
<1> DEFINE j == fcCheck[c]
           S == {0} \cup {j.files[f].mtime : f \in j.scan}
<1>1. /\ j \in FcCycleType /\ j.files \in FcEntries /\ j.scan \subseteq FcName
  BY FcOfShape DEF FcCycleType
<1>2. j.pc = "files" /\ DOMAIN j.files = j.scan /\ FcLocal
  BY DEF FcMax, FcAt
<1>3. PICK m : /\ \/ m = Max(S) \/ m = FcMaxMtime(j.scan) \/ m = 0
               /\ FcStep(c, [j EXCEPT !.pc = "decide", !.max = m, !.stat = <<>>])
  BY DEF FcMax
<1>4. Max(S) \in Nat
  <2> DEFINE g == [f \in j.scan |-> j.files[f].mtime]
  <2>1. \A f \in j.scan : j.files[f].mtime \in Nat
    BY <1>1, <1>2, FcEntriesGet DEF FcEntry
  <2>2. g \in [j.scan -> Nat] /\ S = {0} \cup {g[f] : f \in j.scan}
    BY <2>1
  <2>3. IsFiniteSet(j.scan)
    BY <1>1, FcAssumption, FS_Subset
  <2> HIDE DEF g, S, j
  <2> QED BY <2>2, <2>3, FcMaxOver
<1>5. m \in Nat
  BY <1>1, <1>3, <1>4, FcMaxMtimeOK DEF FcShape
<1> HIDE DEF j
<1>6. FcLocalShape([j EXCEPT !.pc = "decide", !.max = m, !.stat = <<>>])
  BY <1>1, <1>2, <1>5, FcEmptyMaps DEF FcLocalShape, FcCycleType, FcPcs
<1> QED BY <1>2, <1>3, <1>6, FcShapeLocal

\* The verdict keeps the shape.
LEMMA FcDecideShape ==
    ASSUME FcShape, NEW c \in FcCycle, FcDecide(c) PROVE FcShape'
<1> DEFINE j == fcCheck[c]
<1>1. j \in FcCycleType /\ DOMAIN j.files \subseteq j.scan /\ (FcLocal \/ FcReading)
  BY FcOfShape DEF FcLocalShape, FcDecide
<1>2. PICK r \in BOOLEAN : FcStep(c, [j EXCEPT !.pc = "stage", !.base = FcNone, !.run = r])
  BY DEF FcDecide, FcDecided
<1> HIDE DEF j
<1>3. FcLocalShape([j EXCEPT !.pc = "stage", !.base = FcNone, !.run = r])
  BY <1>1, <1>2 DEF FcLocalShape, FcCycleType, FcPcs
<1> QED BY <1>1, <1>2, <1>3, FcShapeLocal


\* What is written keeps the shape of the files.
LEMMA FcPutShape ==
    ASSUME FcShape, fcNow' = fcNow, NEW p \in FcPath, NEW v \in FcFileSet, FcPut(p, v),
           v # FcNone => v.time <= fcNow,
           v # FcNone /\ p \in {"cache", "cache_tmp"} => v.data.status # "pending"
    PROVE  fcFiles' \in [FcPath -> FcFileSet] /\ FcFilesShape'
<1>1. fcFiles \in [FcPath -> FcFileSet] /\ FcFilesShape
  BY DEF FcShape, FcTypes, FcFileSet
<1>2. \A q \in FcPath : fcFiles'[q] = IF q = p THEN v ELSE fcFiles[q]
  BY <1>1 DEF FcPut
<1>3. fcFiles' \in [FcPath -> FcFileSet]
  BY <1>1 DEF FcPut
<1>4. {"cache", "cache_tmp"} \subseteq FcPath
  BY DEF FcPath
<1> QED BY <1>1, <1>2, <1>3, <1>4 DEF FcFilesShape

\* Moving a .tmp file keeps the shape of the files.
LEMMA FcMoveShape ==
    ASSUME FcShape, fcNow' = fcNow,
           FcMoveTmp("pending_tmp", "pending") \/ FcMoveTmp("cache_tmp", "cache")
    PROVE  fcFiles' \in [FcPath -> FcFileSet] /\ FcFilesShape'
<1>1. fcFiles \in [FcPath -> FcFileSet] /\ FcFilesShape /\ FcNone \in FcFileSet
  BY DEF FcShape, FcTypes, FcFileSet
<1>2. /\ "cache" \in FcPath /\ "cache_tmp" \in FcPath
      /\ "pending" \in FcPath /\ "pending_tmp" \in FcPath
  BY DEF FcPath
<1>3. CASE FcMoveTmp("pending_tmp", "pending")
  <2>1. fcFiles' \in [FcPath -> FcFileSet]
    BY <1>1, <1>2, <1>3 DEF FcMoveTmp
  <2>2. \A q \in FcPath : \/ fcFiles'[q] = fcFiles[q] \/ fcFiles'[q] = FcNone
                          \/ q = "pending" /\ fcFiles'[q] = fcFiles["pending_tmp"]
    BY <1>1, <1>2, <1>3 DEF FcMoveTmp
  <2> QED BY <1>1, <1>2, <2>1, <2>2 DEF FcFilesShape
<1>4. CASE FcMoveTmp("cache_tmp", "cache")
  <2>1. fcFiles' \in [FcPath -> FcFileSet]
    BY <1>1, <1>2, <1>4 DEF FcMoveTmp
  <2>2. \A q \in FcPath : \/ fcFiles'[q] = fcFiles[q] \/ fcFiles'[q] = FcNone
                          \/ q = "cache" /\ fcFiles'[q] = fcFiles["cache_tmp"]
    BY <1>1, <1>2, <1>4 DEF FcMoveTmp
  <2> QED BY <1>1, <1>2, <2>1, <2>2 DEF FcFilesShape
<1> QED BY <1>3, <1>4

\* write_pending, and a check whose process exits.
LEMMA FcStageShape ==
    ASSUME FcShape, NEW c \in FcCycle,
           FcStage(c) \/ FcStageRemove(c) \/ FcStageRename(c) \/ FcCheckExits(c) \/ FcSkip(c)
    PROVE  FcShape'
<1> DEFINE j == fcCheck[c]
           s == FcSnapshot(c)
<1>1. /\ j \in FcCycleType /\ DOMAIN j.files \subseteq j.scan
      /\ fcNow \in Nat /\ fcCalls \in Nat /\ fcCalls <= fcLoad.calls
  BY FcOfShape DEF FcLocalShape
<1>2. s \in FcData
  BY <1>1 DEF FcSnapshot, FcData, FcStatus, FcCycleType
<1>3. FcNone \in FcFileSet /\ "pending" \in FcPath /\ "pending_tmp" \in FcPath
      /\ "pending" \notin {"cache", "cache_tmp"} /\ "pending_tmp" \notin {"cache", "cache_tmp"}
  BY DEF FcFileSet, FcPath
<1>4. CASE FcStage(c)
  <2> DEFINE v == FcWritten(s)
  <2>1. /\ FcStep(c, [j EXCEPT !.pc = "stage_remove"]) /\ FcExclusive(c) /\ FcPut("pending_tmp", v)
        /\ UNCHANGED <<fcLoad, fcDisk, fcNow, fcMoved, fcCalls, fcCovered>>
    BY <1>4 DEF FcStage, FcInputsKept
  <2>2. v \in FcFileSet /\ v.time = fcNow
    BY <1>1, <1>2 DEF FcWritten, FcFileSet
  <2> HIDE DEF j, v
  <2>3. fcFiles' \in [FcPath -> FcFileSet] /\ FcFilesShape'
    BY <1>1, <1>3, <2>1, <2>2, FcPutShape
  <2>4. FcLocalShape([j EXCEPT !.pc = "stage_remove"])
    BY <1>1 DEF FcLocalShape, FcCycleType, FcPcs
  <2> QED BY <1>1, <2>1, <2>3, <2>4, FcOfShape, FcShapeStep
<1>5. CASE FcStageRemove(c)
  <2>1. /\ FcStep(c, [j EXCEPT !.pc = "stage_rename"]) /\ FcPut("pending", FcNone)
        /\ UNCHANGED <<fcLoad, fcDisk, fcNow, fcMoved, fcCalls, fcCovered, fcLock>>
    BY <1>5 DEF FcStageRemove, FcInputsKept
  <2> HIDE DEF j
  <2>2. fcFiles' \in [FcPath -> FcFileSet] /\ FcFilesShape'
    BY <1>3, <2>1, FcPutShape
  <2>3. FcLocalShape([j EXCEPT !.pc = "stage_rename"])
    BY <1>1 DEF FcLocalShape, FcCycleType, FcPcs
  <2> QED BY <1>1, <2>1, <2>2, <2>3, FcOfShape, FcShapeStep
<1>6. CASE FcStageRename(c)
  <2> DEFINE k == [j EXCEPT !.pc = "answered", !.staged = s, !.scan = {}, !.files = <<>>, !.max = 0]
  <2>1. /\ FcStep(c, FcIdle) \/ FcStep(c, k)
        /\ FcUnlock(c) /\ FcMoveTmp("pending_tmp", "pending")
        /\ UNCHANGED <<fcLoad, fcDisk, fcNow, fcMoved, fcCalls, fcCovered>>
    BY <1>6 DEF FcStageRename, FcInputsKept
  <2> HIDE DEF j, s
  <2>2. k \in FcCycleType /\ k.pc = "answered" /\ DOMAIN k.files = {}
    BY <1>1, <1>2, FcEmptyMaps DEF FcCycleType, FcPcs
  <2> HIDE DEF k
  <2>3. FcLocalShape(k)
    BY <2>2 DEF FcLocalShape
  <2>4. fcFiles' \in [FcPath -> FcFileSet] /\ FcFilesShape'
    BY <2>1, FcMoveShape
  <2> QED BY <1>1, <2>1, <2>3, <2>4, FcIdleShape, FcOfShape, FcShapeStep
<1>7. CASE FcCheckExits(c)
  <2>1. FcStep(c, [j EXCEPT !.staged = FcNone]) /\ FcLocal /\ j.pc = "answered"
    BY <1>7 DEF FcCheckExits, FcAt
  <2> HIDE DEF j
  <2>2. FcLocalShape([j EXCEPT !.staged = FcNone])
    BY <1>1, <2>1 DEF FcLocalShape, FcCycleType
  <2> QED BY <2>1, <2>2, FcShapeLocal
<1>8. CASE FcSkip(c)
  BY <1>8, FcIdleShape, FcShapeLocal DEF FcSkip
<1> QED BY <1>4, <1>5, <1>6, <1>7, <1>8

\* promote_with_status and commit_pending.
LEMMA FcMarkShape ==
    ASSUME FcShape, NEW c \in FcCycle, NEW status \in {"success", "failure"}, FcMark(c, status)
    PROVE  FcShape'
<1> DEFINE j == fcCheck[c]
           d == FcClaim(c)
<1>1. /\ j \in FcCycleType /\ fcCalls \in Nat /\ fcCalls <= fcLoad.calls
      /\ fcFiles \in [FcPath -> FcFileSet]
  BY FcOfShape
<1>2. d \in FcData \cup {FcNone}
  BY <1>1 DEF FcClaim, FcRead, FcFileSet, FcPath, FcCycleType
<1>3. PICK r \in BOOLEAN : r = (status = "success")
  OBVIOUS
<1> DEFINE k == [FcIdle EXCEPT !.pc = "commit", !.run = r, !.staged = d]
<1>4. /\ FcStep(c, IF d = FcNone THEN FcIdle ELSE k)
      /\ UNCHANGED fcLock \/ FcShared
      /\ UNCHANGED <<fcLoad, fcDisk, fcNow, fcMoved, fcCalls, fcFiles>>
      /\ fcCovered' \subseteq fcCovered \cup {j.window}
  BY <1>3 DEF FcMark, FcInputsKept
<1>5. fcCovered' \subseteq FcWindows
  BY <1>1, <1>4, FcOfShape DEF FcCycleType
<1>6. FcFilesShape' /\ fcFiles' \in [FcPath -> FcFileSet]
  BY <1>4, FcOfShape DEF FcFilesShape
<1> HIDE DEF d
<1>7. d # FcNone => FcLocalShape(k)
  <2>1. k \in FcCycleType
    BY <1>2, <1>3, FcIdleType DEF FcCycleType, FcPcs
  <2>2. k.pc = "commit" /\ k.staged = d /\ DOMAIN k.files = {}
    BY FcEmptyMaps DEF FcIdle
  <2> QED BY <2>1, <2>2 DEF FcLocalShape
<1> HIDE DEF k
<1> QED BY <1>1, <1>4, <1>5, <1>6, <1>7, FcIdleShape, FcShapeStep

\* The steps of a commit keep the shape.
LEMMA FcCommitShape ==
    ASSUME FcShape, NEW c \in FcCycle,
           \/ FcCommit(c) \/ FcCommitRemove(c) \/ FcCommitRename(c) \/ FcCommitPending(c)
    PROVE  FcShape'
<1> DEFINE j == fcCheck[c]
<1>1. /\ FcLocalShape(j) /\ j \in FcCycleType /\ DOMAIN j.files \subseteq j.scan
      /\ fcNow \in Nat /\ fcCalls \in Nat /\ fcCalls <= fcLoad.calls
  BY FcOfShape DEF FcLocalShape
<1>2. /\ FcNone \in FcFileSet /\ "pending" \in FcPath /\ "cache" \in FcPath /\ "cache_tmp" \in FcPath
  BY DEF FcFileSet, FcPath
<1>3. CASE FcCommit(c)
  <2> DEFINE s == IF j.run THEN "success" ELSE "failure"
             d == [j.staged EXCEPT !.status = s]
             v == FcWritten(d)
  <2>1. PICK r \in BOOLEAN : r = (FcRead("pending") = j.staged)
    OBVIOUS
  <2>2. /\ j.pc = "commit" /\ FcExclusive(c) /\ FcPut("cache_tmp", v)
        /\ FcStep(c, [j EXCEPT !.pc = "commit_remove", !.ours = r])
        /\ UNCHANGED <<fcLoad, fcDisk, fcNow, fcMoved, fcCalls, fcCovered>>
    BY <1>3, <2>1 DEF FcCommit, FcAt, FcInputsKept
  <2>3. j.staged \in FcData
    BY <1>1, <2>2 DEF FcLocalShape, FcCycleType
  <2>4. s \in FcStatus /\ s # "pending"
    BY DEF FcStatus
  <2> HIDE DEF s
  <2>5. d \in FcData /\ d.status = s
    BY <2>3, <2>4 DEF FcData
  <2> HIDE DEF d
  <2>6. v \in FcFileSet /\ v.data = d /\ v.time = fcNow
    BY <1>1, <2>5 DEF FcWritten, FcFileSet
  <2> HIDE DEF v, j
  <2>7. fcFiles' \in [FcPath -> FcFileSet] /\ FcFilesShape'
    BY <1>1, <1>2, <2>2, <2>4, <2>5, <2>6, FcPutShape
  <2>8. FcLocalShape([j EXCEPT !.pc = "commit_remove", !.ours = r])
    BY <1>1, <2>1 DEF FcLocalShape, FcCycleType, FcPcs
  <2> QED BY <1>1, <2>2, <2>7, <2>8, FcOfShape, FcShapeStep
<1>4. CASE FcCommitRemove(c)
  <2>1. /\ FcStep(c, [j EXCEPT !.pc = "commit_rename"]) /\ FcPut("cache", FcNone)
        /\ UNCHANGED <<fcLoad, fcDisk, fcNow, fcMoved, fcCalls, fcCovered, fcLock>>
    BY <1>4 DEF FcCommitRemove, FcInputsKept
  <2> HIDE DEF j
  <2>2. fcFiles' \in [FcPath -> FcFileSet] /\ FcFilesShape'
    BY <1>2, <2>1, FcPutShape
  <2>3. FcLocalShape([j EXCEPT !.pc = "commit_rename"])
    BY <1>1 DEF FcLocalShape, FcCycleType, FcPcs
  <2> QED BY <1>1, <2>1, <2>2, <2>3, FcOfShape, FcShapeStep
<1>5. CASE FcCommitRename(c)
  <2>1. /\ FcStep(c, FcIdle) \/ FcStep(c, [j EXCEPT !.pc = "commit_pending"])
        /\ UNCHANGED fcLock \/ FcUnlock(c)
        /\ FcMoveTmp("cache_tmp", "cache")
        /\ UNCHANGED <<fcLoad, fcDisk, fcNow, fcMoved, fcCalls, fcCovered>>
    BY <1>5 DEF FcCommitRename, FcInputsKept
  <2> HIDE DEF j
  <2>2. fcFiles' \in [FcPath -> FcFileSet] /\ FcFilesShape'
    BY <2>1, FcMoveShape
  <2>3. FcLocalShape([j EXCEPT !.pc = "commit_pending"])
    BY <1>1 DEF FcLocalShape, FcCycleType, FcPcs
  <2> QED BY <1>1, <2>1, <2>2, <2>3, FcIdleShape, FcOfShape, FcShapeStep
<1>6. CASE FcCommitPending(c)
  <2>1. /\ FcStep(c, FcIdle) /\ FcUnlock(c)
        /\ FcPut("pending", FcNone) \/ UNCHANGED fcFiles
        /\ UNCHANGED <<fcLoad, fcDisk, fcNow, fcMoved, fcCalls, fcCovered>>
    BY <1>6 DEF FcCommitPending, FcInputsKept
  <2>2. fcFiles' \in [FcPath -> FcFileSet] /\ FcFilesShape'
    <3>1. CASE FcPut("pending", FcNone)
      BY <1>2, <2>1, <3>1, FcPutShape
    <3>2. CASE UNCHANGED fcFiles
      BY <2>1, <3>2, FcOfShape DEF FcFilesShape
    <3> QED BY <2>1, <3>1, <3>2
  <2> QED BY <1>1, <2>1, <2>2, FcIdleShape, FcOfShape, FcShapeStep
<1> QED BY <1>3, <1>4, <1>5, <1>6

\* invalidate, and the death of a process.
LEMMA FcEndShape ==
    ASSUME FcShape, NEW c \in FcCycle, FcInvalidate(c) \/ FcDie(c)
    PROVE  FcShape'
<1>1. CASE FcInvalidate(c)
  <2>1. /\ fcFiles' = [fcFiles EXCEPT !["cache"] = FcNone, !["pending"] = FcNone, !["cache_tmp"] = FcNone]
        /\ FcShared /\ fcCalls' = fcCalls + 1 /\ fcCalls < fcLoad.calls
        /\ UNCHANGED <<fcLoad, fcDisk, fcNow, fcMoved, fcCheck, fcCovered>>
    BY <1>1 DEF FcInvalidate, FcCall
  <2>2. /\ fcFiles \in [FcPath -> FcFileSet] /\ FcFilesShape /\ FcNone \in FcFileSet
        /\ {"cache", "cache_tmp"} \subseteq FcPath
    BY FcOfShape DEF FcFileSet, FcPath
  <2>3. /\ fcFiles' \in [FcPath -> FcFileSet]
        /\ \A p \in FcPath : fcFiles'[p] \in {fcFiles[p], FcNone}
    BY <2>1, <2>2
  <2>4. FcFilesShape'
    BY <2>1, <2>2, <2>3 DEF FcFilesShape
  <2>5. FcStep(c, fcCheck[c])
    BY <2>1 DEF FcStep, FcShape, FcTypes
  <2>6. fcCalls' \in Nat /\ fcCalls' <= fcLoad.calls
    BY <2>1, FcOfShape
  <2> QED BY <2>1, <2>3, <2>4, <2>5, <2>6, FcOfShape, FcShapeStep
<1>2. CASE FcDie(c)
  <2>1. /\ FcStep(c, FcIdle) /\ FcUnlock(c)
        /\ UNCHANGED <<fcLoad, fcDisk, fcNow, fcMoved, fcCalls, fcCovered, fcFiles>>
    BY <1>2 DEF FcDie, FcInputsKept
  <2>2. FcFilesShape'
    BY <2>1, FcOfShape DEF FcFilesShape
  <2> QED BY <2>1, <2>2, FcIdleShape, FcOfShape, FcShapeStep
<1> QED BY <1>1, <1>2


\* An edit and a rename: the inputs, and what the checks under way see of them.
LEMMA FcInputShape ==
    ASSUME FcShape, fcNow' = fcNow + 1, fcNow <= fcLoad.edits, fcMoved' \in BOOLEAN,
           fcDisk' \in [FcName -> [mtime : Nat, content : FcContent \cup {FcNone}]],
           \A f \in FcName : \/ \E g \in FcName : fcDisk'[f] = fcDisk[g]
                             \/ fcDisk'[f] = FcAbsent
                             \/ fcDisk'[f].mtime = fcNow + 1 /\ fcDisk'[f].content \in FcContent,
           FcSeen(fcDisk'), FcKeepCycles
    PROVE  FcShape'
<1>1. /\ fcNow \in Nat \ {0} /\ fcLoad.edits \in Nat /\ FcDiskOK
      /\ UNCHANGED <<fcLoad, fcFiles, fcLock, fcCalls, fcCovered>>
  <2>1. fcLoad \in FcLoadType
    BY FcAssumption DEF FcShape, FcTypes
  <2> QED BY <2>1 DEF FcShape, FcTypes, FcLoadType, FcKeepCycles
<1>2. FcDiskOK'
  <2> SUFFICES ASSUME NEW f \in FcName, fcDisk'[f] # FcAbsent
               PROVE  fcDisk'[f].mtime \in 1 .. fcNow' /\ fcDisk'[f].content \in FcContent
    BY DEF FcDiskOK
  <2>1. CASE \E g \in FcName : fcDisk'[f] = fcDisk[g]
    BY <1>1, <2>1 DEF FcDiskOK
  <2>2. CASE fcDisk'[f].mtime = fcNow + 1 /\ fcDisk'[f].content \in FcContent
    BY <1>1, <2>2
  <2> QED BY <2>1, <2>2
<1>3. ASSUME NEW c \in FcCycle PROVE FcLocalShape(fcCheck'[c])
  <2> DEFINE j == fcCheck[c]
             v == [f \in FcName |-> j.window[f] \cup {fcDisk'[f].content}]
  <2>1. j \in FcCycleType /\ FcLocalShape(j)
    BY FcOfShape
  <2>2. fcCheck'[c] = j \/ fcCheck'[c] = [j EXCEPT !.window = v]
    BY <2>1 DEF FcSeen, FcCycleType
  <2>3. v \in FcWindows
    BY <2>1 DEF FcWindows, FcCycleType
  <2> HIDE DEF j, v
  <2>4. FcLocalShape([j EXCEPT !.window = v])
    BY <2>1, <2>3 DEF FcLocalShape, FcCycleType
  <2> QED BY <2>1, <2>2, <2>4
<1>4. fcCheck' \in [FcCycle -> FcCycleType]
  <2>1. fcCheck' = [c \in FcCycle |-> fcCheck'[c]]
    BY DEF FcSeen
  <2> QED BY <1>3, <2>1 DEF FcLocalShape
<1>5. FcTypes'
  <2>1. fcNow' \in Nat \ {0} /\ fcNow' <= fcLoad'.edits + 1
    BY <1>1
  <2> QED BY <1>1, <1>4, <2>1 DEF FcShape, FcTypes
<1>6. FcFilesShape'
  <2>1. \A p \in FcPath : fcFiles[p] # FcNone => fcFiles[p].time \in Nat
    BY DEF FcShape, FcTypes
  <2>2. \A p \in FcPath : fcFiles[p] # FcNone => fcFiles[p].time <= fcNow
    BY DEF FcShape, FcFilesShape
  <2> QED BY <1>1, <2>1, <2>2 DEF FcShape, FcFilesShape
<1> QED BY <1>2, <1>3, <1>5, <1>6 DEF FcShape, FcLocalShape

\* An edit of an input keeps the shape.
LEMMA FcEditShape ==
    ASSUME FcShape, NEW f \in FcName, NEW x \in FcContent \cup {FcNone}, FcEdit(f, x)
    PROVE  FcShape'
<1> DEFINE v == IF x = FcNone THEN FcAbsent ELSE [mtime |-> fcNow + 1, content |-> x]
<1>1. /\ fcNow \in Nat \ {0} /\ fcMoved \in BOOLEAN
      /\ fcDisk \in [FcName -> [mtime : Nat, content : FcContent \cup {FcNone}]]
  BY DEF FcShape, FcTypes
<1>2. /\ fcNow' = fcNow + 1 /\ fcDisk' = [fcDisk EXCEPT ![f] = v] /\ fcMoved' = fcMoved
      /\ fcNow <= fcLoad.edits /\ FcSeen(fcDisk') /\ FcKeepCycles
  BY DEF FcEdit
<1>3. /\ v \in [mtime : Nat, content : FcContent \cup {FcNone}]
      /\ v = FcAbsent \/ (v.mtime = fcNow + 1 /\ v.content \in FcContent)
  BY <1>1 DEF FcAbsent
<1> HIDE DEF v
<1>4. fcDisk' \in [FcName -> [mtime : Nat, content : FcContent \cup {FcNone}]]
  BY <1>1, <1>2, <1>3
<1>5. \A g \in FcName : \/ \E h \in FcName : fcDisk'[g] = fcDisk[h]
                        \/ fcDisk'[g] = FcAbsent
                        \/ fcDisk'[g].mtime = fcNow + 1 /\ fcDisk'[g].content \in FcContent
  <2>1. \A g \in FcName : fcDisk'[g] = IF g = f THEN v ELSE fcDisk[g]
    BY <1>1, <1>2
  <2> QED BY <1>3, <2>1
<1>6. fcMoved' \in BOOLEAN
  BY <1>1, <1>2
<1> QED BY <1>2, <1>4, <1>5, <1>6, FcInputShape

\* A rename of an input keeps the shape.
LEMMA FcRenameShape ==
    ASSUME FcShape, NEW f \in FcName, NEW g \in FcName, FcRename(f, g)
    PROVE  FcShape'
<1>1. fcDisk \in [FcName -> [mtime : Nat, content : FcContent \cup {FcNone}]]
  BY DEF FcShape, FcTypes
<1>2. /\ fcNow' = fcNow + 1 /\ fcDisk' = [fcDisk EXCEPT ![f] = FcAbsent, ![g] = fcDisk[f]]
      /\ fcMoved' = TRUE /\ fcNow <= fcLoad.edits /\ FcSeen(fcDisk') /\ FcKeepCycles
  BY DEF FcRename
<1>3. FcAbsent \in [mtime : Nat, content : FcContent \cup {FcNone}]
  BY DEF FcAbsent
<1>4. fcDisk' \in [FcName -> [mtime : Nat, content : FcContent \cup {FcNone}]]
  BY <1>1, <1>2, <1>3
<1>5. \A h \in FcName : (\E i \in FcName : fcDisk'[h] = fcDisk[i]) \/ fcDisk'[h] = FcAbsent
  BY <1>1, <1>2
<1>6. fcMoved' \in BOOLEAN
  BY <1>2
<1> QED BY <1>2, <1>4, <1>5, <1>6, FcInputShape

\* Type correctness of the fingerprint files and the cycles (persist.rs), for any
\* inputs, contents, cycles and loads, also where callers mark without a run.
THEOREM FcTypeCorrect == FcSpec => []FcTypeOK
<1>1. FcInit => FcShape
  <2> SUFFICES ASSUME FcInit PROVE FcShape
    OBVIOUS
  <2>1. FcTypes /\ FcDiskOK /\ FcFilesOK
    BY FcInitOK DEF FcInv
  <2>2. FcFilesShape
    BY <2>1 DEF FcFilesOK, FcFilesShape
  <2>3. \A c \in FcCycle : FcLocalShape(fcCheck[c])
    BY FcIdleShape DEF FcInit
  <2> QED BY <2>1, <2>2, <2>3 DEF FcShape
<1>2. ASSUME FcShape, [FcNext]_fcVars PROVE FcShape'
  <2>1. CASE UNCHANGED fcVars
    BY <1>2, <2>1 DEF fcVars, FcShape, FcTypes, FcDiskOK, FcFilesShape, FcLocalShape
  <2>2. CASE FcNext
    BY <1>2, <2>2, FcEditShape, FcRenameShape, FcBeginShape, FcFastShape, FcStatShape,
       FcHashShape, FcMaxShape, FcDecideShape, FcStageShape, FcMarkShape, FcCommitShape,
       FcEndShape DEF FcNext
  <2> QED BY <1>2, <2>1, <2>2
<1>3. FcShape => FcTypeOK
  <2> SUFFICES ASSUME FcShape PROVE FcTypeOK
    OBVIOUS
  <2>1. /\ fcLoad \in FcLoadType /\ fcLoad.edits \in Nat /\ fcLoad.calls \in Nat
        /\ fcLoad.timeouts \in Nat
    BY FcAssumption DEF FcShape, FcTypes, FcLoadType
  <2>2. fcNow \in 1 .. fcLoad.edits + 1 /\ fcCalls \in 0 .. fcLoad.calls
    BY <2>1 DEF FcShape, FcTypes
  <2>3. fcDisk \in [FcName -> [mtime : 0 .. fcNow, content : FcContent \cup {FcNone}]]
    <3>1. /\ fcDisk \in [FcName -> [mtime : Nat, content : FcContent \cup {FcNone}]]
          /\ FcDiskOK /\ fcNow \in Nat
      BY DEF FcShape, FcTypes
    <3>2. \A f \in FcName : fcDisk[f].mtime \in 0 .. fcNow
      BY <3>1 DEF FcDiskOK, FcAbsent
    <3> QED BY <3>1, <3>2
  <2>4. \A p \in FcPath : fcFiles[p] # FcNone =>
          fcFiles[p].time <= fcNow /\ fcFiles[p].data.status \in {"pending", "success", "failure"}
    BY DEF FcShape, FcTypes, FcFilesShape, FcData, FcStatus
  <2>5. fcFiles["cache"] # FcNone => fcFiles["cache"].data.status # "pending"
    BY DEF FcShape, FcFilesShape
  <2>6. fcLock.holder \in FcCycle \cup {FcNone} /\ fcLock.timeouts \in 0 .. fcLoad.timeouts
    BY <2>1 DEF FcShape, FcTypes
  <2>7. \A c \in FcCycle : DOMAIN fcCheck[c].files \subseteq fcCheck[c].scan
    BY DEF FcShape, FcLocalShape
  <2> QED BY <2>1, <2>2, <2>3, <2>4, <2>5, <2>6, <2>7 DEF FcTypeOK
<1> QED BY <1>1, <1>2, <1>3, PTL DEF FcSpec
=============================================================================
