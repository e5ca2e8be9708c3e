------------------------------- MODULE FsCache -------------------------------
(***************************************************************************)
(* The file metadata cache of zccache-fscache (metadata.rs, verify.rs,     *)
(* persistence.rs, cache_system.rs): path -> (mtime, size, hash) with a    *)
(* confidence level.  Compile requests look up content hashes on several   *)
(* threads while editors change files, the watcher downgrades entries,     *)
(* eviction removes them, and the daemon saves, dies and reloads them.     *)
(*                                                                         *)
(* A file is a content (the number of the edit that wrote it; its hash is  *)
(* the content itself, hashing being injective) and an mtime.  Sizes are   *)
(* constant: the edits of interest keep the size.  An mtime counts half    *)
(* seconds, so an even one has a zero sub-second field and the default     *)
(* drift tolerance of one second is two units.                             *)
(*                                                                         *)
(* Which path lookup_since takes depends on the journal's answer (module   *)
(* ChangeJournal); here the journal may answer anything, so what is shown  *)
(* does not rest on it.                                                    *)
(***************************************************************************)
EXTENDS Naturals

CONSTANTS
    Path, Thread,
    Watched,        \* the paths in directories the watcher covers
    MtimeSteps,     \* how far an edit may move the mtime
    Recovery,       \* whether OverflowRecovery runs (the daemon does not start it)
    MaxRetries,     \* hash retries of an unstable file (3 in the code)
    MaxEdits, MaxRestarts,  \* bounds on the environment
    None            \* no entry, no file, no snapshot

ASSUME FsConstants ==
    /\ Watched \subseteq Path
    /\ MtimeSteps \subseteq Nat
    /\ Recovery \in BOOLEAN
    /\ MaxRetries \in Nat
    /\ MaxEdits \in Nat
    /\ MaxRestarts \in Nat
    /\ None \notin Nat

Tolerance == 2

Confidence == {"Low", "Medium", "High"}
Trusted == {"Medium", "High"}

VARIABLES
    \* the filesystem
    exists, mtime, content,
    edits,          \* the edits made so far: source of fresh contents
    events,         \* path -> the watcher event not yet applied to the cache
    \* the daemon
    entries,        \* path -> its FileMetadata, or None
    loaded,         \* metadata_cache_loaded: the snapshot load is over
    saving,         \* what save_to_disk collected and has not renamed yet
    rescan,         \* a path rescan_all has stat'd, and its mtime then
    pc, call,       \* the lookup each thread is in
    \* the disk
    snapshot,       \* metadata.bin: path -> [mtime, hash], or None
    restarts,
    \* ghosts
    history,        \* path -> every <<mtime, content>> the file ever had
    seen,           \* thread -> the contents its file had during the call
    unstable,       \* the paths hash_and_insert gave up on, with an entry at Low
    vouched         \* those of them whose entry a restart or a rescan made trusted

fs == <<exists, mtime, content, edits>>
cacheVars == <<entries, loaded, saving, rescan>>
threadVars == <<pc, call, seen>>
ghosts == <<history, unstable, vouched>>
vars == <<fs, events, cacheVars, threadVars, snapshot, restarts, ghosts>>

FileMetadata == [mtime : Nat, hash : Nat, confidence : Confidence]
PersistedEntry == [mtime : Nat, hash : Nat]

Steps == {"idle", "start", "fast", "slow", "stat", "promote", "open", "read",
          "post", "restat", "insert", "done"}

\* The locals of one lookup: the file asked for, the entry being copied or
\* built (mtime, hash, confidence), what the open descriptor reads (fd), the
\* hash of the first attempt, and the retries made.
Call == [path : Path, mtime : Nat, hash : Nat, confidence : Confidence,
         fd : Nat, first : Nat, tries : Nat]

NoCall(p) == [path |-> p, mtime |-> 0, hash |-> 0, confidence |-> "Low",
              fd |-> 0, first |-> 0, tries |-> 0]

TypeOK ==
    /\ exists \in [Path -> BOOLEAN]
    /\ mtime \in [Path -> Nat]
    /\ content \in [Path -> Nat]
    /\ edits \in Nat
    /\ events \in [Path -> {"none", "changed", "removed"}]
    /\ entries \in [Path -> FileMetadata \cup {None}]
    /\ loaded \in BOOLEAN
    /\ saving \in {None} \cup [Path -> PersistedEntry \cup {None}]
    /\ rescan \in {None} \cup [path : Path, mtime : Nat]
    /\ pc \in [Thread -> Steps]
    /\ call \in [Thread -> Call]
    /\ snapshot \in [Path -> PersistedEntry \cup {None}]
    /\ restarts \in Nat
    /\ history \in [Path -> SUBSET (Nat \X Nat)]
    /\ seen \in [Thread -> SUBSET Nat]
    /\ unstable \in SUBSET Path /\ vouched \in SUBSET Path

Init ==
    /\ exists = [p \in Path |-> TRUE]
    /\ mtime = [p \in Path |-> 0]
    /\ content = [p \in Path |-> 0]
    /\ edits = 0
    /\ events = [p \in Path |-> "none"]
    /\ entries = [p \in Path |-> None]
    /\ loaded = FALSE
    /\ saving = None
    /\ rescan = None
    /\ pc = [t \in Thread |-> "idle"]
    /\ call \in [Thread -> {NoCall(p) : p \in Path}]
    /\ snapshot = [p \in Path |-> None]
    /\ restarts = 0
    /\ history = [p \in Path |-> {<<0, 0>>}]
    /\ seen = [t \in Thread |-> {}]
    /\ unstable = {} /\ vouched = {}

\* Mutant: only a file older than its entry counts as changed.
MtimeNotOlder(a, b) == a <= b

\* metadata.rs mtimes_match: equal, or within the tolerance when either side
\* lost its sub-second field.
MtimesMatch(a, b) ==
    \/ a = b
    \/ /\ a % 2 = 0 \/ b % 2 = 0
       /\ a < b + Tolerance /\ b < a + Tolerance

-----------------------------------------------------------------------------
\* The world: editors write and delete files.

Notify(p, kind) == events' = IF p \in Watched THEN [events EXCEPT ![p] = kind] ELSE events

Edit(p, step) ==
    /\ edits < MaxEdits
    /\ edits' = edits + 1
    /\ exists' = [exists EXCEPT ![p] = TRUE]
    /\ mtime' = [mtime EXCEPT ![p] = @ + step]
    /\ content' = [content EXCEPT ![p] = edits + 1]
    /\ history' = [history EXCEPT ![p] = @ \cup {<<mtime[p] + step, edits + 1>>}]
    /\ seen' = [t \in Thread |-> IF call[t].path = p /\ pc[t] # "idle"
                                 THEN seen[t] \cup {edits + 1} ELSE seen[t]]
    /\ Notify(p, "changed")
    /\ UNCHANGED <<cacheVars, pc, call, snapshot, restarts, unstable, vouched>>

Delete(p) ==
    /\ exists[p]
    /\ edits < MaxEdits
    /\ edits' = edits + 1
    /\ exists' = [exists EXCEPT ![p] = FALSE]
    /\ Notify(p, "removed")
    /\ UNCHANGED <<mtime, content, cacheVars, threadVars, snapshot, restarts, ghosts>>

-----------------------------------------------------------------------------
\* The watcher consumer: apply_changes[_with_removals] and apply_overflow.

Downgraded(e) == IF e = None THEN None ELSE [e EXCEPT !.confidence = "Low"]

ApplyChange(p) ==
    /\ events[p] # "none"
    /\ entries' = [entries EXCEPT ![p] = IF events[p] = "removed" THEN None ELSE Downgraded(@)]
    /\ events' = [events EXCEPT ![p] = "none"]
    /\ UNCHANGED <<fs, loaded, saving, rescan, threadVars, snapshot, restarts, ghosts>>

\* The OS queue overflowed: the pending events are lost.
ApplyOverflow ==
    /\ \E p \in Path : events[p] # "none"
    /\ entries' = [p \in Path |-> Downgraded(entries[p])]
    /\ events' = [p \in Path |-> "none"]
    /\ UNCHANGED <<fs, loaded, saving, rescan, threadVars, snapshot, restarts, ghosts>>

-----------------------------------------------------------------------------
\* rescan_all: collect and stat the Low entries without locks, then promote
\* the ones that are still Low and match.

RescanStat(p) ==
    /\ Recovery
    /\ rescan = None
    /\ entries[p] # None
    /\ entries[p].confidence = "Low"
    /\ exists[p]
    /\ rescan' = [path |-> p, mtime |-> mtime[p]]
    /\ UNCHANGED <<fs, events, entries, loaded, saving, threadVars, snapshot, restarts, ghosts>>

Promotable(e, m) == e # None /\ e.confidence = "Low" /\ e.mtime = m

RescanApply ==
    /\ rescan # None
    /\ rescan' = None
    /\ entries' = [entries EXCEPT ![rescan.path] =
                     IF Promotable(@, rescan.mtime) THEN [@ EXCEPT !.confidence = "High"] ELSE @]
    /\ vouched' = vouched \cup (unstable \cap {rescan.path})
    /\ UNCHANGED <<fs, events, loaded, saving, threadVars, snapshot, restarts, history, unstable>>

-----------------------------------------------------------------------------
\* Removal: trim, evict_oldest and evict_candidates drop entries one by one
\* by age, which is not modelled: any entry may go; clear drops them all.

EvictEntry(p) ==
    /\ entries[p] # None
    /\ entries' = [entries EXCEPT ![p] = None]
    /\ UNCHANGED <<fs, events, loaded, saving, rescan, threadVars, snapshot, restarts, ghosts>>

Clear ==
    /\ \E p \in Path : entries[p] # None
    /\ entries' = [p \in Path |-> None]
    /\ UNCHANGED <<fs, events, loaded, saving, rescan, threadVars, snapshot, restarts, ghosts>>

-----------------------------------------------------------------------------
\* Persistence: save_to_disk (collect, then write and rename), the daemon's
\* death, and the background load of the next daemon (merge_from).

Persisted(e) == IF e = None THEN None ELSE [mtime |-> e.mtime, hash |-> e.hash]

SaveCollect ==
    /\ loaded
    /\ saving = None
    /\ \E p \in Path : entries[p] # None
    /\ saving' = [p \in Path |-> Persisted(entries[p])]
    /\ UNCHANGED <<fs, events, entries, loaded, rescan, threadVars, snapshot, restarts, ghosts>>

SaveRename ==
    /\ saving # None
    /\ snapshot' = saving
    /\ saving' = None
    /\ UNCHANGED <<fs, events, entries, loaded, rescan, threadVars, restarts, ghosts>>

\* Shutdown or crash: memory is lost, a save that did not rename left nothing.
Restart ==
    /\ restarts < MaxRestarts
    /\ restarts' = restarts + 1
    /\ entries' = [p \in Path |-> None]
    /\ loaded' = FALSE
    /\ saving' = None
    /\ rescan' = None
    /\ pc' = [t \in Thread |-> "idle"]
    /\ call' = [t \in Thread |-> NoCall(call[t].path)]
    /\ seen' = [t \in Thread |-> {}]
    /\ events' = [p \in Path |-> "none"]
    /\ UNCHANGED <<fs, snapshot, ghosts>>

\* Mutant: the restored entry is given no confidence.
RestoredRaw(e) == e

Restored(e) == [mtime |-> e.mtime, hash |-> e.hash, confidence |-> "Medium"]

Load ==
    /\ ~loaded
    /\ loaded' = TRUE
    /\ entries' = [p \in Path |-> IF snapshot[p] = None THEN entries[p]
                                                        ELSE Restored(snapshot[p])]
    /\ vouched' = vouched \cup {p \in unstable : snapshot[p] # None}
    /\ UNCHANGED <<fs, events, saving, rescan, threadVars, snapshot, restarts, history, unstable>>

-----------------------------------------------------------------------------
\* lookup_since(path): each step is one map access, one stat or one read.

Goto(t, step) == pc' = [pc EXCEPT ![t] = step]
lookupRest == <<fs, events, loaded, saving, rescan, snapshot, restarts, history, vouched>>

\* The call is over and its locals are gone.
End(t) ==
    /\ Goto(t, "idle")
    /\ call' = [call EXCEPT ![t] = NoCall(@.path)]
    /\ seen' = [seen EXCEPT ![t] = {}]

Lookup(t, p) ==
    /\ pc[t] = "idle"
    /\ call' = [call EXCEPT ![t].path = p]
    /\ seen' = [seen EXCEPT ![t] = IF exists[p] THEN {content[p]} ELSE {}]
    /\ Goto(t, "start")
    /\ UNCHANGED <<lookupRest, entries, unstable>>

\* The journal says unchanged and the entry is trusted: copy it.
FastCopy(t) ==
    LET e == entries[call[t].path] IN
    /\ pc[t] = "start"
    /\ e # None
    /\ e.confidence \in Trusted
    /\ call' = [call EXCEPT ![t].mtime = e.mtime, ![t].hash = e.hash]
    /\ Goto(t, "fast")
    /\ UNCHANGED <<lookupRest, entries, seen, unstable>>

\* get_cached_hash_if_stat_valid: the stat after the copy.
FastStat(t) ==
    LET p == call[t].path IN
    /\ pc[t] = "fast"
    /\ Goto(t, IF exists[p] /\ MtimesMatch(call[t].mtime, mtime[p]) THEN "done" ELSE "slow")
    /\ UNCHANGED <<lookupRest, call, entries, seen, unstable>>

\* The journal says changed, or the fast path has no trusted entry.
FastSkip(t) ==
    /\ pc[t] = "start"
    /\ Goto(t, "slow")
    /\ UNCHANGED <<lookupRest, call, entries, seen, unstable>>

\* get(): High decays to Medium, Medium to Low, depending on the age.
Decayed(confidence) ==
    CASE confidence = "High" -> {"High", "Medium"}
      [] confidence = "Medium" -> {"Medium", "Low"}
      [] OTHER -> {"Low"}

SlowGet(t) ==
    LET e == entries[call[t].path] IN
    /\ pc[t] = "slow"
    /\ \/ /\ e = None
          /\ Goto(t, "open")
          /\ UNCHANGED call
       \/ /\ e # None
          /\ \E c \in Decayed(e.confidence) :
                call' = [call EXCEPT ![t].mtime = e.mtime, ![t].hash = e.hash,
                                     ![t].confidence = c]
          /\ Goto(t, "stat")
    /\ UNCHANGED <<lookupRest, entries, seen, unstable>>

SlowStat(t) ==
    LET p == call[t].path IN
    /\ pc[t] = "stat"
    /\ exists[p]
    /\ Goto(t, IF call[t].mtime = mtime[p] /\ call[t].confidence \in Trusted
               THEN "promote" ELSE "open")
    /\ UNCHANGED <<lookupRest, call, entries, seen, unstable>>

\* The file is gone: drop its entry and fail.
SlowGone(t) ==
    LET p == call[t].path IN
    /\ pc[t] = "stat"
    /\ ~exists[p]
    /\ entries' = [entries EXCEPT ![p] = None]
    /\ End(t)
    /\ UNCHANGED <<lookupRest, unstable>>

\* insert() of the copied entry, at High, over whatever is there by now.
Promote(t) ==
    /\ pc[t] = "promote"
    /\ entries' = [entries EXCEPT ![call[t].path] =
                     [mtime |-> call[t].mtime, hash |-> call[t].hash, confidence |-> "High"]]
    /\ Goto(t, "done")
    /\ UNCHANGED <<lookupRest, call, seen, unstable>>

-----------------------------------------------------------------------------
\* hash_and_insert: open and stat the descriptor, hash, stat the path again.

HashOpen(t) ==
    LET p == call[t].path IN
    /\ pc[t] = "open"
    /\ exists[p]
    /\ call' = [call EXCEPT ![t].mtime = mtime[p], ![t].fd = content[p]]
    /\ Goto(t, "read")
    /\ UNCHANGED <<lookupRest, entries, seen, unstable>>

\* The descriptor reads the file as opened if it was replaced since, and what
\* is there now if it was rewritten in place.
HashRead(t) ==
    /\ pc[t] = "read"
    /\ \E h \in {call[t].fd} \cup {content[p] : p \in {q \in {call[t].path} : exists[q]}} :
          call' = [call EXCEPT ![t].hash = h, ![t].fd = 0,
                               ![t].first = IF call[t].tries = 0 THEN h ELSE @]
    /\ Goto(t, "post")
    /\ UNCHANGED <<lookupRest, entries, seen, unstable>>

\* Mutant: the second stat is not compared with the first.
UncheckedRead(t) == call[t].tries = 0 \/ mtime[call[t].path] = call[t].mtime

\* Nothing changed between the two stats.
StableRead(t) == mtime[call[t].path] = call[t].mtime

HashPost(t) ==
    /\ pc[t] = "post"
    /\ exists[call[t].path]
    /\ \/ /\ StableRead(t)
          /\ call' = [call EXCEPT ![t].confidence = "High"]
          /\ Goto(t, "insert")
       \/ /\ ~StableRead(t)
          /\ call[t].tries < MaxRetries
          /\ call' = [call EXCEPT ![t].tries = @ + 1]
          /\ Goto(t, "open")
       \/ /\ ~StableRead(t)
          /\ call[t].tries = MaxRetries
          /\ Goto(t, "restat")
          /\ UNCHANGED call
    /\ UNCHANGED <<lookupRest, entries, seen, unstable>>

\* Still unstable after the retries: the first hash, at Low, under the mtime
\* of one more stat.
HashRestat(t) ==
    LET p == call[t].path IN
    /\ pc[t] = "restat"
    /\ exists[p]
    /\ call' = [call EXCEPT ![t].mtime = mtime[p], ![t].hash = call[t].first,
                            ![t].confidence = "Low"]
    /\ unstable' = unstable \cup {p}
    /\ Goto(t, "insert")
    /\ UNCHANGED <<lookupRest, entries, seen>>

\* open() or stat() found no file: the error ends the lookup.
HashGone(t) ==
    /\ pc[t] \in {"open", "post", "restat"}
    /\ ~exists[call[t].path]
    /\ End(t)
    /\ UNCHANGED <<lookupRest, entries, unstable>>

Insert(t) ==
    /\ pc[t] = "insert"
    /\ entries' = [entries EXCEPT ![call[t].path] =
                     [mtime |-> call[t].mtime, hash |-> call[t].hash,
                      confidence |-> call[t].confidence]]
    /\ Goto(t, "done")
    /\ UNCHANGED <<lookupRest, call, seen, unstable>>

Return(t) ==
    /\ pc[t] = "done"
    /\ End(t)
    /\ UNCHANGED <<lookupRest, entries, unstable>>

-----------------------------------------------------------------------------
LookupStep(t) ==
    \/ FastCopy(t) \/ FastStat(t) \/ FastSkip(t)
    \/ SlowGet(t) \/ SlowStat(t) \/ SlowGone(t) \/ Promote(t)
    \/ HashOpen(t) \/ HashRead(t) \/ HashPost(t) \/ HashRestat(t) \/ HashGone(t)
    \/ Insert(t) \/ Return(t)

World ==
    \E p \in Path : Delete(p) \/ \E step \in MtimeSteps : Edit(p, step)

Daemon ==
    \/ \E p \in Path : ApplyChange(p) \/ RescanStat(p) \/ EvictEntry(p)
    \/ ApplyOverflow \/ RescanApply \/ Clear
    \/ SaveCollect \/ SaveRename \/ Restart \/ Load

Next ==
    \/ World
    \/ Daemon
    \/ \E t \in Thread : LookupStep(t) \/ \E p \in Path : Lookup(t, p)

Spec == Init /\ [][Next]_vars

-----------------------------------------------------------------------------
\* What a client is given.
Answered(t) == pc[t] = "done"

Fresh(t) == call[t].hash \in seen[t]

(***************************************************************************)
(* "A wrong cache hit is catastrophic" (verify.rs, persistence.rs): the    *)
(* hash a lookup answers is the content the file had at some moment of the *)
(* lookup, whatever other lookups, edits, watcher events, evictions, saves *)
(* and restarts happen around it.                                          *)
(***************************************************************************)
LookupFresh == \A t \in Thread : Answered(t) => Fresh(t)

(***************************************************************************)
(* The same, except for a file that changed during every attempt to hash   *)
(* it and whose entry (the first hash under the mtime of a later stat, at  *)
(* Low) was trusted again by a restart or by a rescan.                     *)
(***************************************************************************)
LookupFreshUnlessVouched ==
    \A t \in Thread : Answered(t) => Fresh(t) \/ call[t].path \in vouched

(***************************************************************************)
(* An entry that lookups may answer from pairs a hash with an mtime that   *)
(* the file's content had together, with the same exception.               *)
(***************************************************************************)
TrustedFaithful ==
    \A p \in Path :
        entries[p] # None /\ entries[p].confidence \in Trusted /\ p \notin vouched
            => <<entries[p].mtime, entries[p].hash>> \in history[p]
=============================================================================
