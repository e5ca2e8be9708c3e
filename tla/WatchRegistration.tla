-------------------------- MODULE WatchRegistration --------------------------
(***************************************************************************)
(* The registration of watched directories (daemon/server/watch.rs).       *)
(*                                                                         *)
(* watch_directories keeps two sets: watched_raw_dirs, the paths as the    *)
(* requests spelled them, which only saves a canonicalize; and             *)
(* watched_dirs, the canonical paths reserved by some call.  Between its   *)
(* steps a call awaits (a blocking worker, the watched_dirs lock, the      *)
(* watcher lock), so concurrent calls, Clear and the arming of the watcher *)
(* interleave with it.  A directory that is marked but not watched makes   *)
(* the fast hit tiers trust a journal that hears of no change.             *)
(*                                                                         *)
(* A step that visits a batch of paths is one action: each path is looked  *)
(* up or stored on its own and no property relates two paths of a batch.   *)
(***************************************************************************)
EXTENDS Naturals

CONSTANTS
    WrRaw,            \* directories as requests spell them
    WrDir,            \* canonical directories
    WrCanonical,      \* what a raw path resolves to, once its directory exists
    WrCall,           \* concurrent calls of watch_directories
    WrMaxFailures,    \* bound on watch registrations the OS refuses
    WrLosable         \* directories whose watch the OS may drop, once each

ASSUME WrRegistrationConstants ==
    /\ WrCanonical \in [WrRaw -> WrDir]
    /\ WrMaxFailures \in Nat
    /\ WrLosable \subseteq WrDir

VARIABLES
    wrExists,     \* directories present in the filesystem
    wrWatcher,    \* the watcher slot holds a watcher
    wrOs,         \* directories whose changes the watcher reports
    wrMarked,     \* watched_raw_dirs
    wrReserved,   \* watched_dirs
    wrClearing,   \* Clear emptied watched_raw_dirs and not yet watched_dirs
    wrFailures,   \* registrations the OS refused so far
    wrLost,       \* directories whose watch the OS dropped
    wrPc,         \* call -> the step it is at
    wrDirs,       \* call -> its argument, then the paths not filtered out
    wrFound,      \* call -> the raw paths it still holds a canonical path for
    wrToUnmark,   \* call -> those whose registration failed
    wrMissing     \* raw paths marked although canonicalize failed

wrVars == <<wrExists, wrWatcher, wrOs, wrMarked, wrReserved, wrClearing, wrFailures, wrLost,
          wrPc, wrDirs, wrFound, wrToUnmark, wrMissing>>
wrLocals == <<wrDirs, wrFound, wrToUnmark>>

WrSteps == {"idle", "filter", "canonicalize", "mark", "reserve", "register", "unmark"}

WrTypeOK ==
    /\ wrExists \subseteq WrDir /\ wrOs \subseteq WrDir /\ wrReserved \subseteq WrDir
    /\ wrMarked \subseteq WrRaw /\ wrMissing \subseteq wrMarked
    /\ wrWatcher \in BOOLEAN /\ wrClearing \in BOOLEAN
    /\ wrFailures \in 0 .. WrMaxFailures /\ wrLost \subseteq WrLosable
    /\ wrPc \in [WrCall -> WrSteps]
    /\ wrDirs \in [WrCall -> SUBSET WrRaw]
    /\ wrFound \in [WrCall -> SUBSET WrRaw]
    /\ wrToUnmark \in [WrCall -> SUBSET WrRaw]
    /\ wrOs # {} => wrWatcher

WrInit ==
    /\ wrExists \in SUBSET WrDir
    /\ wrWatcher \in BOOLEAN
    /\ wrOs = {} /\ wrMarked = {} /\ wrReserved = {} /\ wrMissing = {}
    /\ wrClearing = FALSE /\ wrFailures = 0 /\ wrLost = {}
    /\ wrPc = [c \in WrCall |-> "idle"]
    /\ wrDirs = [c \in WrCall |-> {}]
    /\ wrFound = [c \in WrCall |-> {}]
    /\ wrToUnmark = [c \in WrCall |-> {}]

WrGoto(c, step) == wrPc' = [wrPc EXCEPT ![c] = step]

\* The call returns.
WrReturn(c) ==
    /\ WrGoto(c, "idle")
    /\ wrDirs' = [wrDirs EXCEPT ![c] = {}]
    /\ wrFound' = [wrFound EXCEPT ![c] = {}]
    /\ wrToUnmark' = [wrToUnmark EXCEPT ![c] = {}]

WrDirsOf(raws) == {WrCanonical[r] : r \in raws}

-----------------------------------------------------------------------------
\* The environment and the other handlers

\* A build creates a directory that was missing.
WrDirAppears(d) ==
    /\ d \notin wrExists
    /\ wrExists' = wrExists \cup {d}
    /\ UNCHANGED <<wrWatcher, wrOs, wrMarked, wrReserved, wrClearing, wrFailures,
                   wrLost, wrPc, wrLocals, wrMissing>>

\* The OS drops a watch (RescanRequired with watch_lost).  The notification
\* becomes an Overflow; no handler registers the directory again.
WrWatchLost(d) ==
    /\ d \in (wrOs \cap WrLosable) \ wrLost
    /\ wrLost' = wrLost \cup {d}
    /\ wrOs' = wrOs \ {d}
    /\ UNCHANGED <<wrExists, wrWatcher, wrMarked, wrReserved, wrClearing, wrFailures,
                   wrPc, wrLocals, wrMissing>>

\* arm_watcher_pipeline, retried until it succeeds.
WrArm ==
    /\ ~wrWatcher
    /\ wrWatcher' = TRUE
    /\ UNCHANGED <<wrExists, wrOs, wrMarked, wrReserved, wrClearing, wrFailures, wrLost,
                   wrPc, wrLocals, wrMissing>>

\* handle_clear empties the two sets one after the other and unwatches nothing.
WrClearRaw ==
    /\ ~wrClearing
    /\ wrClearing' = TRUE
    /\ wrMarked' = {} /\ wrMissing' = {}
    /\ UNCHANGED <<wrExists, wrWatcher, wrOs, wrReserved, wrFailures, wrLost, wrPc,
                   wrLocals>>

WrClearDirs ==
    /\ wrClearing
    /\ wrClearing' = FALSE
    /\ wrReserved' = {}
    /\ UNCHANGED <<wrExists, wrWatcher, wrOs, wrMarked, wrFailures, wrLost, wrPc,
                   wrLocals, wrMissing>>

-----------------------------------------------------------------------------
\* watch_directories

WrRequest(c, batch) ==
    /\ wrPc[c] = "idle"
    /\ batch # {}
    /\ WrGoto(c, "filter")
    /\ wrDirs' = [wrDirs EXCEPT ![c] = batch]
    /\ UNCHANGED <<wrExists, wrWatcher, wrOs, wrMarked, wrReserved, wrClearing,
                   wrFailures, wrLost, wrFound, wrToUnmark, wrMissing>>

WrFilter(c) ==
    /\ wrPc[c] = "filter"
    /\ \/ /\ wrDirs[c] \subseteq wrMarked
          /\ WrReturn(c)
       \/ /\ ~ wrDirs[c] \subseteq wrMarked
          /\ wrDirs' = [wrDirs EXCEPT ![c] = @ \ wrMarked]
          /\ WrGoto(c, "canonicalize")
          /\ UNCHANGED <<wrFound, wrToUnmark>>
    /\ UNCHANGED <<wrExists, wrWatcher, wrOs, wrMarked, wrReserved, wrClearing,
                   wrFailures, wrLost, wrMissing>>

\* canonicalize_watch_registration_batch: paths that do not resolve are dropped.
WrCanonicalize(c) ==
    /\ wrPc[c] = "canonicalize"
    /\ wrFound' = [wrFound EXCEPT ![c] = {r \in wrDirs[c] : WrCanonical[r] \in wrExists}]
    /\ WrGoto(c, "mark")
    /\ UNCHANGED <<wrExists, wrWatcher, wrOs, wrMarked, wrReserved, wrClearing,
                   wrFailures, wrLost, wrDirs, wrToUnmark, wrMissing>>

\* Every raw path of the batch is marked, the dropped ones included.
WrMark(c) ==
    /\ wrPc[c] = "mark"
    /\ wrMarked' = wrMarked \cup wrDirs[c]
    /\ wrMissing' = (wrMissing \ wrFound[c]) \cup (wrDirs[c] \ wrFound[c])
    /\ \/ wrFound[c] = {} /\ WrReturn(c)
       \/ wrFound[c] # {} /\ WrGoto(c, "reserve") /\ UNCHANGED wrLocals
    /\ UNCHANGED <<wrExists, wrWatcher, wrOs, wrReserved, wrClearing, wrFailures,
                   wrLost>>

\* Of the raw paths of one canonical directory only the first one is kept.
WrIsReservation(raws, kept) ==
    /\ kept \subseteq {r \in raws : WrCanonical[r] \notin wrReserved}
    /\ WrDirsOf(kept) = WrDirsOf(raws) \ wrReserved
    /\ \A r, s \in kept : WrCanonical[r] = WrCanonical[s] => r = s

WrReserve(c) ==
    /\ wrPc[c] = "reserve"
    /\ \E kept \in SUBSET wrFound[c] :
          /\ WrIsReservation(wrFound[c], kept)
          /\ \/ kept = {} /\ WrReturn(c)
             \/ /\ kept # {}
                /\ wrFound' = [wrFound EXCEPT ![c] = kept]
                /\ WrGoto(c, "register")
                /\ UNCHANGED <<wrDirs, wrToUnmark>>
    /\ wrReserved' = wrReserved \cup WrDirsOf(wrFound[c])
    /\ UNCHANGED <<wrExists, wrWatcher, wrOs, wrMarked, wrClearing, wrFailures, wrLost,
                   wrMissing>>

\* With the watcher locked, each directory is registered on its own.
WrRegister(c) ==
    /\ wrPc[c] = "register"
    /\ wrWatcher
    /\ \E refused \in SUBSET wrFound[c] :
          /\ wrOs' = wrOs \cup WrDirsOf(wrFound[c] \ refused)
          /\ \/ refused = {} /\ WrReturn(c) /\ UNCHANGED wrFailures
             \/ /\ refused # {}
                /\ wrFailures < WrMaxFailures
                /\ wrFailures' = wrFailures + 1
                /\ wrToUnmark' = [wrToUnmark EXCEPT ![c] = refused]
                /\ WrGoto(c, "unmark")
                /\ UNCHANGED <<wrDirs, wrFound>>
    /\ UNCHANGED <<wrExists, wrWatcher, wrMarked, wrReserved, wrClearing, wrLost,
                   wrMissing>>

WrRegisterNoWatcher(c) ==
    /\ wrPc[c] = "register"
    /\ ~wrWatcher
    /\ wrToUnmark' = [wrToUnmark EXCEPT ![c] = wrFound[c]]
    /\ WrGoto(c, "unmark")
    /\ UNCHANGED <<wrExists, wrWatcher, wrOs, wrMarked, wrReserved, wrClearing,
                   wrFailures, wrLost, wrDirs, wrFound, wrMissing>>

\* Mutant (#1906): only the canonical path is rolled back.
WrUnmarkDirOnly(c) ==
    /\ wrPc[c] = "unmark"
    /\ wrReserved' = wrReserved \ WrDirsOf(wrToUnmark[c])
    /\ WrReturn(c)
    /\ UNCHANGED <<wrExists, wrWatcher, wrOs, wrMarked, wrClearing, wrFailures, wrLost,
                   wrMissing>>

\* Mutant: only the raw path is rolled back: the reservation hides the directory.
WrUnmarkRawOnly(c) ==
    /\ wrPc[c] = "unmark"
    /\ wrMarked' = wrMarked \ wrToUnmark[c]
    /\ wrMissing' = wrMissing \ wrToUnmark[c]
    /\ WrReturn(c)
    /\ UNCHANGED <<wrExists, wrWatcher, wrOs, wrReserved, wrClearing, wrFailures,
                   wrLost>>

WrUnmark(c) ==
    /\ wrPc[c] = "unmark"
    /\ wrReserved' = wrReserved \ WrDirsOf(wrToUnmark[c])
    /\ wrMarked' = wrMarked \ wrToUnmark[c]
    /\ wrMissing' = wrMissing \ wrToUnmark[c]
    /\ WrReturn(c)
    /\ UNCHANGED <<wrExists, wrWatcher, wrOs, wrClearing, wrFailures, wrLost>>

WrStep(c) ==
    \/ WrFilter(c) \/ WrCanonicalize(c) \/ WrMark(c) \/ WrReserve(c)
    \/ WrRegister(c) \/ WrRegisterNoWatcher(c) \/ WrUnmark(c)

WrNext ==
    \/ \E d \in WrDir : WrDirAppears(d) \/ WrWatchLost(d)
    \/ WrArm \/ WrClearRaw \/ WrClearDirs
    \/ \E c \in WrCall : WrStep(c) \/ \E batch \in SUBSET WrRaw : WrRequest(c, batch)

WrSpec == WrInit /\ [][WrNext]_wrVars

\* The runtime polls every task that can move, Clear finishes, and the arming
\* of the watcher is retried for as long as the daemon runs.
WrFairness ==
    /\ \A c \in WrCall : WF_wrVars(WrStep(c))
    /\ WF_wrVars(WrArm)
    /\ WF_wrVars(WrClearDirs)

-----------------------------------------------------------------------------
(* Properties *)

\* Some call resolved the path and will reserve, register or unmark it.
WrPending(r) ==
    \E c \in WrCall :
        \/ wrPc[c] \in {"reserve", "register"} /\ r \in wrFound[c]
        \/ wrPc[c] = "unmark" /\ r \in wrToUnmark[c]

\* Some call reserved the directory and has neither registered it nor given
\* the reservation back.
WrHeld(d) ==
    \E c \in WrCall :
        \/ wrPc[c] = "register" /\ d \in WrDirsOf(wrFound[c])
        \/ wrPc[c] = "unmark" /\ d \in WrDirsOf(wrToUnmark[c])

\* No reservation outlives its registration: a directory in watched_dirs,
\* which every later call skips, was accepted by the watcher or is held by a
\* call that will register it or roll it back.  It holds for every spelling
\* of the directories, with Clear and failed registrations in between.
WrReservedIsRegistered ==
    \A d \in wrReserved : d \in wrOs \cup wrLost \/ WrHeld(d)

\* A raw path that is marked, and whose directory could be resolved, was
\* registered or is being registered: the pre-filter never hides a directory
\* whose registration failed, whichever calls raced for it and whenever Clear
\* emptied the sets.  (watch.rs: "a raw path stays marked in
\* watched_raw_dirs iff its watch registration took".)  It needs one spelling
\* per directory: of two spellings in a batch, only the first is rolled back.
WrMarkedIsWatched ==
    \A r \in wrMarked \ wrMissing : WrCanonical[r] \in wrOs \cup wrLost \/ WrPending(r)

\* A directory requests keep asking for is watched in the end, whatever
\* registrations failed before and whenever the watcher was armed, unless it
\* was missing when its path was first resolved or the OS drops the watch.
WrEventuallyWatched ==
    \A r \in WrRaw :
        []<>(\E c \in WrCall : wrPc[c] = "filter" /\ r \in wrDirs[c])
            => <>[](WrCanonical[r] \in wrOs \cup wrLost) \/ <>(r \in wrMissing)
=============================================================================
