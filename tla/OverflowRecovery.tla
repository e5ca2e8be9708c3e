--------------------------- MODULE OverflowRecovery ---------------------------
(***************************************************************************)
(* Deferred overflow recovery (zccache-watcher recovery.rs): after an      *)
(* overflow a background task rescans the cache when a delay is over, or   *)
(* as soon as a build asks.  The signals are two Notify cells, which keep  *)
(* at most one permit each, and an atomic flag that the task, the watcher  *)
(* consumer and the builds access without a lock.                          *)
(***************************************************************************)
EXTENDS Naturals

CONSTANT RoBuild      \* the threads that call on_build_event

VARIABLES
    roPending,        \* the flag is_pending reads
    roOverflow,       \* a permit of the overflow Notify
    roBuildTrigger,   \* a permit of the build_trigger Notify
    roTask,           \* run(): waiting, delaying, scanning, or clearing the flag
    roSignal,         \* on_overflow: idle, or between its store and its notify
    roBuild,          \* build -> on_build_event: idle, or it read pending = TRUE
    roOwed            \* entries were downgraded after the last rescan began

roVars == <<roPending, roOverflow, roBuildTrigger, roTask, roSignal, roBuild, roOwed>>

RoTypeOK ==
    /\ roPending \in BOOLEAN /\ roOverflow \in BOOLEAN /\ roBuildTrigger \in BOOLEAN
    /\ roTask \in {"wait", "delay", "scan", "clear"}
    /\ roSignal \in {"idle", "notify"}
    /\ roBuild \in [RoBuild -> {"idle", "notify"}]
    /\ roOwed \in BOOLEAN

RoInit ==
    /\ roPending = FALSE /\ roOverflow = FALSE /\ roBuildTrigger = FALSE
    /\ roTask = "wait"
    /\ roSignal = "idle"
    /\ roBuild = [b \in RoBuild |-> "idle"]
    /\ roOwed = FALSE

-----------------------------------------------------------------------------
\* on_overflow, after CacheSystem::apply_overflow

RoOnOverflowStore ==
    /\ roSignal = "idle"
    /\ roPending' = TRUE
    /\ roOwed' = TRUE
    /\ roSignal' = "notify"
    /\ UNCHANGED <<roOverflow, roBuildTrigger, roTask, roBuild>>

\* Mutant: an overflow during a rescan is taken to be part of it.
RoOnOverflowNotifyIdle ==
    /\ roSignal = "notify"
    /\ roOverflow' = (roOverflow \/ roTask = "wait")
    /\ roSignal' = "idle"
    /\ UNCHANGED <<roPending, roBuildTrigger, roTask, roBuild, roOwed>>

RoOnOverflowNotify ==
    /\ roSignal = "notify"
    /\ roOverflow' = TRUE
    /\ roSignal' = "idle"
    /\ UNCHANGED <<roPending, roBuildTrigger, roTask, roBuild, roOwed>>

-----------------------------------------------------------------------------
\* on_build_event

RoOnBuildEvent(b) ==
    /\ roBuild[b] = "idle"
    /\ roPending
    /\ roBuild' = [roBuild EXCEPT ![b] = "notify"]
    /\ UNCHANGED <<roPending, roOverflow, roBuildTrigger, roTask, roSignal, roOwed>>

RoOnBuildNotify(b) ==
    /\ roBuild[b] = "notify"
    /\ roBuildTrigger' = TRUE
    /\ roBuild' = [roBuild EXCEPT ![b] = "idle"]
    /\ UNCHANGED <<roPending, roOverflow, roTask, roSignal, roOwed>>

-----------------------------------------------------------------------------
\* run

RoWoken ==
    /\ roTask = "wait"
    /\ roOverflow
    /\ roOverflow' = FALSE
    /\ roTask' = "delay"
    /\ UNCHANGED <<roPending, roBuildTrigger, roSignal, roBuild, roOwed>>

\* The rescan collects its candidates when it starts.
RoDelayElapsed ==
    /\ roTask = "delay"
    /\ roTask' = "scan"
    /\ roOwed' = FALSE
    /\ UNCHANGED <<roPending, roOverflow, roBuildTrigger, roSignal, roBuild>>

RoBuildTriggered ==
    /\ roTask = "delay"
    /\ roBuildTrigger
    /\ roBuildTrigger' = FALSE
    /\ roTask' = "scan"
    /\ roOwed' = FALSE
    /\ UNCHANGED <<roPending, roOverflow, roSignal, roBuild>>

\* rescan_entries_async returns, with a count or an error.
RoRescanned ==
    /\ roTask = "scan"
    /\ roTask' = "clear"
    /\ UNCHANGED <<roPending, roOverflow, roBuildTrigger, roSignal, roBuild, roOwed>>

RoClearPending ==
    /\ roTask = "clear"
    /\ roPending' = FALSE
    /\ roTask' = "wait"
    /\ UNCHANGED <<roOverflow, roBuildTrigger, roSignal, roBuild, roOwed>>

RoRun == RoWoken \/ RoBuildTriggered \/ RoRescanned \/ RoClearPending

RoNext ==
    \/ RoOnOverflowStore \/ RoOnOverflowNotify
    \/ \E b \in RoBuild : RoOnBuildEvent(b) \/ RoOnBuildNotify(b)
    \/ RoRun \/ RoDelayElapsed

RoSpec == RoInit /\ [][RoNext]_roVars

\* The runtime polls the task, the delay elapses, on_overflow finishes.
RoFairness ==
    WF_roVars(RoRun) /\ WF_roVars(RoDelayElapsed) /\ WF_roVars(RoOnOverflowNotify)

-----------------------------------------------------------------------------
(* Properties *)

\* Every overflow is followed by a rescan that starts after it, one that
\* arrives during a rescan too.
RoEveryOverflowIsRescanned == roOwed ~> ~roOwed

\* A wake-up is never lost: while entries wait for their rescan, the task was
\* notified, will be, or is in its delay.
RoOwedIsScheduled == roOwed => roOverflow \/ roSignal = "notify" \/ roTask = "delay"
=============================================================================
