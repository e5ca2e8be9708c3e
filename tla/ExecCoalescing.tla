---------------------------- MODULE ExecCoalescing ----------------------------
(***************************************************************************)
(* Generic tool caching: identical commands share one tool run             *)
(* (handle_exec.rs, handle_exec_coalescing.rs, handle_exec_key.rs).  The   *)
(* command reads one input file, hashed before the lookup, and, when it    *)
(* declares a depfile, one dependency that is known only after a run.  The *)
(* content of a file is a version; the hash of a version is the version.   *)
(***************************************************************************)
EXTENDS Naturals

CONSTANTS
    ExRequest,      \* concurrent requests for the same command
    ExPolicies,     \* request -> the cache policies it may come with
    ExMaxEdits,     \* edits of the two files, together
    ExLoads,        \* the loads a run considers: who arrives, and how many edits
    ExNone          \* no owner, no dependency hash, no result

VARIABLES
    exLoad,         \* the load of this behaviour
    exDepfile,      \* the command declares a depfile
    exFile,         \* the files on disk: the versions of the input and of the dependency
    exSidecar,      \* the primary keys that have a <primary>.deps file
    exStore,        \* the cached results: full key -> what the tool had read
    exSlot,         \* in_flight_exec: full key -> the request whose Notify it holds
    exReq           \* the requests

exVars == <<exLoad, exDepfile, exFile, exSidecar, exStore, exSlot, exReq>>

ExVersion == 0..ExMaxEdits
ExOwner == ExRequest \cup {ExNone}

\* The primary key (here: the input's hash) and the hash of the dependency.
ExKey == [p : ExVersion, d : ExVersion \cup {ExNone}]

\* What a run read; raced when a file changed between its hash and its use.
ExResult == [input : ExVersion, dep : ExVersion, raced : BOOLEAN]

ExPolicy == {"Normal", "ReadOnly", "Bypass"}
ExPc == {"idle", "hashed", "keyed", "missed", "cloned", "enabled", "parked",
         "guarded", "running", "exited", "harvested", "drop", "notify", "done"}

ASSUME ExAssumption ==
    /\ ExPolicies \in [ExRequest -> SUBSET ExPolicy]
    /\ ExMaxEdits \in Nat
    /\ ExLoads \subseteq [arrive : SUBSET ExRequest, edits : 0..ExMaxEdits]
    /\ ExNone \notin ExRequest \cup Nat \cup ExResult

ExState == [pc : ExPc, policy : ExPolicy, key : ExKey, final : ExKey, owner : BOOLEAN,
            on : ExOwner, woken : BOOLEAN, out : ExResult, ran : BOOLEAN, excused : BOOLEAN]

ExTypeOK ==
    /\ exLoad \in ExLoads
    /\ exDepfile \in BOOLEAN
    /\ exFile \in [input : ExVersion, dep : ExVersion]
    /\ exSidecar \subseteq ExVersion
    /\ exStore \in [ExKey -> ExResult \cup {ExNone}]
    /\ exSlot \in [ExKey -> ExOwner]
    /\ exReq \in [ExRequest -> ExState]

ExInit ==
    /\ exLoad \in ExLoads
    /\ exDepfile \in BOOLEAN
    /\ exFile = [input |-> 0, dep |-> 0]
    /\ exSidecar = {}
    /\ exStore = [k \in ExKey |-> ExNone]
    /\ exSlot = [k \in ExKey |-> ExNone]
    /\ exReq = [r \in ExRequest |->
         [pc |-> "idle", policy |-> "Normal", key |-> [p |-> 0, d |-> ExNone],
          final |-> [p |-> 0, d |-> ExNone], owner |-> FALSE, on |-> ExNone,
          woken |-> FALSE, out |-> [input |-> 0, dep |-> 0, raced |-> FALSE],
          ran |-> FALSE, excused |-> FALSE]]

ExAt(r, pc) == exReq[r].pc = pc
ExCached(r) == exStore[exReq[r].key] # ExNone
ExHolder(r) == exSlot[exReq[r].key]

ExLookupAllowed(r) == exReq[r].policy \in {"Normal", "ReadOnly"}
ExStoreAllowed(r) == exReq[r].policy = "Normal"

\* A step of r that moves it to pc and changes only its own record.
ExGoto(r, pc) ==
    /\ exReq' = [exReq EXCEPT ![r].pc = pc]
    /\ UNCHANGED <<exLoad, exDepfile, exFile, exSidecar, exStore, exSlot>>

ExKeep == UNCHANGED <<exLoad, exDepfile, exFile, exSidecar, exStore, exSlot>>

-----------------------------------------------------------------------------
(* The key *)

\* Tool, declared inputs and scanned headers are hashed, the primary key composed.
ExHash(r, policy) ==
    /\ ExAt(r, "idle")
    /\ exReq' = [exReq EXCEPT ![r].pc = "hashed", ![r].policy = policy,
                              ![r].key = [p |-> exFile.input, d |-> ExNone],
                              ![r].excused = (policy # "Normal")]
    /\ ExKeep

\* load_depfile_sidecar: with a sidecar the dependency's present hash is mixed in.
ExCompose(r) ==
    /\ ExAt(r, "hashed")
    /\ exReq' = [exReq EXCEPT ![r].pc = "keyed",
         ![r].key.d = IF exDepfile /\ exReq[r].key.p \in exSidecar
                      THEN exFile.dep ELSE ExNone]
    /\ ExKeep

-----------------------------------------------------------------------------
(* Lookup and single flight *)

\* try_exec_cache_hit, before the guard is taken or under it.
ExHit(r) ==
    /\ ExAt(r, "keyed") \/ ExAt(r, "guarded")
    /\ ExLookupAllowed(r) /\ ExCached(r)
    /\ ExGoto(r, "drop")

\* Nothing is cached, or the cached outputs could not be written.
ExMiss(r) ==
    /\ ExAt(r, "keyed") /\ ExLookupAllowed(r)
    /\ exReq' = [exReq EXCEPT ![r].pc = "missed", ![r].excused = @ \/ ExCached(r)]
    /\ ExKeep

\* acquire_in_flight, vacant: this request becomes the owner.
ExOwn(r) ==
    /\ ExAt(r, "missed") /\ ExHolder(r) = ExNone
    /\ exSlot' = [exSlot EXCEPT ![exReq[r].key] = r]
    /\ exReq' = [exReq EXCEPT ![r].pc = "guarded", ![r].owner = TRUE]
    /\ UNCHANGED <<exLoad, exDepfile, exFile, exSidecar, exStore>>

\* acquire_in_flight, occupied: it clones the owner's Notify.
ExClone(r) ==
    /\ ExAt(r, "missed") /\ ExHolder(r) # ExNone
    /\ exReq' = [exReq EXCEPT ![r].pc = "cloned", ![r].on = ExHolder(r)]
    /\ ExKeep

\* coalesce_wait: enable() registers the waiter before the slot is read again.
ExEnable(r) == ExAt(r, "cloned") /\ ExGoto(r, "enabled")

\* Mutant: a waiter parks without reading the slot again.
ExRecheckBlind(r) == ExAt(r, "enabled") /\ ExGoto(r, "parked")

\* still_ours: it parks only if the slot holds the Notify it registered on.
ExRecheck(r) ==
    /\ ExAt(r, "enabled")
    /\ ExGoto(r, IF ExHolder(r) = exReq[r].on THEN "parked" ELSE "guarded")

ExWoken(r) == ExAt(r, "parked") /\ exReq[r].woken /\ ExGoto(r, "guarded")

\* Mutant: a waiter whose budget is over becomes an owner.
ExTimedOutOwns(r) ==
    /\ ExAt(r, "parked")
    /\ exReq' = [exReq EXCEPT ![r].pc = "guarded", ![r].excused = TRUE, ![r].owner = TRUE]
    /\ ExKeep

\* The wait budget is over: it runs its own copy, the slot stays with its owner.
ExTimedOut(r) ==
    /\ ExAt(r, "parked")
    /\ exReq' = [exReq EXCEPT ![r].pc = "guarded", ![r].excused = TRUE]
    /\ ExKeep

\* Mutant: a new owner does not look the result up again.
ExSpawnStale(r) ==
    /\ ExAt(r, "guarded") \/ (ExAt(r, "keyed") /\ ~ExLookupAllowed(r))
    /\ exReq' = [exReq EXCEPT ![r].pc = "running", ![r].ran = TRUE]
    /\ ExKeep

\* The second lookup, under the guard, missed or could not write the outputs,
\* or the policy allows no lookup: the tool is spawned.
ExSpawn(r) ==
    /\ ExAt(r, "guarded") \/ (ExAt(r, "keyed") /\ ~ExLookupAllowed(r))
    /\ exReq' = [exReq EXCEPT ![r].pc = "running", ![r].ran = TRUE,
                              ![r].excused = @ \/ ExCached(r)]
    /\ ExKeep

-----------------------------------------------------------------------------
(* The run and its publication *)

ExExit(r) ==
    /\ ExAt(r, "running")
    /\ exReq' = [exReq EXCEPT ![r].pc = "exited",
         ![r].out = [input |-> exFile.input, dep |-> exFile.dep, raced |-> @.raced]]
    /\ ExKeep

\* The tool cannot be spawned, or a staged run exits with an error.
ExFail(r) ==
    /\ ExAt(r, "running")
    /\ exReq' = [exReq EXCEPT ![r].pc = "drop", ![r].excused = TRUE]
    /\ ExKeep

\* Mutant: the result is stored under the key of the lookup.
ExHarvestLookupKey(r) ==
    /\ ExAt(r, "exited")
    /\ exReq' = [exReq EXCEPT ![r].pc = "harvested", ![r].final = exReq[r].key]
    /\ exSidecar' = IF exDepfile THEN exSidecar \cup {exReq[r].key.p} ELSE exSidecar
    /\ UNCHANGED <<exLoad, exDepfile, exFile, exStore, exSlot>>

\* harvest_depfile and persist_depfile_sidecar: the dependency is hashed now
\* and the full key composed again.
ExHarvest(r) ==
    /\ ExAt(r, "exited")
    /\ exReq' = [exReq EXCEPT ![r].pc = "harvested",
         ![r].final = IF exDepfile THEN [exReq[r].key EXCEPT !.d = exFile.dep]
                                   ELSE exReq[r].key]
    /\ exSidecar' = IF exDepfile THEN exSidecar \cup {exReq[r].key.p} ELSE exSidecar
    /\ UNCHANGED <<exLoad, exDepfile, exFile, exStore, exSlot>>

\* The depfile is missing or unreadable, or an output is: nothing is stored.
ExUncacheable(r) ==
    /\ ExAt(r, "exited")
    /\ exReq' = [exReq EXCEPT ![r].pc = "drop", ![r].excused = TRUE]
    /\ ExKeep

\* Mutant: the stored record is made up from the key of the lookup.
ExStoreFromKey(r) ==
    /\ ExAt(r, "harvested")
    /\ exStore' = [exStore EXCEPT ![exReq[r].final] =
                     [exReq[r].out EXCEPT !.dep = exReq[r].key.d]]
    /\ exReq' = [exReq EXCEPT ![r].pc = "drop"]
    /\ UNCHANGED <<exLoad, exDepfile, exFile, exSidecar, exSlot>>

\* store_exec_artifact: the result is visible before the guard is dropped.
ExStoreArtifact(r) ==
    /\ ExAt(r, "harvested")
    /\ exStore' = IF ExStoreAllowed(r)
                  THEN [exStore EXCEPT ![exReq[r].final] = exReq[r].out] ELSE exStore
    /\ exReq' = [exReq EXCEPT ![r].pc = "drop"]
    /\ UNCHANGED <<exLoad, exDepfile, exFile, exSidecar, exSlot>>

\* InFlightGuardExec::drop, first half: an owner removes what the slot holds.
ExRemoveSlot(r) ==
    /\ ExAt(r, "drop") /\ exReq[r].owner
    /\ exSlot' = [exSlot EXCEPT ![exReq[r].key] = ExNone]
    /\ exReq' = [exReq EXCEPT ![r].pc = "notify", ![r].on = ExHolder(r)]
    /\ UNCHANGED <<exLoad, exDepfile, exFile, exSidecar, exStore>>

\* ... and second half: notify_waiters stores no permit, it wakes the waiters
\* registered now.
ExNotifyWaiters(r) ==
    /\ ExAt(r, "notify")
    /\ exReq' = [w \in ExRequest |->
         IF w = r THEN [exReq[w] EXCEPT !.pc = "done"]
         ELSE IF exReq[w].pc \in {"enabled", "parked"} /\ exReq[w].on = exReq[r].on
              THEN [exReq[w] EXCEPT !.woken = TRUE] ELSE exReq[w]]
    /\ ExKeep

ExReturn(r) == ExAt(r, "drop") /\ ~exReq[r].owner /\ ExGoto(r, "done")

\* The client disconnects: guarded_dispatch drops the handler where it awaits.
ExCancel(r) ==
    /\ exReq[r].pc \in {"keyed", "parked", "guarded", "running", "harvested"}
    /\ exReq' = [exReq EXCEPT ![r].pc = "drop", ![r].excused = TRUE]
    /\ ExKeep

\* A file changes on disk.  It races a run that hashed the input and has not
\* read it yet, or read the dependency and has not hashed it yet.
ExEdit(f) ==
    /\ exFile.input + exFile.dep < exLoad.edits
    /\ exFile' = [exFile EXCEPT ![f] = @ + 1]
    /\ exReq' = [r \in ExRequest |->
         IF exReq[r].pc \in (IF f = "dep" THEN {"exited"} ELSE ExPc \ {"idle", "exited", "harvested"})
         THEN [exReq[r] EXCEPT !.out.raced = TRUE] ELSE exReq[r]]
    /\ UNCHANGED <<exLoad, exDepfile, exSidecar, exStore, exSlot>>

\* The steps the runtime takes without the clock or the client.
ExProgress(r) ==
    \/ ExCompose(r) \/ ExHit(r) \/ ExMiss(r) \/ ExOwn(r) \/ ExClone(r) \/ ExEnable(r)
    \/ ExRecheck(r) \/ ExWoken(r) \/ ExSpawn(r) \/ ExExit(r) \/ ExFail(r) \/ ExHarvest(r)
    \/ ExUncacheable(r) \/ ExStoreArtifact(r) \/ ExRemoveSlot(r) \/ ExNotifyWaiters(r)
    \/ ExReturn(r)

ExNext ==
    \/ \E r \in exLoad.arrive : \E policy \in ExPolicies[r] : ExHash(r, policy)
    \/ \E r \in ExRequest : ExProgress(r) \/ ExTimedOut(r) \/ ExCancel(r)
    \/ \E f \in {"input", "dep"} : ExEdit(f)

\* A tool run ends (the child watchdog sees to it); no fairness for the budget.
ExFairness == WF_exVars(\E r \in ExRequest : ExProgress(r))

ExSpec == ExInit /\ [][ExNext]_exVars /\ ExFairness

-----------------------------------------------------------------------------
(* Properties *)

ExHolding == {"guarded", "running", "exited", "harvested", "drop"}

\* Every slot of in_flight_exec belongs to one owner that is still at work and
\* will remove it: a cancelled, failed or late handler leaves none behind and
\* takes nobody else's away.
ExSlotOwned ==
    /\ \A k \in ExKey : exSlot[k] # ExNone =>
         LET o == exReq[exSlot[k]] IN o.owner /\ o.key = k /\ o.pc \in ExHolding
    /\ \A r \in ExRequest :
         exReq[r].owner /\ exReq[r].pc \in ExHolding => ExHolder(r) = r

\* A cached result was computed from the content its key names, with the
\* dependency in the key when there is one, unless a file changed under the run.
ExStoredMatchesKey ==
    \A k \in ExKey : LET s == exStore[k] IN
        s # ExNone /\ ~s.raced =>
            /\ s.input = k.p
            /\ exDepfile => s.dep = k.d

\* Two requests with one full key run the tool twice only for a reason.
ExOnceForTheHerd ==
    \A r, s \in ExRequest :
        r # s /\ exReq[r].ran /\ exReq[s].ran /\ exReq[r].key = exReq[s].key
            => \E x \in ExRequest : exReq[x].key = exReq[r].key /\ exReq[x].excused

\* Without a depfile the single flight of acquire_in_flight is exact: the tool
\* runs twice under one key only after a timeout, a failure, a cancelled client
\* or a policy that stores nothing.
ExOnceWithoutDepfile == ~exDepfile => ExOnceForTheHerd

\* Every request that arrived is answered although no wait budget ever expires:
\* no interleaving of a follower's enable and second read of the slot with the
\* owner's remove and notify_waiters (coalesce_wait) strands it, and waking up
\* does not depend on the clock.
ExAnswered == []<>(\A r \in ExRequest : exReq[r].pc \in {"idle", "done"})
=============================================================================
