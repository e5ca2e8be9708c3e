---------------------------- MODULE RequestProofs ----------------------------
(***************************************************************************)
(* Proofs about the tool runs (ExecCoalescing) and the compiler slots      *)
(* (CompilerAdmission), for any requests, units, hosts and edits: type     *)
(* correctness, that the single flight's slots never leak, that a cached   *)
(* result is what its key names, that the tool runs twice only for a       *)
(* reason, that an exclusive unit compiles alone, that the counters of     *)
(* the queue count what they say; and the types of what requests share.    *)
(***************************************************************************)
EXTENDS MCRequests, DiskMaintenanceProofs, FiniteSetTheorems, TLAPS

-----------------------------------------------------------------------------
(* Tool runs: the invariants *)

\* The request is not yet at work.
ExEarly == {"idle", "hashed", "keyed", "missed", "cloned", "enabled", "parked"}

\* An owner has gone through acquire_in_flight.
ExOwnersLate == \A r \in ExRequest : exReq[r].owner => exReq[r].pc \notin ExEarly

\* What a run knows of the files as long as nothing raced it: the input is the
\* hashed one until it exits, what it read then is what its key names.
ExFound(r) ==
    ~exReq[r].out.raced =>
        /\ exReq[r].pc \in (ExEarly \ {"idle"}) \cup {"guarded", "running"} =>
             exReq[r].key.p = exFile.input
        /\ exReq[r].pc = "exited" =>
             exReq[r].out.input = exReq[r].key.p /\ exReq[r].out.dep = exFile.dep
        /\ exReq[r].pc = "harvested" =>
             /\ exReq[r].out.input = exReq[r].final.p
             /\ exDepfile => exReq[r].out.dep = exReq[r].final.d

\* Some request with this key has a reason to run the tool again.
ExExcuse(k) == \E x \in ExRequest : exReq[x].key = k /\ exReq[x].excused

\* A follower waits on an owner of its own key, and is woken only after that
\* owner has given its slot back.
ExWaits(r) ==
    /\ exReq[r].pc \in ExEarly \ {"enabled", "parked"} => ~exReq[r].woken
    /\ exReq[r].pc \in {"cloned", "enabled", "parked"} =>
         /\ exReq[r].on \in ExRequest
         /\ exReq[exReq[r].on].owner /\ exReq[exReq[r].on].key = exReq[r].key
    /\ exReq[r].pc \in {"enabled", "parked"} /\ exReq[r].woken =>
         exReq[exReq[r].on].pc = "done"
    /\ exReq[r].pc = "notify" => exReq[r].on = r

\* Without a depfile the key of the lookup is the key of the result; whoever is
\* through leaves a result or an excuse, and whoever is under the guard owns
\* the slot or has found one of the two.
ExRuns(r) ==
    /\ exReq[r].pc = "idle" => ~exReq[r].excused
    /\ exReq[r].pc \in ExEarly \cup {"guarded"} => ~exReq[r].ran
    /\ exReq[r].excused \/ exReq[r].policy = "Normal"
    /\ exReq[r].pc = "harvested" => exReq[r].final = exReq[r].key
    /\ exReq[r].key.d = ExNone
    /\ exReq[r].pc \in {"drop", "notify", "done"} => exReq[r].excused \/ ExCached(r)
    /\ exReq[r].pc \in {"guarded", "running", "exited", "harvested"} =>
         exReq[r].owner \/ ExCached(r) \/ ExExcuse(exReq[r].key)
    /\ exReq[r].ran => exReq[r].owner \/ ExExcuse(exReq[r].key)

-----------------------------------------------------------------------------
(* What a step makes of a request's record *)

\* Only r's record changes, and it is now at pc.
ExGoes(r, pc) == exReq' = [exReq EXCEPT ![r] = exReq'[r]] /\ exReq'[r].pc = pc

ExSameCommand(r) == exReq'[r].policy = exReq[r].policy /\ exReq'[r].key = exReq[r].key
ExSameFlight(r) ==
    /\ exReq'[r].owner = exReq[r].owner /\ exReq'[r].on = exReq[r].on
    /\ exReq'[r].woken = exReq[r].woken
ExSameRun(r) ==
    /\ exReq'[r].final = exReq[r].final /\ exReq'[r].out = exReq[r].out
    /\ exReq'[r].ran = exReq[r].ran
ExSame(r) == ExSameCommand(r) /\ ExSameFlight(r) /\ ExSameRun(r)
ExSameExcuse(r) == exReq'[r].excused = exReq[r].excused

\* Up to the run.
LEMMA ExLookupFields ==
    ASSUME exReq \in [ExRequest -> ExState], NEW r \in ExRequest
    PROVE  /\ \A policy : ExHash(r, policy) =>
                /\ ExGoes(r, "hashed") /\ ExSameFlight(r) /\ ExSameRun(r)
                /\ exReq'[r].policy = policy
                /\ exReq'[r].key = [p |-> exFile.input, d |-> ExNone]
                /\ exReq'[r].excused = (policy # "Normal")
           /\ ExCompose(r) =>
                /\ ExGoes(r, "keyed") /\ ExSameFlight(r) /\ ExSameRun(r) /\ ExSameExcuse(r)
                /\ exReq'[r].policy = exReq[r].policy
                /\ exReq'[r].key = [exReq[r].key EXCEPT
                     !.d = IF exDepfile /\ exReq[r].key.p \in exSidecar THEN exFile.dep ELSE ExNone]
           /\ \A pc : ExGoto(r, pc) => ExGoes(r, pc) /\ ExSame(r) /\ ExSameExcuse(r)
           /\ ExMiss(r) =>
                /\ ExGoes(r, "missed") /\ ExSame(r)
                /\ exReq'[r].excused = (exReq[r].excused \/ ExCached(r))
           /\ ExOwn(r) =>
                /\ ExGoes(r, "guarded") /\ ExSameCommand(r) /\ ExSameRun(r) /\ ExSameExcuse(r)
                /\ exReq'[r].owner = TRUE /\ exReq'[r].on = exReq[r].on
                /\ exReq'[r].woken = exReq[r].woken
           /\ ExClone(r) =>
                /\ ExGoes(r, "cloned") /\ ExSameCommand(r) /\ ExSameRun(r) /\ ExSameExcuse(r)
                /\ exReq'[r].owner = exReq[r].owner /\ exReq'[r].on = ExHolder(r)
                /\ exReq'[r].woken = exReq[r].woken
           /\ ExTimedOut(r) => ExGoes(r, "guarded") /\ ExSame(r) /\ exReq'[r].excused = TRUE
<1> USE DEF ExGoes, ExSame, ExSameCommand, ExSameFlight, ExSameRun, ExSameExcuse, ExState
<1>1. ASSUME NEW policy, ExHash(r, policy)
      PROVE  /\ ExGoes(r, "hashed") /\ ExSameFlight(r) /\ ExSameRun(r)
             /\ exReq'[r].policy = policy
             /\ exReq'[r].key = [p |-> exFile.input, d |-> ExNone]
             /\ exReq'[r].excused = (policy # "Normal")
  <2> DEFINE unusual == policy # "Normal"
             key == [p |-> exFile.input, d |-> ExNone]
  <2>1. exReq' = [exReq EXCEPT ![r] = [exReq[r] EXCEPT !.pc = "hashed", !.policy = policy,
                                                       !.key = key, !.excused = unusual]]
    BY <1>1 DEF ExHash
  <2> HIDE DEF unusual, key
  <2>2. /\ ExGoes(r, "hashed") /\ ExSameFlight(r) /\ ExSameRun(r)
        /\ exReq'[r].policy = policy /\ exReq'[r].key = key /\ exReq'[r].excused = unusual
    BY <2>1
  <2> QED
    BY <2>2 DEF unusual, key
<1>2. ASSUME ExCompose(r)
      PROVE  /\ ExGoes(r, "keyed") /\ ExSameFlight(r) /\ ExSameRun(r) /\ ExSameExcuse(r)
             /\ exReq'[r].policy = exReq[r].policy
             /\ exReq'[r].key = [exReq[r].key EXCEPT
                  !.d = IF exDepfile /\ exReq[r].key.p \in exSidecar THEN exFile.dep ELSE ExNone]
  BY <1>2 DEF ExCompose
<1>3. ASSUME NEW pc, ExGoto(r, pc) PROVE ExGoes(r, pc) /\ ExSame(r) /\ ExSameExcuse(r)
  BY <1>3 DEF ExGoto
<1>4. ASSUME ExMiss(r)
      PROVE  /\ ExGoes(r, "missed") /\ ExSame(r)
             /\ exReq'[r].excused = (exReq[r].excused \/ ExCached(r))
  BY <1>4 DEF ExMiss
<1>5. ASSUME ExOwn(r)
      PROVE  /\ ExGoes(r, "guarded") /\ ExSameCommand(r) /\ ExSameRun(r) /\ ExSameExcuse(r)
             /\ exReq'[r].owner = TRUE /\ exReq'[r].on = exReq[r].on
             /\ exReq'[r].woken = exReq[r].woken
  BY <1>5 DEF ExOwn
<1>6. ASSUME ExClone(r)
      PROVE  /\ ExGoes(r, "cloned") /\ ExSameCommand(r) /\ ExSameRun(r) /\ ExSameExcuse(r)
             /\ exReq'[r].owner = exReq[r].owner /\ exReq'[r].on = ExHolder(r)
             /\ exReq'[r].woken = exReq[r].woken
  BY <1>6 DEF ExClone
<1>7. ASSUME ExTimedOut(r)
      PROVE  ExGoes(r, "guarded") /\ ExSame(r) /\ exReq'[r].excused = TRUE
  BY <1>7 DEF ExTimedOut
<1> HIDE DEF ExGoes, ExSame, ExSameCommand, ExSameFlight, ExSameRun, ExSameExcuse, ExState
<1> QED
  BY <1>1, <1>2, <1>3, <1>4, <1>5, <1>6, <1>7, Zenon

\* The run and after it.
LEMMA ExRunFields ==
    ASSUME exReq \in [ExRequest -> ExState], NEW r \in ExRequest
    PROVE  /\ ExSpawn(r) =>
                /\ ExGoes(r, "running") /\ ExSameCommand(r) /\ ExSameFlight(r)
                /\ exReq'[r].final = exReq[r].final /\ exReq'[r].out = exReq[r].out
                /\ exReq'[r].ran = TRUE
                /\ exReq'[r].excused = (exReq[r].excused \/ ExCached(r))
           /\ ExExit(r) =>
                /\ ExGoes(r, "exited") /\ ExSameCommand(r) /\ ExSameFlight(r) /\ ExSameExcuse(r)
                /\ exReq'[r].final = exReq[r].final /\ exReq'[r].ran = exReq[r].ran
                /\ exReq'[r].out = [input |-> exFile.input, dep |-> exFile.dep,
                                    raced |-> exReq[r].out.raced]
           /\ ExFail(r) \/ ExUncacheable(r) \/ ExCancel(r) =>
                ExGoes(r, "drop") /\ ExSame(r) /\ exReq'[r].excused = TRUE
           /\ ExHarvest(r) =>
                /\ ExGoes(r, "harvested") /\ ExSameCommand(r) /\ ExSameFlight(r) /\ ExSameExcuse(r)
                /\ exReq'[r].out = exReq[r].out /\ exReq'[r].ran = exReq[r].ran
                /\ exReq'[r].final = IF exDepfile THEN [exReq[r].key EXCEPT !.d = exFile.dep]
                                                  ELSE exReq[r].key
           /\ ExStoreArtifact(r) => ExGoes(r, "drop") /\ ExSame(r) /\ ExSameExcuse(r)
           /\ ExRemoveSlot(r) =>
                /\ ExGoes(r, "notify") /\ ExSameCommand(r) /\ ExSameRun(r) /\ ExSameExcuse(r)
                /\ exReq'[r].owner = exReq[r].owner /\ exReq'[r].on = ExHolder(r)
                /\ exReq'[r].woken = exReq[r].woken
<1> USE DEF ExGoes, ExSame, ExSameCommand, ExSameFlight, ExSameRun, ExSameExcuse, ExState
<1>1. ASSUME ExSpawn(r)
      PROVE  /\ ExGoes(r, "running") /\ ExSameCommand(r) /\ ExSameFlight(r)
             /\ exReq'[r].final = exReq[r].final /\ exReq'[r].out = exReq[r].out
             /\ exReq'[r].ran = TRUE
             /\ exReq'[r].excused = (exReq[r].excused \/ ExCached(r))
  BY <1>1 DEF ExSpawn
<1>2. ASSUME ExExit(r)
      PROVE  /\ ExGoes(r, "exited") /\ ExSameCommand(r) /\ ExSameFlight(r) /\ ExSameExcuse(r)
             /\ exReq'[r].final = exReq[r].final /\ exReq'[r].ran = exReq[r].ran
             /\ exReq'[r].out = [input |-> exFile.input, dep |-> exFile.dep,
                                 raced |-> exReq[r].out.raced]
  BY <1>2 DEF ExExit
<1>3. ASSUME ExFail(r) \/ ExUncacheable(r) \/ ExCancel(r)
      PROVE  ExGoes(r, "drop") /\ ExSame(r) /\ exReq'[r].excused = TRUE
  BY <1>3 DEF ExFail, ExUncacheable, ExCancel
<1>4. ASSUME ExHarvest(r)
      PROVE  /\ ExGoes(r, "harvested") /\ ExSameCommand(r) /\ ExSameFlight(r) /\ ExSameExcuse(r)
             /\ exReq'[r].out = exReq[r].out /\ exReq'[r].ran = exReq[r].ran
             /\ exReq'[r].final = IF exDepfile THEN [exReq[r].key EXCEPT !.d = exFile.dep]
                                               ELSE exReq[r].key
  BY <1>4 DEF ExHarvest
<1>5. ASSUME ExStoreArtifact(r) PROVE ExGoes(r, "drop") /\ ExSame(r) /\ ExSameExcuse(r)
  BY <1>5 DEF ExStoreArtifact
<1>6. ASSUME ExRemoveSlot(r)
      PROVE  /\ ExGoes(r, "notify") /\ ExSameCommand(r) /\ ExSameRun(r) /\ ExSameExcuse(r)
             /\ exReq'[r].owner = exReq[r].owner /\ exReq'[r].on = ExHolder(r)
             /\ exReq'[r].woken = exReq[r].woken
  BY <1>6 DEF ExRemoveSlot
<1> HIDE DEF ExGoes, ExSame, ExSameCommand, ExSameFlight, ExSameRun, ExSameExcuse, ExState
<1> QED
  BY <1>1, <1>2, <1>3, <1>4, <1>5, <1>6, Zenon

\* notify_waiters touches the others, and an edit marks the runs it races.
LEMMA ExNotifyFields ==
    ASSUME exReq \in [ExRequest -> ExState], NEW r \in ExRequest, ExNotifyWaiters(r),
           NEW s \in ExRequest
    PROVE  /\ exReq'[s].pc = (IF s = r THEN "done" ELSE exReq[s].pc)
           /\ ExSameCommand(s) /\ ExSameRun(s) /\ ExSameExcuse(s)
           /\ exReq'[s].owner = exReq[s].owner /\ exReq'[s].on = exReq[s].on
           /\ \/ exReq'[s].woken = exReq[s].woken
              \/ /\ exReq'[s].woken = TRUE /\ s # r
                 /\ exReq[s].pc \in {"enabled", "parked"} /\ exReq[s].on = exReq[r].on
BY DEF ExNotifyWaiters, ExSameCommand, ExSameRun, ExSameExcuse, ExState

\* An edit leaves alone all of a request but that it was raced.
LEMMA ExEditFields ==
    ASSUME exReq \in [ExRequest -> ExState], NEW f \in {"input", "dep"}, ExEdit(f),
           NEW s \in ExRequest
    PROVE  /\ exReq'[s].pc = exReq[s].pc
           /\ ExSameCommand(s) /\ ExSameFlight(s) /\ ExSameExcuse(s)
           /\ exReq'[s].final = exReq[s].final /\ exReq'[s].ran = exReq[s].ran
           /\ \/ exReq'[s].out = exReq[s].out
                   /\ exReq[s].pc \notin (IF f = "dep" THEN {"exited"}
                                          ELSE ExPc \ {"idle", "exited", "harvested"})
              \/ exReq'[s].out.raced
BY DEF ExEdit, ExSameCommand, ExSameFlight, ExSameExcuse, ExState, ExResult

-----------------------------------------------------------------------------
(* Type correctness *)

\* A request moves on with the record q; everything else rests.
LEMMA ExMovedType ==
    ASSUME ExTypeOK, NEW r \in ExRequest, NEW q \in ExState, exReq' = [exReq EXCEPT ![r] = q],
           ExKeep
    PROVE  ExTypeOK'
BY DEF ExTypeOK, ExKeep

\* The steps that leave everything but the record alone.
LEMMA ExTypeQuiet ==
    ASSUME ExTypeOK, NEW r \in ExRequest,
           \/ \E policy \in ExPolicies[r] : ExHash(r, policy)
           \/ ExCompose(r) \/ ExHit(r) \/ ExMiss(r) \/ ExClone(r) \/ ExEnable(r) \/ ExRecheck(r)
           \/ ExWoken(r) \/ ExSpawn(r) \/ ExExit(r) \/ ExFail(r) \/ ExUncacheable(r)
           \/ ExReturn(r) \/ ExTimedOut(r) \/ ExCancel(r)
    PROVE  ExTypeOK'
<1>a. exReq[r] \in ExState /\ exReq \in [ExRequest -> ExState]
  BY DEF ExTypeOK
<1>1. ASSUME NEW policy \in ExPolicies[r], ExHash(r, policy) PROVE ExTypeOK'
  <2> DEFINE q == [exReq[r] EXCEPT !.pc = "hashed", !.policy = policy,
                     !.key = [p |-> exFile.input, d |-> ExNone], !.excused = (policy # "Normal")]
  <2>1. exReq' = [exReq EXCEPT ![r] = q] /\ ExKeep
    BY <1>1 DEF ExHash
  <2>2. policy \in ExPolicy /\ [p |-> exFile.input, d |-> ExNone] \in ExKey
    BY ExAssumption DEF ExTypeOK, ExKey
  <2>3. q \in ExState
    BY <1>a, <2>2 DEF ExState, ExPc
  <2> QED
    BY <2>1, <2>3, ExMovedType
<1>2. CASE ExCompose(r)
  <2> DEFINE d == IF exDepfile /\ exReq[r].key.p \in exSidecar THEN exFile.dep ELSE ExNone
             q == [exReq[r] EXCEPT !.pc = "keyed", !.key = [exReq[r].key EXCEPT !.d = d]]
  <2>1. exReq' = [exReq EXCEPT ![r] = q] /\ ExKeep
    BY <1>2, <1>a DEF ExCompose
  <2>2. [exReq[r].key EXCEPT !.d = d] \in ExKey
    BY <1>a DEF ExState, ExKey, ExTypeOK
  <2>3. q \in ExState
    BY <1>a, <2>2 DEF ExState, ExPc
  <2> QED
    BY <2>1, <2>3, ExMovedType
<1>3. ASSUME NEW pc \in ExPc, ExGoto(r, pc) PROVE ExTypeOK'
  <2>1. [exReq[r] EXCEPT !.pc = pc] \in ExState
    BY <1>a DEF ExState
  <2>2. exReq' = [exReq EXCEPT ![r] = [exReq[r] EXCEPT !.pc = pc]] /\ ExKeep
    BY <1>3 DEF ExGoto, ExKeep
  <2> QED
    BY <2>1, <2>2, ExMovedType
<1>4. CASE ExHit(r) \/ ExEnable(r) \/ ExRecheck(r) \/ ExWoken(r) \/ ExReturn(r)
  BY <1>3, <1>4 DEF ExHit, ExEnable, ExRecheck, ExWoken, ExReturn, ExPc
<1>5. ASSUME NEW excused \in BOOLEAN, NEW pc \in ExPc,
             exReq' = [exReq EXCEPT ![r] = [exReq[r] EXCEPT !.pc = pc, !.excused = excused]],
             ExKeep
      PROVE  ExTypeOK'
  <2>1. [exReq[r] EXCEPT !.pc = pc, !.excused = excused] \in ExState
    BY <1>a DEF ExState
  <2> QED
    BY <1>5, <2>1, ExMovedType
<1>6. CASE ExMiss(r)
  <2>1. (exReq[r].excused \/ ExCached(r)) \in BOOLEAN
    BY Zenon
  <2> QED
    BY <1>5, <1>6, <2>1 DEF ExMiss, ExPc
<1>7. CASE ExTimedOut(r) \/ ExFail(r) \/ ExUncacheable(r) \/ ExCancel(r)
  BY <1>5, <1>7 DEF ExTimedOut, ExFail, ExUncacheable, ExCancel, ExPc
<1>8. CASE ExClone(r)
  <2>1. [exReq[r] EXCEPT !.pc = "cloned", !.on = ExHolder(r)] \in ExState
    BY <1>a DEF ExState, ExPc, ExHolder, ExTypeOK
  <2> QED
    BY <1>8, <2>1, ExMovedType DEF ExClone
<1>9. CASE ExSpawn(r)
  <2>1. (exReq[r].excused \/ ExCached(r)) \in BOOLEAN
    BY Zenon
  <2>2. ASSUME NEW excused \in BOOLEAN
        PROVE  [exReq[r] EXCEPT !.pc = "running", !.ran = TRUE, !.excused = excused] \in ExState
    BY <1>a DEF ExState, ExPc
  <2> DEFINE e == exReq[r].excused \/ ExCached(r)
  <2>3. ExKeep /\ exReq' = [exReq EXCEPT ![r] = [exReq[r] EXCEPT !.pc = "running", !.ran = TRUE,
                                                                !.excused = e]]
    BY <1>9 DEF ExSpawn
  <2> HIDE DEF e
  <2> QED
    BY <2>1, <2>2, <2>3, ExMovedType DEF e
<1>10. CASE ExExit(r)
  <2> DEFINE o == [input |-> exFile.input, dep |-> exFile.dep, raced |-> exReq[r].out.raced]
  <2>1. o \in ExResult
    BY <1>a DEF ExState, ExResult, ExTypeOK
  <2>2. [exReq[r] EXCEPT !.pc = "exited", !.out = o] \in ExState
    BY <1>a, <2>1 DEF ExState, ExPc
  <2>3. exReq' = [exReq EXCEPT ![r] = [exReq[r] EXCEPT !.pc = "exited", !.out = o]] /\ ExKeep
    BY <1>10, <1>a DEF ExExit
  <2> QED
    BY <2>2, <2>3, ExMovedType
<1> QED
  BY <1>1, <1>2, <1>4, <1>6, <1>7, <1>8, <1>9, <1>10

\* The steps that change more than the record.
LEMMA ExTypeShared ==
    ASSUME ExTypeOK, NEW r \in ExRequest,
           ExOwn(r) \/ ExHarvest(r) \/ ExStoreArtifact(r) \/ ExRemoveSlot(r) \/ ExNotifyWaiters(r)
    PROVE  ExTypeOK'
<1>a. exReq[r] \in ExState /\ exReq \in [ExRequest -> ExState]
  BY DEF ExTypeOK
<1>1. CASE ExOwn(r)
  <2>1. [exReq[r] EXCEPT !.pc = "guarded", !.owner = TRUE] \in ExState
    BY <1>a DEF ExState, ExPc
  <2>2. exSlot' \in [ExKey -> ExOwner]
    BY <1>1 DEF ExOwn, ExTypeOK, ExOwner
  <2> QED
    BY <1>1, <2>1, <2>2 DEF ExOwn, ExTypeOK
<1>2. CASE ExHarvest(r)
  <2> DEFINE k == IF exDepfile THEN [exReq[r].key EXCEPT !.d = exFile.dep] ELSE exReq[r].key
  <2>1. k \in ExKey /\ exReq[r].key.p \in ExVersion
    BY <1>a DEF ExState, ExKey, ExTypeOK
  <2>2. [exReq[r] EXCEPT !.pc = "harvested", !.final = k] \in ExState
    BY <1>a, <2>1 DEF ExState, ExPc
  <2>3. exReq' = [exReq EXCEPT ![r] = [exReq[r] EXCEPT !.pc = "harvested", !.final = k]]
    BY <1>2 DEF ExHarvest
  <2>4. exReq' \in [ExRequest -> ExState]
    BY <1>a, <2>2, <2>3
  <2> QED
    BY <1>2, <2>1, <2>4 DEF ExHarvest, ExTypeOK
<1>3. CASE ExStoreArtifact(r)
  <2>1. [exReq[r] EXCEPT !.pc = "drop"] \in ExState
    BY <1>a DEF ExState, ExPc
  <2>2. exStore' \in [ExKey -> ExResult \cup {ExNone}]
    BY <1>3, <1>a DEF ExStoreArtifact, ExTypeOK, ExState
  <2> QED
    BY <1>3, <2>1, <2>2 DEF ExStoreArtifact, ExTypeOK
<1>4. CASE ExRemoveSlot(r)
  <2>1. [exReq[r] EXCEPT !.pc = "notify", !.on = ExHolder(r)] \in ExState
    BY <1>a DEF ExState, ExPc, ExHolder, ExTypeOK
  <2>2. exSlot' \in [ExKey -> ExOwner]
    BY <1>4 DEF ExRemoveSlot, ExTypeOK, ExOwner
  <2> QED
    BY <1>4, <2>1, <2>2 DEF ExRemoveSlot, ExTypeOK
<1>5. CASE ExNotifyWaiters(r)
  <2>1. \A w \in ExRequest : /\ [exReq[w] EXCEPT !.pc = "done"] \in ExState
                             /\ [exReq[w] EXCEPT !.woken = TRUE] \in ExState
    BY <1>a DEF ExState, ExPc
  <2>2. exReq' \in [ExRequest -> ExState]
    BY <1>5, <1>a, <2>1 DEF ExNotifyWaiters
  <2> QED
    BY <1>5, <2>2 DEF ExNotifyWaiters, ExKeep, ExTypeOK
<1> QED
  BY <1>1, <1>2, <1>3, <1>4, <1>5

\* An edit keeps the types.
LEMMA ExTypeEdit ==
    ASSUME ExTypeOK, NEW f \in {"input", "dep"}, ExEdit(f)
    PROVE  ExTypeOK'
<1>a. exReq \in [ExRequest -> ExState] /\ exFile \in [input : ExVersion, dep : ExVersion]
      /\ exLoad.edits \in ExVersion
  BY ExAssumption DEF ExTypeOK, ExVersion
<1>1. ASSUME NEW r \in ExRequest
      PROVE  [exReq[r] EXCEPT !.out.raced = TRUE] \in ExState
  <2>1. [exReq[r].out EXCEPT !.raced = TRUE] \in ExResult
    BY <1>a DEF ExState, ExResult
  <2>2. [exReq[r] EXCEPT !.out = [exReq[r].out EXCEPT !.raced = TRUE]] \in ExState
    BY <1>a, <2>1 DEF ExState
  <2> QED
    BY <2>2
<1>2. exReq' \in [ExRequest -> ExState]
  BY <1>a, <1>1 DEF ExEdit
<1>3. exFile' \in [input : ExVersion, dep : ExVersion]
  BY <1>a, ExAssumption DEF ExEdit, ExVersion
<1> QED
  BY <1>2, <1>3 DEF ExEdit, ExTypeOK

\* Every step keeps the types.
LEMMA ExTypeStep == ExTypeOK /\ [ExNext]_exVars => ExTypeOK'
<1> SUFFICES ASSUME ExTypeOK, [ExNext]_exVars PROVE ExTypeOK'
  OBVIOUS
<1>1. CASE UNCHANGED exVars
  BY <1>1 DEF ExTypeOK, exVars
<1>2. \A r \in exLoad.arrive : r \in ExRequest
  BY ExAssumption DEF ExTypeOK
<1> QED
  BY <1>1, <1>2, ExTypeQuiet, ExTypeShared, ExTypeEdit DEF ExNext, ExProgress

\* The types hold initially.
LEMMA ExTypeInit == ExInit => ExTypeOK
<1> SUFFICES ASSUME ExInit PROVE ExTypeOK
  OBVIOUS
<1>1. 0 \in ExVersion /\ [p |-> 0, d |-> ExNone] \in ExKey
      /\ [input |-> 0, dep |-> 0, raced |-> FALSE] \in ExResult
  BY ExAssumption DEF ExVersion, ExKey, ExResult
<1>2. exReq \in [ExRequest -> ExState]
  BY <1>1 DEF ExInit, ExState, ExPc, ExPolicy, ExOwner
<1> QED
  BY <1>1, <1>2 DEF ExInit, ExTypeOK, ExOwner

\* Type correctness of the coalesced tool runs (handle_exec_coalescing.rs).
THEOREM ExTypeCorrect == ExSpec => []ExTypeOK
BY ExTypeInit, ExTypeStep, PTL DEF ExSpec

-----------------------------------------------------------------------------
(* The slots *)

ExSlotInv == ExSlotOwned /\ ExOwnersLate

\* Slots stay, and so does what every owner's record says of its slot.
LEMMA ExSlotsRest ==
    ASSUME ExTypeOK, ExTypeOK', ExSlotInv, UNCHANGED exSlot,
           \A s \in ExRequest :
               /\ exReq'[s].owner = exReq[s].owner
               /\ exReq[s].owner => /\ exReq'[s].key = exReq[s].key
                                    /\ exReq'[s].pc \in ExHolding <=> exReq[s].pc \in ExHolding
                                    /\ exReq'[s].pc \notin ExEarly
    PROVE  ExSlotInv'
<1>1. exSlot \in [ExKey -> ExRequest \cup {ExNone}]
  BY DEF ExTypeOK, ExOwner
<1>2. ExOwnersLate'
  BY DEF ExSlotInv, ExOwnersLate
<1>3. ASSUME NEW k \in ExKey, exSlot[k] # ExNone
      PROVE  /\ exReq'[exSlot[k]].owner /\ exReq'[exSlot[k]].key = k
             /\ exReq'[exSlot[k]].pc \in ExHolding
  BY <1>1, <1>3 DEF ExSlotInv, ExSlotOwned
<1>4. ASSUME NEW r \in ExRequest, exReq'[r].owner, exReq'[r].pc \in ExHolding
      PROVE  exSlot'[exReq'[r].key] = r
  BY <1>4 DEF ExSlotInv, ExSlotOwned, ExHolder
<1> QED
  BY <1>2, <1>3, <1>4 DEF ExSlotInv, ExSlotOwned, ExHolder

\* The steps of one request that leave the slots alone.
LEMMA ExSlotsKept ==
    ASSUME ExTypeOK, ExTypeOK', ExSlotInv, NEW r \in ExRequest, NEW pc, ExGoes(r, pc),
           UNCHANGED exSlot, exReq'[r].owner = exReq[r].owner,
           \/ exReq[r].pc \in ExEarly
           \/ /\ exReq'[r].key = exReq[r].key
              /\ exReq[r].pc \in ExHolding /\ pc \in ExHolding
           \/ ~exReq[r].owner
    PROVE  ExSlotInv'
<1>1. \A s \in ExRequest : s # r => exReq'[s] = exReq[s]
  BY DEF ExGoes, ExTypeOK
<1>2. exReq'[r].pc = pc /\ (exReq[r].owner => exReq[r].pc \notin ExEarly)
  BY DEF ExGoes, ExSlotInv, ExOwnersLate
<1>3. \A q \in ExHolding : q \notin ExEarly
  BY DEF ExHolding, ExEarly
<1> QED
  BY <1>1, <1>2, <1>3, ExSlotsRest DEF ExSlotInv, ExOwnersLate

\* Every step keeps who owns which slot.
LEMMA ExSlotStep == ExTypeOK /\ ExTypeOK' /\ ExSlotInv /\ [ExNext]_exVars => ExSlotInv'
<1> SUFFICES ASSUME ExTypeOK, ExTypeOK', ExSlotInv, [ExNext]_exVars PROVE ExSlotInv'
  OBVIOUS
<1>a. exReq \in [ExRequest -> ExState] /\ exSlot \in [ExKey -> ExOwner]
  BY DEF ExTypeOK
<1>1. CASE UNCHANGED exVars
  <2>1. UNCHANGED <<exReq, exSlot>>
    BY <1>1 DEF exVars
  <2> QED
    BY <2>1, ExSlotsRest DEF ExSlotInv, ExOwnersLate
<1>2. ASSUME NEW r \in ExRequest, NEW policy, ExHash(r, policy) PROVE ExSlotInv'
  BY <1>2, <1>a, ExLookupFields, ExSlotsKept
     DEF ExHash, ExAt, ExKeep, ExSameFlight, ExEarly
<1>3. ASSUME NEW r \in ExRequest, ExCompose(r) PROVE ExSlotInv'
  BY <1>3, <1>a, ExLookupFields, ExSlotsKept
     DEF ExCompose, ExAt, ExKeep, ExSameFlight, ExEarly
<1>4. ASSUME NEW r \in ExRequest, NEW pc, ExGoto(r, pc),
             exReq[r].pc \in ExEarly \/ (exReq[r].pc \in ExHolding /\ pc \in ExHolding)
               \/ ~exReq[r].owner
      PROVE  ExSlotInv'
  <2>1. ExGoes(r, pc) /\ ExSame(r) /\ UNCHANGED exSlot
    BY <1>4, <1>a, ExLookupFields DEF ExGoto
  <2> QED
    BY <1>4, <2>1, ExSlotsKept DEF ExSame, ExSameFlight, ExSameCommand
<1>5. ASSUME NEW r \in ExRequest,
             ExHit(r) \/ ExEnable(r) \/ ExRecheck(r) \/ ExWoken(r) \/ ExReturn(r)
      PROVE  ExSlotInv'
  BY <1>4, <1>5 DEF ExHit, ExEnable, ExRecheck, ExWoken, ExReturn, ExAt, ExEarly, ExHolding
<1>6. ASSUME NEW r \in ExRequest, ExMiss(r) \/ ExClone(r) \/ ExTimedOut(r) PROVE ExSlotInv'
  <2>1. /\ exReq'[r].owner = exReq[r].owner /\ exReq[r].pc \in ExEarly /\ UNCHANGED exSlot
        /\ \E pc : ExGoes(r, pc)
    BY <1>6, <1>a, ExLookupFields
       DEF ExMiss, ExClone, ExTimedOut, ExAt, ExKeep, ExSame, ExSameFlight, ExEarly
  <2> QED
    BY <2>1, ExSlotsKept
<1>7. ASSUME NEW r \in ExRequest,
             \/ ExSpawn(r) \/ ExExit(r) \/ ExFail(r) \/ ExUncacheable(r) \/ ExCancel(r)
             \/ ExHarvest(r) \/ ExStoreArtifact(r)
      PROVE  ExSlotInv'
  <2>1. /\ exReq[r].pc \in ExEarly \/ exReq[r].pc \in ExHolding
        /\ UNCHANGED exSlot
    BY <1>7 DEF ExSpawn, ExExit, ExFail, ExUncacheable, ExCancel, ExHarvest, ExStoreArtifact,
       ExAt, ExKeep, ExEarly, ExHolding
  <2>2. /\ exReq'[r].owner = exReq[r].owner /\ exReq'[r].key = exReq[r].key
        /\ \E pc \in ExHolding : ExGoes(r, pc)
    BY <1>7, <1>a, ExRunFields DEF ExSame, ExSameFlight, ExSameCommand, ExHolding
  <2> QED
    BY <2>1, <2>2, ExSlotsKept
<1>8. ASSUME NEW r \in ExRequest, ExOwn(r) PROVE ExSlotInv'
  <2>1. /\ exReq'[r].owner = TRUE /\ exReq'[r].key = exReq[r].key /\ exReq'[r].pc = "guarded"
        /\ \A s \in ExRequest : s # r => exReq'[s] = exReq[s]
    BY <1>8, <1>a, ExLookupFields DEF ExGoes, ExSameCommand
  <2>2. /\ exReq[r].pc \in ExEarly /\ exSlot[exReq[r].key] = ExNone /\ exReq[r].key \in ExKey
        /\ exSlot' = [exSlot EXCEPT ![exReq[r].key] = r]
    BY <1>8, <1>a DEF ExOwn, ExHolder, ExAt, ExEarly, ExState
  <2>3. ~exReq[r].owner
    BY <2>2 DEF ExSlotInv, ExOwnersLate
  <2>4. ExOwnersLate'
    BY <2>1 DEF ExSlotInv, ExOwnersLate, ExEarly
  <2>5. ASSUME NEW k \in ExKey, exSlot'[k] # ExNone
        PROVE  /\ exReq'[exSlot'[k]].owner /\ exReq'[exSlot'[k]].key = k
               /\ exReq'[exSlot'[k]].pc \in ExHolding
    BY <2>1, <2>2, <2>3, <2>5, <1>a DEF ExSlotInv, ExSlotOwned, ExHolding, ExOwner
  <2>6. ASSUME NEW s \in ExRequest, exReq'[s].owner, exReq'[s].pc \in ExHolding
        PROVE  exSlot'[exReq'[s].key] = s
    BY <2>1, <2>2, <2>6, <1>a, ExAssumption DEF ExSlotInv, ExSlotOwned, ExHolder, ExState
  <2> QED
    BY <2>4, <2>5, <2>6 DEF ExSlotInv, ExSlotOwned, ExHolder
<1>9. ASSUME NEW r \in ExRequest, ExRemoveSlot(r) PROVE ExSlotInv'
  <2>1. /\ exReq'[r].owner = exReq[r].owner /\ exReq'[r].key = exReq[r].key
        /\ exReq'[r].pc = "notify"
        /\ \A s \in ExRequest : s # r => exReq'[s] = exReq[s]
    BY <1>9, <1>a, ExRunFields DEF ExGoes, ExSameCommand
  <2>2. /\ exReq[r].pc = "drop" /\ exReq[r].owner /\ exReq[r].key \in ExKey
        /\ exSlot' = [exSlot EXCEPT ![exReq[r].key] = ExNone]
    BY <1>9, <1>a DEF ExRemoveSlot, ExAt, ExState
  <2>3. exSlot[exReq[r].key] = r
    BY <2>2 DEF ExSlotInv, ExSlotOwned, ExHolder, ExHolding
  <2>4. ExOwnersLate'
    BY <2>1 DEF ExSlotInv, ExOwnersLate, ExEarly
  <2>5. ASSUME NEW k \in ExKey, exSlot'[k] # ExNone
        PROVE  /\ exReq'[exSlot'[k]].owner /\ exReq'[exSlot'[k]].key = k
               /\ exReq'[exSlot'[k]].pc \in ExHolding
    BY <2>1, <2>2, <2>3, <2>5, <1>a DEF ExSlotInv, ExSlotOwned, ExOwner
  <2>6. ASSUME NEW s \in ExRequest, exReq'[s].owner, exReq'[s].pc \in ExHolding
        PROVE  exSlot'[exReq'[s].key] = s
    BY <2>1, <2>2, <2>3, <2>6, <1>a DEF ExSlotInv, ExSlotOwned, ExHolder, ExState, ExHolding
  <2> QED
    BY <2>4, <2>5, <2>6 DEF ExSlotInv, ExSlotOwned, ExHolder
<1>10. ASSUME NEW r \in ExRequest, ExNotifyWaiters(r) PROVE ExSlotInv'
  <2>1. exReq[r].pc = "notify" /\ UNCHANGED exSlot
    BY <1>10 DEF ExNotifyWaiters, ExAt, ExKeep
  <2>2. \A s \in ExRequest : /\ exReq'[s].owner = exReq[s].owner /\ exReq'[s].key = exReq[s].key
                             /\ exReq'[s].pc = IF s = r THEN "done" ELSE exReq[s].pc
    BY <1>10, <1>a, ExNotifyFields DEF ExSameCommand
  <2> QED
    BY <2>1, <2>2, ExSlotsRest DEF ExSlotInv, ExOwnersLate, ExHolding, ExEarly
<1>11. ASSUME NEW f \in {"input", "dep"}, ExEdit(f) PROVE ExSlotInv'
  <2>1. \A s \in ExRequest : /\ exReq'[s].owner = exReq[s].owner /\ exReq'[s].key = exReq[s].key
                             /\ exReq'[s].pc = exReq[s].pc
    BY <1>11, <1>a, ExEditFields DEF ExSameCommand, ExSameFlight
  <2>2. UNCHANGED exSlot
    BY <1>11 DEF ExEdit
  <2> QED
    BY <2>1, <2>2, ExSlotsRest DEF ExSlotInv, ExOwnersLate
<1>12. \A r \in exLoad.arrive : r \in ExRequest
  BY ExAssumption DEF ExTypeOK
<1> QED
  BY <1>1, <1>2, <1>3, <1>5, <1>6, <1>7, <1>8, <1>9, <1>10, <1>11, <1>12 DEF ExNext, ExProgress

\* Who owns which slot is known throughout.
LEMMA ExSlotHolds == ExSpec => []ExSlotInv
<1>1. ExInit => ExSlotInv
  BY DEF ExInit, ExSlotInv, ExSlotOwned, ExOwnersLate, ExHolder
<1> QED
  BY <1>1, ExSlotStep, ExTypeCorrect, PTL DEF ExSpec

(***************************************************************************)
(* For any number of requests, keys and edits: a slot of in_flight_exec    *)
(* belongs to one owner that is at work under its key and will remove it.  *)
(* No cancelled, failed, late or timed-out handler leaves a slot behind or *)
(* takes another owner's away (acquire_in_flight, InFlightGuardExec).      *)
(***************************************************************************)
THEOREM ExSlotOwnedHolds == ExSpec => []ExSlotOwned
<1>1. ExSlotInv => ExSlotOwned
  BY DEF ExSlotInv
<1> QED
  BY <1>1, ExSlotHolds, PTL

-----------------------------------------------------------------------------
(* What is stored *)

ExFoundInv == ExStoredMatchesKey /\ \A r \in ExRequest : ExFound(r)

\* A step of one request that leaves the files and the cache alone.
LEMMA ExFoundKept ==
    ASSUME ExTypeOK, ExFoundInv, NEW r \in ExRequest, NEW pc, ExGoes(r, pc),
           UNCHANGED <<exFile, exDepfile, exStore>>, ExFound(r)'
    PROVE  ExFoundInv'
<1>1. \A s \in ExRequest : s # r => exReq'[s] = exReq[s]
  BY DEF ExGoes, ExTypeOK
<1>2. \A s \in ExRequest : ExFound(s)'
  BY <1>1 DEF ExFoundInv, ExFound
<1>3. ExStoredMatchesKey'
  BY DEF ExFoundInv, ExStoredMatchesKey
<1> QED
  BY <1>2, <1>3 DEF ExFoundInv

\* Every step keeps what a run that was not raced has read.
LEMMA ExFoundStep == ExTypeOK /\ ExFoundInv /\ [ExNext]_exVars => ExFoundInv'
<1> SUFFICES ASSUME ExTypeOK, ExFoundInv, [ExNext]_exVars PROVE ExFoundInv'
  OBVIOUS
<1> DEFINE Hashed == (ExEarly \ {"idle"}) \cup {"guarded", "running"}
<1>a. exReq \in [ExRequest -> ExState]
  BY DEF ExTypeOK
<1>1. CASE UNCHANGED exVars
  BY <1>1 DEF exVars, ExFoundInv, ExFound, ExStoredMatchesKey
<1>2. ASSUME NEW r \in ExRequest, NEW policy, ExHash(r, policy) PROVE ExFoundInv'
  <2>1. /\ ExGoes(r, "hashed") /\ exReq'[r].key.p = exFile.input /\ exReq'[r].pc = "hashed"
        /\ UNCHANGED <<exFile, exDepfile, exStore>>
    <3>1. ExGoes(r, "hashed") /\ exReq'[r].key = [p |-> exFile.input, d |-> ExNone]
      BY <1>2, <1>a, ExLookupFields
    <3>2. UNCHANGED <<exFile, exDepfile, exStore>>
      BY <1>2 DEF ExHash, ExKeep
    <3> QED
      BY <3>1, <3>2 DEF ExGoes
  <2>2. ExFound(r)'
    BY <2>1 DEF ExFound
  <2> QED
    BY <2>1, <2>2, ExFoundKept
\* Between the hash and the exit the input is still the hashed one.
<1>3. ASSUME NEW r \in ExRequest, NEW pc, ExGoes(r, pc), pc \notin {"exited", "harvested"},
             exReq[r].pc \in Hashed \/ pc \notin Hashed, exReq'[r].key.p = exReq[r].key.p,
             exReq'[r].out = exReq[r].out, UNCHANGED <<exFile, exDepfile, exStore>>
      PROVE  ExFoundInv'
  <2>1. ExFound(r) /\ exReq'[r].pc = pc
    BY <1>3 DEF ExFoundInv, ExGoes
  <2>2. ExFound(r)'
    BY <1>3, <2>1 DEF ExFound
  <2> QED
    BY <1>3, <2>2, ExFoundKept
<1>4. ASSUME NEW r \in ExRequest, ExCompose(r) PROVE ExFoundInv'
  <2>1. exReq'[r].key.p = exReq[r].key.p
    BY <1>4, <1>a, ExLookupFields DEF ExState, ExKey
  <2>2. /\ ExGoes(r, "keyed") /\ exReq'[r].out = exReq[r].out /\ exReq[r].pc = "hashed"
        /\ UNCHANGED <<exFile, exDepfile, exStore>>
    BY <1>4, <1>a, ExLookupFields DEF ExCompose, ExAt, ExSameRun, ExKeep
  <2> QED
    BY <1>3, <2>1, <2>2 DEF ExEarly
<1>5. ASSUME NEW r \in ExRequest, NEW pc, ExGoto(r, pc), pc \notin {"exited", "harvested"},
             exReq[r].pc \in Hashed \/ pc \notin Hashed
      PROVE  ExFoundInv'
  BY <1>3, <1>5, <1>a, ExLookupFields DEF ExGoto, ExSame, ExSameCommand, ExSameRun
<1>6. ASSUME NEW r \in ExRequest,
             ExHit(r) \/ ExEnable(r) \/ ExRecheck(r) \/ ExWoken(r) \/ ExReturn(r)
      PROVE  ExFoundInv'
  BY <1>5, <1>6 DEF ExHit, ExEnable, ExRecheck, ExWoken, ExReturn, ExAt, ExEarly
<1>7. ASSUME NEW r \in ExRequest, ExMiss(r) \/ ExClone(r) \/ ExTimedOut(r) \/ ExOwn(r)
      PROVE  ExFoundInv'
  <2>1. /\ exReq'[r].key = exReq[r].key /\ exReq'[r].out = exReq[r].out
        /\ \E pc \in {"missed", "cloned", "guarded"} : ExGoes(r, pc)
    BY <1>7, <1>a, ExLookupFields DEF ExSame, ExSameCommand, ExSameRun
  <2>2. exReq[r].pc \in Hashed /\ UNCHANGED <<exFile, exDepfile, exStore>>
    BY <1>7 DEF ExMiss, ExClone, ExTimedOut, ExOwn, ExAt, ExKeep, ExEarly
  <2> QED
    BY <1>3, <2>1, <2>2
<1>8. ASSUME NEW r \in ExRequest, ExSpawn(r) \/ ExFail(r) \/ ExUncacheable(r) \/ ExCancel(r)
      PROVE  ExFoundInv'
  <2>1. /\ exReq'[r].key = exReq[r].key /\ exReq'[r].out = exReq[r].out
        /\ \E pc \in {"running", "drop"} : ExGoes(r, pc) /\ (ExSpawn(r) \/ pc = "drop")
    BY <1>8, <1>a, ExRunFields DEF ExSame, ExSameCommand, ExSameRun
  <2>2. /\ ExSpawn(r) => exReq[r].pc \in Hashed
        /\ UNCHANGED <<exFile, exDepfile, exStore>>
    BY <1>8 DEF ExSpawn, ExFail, ExUncacheable, ExCancel, ExAt, ExKeep, ExEarly
  <2> QED
    BY <1>3, <2>1, <2>2 DEF ExEarly
<1>9. ASSUME NEW r \in ExRequest, ExRemoveSlot(r) PROVE ExFoundInv'
  <2>1. /\ exReq'[r].key = exReq[r].key /\ exReq'[r].out = exReq[r].out
        /\ ExGoes(r, "notify") /\ UNCHANGED <<exFile, exDepfile, exStore>>
    BY <1>9, <1>a, ExRunFields DEF ExSameCommand, ExSameRun, ExRemoveSlot
  <2> QED
    BY <1>3, <2>1 DEF ExEarly
<1>10. ASSUME NEW r \in ExRequest, ExExit(r) PROVE ExFoundInv'
  <2>1. /\ exReq'[r].key = exReq[r].key /\ ExGoes(r, "exited") /\ exReq'[r].pc = "exited"
        /\ exReq'[r].out = [input |-> exFile.input, dep |-> exFile.dep,
                            raced |-> exReq[r].out.raced]
        /\ UNCHANGED <<exFile, exDepfile, exStore>> /\ exReq[r].pc = "running"
    BY <1>10, <1>a, ExRunFields DEF ExSameCommand, ExExit, ExKeep, ExAt, ExGoes
  <2>2. ~exReq[r].out.raced => exReq[r].key.p = exFile.input
    BY <2>1 DEF ExFoundInv, ExFound
  <2>3. ExFound(r)'
    BY <2>1, <2>2 DEF ExFound, ExEarly
  <2> QED
    BY <2>1, <2>3, ExFoundKept
<1>11. ASSUME NEW r \in ExRequest, ExHarvest(r) PROVE ExFoundInv'
  <2>1. /\ exReq'[r].out = exReq[r].out /\ ExGoes(r, "harvested") /\ exReq'[r].pc = "harvested"
        /\ exReq'[r].final = IF exDepfile THEN [exReq[r].key EXCEPT !.d = exFile.dep]
                                          ELSE exReq[r].key
        /\ UNCHANGED <<exFile, exDepfile, exStore>> /\ exReq[r].pc = "exited"
    BY <1>11, <1>a, ExRunFields DEF ExHarvest, ExAt, ExGoes
  <2>2. ~exReq[r].out.raced =>
          exReq[r].out.input = exReq[r].key.p /\ exReq[r].out.dep = exFile.dep
    BY <2>1 DEF ExFoundInv, ExFound
  <2>3. /\ exReq'[r].final.p = exReq[r].key.p
        /\ exDepfile => exReq'[r].final.d = exFile.dep
    BY <2>1, <1>a DEF ExState, ExKey
  <2>4. ExFound(r)'
    BY <2>1, <2>2, <2>3 DEF ExFound, ExEarly
  <2> QED
    BY <2>1, <2>4, ExFoundKept
<1>12. ASSUME NEW r \in ExRequest, ExStoreArtifact(r) PROVE ExFoundInv'
  <2>1. /\ exReq'[r].pc = "drop" /\ exReq'[r].out = exReq[r].out /\ exReq[r].pc = "harvested"
        /\ \A s \in ExRequest : s # r => exReq'[s] = exReq[s]
        /\ UNCHANGED <<exFile, exDepfile>>
    BY <1>12, <1>a, ExRunFields DEF ExStoreArtifact, ExAt, ExGoes, ExSame, ExSameRun
  <2>2. \A s \in ExRequest : ExFound(s)'
    BY <2>1 DEF ExFoundInv, ExFound, ExEarly
  <2>3. \A k \in ExKey : \/ exStore'[k] = exStore[k]
                         \/ k = exReq[r].final /\ exStore'[k] = exReq[r].out
    BY <1>12 DEF ExStoreArtifact, ExTypeOK
  <2>4. ~exReq[r].out.raced =>
             /\ exReq[r].out.input = exReq[r].final.p
             /\ exDepfile => exReq[r].out.dep = exReq[r].final.d
    BY <2>1 DEF ExFoundInv, ExFound
  <2>5. ExStoredMatchesKey'
    BY <2>1, <2>3, <2>4 DEF ExFoundInv, ExStoredMatchesKey
  <2> QED
    BY <2>2, <2>5 DEF ExFoundInv
<1>13. ASSUME NEW r \in ExRequest, ExNotifyWaiters(r) PROVE ExFoundInv'
  <2>1. UNCHANGED <<exFile, exDepfile, exStore>>
    BY <1>13 DEF ExNotifyWaiters, ExKeep
  <2>2. \A s \in ExRequest : /\ exReq'[s].key = exReq[s].key /\ exReq'[s].out = exReq[s].out
                             /\ exReq'[s].final = exReq[s].final
                             /\ exReq'[s].pc = IF s = r THEN "done" ELSE exReq[s].pc
    BY <1>13, <1>a, ExNotifyFields DEF ExSameCommand, ExSameRun
  <2>3. \A s \in ExRequest : ExFound(s)'
    BY <2>1, <2>2 DEF ExFoundInv, ExFound, ExEarly
  <2>4. ExStoredMatchesKey'
    BY <2>1 DEF ExFoundInv, ExStoredMatchesKey
  <2> QED
    BY <2>3, <2>4 DEF ExFoundInv
<1>14. ASSUME NEW f \in {"input", "dep"}, ExEdit(f) PROVE ExFoundInv'
  <2>1. UNCHANGED <<exDepfile, exStore>>
    BY <1>14 DEF ExEdit
  <2>2. ASSUME NEW s \in ExRequest PROVE ExFound(s)'
    <3>1. /\ exReq'[s].key = exReq[s].key /\ exReq'[s].final = exReq[s].final
          /\ exReq'[s].pc = exReq[s].pc
          /\ \/ exReq'[s].out = exReq[s].out
                  /\ exReq[s].pc \notin (IF f = "dep" THEN {"exited"}
                                         ELSE ExPc \ {"idle", "exited", "harvested"})
             \/ exReq'[s].out.raced
      BY <1>14, <1>a, ExEditFields DEF ExSameCommand
    <3>2. CASE exReq'[s].out.raced
      BY <3>2 DEF ExFound
    <3>3. ASSUME f = "input", exReq'[s].out = exReq[s].out,
                 exReq[s].pc \notin ExPc \ {"idle", "exited", "harvested"}
          PROVE  ExFound(s)'
      <4>1. exFile'.dep = exFile.dep /\ exReq[s].pc \in {"idle", "exited", "harvested"}
        BY <1>14, <1>a, <3>3 DEF ExEdit, ExTypeOK, ExState
      <4> QED
        BY <2>1, <3>1, <3>3, <4>1 DEF ExFoundInv, ExFound, ExEarly
    <3>4. ASSUME f = "dep", exReq'[s].out = exReq[s].out, exReq[s].pc # "exited"
          PROVE  ExFound(s)'
      <4>1. exFile'.input = exFile.input
        BY <1>14, <3>4 DEF ExEdit, ExTypeOK
      <4> QED
        BY <2>1, <3>1, <3>4, <4>1 DEF ExFoundInv, ExFound
    <3> QED
      BY <3>1, <3>2, <3>3, <3>4
  <2>3. ExStoredMatchesKey'
    BY <2>1 DEF ExFoundInv, ExStoredMatchesKey
  <2> QED
    BY <2>2, <2>3 DEF ExFoundInv
<1>15. \A r \in exLoad.arrive : r \in ExRequest
  BY ExAssumption DEF ExTypeOK
<1> QED
  BY <1>1, <1>2, <1>4, <1>6, <1>7, <1>8, <1>9, <1>10, <1>11, <1>12, <1>13, <1>14, <1>15
     DEF ExNext, ExProgress

(***************************************************************************)
(* For any number of requests and edits: what store_exec_artifact caches   *)
(* under a key was computed from the input the key names and, when the     *)
(* command declares a depfile, from the dependency in the key, unless a    *)
(* file changed between its hash and its use by that run.                  *)
(***************************************************************************)
THEOREM ExStoredMatchesKeyHolds == ExSpec => []ExStoredMatchesKey
<1>1. ExInit => ExFoundInv
  BY DEF ExInit, ExFoundInv, ExFound, ExStoredMatchesKey, ExEarly
<1>2. ExFoundInv => ExStoredMatchesKey
  BY DEF ExFoundInv
<1> QED
  BY <1>1, <1>2, ExFoundStep, ExTypeCorrect, PTL DEF ExSpec

-----------------------------------------------------------------------------
(* One run per key *)

\* The inductive invariant of a command that declares no depfile.
ExQuietHerd == ~exDepfile /\ ExOnceForTheHerd /\ \A r \in ExRequest : ExWaits(r) /\ ExRuns(r)

\* What no step takes back without a depfile: the key of a request that was
\* hashed, an excuse, an ownership, an end, a cached result.
ExForward ==
    /\ UNCHANGED exDepfile
    /\ \A k \in ExKey : exStore[k] # ExNone => exStore'[k] # ExNone
    /\ \A s \in ExRequest :
         /\ exReq[s].pc # "idle" => exReq'[s].key = exReq[s].key
         /\ exReq[s].excused => exReq'[s].excused
         /\ exReq[s].owner => exReq'[s].owner
         /\ exReq[s].pc = "done" => exReq'[s].pc = "done"

\* The steps of one request.
LEMMA ExForwardOne ==
    ASSUME ExTypeOK, ExSlotInv, ExQuietHerd, NEW r \in ExRequest, NEW pc, ExGoes(r, pc),
           UNCHANGED exDepfile, exReq[r].pc # "done",
           exReq[r].pc # "idle" => exReq'[r].key = exReq[r].key,
           exReq[r].excused => exReq'[r].excused, exReq[r].owner => exReq'[r].owner,
           \A k \in ExKey : exStore[k] # ExNone => exStore'[k] # ExNone
    PROVE  ExForward
<1>1. \A s \in ExRequest : s # r => exReq'[s] = exReq[s]
  BY DEF ExGoes, ExTypeOK
<1> QED
  BY <1>1 DEF ExForward

\* No step takes back a key, an excuse, an ownership or a result.
LEMMA ExForwardStep ==
    ASSUME ExTypeOK, ExSlotInv, ExQuietHerd, [ExNext]_exVars
    PROVE  ExForward
<1>a. exReq \in [ExRequest -> ExState]
  BY DEF ExTypeOK
<1>b. \A r \in ExRequest : ExWaits(r) /\ ExRuns(r)
  BY DEF ExQuietHerd
<1>1. CASE UNCHANGED exVars
  BY <1>1 DEF exVars, ExForward
<1>2. ASSUME NEW r \in ExRequest, NEW policy, ExHash(r, policy) PROVE ExForward
  <2>1. ExGoes(r, "hashed") /\ exReq'[r].owner = exReq[r].owner
    BY <1>2, <1>a, ExLookupFields DEF ExSameFlight
  <2>2. exReq[r].pc = "idle" /\ UNCHANGED <<exDepfile, exStore>>
    BY <1>2 DEF ExHash, ExAt, ExKeep
  <2>3. ~exReq[r].excused
    BY <1>b, <2>2 DEF ExRuns
  <2> QED
    BY <2>1, <2>2, <2>3, ExForwardOne
<1>3. ASSUME NEW r \in ExRequest, ExCompose(r) PROVE ExForward
  <2>1. /\ ExGoes(r, "keyed") /\ exReq'[r].owner = exReq[r].owner
        /\ exReq'[r].excused = exReq[r].excused
        /\ exReq'[r].key = [exReq[r].key EXCEPT
             !.d = IF exDepfile /\ exReq[r].key.p \in exSidecar THEN exFile.dep ELSE ExNone]
    BY <1>3, <1>a, ExLookupFields DEF ExSameFlight, ExSameExcuse
  <2>2. exReq[r].pc = "hashed" /\ UNCHANGED <<exDepfile, exStore>>
    BY <1>3 DEF ExCompose, ExAt, ExKeep
  <2>3. exReq[r].key.d = ExNone /\ ~exDepfile /\ exReq[r].key \in ExKey
    BY <1>a, <1>b DEF ExRuns, ExQuietHerd, ExState
  <2>4. exReq'[r].key = exReq[r].key
    BY <2>1, <2>3 DEF ExKey
  <2> QED
    BY <2>1, <2>2, <2>4, ExForwardOne
<1>4. ASSUME NEW r \in ExRequest, NEW pc, ExGoto(r, pc), exReq[r].pc # "done"
      PROVE  ExForward
  <2>1. ExGoes(r, pc) /\ ExSame(r) /\ ExSameExcuse(r) /\ UNCHANGED <<exDepfile, exStore>>
    BY <1>4, <1>a, ExLookupFields DEF ExGoto
  <2> QED
    BY <1>4, <2>1, ExForwardOne DEF ExSame, ExSameExcuse, ExSameCommand, ExSameFlight
<1>5. ASSUME NEW r \in ExRequest,
             ExHit(r) \/ ExEnable(r) \/ ExRecheck(r) \/ ExWoken(r) \/ ExReturn(r)
      PROVE  ExForward
  BY <1>4, <1>5 DEF ExHit, ExEnable, ExRecheck, ExWoken, ExReturn, ExAt
<1>6. ASSUME NEW r \in ExRequest, ExMiss(r) \/ ExClone(r) \/ ExTimedOut(r) \/ ExOwn(r)
      PROVE  ExForward
  <2>1. /\ exReq'[r].key = exReq[r].key /\ (exReq[r].owner => exReq'[r].owner)
        /\ exReq[r].excused => exReq'[r].excused
        /\ \E pc : ExGoes(r, pc)
    BY <1>6, <1>a, ExLookupFields DEF ExSame, ExSameCommand, ExSameFlight, ExSameExcuse
  <2>2. exReq[r].pc # "done" /\ UNCHANGED <<exDepfile, exStore>>
    BY <1>6 DEF ExMiss, ExClone, ExTimedOut, ExOwn, ExAt, ExKeep
  <2> QED
    BY <2>1, <2>2, ExForwardOne
<1>7. ASSUME NEW r \in ExRequest,
             \/ ExSpawn(r) \/ ExExit(r) \/ ExFail(r) \/ ExUncacheable(r) \/ ExCancel(r)
             \/ ExHarvest(r) \/ ExRemoveSlot(r) \/ ExStoreArtifact(r)
      PROVE  ExForward
  <2>1. /\ exReq'[r].key = exReq[r].key /\ (exReq[r].owner => exReq'[r].owner)
        /\ exReq[r].excused => exReq'[r].excused
        /\ \E pc : ExGoes(r, pc)
    BY <1>7, <1>a, ExRunFields DEF ExSame, ExSameCommand, ExSameFlight, ExSameExcuse
  <2>2. exReq[r].pc # "done" /\ UNCHANGED exDepfile
    BY <1>7 DEF ExSpawn, ExExit, ExFail, ExUncacheable, ExCancel, ExHarvest, ExRemoveSlot,
       ExStoreArtifact, ExAt, ExKeep
  <2>3. \A k \in ExKey : exStore[k] # ExNone => exStore'[k] # ExNone
    <3>1. CASE ~ExStoreArtifact(r)
      BY <1>7, <3>1 DEF ExSpawn, ExExit, ExFail, ExUncacheable, ExCancel, ExHarvest,
         ExRemoveSlot, ExKeep
    <3>2. CASE ExStoreArtifact(r)
      <4>1. exReq[r].out # ExNone
        BY <1>a, ExAssumption DEF ExState
      <4> QED
        BY <3>2, <4>1 DEF ExStoreArtifact, ExTypeOK
    <3> QED
      BY <3>1, <3>2
  <2> QED
    BY <2>1, <2>2, <2>3, ExForwardOne
<1>8. ASSUME NEW r \in ExRequest, ExNotifyWaiters(r) PROVE ExForward
  <2>1. UNCHANGED <<exDepfile, exStore>>
    BY <1>8 DEF ExNotifyWaiters, ExKeep
  <2> QED
    BY <1>8, <1>a, <2>1, ExNotifyFields DEF ExForward, ExSameCommand, ExSameExcuse
<1>9. ASSUME NEW f \in {"input", "dep"}, ExEdit(f) PROVE ExForward
  <2>1. UNCHANGED <<exDepfile, exStore>>
    BY <1>9 DEF ExEdit
  <2> QED
    BY <1>9, <1>a, <2>1, ExEditFields DEF ExForward, ExSameCommand, ExSameFlight, ExSameExcuse
<1>10. \A r \in exLoad.arrive : r \in ExRequest
  BY ExAssumption DEF ExTypeOK
<1> QED
  BY <1>1, <1>2, <1>3, <1>5, <1>6, <1>7, <1>8, <1>9, <1>10 DEF ExNext, ExProgress

\* An excuse stays one: an idle request has none.
LEMMA ExExcuseStays ==
    ASSUME ExQuietHerd, ExForward, NEW k, ExExcuse(k)
    PROVE  ExExcuse(k)'
<1>1. PICK x \in ExRequest : exReq[x].key = k /\ exReq[x].excused
  BY DEF ExExcuse
<1>2. exReq[x].pc # "idle"
  BY <1>1 DEF ExQuietHerd, ExRuns
<1> QED
  BY <1>1, <1>2 DEF ExForward, ExExcuse

\* A request that rests.
LEMMA ExHerdRest ==
    ASSUME ExTypeOK, ExSlotInv, ExQuietHerd, ExForward, NEW s \in ExRequest,
           ExSameCommand(s), ExSameFlight(s), ExSameExcuse(s), exReq'[s].pc = exReq[s].pc,
           exReq'[s].final = exReq[s].final, exReq'[s].ran = exReq[s].ran
    PROVE  ExWaits(s)' /\ ExRuns(s)'
<1>1. ExWaits(s) /\ ExRuns(s) /\ exReq[s].key \in ExKey
  BY DEF ExQuietHerd, ExTypeOK, ExState
<1>2. ASSUME NEW o \in ExRequest, exReq[o].owner
      PROVE  exReq'[o].owner /\ exReq'[o].key = exReq[o].key
               /\ (exReq[o].pc = "done" => exReq'[o].pc = "done")
  BY <1>2 DEF ExForward, ExSlotInv, ExOwnersLate, ExEarly
<1>3. ExWaits(s)'
  BY <1>1, <1>2 DEF ExWaits, ExSameCommand, ExSameFlight
<1>4. \A k \in ExKey : ExExcuse(k) => ExExcuse(k)'
  BY ExExcuseStays
<1>5. /\ ExCached(s) => ExCached(s)'
      /\ ExExcuse(exReq[s].key) => ExExcuse(exReq[s].key)'
  BY <1>1, <1>4 DEF ExForward, ExCached, ExExcuse, ExSameCommand
<1>6. ExRuns(s)'
  BY <1>1, <1>5 DEF ExRuns, ExSameCommand, ExSameFlight, ExSameExcuse
<1> QED
  BY <1>3, <1>6

\* A step in which nobody starts a run.
LEMMA ExOnceStays ==
    ASSUME ExTypeOK, ExQuietHerd, ExForward,
           \A x \in ExRequest : exReq'[x].ran => exReq[x].ran
    PROVE  ExOnceForTheHerd'
<1> SUFFICES ASSUME NEW r \in ExRequest, NEW s \in ExRequest, r # s, exReq'[r].ran,
                    exReq'[s].ran, exReq'[r].key = exReq'[s].key
             PROVE  ExExcuse(exReq[r].key)'
  BY DEF ExOnceForTheHerd, ExExcuse
<1>1. \A x \in ExRequest : exReq[x].ran => exReq'[x].key = exReq[x].key
  BY DEF ExQuietHerd, ExRuns, ExForward, ExEarly
<1>2. ExExcuse(exReq[r].key)
  BY <1>1 DEF ExQuietHerd, ExOnceForTheHerd, ExExcuse
<1>3. \A k : ExExcuse(k) => ExExcuse(k)'
  BY ExExcuseStays
<1> QED
  BY <1>1, <1>2, <1>3 DEF ExExcuse

\* A step of one request.
LEMMA ExHerdOne ==
    ASSUME ExTypeOK, ExSlotInv, ExQuietHerd, ExForward, NEW r \in ExRequest,
           NEW pc, ExGoes(r, pc), ExWaits(r)', ExRuns(r)', ExOnceForTheHerd'
    PROVE  ExQuietHerd'
<1>1. \A s \in ExRequest : s # r => exReq'[s] = exReq[s]
  BY DEF ExGoes, ExTypeOK
<1>2. \A s \in ExRequest : s # r => ExWaits(s)' /\ ExRuns(s)'
  BY <1>1, ExHerdRest DEF ExSameCommand, ExSameFlight, ExSameExcuse
<1> QED
  BY <1>2 DEF ExQuietHerd, ExForward

\* An owner that has given its slot back left a result or an excuse.
LEMMA ExReleased ==
    ASSUME ExSlotInv, ExQuietHerd, NEW o \in ExRequest, exReq[o].owner,
           exReq[o].pc \in {"notify", "done"}, NEW k, exReq[o].key = k
    PROVE  exStore[k] # ExNone \/ ExExcuse(k)
BY DEF ExQuietHerd, ExRuns, ExCached, ExExcuse

\* Who ever owned the slot has vacated it, or holds it and is at work.
LEMMA ExLateOwner ==
    ASSUME ExTypeOK, ExSlotInv, NEW o \in ExRequest, exReq[o].owner
    PROVE  \/ exReq[o].pc \in {"notify", "done"}
           \/ exReq[o].pc \in ExHolding /\ exSlot[exReq[o].key] = o
BY DEF ExTypeOK, ExState, ExPc, ExSlotInv, ExSlotOwned, ExOwnersLate, ExEarly, ExHolding, ExHolder

\* Every step keeps what is known of a herd without an excuse.
LEMMA ExHerdStep ==
    ASSUME ExTypeOK, ExTypeOK', ExSlotInv, ExQuietHerd, [ExNext]_exVars
    PROVE  ExQuietHerd'
<1>a. exReq \in [ExRequest -> ExState] /\ exReq' \in [ExRequest -> ExState]
  BY DEF ExTypeOK
<1>b. \A r \in ExRequest : ExWaits(r) /\ ExRuns(r) /\ exReq[r].key \in ExKey
  BY <1>a DEF ExQuietHerd, ExState
<1>c. ExForward /\ ~exDepfile
  BY ExForwardStep DEF ExQuietHerd
<1>d. /\ \A k : ExExcuse(k) => ExExcuse(k)'
      /\ \A k \in ExKey : exStore[k] # ExNone => exStore'[k] # ExNone
  BY <1>c, ExExcuseStays DEF ExForward
<1>e. ASSUME NEW r \in ExRequest, exReq'[r].key = exReq[r].key
      PROVE  /\ ExCached(r) => ExCached(r)'
             /\ ExExcuse(exReq[r].key) => ExExcuse(exReq[r].key)'
             /\ exReq'[r].excused => ExExcuse(exReq[r].key)'
  BY <1>b, <1>d, <1>e DEF ExCached, ExExcuse
\* A step of r that starts no run.
<1>f. ASSUME NEW r \in ExRequest, NEW pc, ExGoes(r, pc), exReq'[r].ran = exReq[r].ran,
             ExWaits(r)', ExRuns(r)'
      PROVE  ExQuietHerd'
  <2>1. \A s \in ExRequest : s # r => exReq'[s] = exReq[s]
    BY <1>f DEF ExGoes, ExTypeOK
  <2>2. ExOnceForTheHerd'
    BY <1>c, <1>f, <2>1, ExOnceStays
  <2> QED
    BY <1>c, <1>f, <2>2, ExHerdOne
<1>1. CASE UNCHANGED exVars
  <2>1. \A s \in ExRequest : ExWaits(s)' /\ ExRuns(s)'
    BY <1>1, <1>c, ExHerdRest DEF exVars, ExSameCommand, ExSameFlight, ExSameExcuse
  <2>2. ExOnceForTheHerd'
    BY <1>1, <1>c, ExOnceStays DEF exVars
  <2> QED
    BY <1>1, <2>1, <2>2, <1>c DEF exVars, ExQuietHerd
<1>2. ASSUME NEW r \in ExRequest, NEW policy, ExHash(r, policy) PROVE ExQuietHerd'
  <2>1. /\ ExGoes(r, "hashed") /\ ExSameFlight(r) /\ ExSameRun(r) /\ exReq'[r].policy = policy
        /\ exReq'[r].key = [p |-> exFile.input, d |-> ExNone]
        /\ exReq'[r].excused = (policy # "Normal")
    BY <1>2, <1>a, ExLookupFields
  <2>2. exReq[r].pc = "idle" /\ exReq'[r].pc = "hashed"
    BY <1>2, <2>1 DEF ExHash, ExAt, ExGoes
  <2>3. ExWaits(r)'
    BY <1>b, <2>1, <2>2 DEF ExWaits, ExSameFlight, ExEarly
  <2>4. ~exReq[r].ran /\ exReq'[r].ran = exReq[r].ran
    BY <1>b, <2>1, <2>2 DEF ExRuns, ExSameRun, ExEarly
  <2>5. ExRuns(r)'
    <3>1. exReq'[r].key.d = ExNone
      BY <2>1
    <3>2. exReq'[r].excused \/ exReq'[r].policy = "Normal"
      BY <2>1, Zenon
    <3> QED
      BY <2>2, <2>4, <3>1, <3>2 DEF ExRuns
  <2> QED
    BY <1>f, <2>1, <2>3, <2>4, <2>5
\* A step of r between the hash and acquire_in_flight.
<1>3. ASSUME NEW r \in ExRequest, ExCompose(r) \/ ExMiss(r) \/ ExClone(r) \/ ExEnable(r)
      PROVE  ExQuietHerd'
  <2>1. /\ exReq[r].pc \in {"hashed", "keyed", "missed", "cloned"}
        /\ exReq'[r].pc \in {"keyed", "missed", "cloned", "enabled"}
        /\ ExGoes(r, exReq'[r].pc) /\ ExSameRun(r) /\ exReq'[r].woken = exReq[r].woken
        /\ exReq'[r].policy = exReq[r].policy
        /\ exReq'[r].excused \in {exReq[r].excused, TRUE} \/ ExMiss(r)
    BY <1>3, <1>a, ExLookupFields
       DEF ExCompose, ExMiss, ExClone, ExEnable, ExAt, ExGoes, ExSame, ExSameCommand, ExSameFlight,
       ExSameExcuse
  <2>2. exReq'[r].key = exReq[r].key /\ (exReq[r].excused => exReq'[r].excused)
    BY <1>c, <2>1 DEF ExForward
  <2>3. ExRuns(r)'
    BY <1>b, <2>1, <2>2 DEF ExRuns, ExSameRun, ExEarly
  <2>4. ~exReq'[r].woken
    BY <1>b, <2>1 DEF ExWaits, ExEarly
  <2>5. ASSUME exReq'[r].pc \in {"cloned", "enabled"}
        PROVE  /\ exReq'[r].on \in ExRequest
               /\ exReq[exReq'[r].on].owner /\ exReq[exReq'[r].on].key = exReq[r].key
    <3>1. CASE ExClone(r)
      <4>1. exReq'[r].on = exSlot[exReq[r].key] /\ exSlot[exReq[r].key] # ExNone
        BY <3>1, <1>a, ExLookupFields DEF ExClone, ExHolder
      <4>2. exSlot[exReq[r].key] \in ExRequest
        BY <1>b, <4>1 DEF ExTypeOK, ExOwner
      <4> QED
        BY <1>b, <4>1, <4>2 DEF ExSlotInv, ExSlotOwned
    <3>2. CASE ExEnable(r)
      <4>1. exReq'[r].on = exReq[r].on /\ exReq[r].pc = "cloned"
        BY <3>2, <1>a, ExLookupFields DEF ExEnable, ExAt, ExSame, ExSameFlight
      <4> QED
        BY <1>b, <4>1 DEF ExWaits
    <3>3. CASE ExCompose(r) \/ ExMiss(r)
      BY <3>3, <2>5, <1>a, ExLookupFields DEF ExGoes
    <3> QED
      BY <1>3, <3>1, <3>2, <3>3
  <2>6. ASSUME NEW o \in ExRequest, exReq[o].owner
        PROVE  exReq'[o].owner /\ exReq'[o].key = exReq[o].key
    BY <1>c, <2>6 DEF ExForward, ExSlotInv, ExOwnersLate, ExEarly
  <2>7. ExWaits(r)'
    BY <2>1, <2>2, <2>4, <2>5, <2>6 DEF ExWaits, ExEarly
  <2> QED
    BY <1>f, <2>1, <2>3, <2>7 DEF ExSameRun
\* A follower goes on: parked, or as the next one under the guard.
<1>4. ASSUME NEW r \in ExRequest, ExRecheck(r) \/ ExWoken(r) \/ ExTimedOut(r) PROVE ExQuietHerd'
  <2>1. /\ exReq[r].pc \in {"enabled", "parked"} /\ exReq'[r].pc \in {"parked", "guarded"}
        /\ ExGoes(r, exReq'[r].pc) /\ ExSame(r)
    BY <1>4, <1>a, ExLookupFields DEF ExRecheck, ExWoken, ExTimedOut, ExAt, ExGoes
  <2>2. /\ exReq[r].on \in ExRequest
        /\ exReq[exReq[r].on].owner /\ exReq[exReq[r].on].key = exReq[r].key
        /\ exReq[r].woken => exReq[exReq[r].on].pc = "done"
        /\ exReq'[r].key = exReq[r].key /\ exReq'[r].on = exReq[r].on
        /\ exReq'[r].woken = exReq[r].woken
    BY <1>b, <2>1 DEF ExWaits, ExSame, ExSameCommand, ExSameFlight
  <2>3. ASSUME NEW o \in ExRequest, exReq[o].owner
        PROVE  /\ exReq'[o].owner /\ exReq'[o].key = exReq[o].key
               /\ exReq[o].pc = "done" => exReq'[o].pc = "done"
    BY <1>c, <2>3 DEF ExForward, ExSlotInv, ExOwnersLate, ExEarly
  <2>4. ExWaits(r)'
    BY <2>1, <2>2, <2>3 DEF ExWaits, ExEarly
  <2>5. ASSUME exReq'[r].pc = "guarded" PROVE ExCached(r)' \/ ExExcuse(exReq[r].key)'
    <3>1. CASE ExTimedOut(r)
      BY <3>1, <1>a, <1>e, <2>2, ExLookupFields
    <3>2. CASE exReq[exReq[r].on].pc \in {"notify", "done"}
      <4>1. exStore[exReq[r].key] # ExNone \/ ExExcuse(exReq[r].key)
        BY <2>2, <3>2, ExReleased
      <4> QED
        BY <4>1, <1>e, <2>2 DEF ExCached
    <3>3. CASE exReq[exReq[r].on].pc \in ExHolding /\ exSlot[exReq[r].key] = exReq[r].on
      <4>1. CASE ExRecheck(r)
        <5>1. ExGoes(r, "parked")
          BY <4>1, <3>3, <1>a, ExLookupFields DEF ExRecheck, ExHolder
        <5> QED
          BY <5>1, <2>5 DEF ExGoes
      <4>2. CASE ExWoken(r)
        BY <4>2, <2>2, <3>3 DEF ExWoken, ExHolding
      <4> QED
        BY <1>4, <3>1, <4>1, <4>2
    <3> QED
      BY <2>2, <3>2, <3>3, ExLateOwner
  <2>6. ExRuns(r)'
    BY <1>b, <1>c, <2>1, <2>2, <2>5
       DEF ExRuns, ExEarly, ExSame, ExSameRun, ExSameCommand, ExForward
  <2> QED
    BY <1>f, <2>1, <2>4, <2>6 DEF ExSame, ExSameRun
\* A step of r that neither waits nor notifies.
<1>5. ASSUME NEW r \in ExRequest, NEW pc, ExGoes(r, pc), exReq'[r].ran = exReq[r].ran,
             pc \notin ExEarly \cup {"notify"}, ExRuns(r)'
      PROVE  ExQuietHerd'
  <2>1. ExWaits(r)'
    BY <1>5 DEF ExWaits, ExGoes, ExEarly
  <2> QED
    BY <1>f, <1>5, <2>1
<1>6. ASSUME NEW r \in ExRequest, ExOwn(r) PROVE ExQuietHerd'
  <2>1. /\ ExGoes(r, "guarded") /\ exReq'[r].pc = "guarded" /\ ExSameCommand(r) /\ ExSameRun(r)
        /\ ExSameExcuse(r) /\ exReq'[r].owner /\ exReq[r].pc = "missed"
    BY <1>6, <1>a, ExLookupFields DEF ExOwn, ExAt, ExGoes
  <2>2. ExRuns(r)'
    BY <1>b, <2>1 DEF ExRuns, ExSameCommand, ExSameRun, ExSameExcuse, ExEarly
  <2> QED
    BY <1>5, <2>1, <2>2 DEF ExSameRun, ExEarly
\* A hit, or the end of a run without a result.
<1>7. ASSUME NEW r \in ExRequest, ExHit(r) \/ ExFail(r) \/ ExUncacheable(r) \/ ExCancel(r)
      PROVE  ExQuietHerd'
  <2>1. ExGoes(r, "drop") /\ exReq'[r].pc = "drop" /\ ExSame(r) /\ exReq[r].pc # "idle"
    BY <1>7, <1>a, ExLookupFields, ExRunFields
       DEF ExHit, ExFail, ExUncacheable, ExCancel, ExAt, ExGoes
  <2>2. exReq'[r].excused \/ ExCached(r)
    BY <1>7, <1>a, ExRunFields DEF ExHit
  <2>3. exReq'[r].excused \/ ExCached(r)'
    BY <1>e, <2>1, <2>2 DEF ExSame, ExSameCommand
  <2>4. /\ exReq'[r].ran = exReq[r].ran /\ exReq'[r].owner = exReq[r].owner
        /\ exReq'[r].key = exReq[r].key /\ exReq'[r].policy = exReq[r].policy
        /\ exReq[r].excused => exReq'[r].excused
    BY <1>c, <2>1 DEF ExSame, ExSameRun, ExSameFlight, ExSameCommand, ExForward
  <2>5. ExExcuse(exReq[r].key) => ExExcuse(exReq[r].key)'
    BY <1>e, <2>4
  <2>6. ExRuns(r)'
    BY <1>b, <2>1, <2>3, <2>4, <2>5 DEF ExRuns, ExEarly
  <2> QED
    BY <1>5, <2>1, <2>4, <2>6 DEF ExEarly
\* The run goes on.
<1>8. ASSUME NEW r \in ExRequest, ExExit(r) \/ ExHarvest(r) \/ ExReturn(r) PROVE ExQuietHerd'
  <2>1. /\ ExSameCommand(r) /\ ExSameFlight(r) /\ ExSameExcuse(r)
        /\ exReq'[r].ran = exReq[r].ran /\ ExGoes(r, exReq'[r].pc)
        /\ \/ exReq[r].pc = "running" /\ exReq'[r].pc = "exited"
           \/ exReq[r].pc = "exited" /\ exReq'[r].pc = "harvested" /\ exReq'[r].final = exReq[r].key
           \/ exReq[r].pc = "drop" /\ exReq'[r].pc = "done"
    BY <1>8, <1>a, <1>c, ExLookupFields, ExRunFields
       DEF ExExit, ExHarvest, ExReturn, ExAt, ExGoes, ExSame, ExSameRun
  <2>2. /\ ExCached(r) => ExCached(r)'
        /\ ExExcuse(exReq[r].key) => ExExcuse(exReq[r].key)'
    BY <1>e, <2>1 DEF ExSameCommand
  <2>3. ExRuns(r)'
    BY <1>b, <2>1, <2>2 DEF ExRuns, ExEarly, ExSameCommand, ExSameFlight, ExSameExcuse
  <2> QED
    BY <1>5, <2>1, <2>3 DEF ExEarly
<1>9. ASSUME NEW r \in ExRequest, ExStoreArtifact(r) PROVE ExQuietHerd'
  <2>1. /\ ExGoes(r, "drop") /\ exReq'[r].pc = "drop" /\ ExSame(r) /\ ExSameExcuse(r)
        /\ exReq[r].pc = "harvested"
    BY <1>9, <1>a, ExRunFields DEF ExStoreArtifact, ExAt, ExGoes
  <2>2. exReq[r].excused \/ ExCached(r)'
    <3>1. CASE exReq[r].policy = "Normal"
      <4>1. exReq[r].final = exReq[r].key /\ exReq[r].key \in ExKey /\ exReq[r].out # ExNone
        BY <1>a, <1>b, <2>1, ExAssumption DEF ExRuns, ExState
      <4>2. exStore'[exReq[r].key] = exReq[r].out
        BY <1>9, <3>1, <4>1 DEF ExStoreArtifact, ExStoreAllowed, ExTypeOK
      <4> QED
        BY <2>1, <4>1, <4>2 DEF ExCached, ExSame, ExSameCommand
    <3>2. CASE exReq[r].policy # "Normal"
      BY <1>b, <3>2 DEF ExRuns
    <3> QED
      BY <3>1, <3>2
  <2>3. ExExcuse(exReq[r].key) => ExExcuse(exReq[r].key)'
    BY <1>e, <2>1 DEF ExSame, ExSameCommand
  <2>4. ExRuns(r)'
    BY <1>b, <2>1, <2>2, <2>3
       DEF ExRuns, ExEarly, ExSame, ExSameRun, ExSameCommand, ExSameFlight, ExSameExcuse
  <2> QED
    BY <1>5, <2>1, <2>4 DEF ExEarly, ExSame, ExSameRun
<1>10. ASSUME NEW r \in ExRequest, ExRemoveSlot(r) PROVE ExQuietHerd'
  <2>1. /\ ExGoes(r, "notify") /\ exReq'[r].pc = "notify" /\ ExSameCommand(r) /\ ExSameRun(r)
        /\ ExSameExcuse(r) /\ exReq[r].pc = "drop" /\ exReq[r].owner
        /\ exReq'[r].owner = exReq[r].owner /\ exReq'[r].on = ExHolder(r)
    BY <1>10, <1>a, ExRunFields DEF ExRemoveSlot, ExAt, ExGoes
  <2>2. exReq'[r].on = r
    BY <2>1 DEF ExSlotInv, ExSlotOwned, ExHolding
  <2>3. ExWaits(r)'
    BY <2>1, <2>2 DEF ExWaits, ExEarly
  <2>4. ExCached(r) => ExCached(r)'
    BY <1>e, <2>1 DEF ExSameCommand
  <2>5. ExRuns(r)'
    BY <1>b, <2>1, <2>4 DEF ExRuns, ExEarly, ExSameCommand, ExSameRun, ExSameExcuse
  <2> QED
    BY <1>f, <2>1, <2>3, <2>5 DEF ExSameRun
\* A run starts: nobody else has run under this key without an excuse.
<1>11. ASSUME NEW r \in ExRequest, ExSpawn(r) PROVE ExQuietHerd'
  <2>1. /\ ExGoes(r, "running") /\ exReq'[r].pc = "running" /\ ExSameCommand(r) /\ ExSameFlight(r)
        /\ exReq'[r].ran /\ (exReq[r].excused \/ ExCached(r) => exReq'[r].excused)
        /\ exReq'[r].key = exReq[r].key
        /\ \/ exReq[r].pc = "guarded"
           \/ exReq[r].pc = "keyed" /\ exReq[r].policy # "Normal"
    BY <1>11, <1>a, ExRunFields DEF ExSpawn, ExAt, ExLookupAllowed, ExGoes, ExSameCommand
  <2>2. \A s \in ExRequest : s # r => exReq'[s] = exReq[s]
    BY <2>1 DEF ExGoes, ExTypeOK
  <2>3. (exReq[r].owner /\ exReq[r].pc = "guarded") \/ ExExcuse(exReq[r].key)'
    BY <1>b, <1>e, <2>1 DEF ExRuns
  <2>4. ExWaits(r)'
    BY <2>1 DEF ExWaits, ExEarly
  <2>5. ExRuns(r)'
    BY <1>b, <2>1, <2>3 DEF ExRuns, ExEarly, ExSameCommand, ExSameFlight
  <2>6. ASSUME NEW s \in ExRequest, s # r, exReq[s].ran, exReq[s].key = exReq[r].key
        PROVE  ExExcuse(exReq[r].key)'
    <3>1. CASE ExExcuse(exReq[r].key)'
      BY <3>1
    <3>2. CASE ExExcuse(exReq[s].key)
      BY <3>2, <2>6, <2>1, <1>e
    <3>3. CASE exReq[s].owner /\ exReq[r].owner /\ exReq[r].pc = "guarded"
      <4>1. exSlot[exReq[r].key] = r
        BY <3>3, ExLateOwner
      <4>2. exReq[s].pc \in {"notify", "done"}
        BY <3>3, <4>1, <2>6, ExLateOwner
      <4>3. ExCached(r) \/ ExExcuse(exReq[r].key)
        BY <3>3, <4>2, <2>6, ExReleased DEF ExCached
      <4> QED
        BY <4>3, <1>e, <2>1
    <3> QED
      BY <1>b, <2>3, <2>6, <3>1, <3>2, <3>3 DEF ExRuns
  <2>7. ExOnceForTheHerd'
    <3> SUFFICES ASSUME NEW x \in ExRequest, NEW y \in ExRequest, x # y, exReq'[x].ran,
                        exReq'[y].ran, exReq'[x].key = exReq'[y].key
                 PROVE  ExExcuse(exReq[x].key)'
      BY DEF ExOnceForTheHerd, ExExcuse
    <3>1. CASE x = r \/ y = r
      BY <3>1, <2>1, <2>2, <2>6 DEF ExExcuse
    <3>2. CASE x # r /\ y # r
      <4>1. ExExcuse(exReq[x].key) /\ exReq'[x].key = exReq[x].key
        BY <3>2, <2>2 DEF ExQuietHerd, ExOnceForTheHerd, ExExcuse
      <4> QED
        BY <4>1, <1>e
    <3> QED
      BY <3>1, <3>2
  <2> QED
    BY <1>c, <2>1, <2>4, <2>5, <2>7, ExHerdOne
<1>12. ASSUME NEW r \in ExRequest, ExNotifyWaiters(r) PROVE ExQuietHerd'
  <2>1. exReq[r].pc = "notify" /\ exReq[r].on = r /\ UNCHANGED exStore
    BY <1>12, <1>b DEF ExNotifyWaiters, ExAt, ExKeep, ExWaits
  <2>2. ASSUME NEW s \in ExRequest
        PROVE  /\ exReq'[s].pc = (IF s = r THEN "done" ELSE exReq[s].pc)
               /\ ExSameCommand(s) /\ ExSameRun(s) /\ ExSameExcuse(s)
               /\ exReq'[s].owner = exReq[s].owner /\ exReq'[s].on = exReq[s].on
               /\ \/ exReq'[s].woken = exReq[s].woken
                  \/ /\ s # r /\ exReq[s].pc \in {"enabled", "parked"} /\ exReq[s].on = r
    BY <1>12, <1>a, <2>1, ExNotifyFields
  <2>3. ExOnceForTheHerd'
    BY <1>c, <2>2, ExOnceStays DEF ExSameRun
  <2>4. ASSUME NEW s \in ExRequest PROVE ExWaits(s)'
    BY <1>b, <2>1, <2>2 DEF ExWaits, ExSameCommand, ExEarly
  <2>5. ASSUME NEW s \in ExRequest PROVE ExRuns(s)'
    <3>1. /\ ExCached(s) => ExCached(s)'
          /\ ExExcuse(exReq[s].key) => ExExcuse(exReq[s].key)'
      BY <1>e, <2>2 DEF ExSameCommand
    <3> QED
      BY <1>b, <2>1, <2>2, <3>1 DEF ExRuns, ExSameCommand, ExSameRun, ExSameExcuse, ExEarly
  <2> QED
    BY <1>c, <2>3, <2>4, <2>5 DEF ExQuietHerd, ExForward
<1>13. ASSUME NEW f \in {"input", "dep"}, ExEdit(f) PROVE ExQuietHerd'
  <2>1. \A s \in ExRequest : /\ exReq'[s].pc = exReq[s].pc
                             /\ ExSameCommand(s) /\ ExSameFlight(s) /\ ExSameExcuse(s)
                             /\ exReq'[s].final = exReq[s].final /\ exReq'[s].ran = exReq[s].ran
    BY <1>13, <1>a, ExEditFields
  <2>2. \A s \in ExRequest : ExWaits(s)' /\ ExRuns(s)'
    BY <1>c, <2>1, ExHerdRest
  <2>3. ExOnceForTheHerd'
    BY <1>c, <2>1, ExOnceStays
  <2> QED
    BY <1>c, <2>2, <2>3 DEF ExQuietHerd, ExForward
<1>14. \A r \in exLoad.arrive : r \in ExRequest
  BY ExAssumption DEF ExTypeOK
<1> QED
  BY <1>1, <1>2, <1>3, <1>4, <1>6, <1>7, <1>8, <1>9, <1>10, <1>11, <1>12, <1>13, <1>14
     DEF ExNext, ExProgress

(***************************************************************************)
(* For any number of requests and edits: when the command declares no      *)
(* depfile, two requests run the tool under one key only if some request   *)
(* with that key timed out, failed, was cancelled, could not use a cached  *)
(* result or must not store one.  The lookup under the guard and the       *)
(* recheck after enable() make the single flight of acquire_in_flight and  *)
(* coalesce_wait exact.                                                    *)
(***************************************************************************)
THEOREM ExOnceWithoutDepfileHolds == ExSpec => []ExOnceWithoutDepfile
<1> DEFINE Inv == ~exDepfile => ExQuietHerd
<1>1. ExInit => Inv
  BY DEF ExInit, ExQuietHerd, ExOnceForTheHerd, ExWaits, ExRuns, ExEarly
<1>2. ExTypeOK /\ ExTypeOK' /\ ExSlotInv /\ Inv /\ [ExNext]_exVars => Inv'
  <2>1. [ExNext]_exVars => UNCHANGED exDepfile
    BY DEF ExNext, ExProgress, exVars, ExHash, ExCompose, ExHit, ExMiss, ExOwn, ExClone, ExEnable,
       ExRecheck, ExWoken, ExSpawn, ExExit, ExFail, ExHarvest, ExUncacheable, ExStoreArtifact,
       ExRemoveSlot, ExNotifyWaiters, ExReturn, ExTimedOut, ExCancel, ExEdit, ExKeep, ExGoto
  <2> QED
    BY <2>1, ExHerdStep
<1>3. Inv => ExOnceWithoutDepfile
  BY DEF ExQuietHerd, ExOnceWithoutDepfile
<1> QED
  BY <1>1, <1>2, <1>3, ExTypeCorrect, ExSlotHolds, PTL DEF ExSpec

-----------------------------------------------------------------------------
(* Admission: the gate *)

\* Who compiles or publishes holds the gate, and nobody holds it beside an
\* exclusive unit.
AdGateInv ==
    /\ adPc \in [AdRequest -> AdSteps]
    /\ \A r \in AdRequest : AdWorking(r) => r \in adGate
    /\ \A r, s \in adGate : r # s => ~AdExclusive(r) /\ ~AdExclusive(s)

\* Every step of a handler keeps it: the gate is taken on its own terms and
\* given back only when the handler is done.
LEMMA AdGateStep == AdGateInv /\ [AdNext]_adVars => AdGateInv'
<1> SUFFICES ASSUME AdGateInv, [AdNext]_adVars PROVE AdGateInv'
  OBVIOUS
<1> USE DEF AdGateInv, AdWorking, AdSteps
<1>1. UNCHANGED adUnit
  BY DEF AdNext, AdProgress, AdHostAdmission, AdEnqueue, AdJoinSlots, AdTakeSlot, AdAdmit,
         AdTakeGate, AdReleaseSlot, AdLeaveGauge, AdFinish, AdCancel, adVars
<1>2. \A r : AdExclusive(r)' = AdExclusive(r)
  BY <1>1 DEF AdExclusive, AdRequiresExclusive, AdRustAmalgamation
<1> USE <1>2
<1>3. ASSUME NEW r \in AdRequest,
             AdHostAdmission(r) \/ AdEnqueue(r) \/ AdJoinSlots(r) \/ AdTakeSlot(r) \/ AdAdmit(r)
      PROVE  AdGateInv'
  BY <1>3 DEF AdHostAdmission, AdEnqueue, AdJoinSlots, AdTakeSlot, AdAdmit
<1>4. ASSUME NEW r \in AdRequest, AdTakeGate(r)
      PROVE  AdGateInv'
  BY <1>4 DEF AdTakeGate
<1>5. ASSUME NEW r \in AdRequest, AdReleaseSlot(r) \/ AdLeaveGauge(r)
      PROVE  AdGateInv'
  BY <1>5 DEF AdReleaseSlot, AdLeaveGauge
<1>6. ASSUME NEW r \in AdRequest, AdFinish(r) \/ AdCancel(r)
      PROVE  AdGateInv'
  BY <1>6 DEF AdFinish, AdCancel
<1>7. CASE UNCHANGED adVars
  BY <1>7 DEF adVars
<1> QED
  BY <1>3, <1>4, <1>5, <1>6, <1>7 DEF AdNext, AdProgress

\* An exclusive unit compiles and publishes alone, for any requests and units:
\* the early return of the compiler slot and dropped handlers included.
THEOREM AdExclusiveAloneHolds == AdSpec => []AdExclusiveAlone
<1>1. AdInit => AdGateInv
  BY DEF AdInit, AdGateInv, AdSteps, AdWorking
<1>2. AdGateInv => AdExclusiveAlone
  BY DEF AdGateInv, AdExclusiveAlone
<1> QED
  BY <1>1, <1>2, AdGateStep, PTL DEF AdSpec

-----------------------------------------------------------------------------
(* Admission: the gauge *)

AdQueued == {"ticketed", "slotwait", "granted"}
AdCompiling == {"gatewait", "running", "released"}
AdPastQueue == AdCompiling \cup {"posting", "done"}

\* The requests that the host lets in: the others end without a ticket.
AdAccepted == {r \in AdRequest : adUnit[r].host # "error"}

AdAt(requests, steps) == {r \in requests : adPc[r] \in steps}

\* Every counter of CompileQueueGauge is the number of requests it stands for.
AdGaugeExact ==
    /\ adGauge.waiting = Cardinality(AdAt(AdRequest, AdQueued))
    /\ adGauge.in_flight = Cardinality(AdAt(AdRequest, AdCompiling))
    /\ adGauge.admitted = Cardinality(AdAt(AdAccepted, AdPastQueue))
    /\ adGauge.next_ticket = Cardinality(AdAt(AdAccepted, AdQueued \cup AdPastQueue))

\* The tickets given out are the numbers below next_ticket.
AdTicketsDense ==
    \A t \in Nat : t < adGauge.next_ticket =>
        \E r \in AdAt(AdAccepted, AdQueued \cup AdPastQueue) : adTicket[r] = t

AdTicketsGiven ==
    \A r \in AdAt(AdAccepted, AdQueued \cup AdPastQueue) : adTicket[r] < adGauge.next_ticket

AdQueueTypes ==
    /\ adPc \in [AdRequest -> AdSteps]
    /\ adTicket \in [AdRequest -> Nat]
    /\ adGauge \in [waiting : Nat, in_flight : Nat, next_ticket : Nat, admitted : Nat]
    /\ \A r \in AdRequest \ AdAccepted : adPc[r] \in {"idle", "done"}

\* The inductive invariant of AdPositionNotAbove.
AdQueueInv == AdQueueTypes /\ AdGaugeExact /\ AdTicketsDense /\ AdTicketsGiven

\* What moving request r to step b does to the number of requests, among R, that
\* are at certain steps.
AdCounts(R, steps, r, b) ==
    /\ Cardinality(AdAt(R, steps)) \in Nat
    /\ r \in R /\ b \in steps /\ adPc[r] \notin steps =>
         Cardinality({q \in R : adPc'[q] \in steps}) = Cardinality(AdAt(R, steps)) + 1
    /\ r \in R /\ b \notin steps /\ adPc[r] \in steps =>
         /\ Cardinality({q \in R : adPc'[q] \in steps}) = Cardinality(AdAt(R, steps)) - 1
         /\ Cardinality({q \in R : adPc'[q] \in steps}) \in Nat
    /\ r \notin R \/ (b \in steps <=> adPc[r] \in steps) =>
         {q \in R : adPc'[q] \in steps} = AdAt(R, steps)

\* It counts one more, one less, or the same ones.
LEMMA AdMoves ==
    ASSUME AdQueueTypes, NEW r \in AdRequest, NEW b, adPc' = [adPc EXCEPT ![r] = b],
           NEW R, R \subseteq AdRequest, NEW steps
    PROVE  AdCounts(R, steps, r, b)
<1> DEFINE A == AdAt(R, steps)
           B == {q \in R : adPc'[q] \in steps}
<1>1. \A q \in AdRequest : adPc'[q] = IF q = r THEN b ELSE adPc[q]
  BY DEF AdQueueTypes
<1>2. IsFiniteSet(A)
  <2>1. A \in SUBSET AdRequest
    BY DEF AdAt
  <2> QED
    BY <2>1, AdAssumption, FS_Subset
<1>3. Cardinality(A) \in Nat
  BY <1>2, FS_CardinalityType
<1>4. ASSUME r \in R, b \in steps, adPc[r] \notin steps
      PROVE  Cardinality(B) = Cardinality(A) + 1
  <2>1. B = A \cup {r} /\ r \notin A
    BY <1>1, <1>4 DEF AdAt
  <2> QED
    BY <1>2, <2>1, FS_AddElement
<1>5. ASSUME r \in R, b \notin steps, adPc[r] \in steps
      PROVE  Cardinality(B) = Cardinality(A) - 1 /\ Cardinality(B) \in Nat
  <2>1. B = A \ {r} /\ r \in A
    BY <1>1, <1>5 DEF AdAt
  <2>2. IsFiniteSet(A \ {r}) /\ Cardinality(A \ {r}) = Cardinality(A) - 1
    BY <1>2, <2>1, FS_RemoveElement
  <2> QED
    BY <2>1, <2>2, FS_CardinalityType
<1>6. ASSUME r \notin R \/ (b \in steps <=> adPc[r] \in steps)
      PROVE  B = A
  BY <1>1, <1>6 DEF AdAt
<1> QED
  BY <1>3, <1>4, <1>5, <1>6 DEF AdCounts

\* The facts AdMoves gives about the four sets the gauge counts.
AdCountsAll(r, b) ==
    /\ AdCounts(AdRequest, AdQueued, r, b)
    /\ AdCounts(AdRequest, AdCompiling, r, b)
    /\ AdCounts(AdAccepted, AdPastQueue, r, b)
    /\ AdCounts(AdAccepted, AdQueued \cup AdPastQueue, r, b)
    /\ AdAt(AdRequest, AdQueued)' = {q \in AdRequest : adPc'[q] \in AdQueued}
    /\ AdAt(AdRequest, AdCompiling)' = {q \in AdRequest : adPc'[q] \in AdCompiling}
    /\ AdAt(AdAccepted, AdPastQueue)' = {q \in AdAccepted : adPc'[q] \in AdPastQueue}
    /\ AdAt(AdAccepted, AdQueued \cup AdPastQueue)' =
         {q \in AdAccepted : adPc'[q] \in AdQueued \cup AdPastQueue}
    /\ AdAccepted' = AdAccepted

\* They hold of every step of one handler.
LEMMA AdMovesAll ==
    ASSUME AdQueueTypes, NEW r \in AdRequest, NEW b, adPc' = [adPc EXCEPT ![r] = b],
           UNCHANGED adUnit
    PROVE  AdCountsAll(r, b)
<1>1. AdAccepted' = AdAccepted /\ AdAccepted \subseteq AdRequest
  BY DEF AdAccepted
<1>2. AdRequest \subseteq AdRequest
  OBVIOUS
<1>3. AdCounts(AdRequest, AdQueued, r, b) /\ AdCounts(AdRequest, AdCompiling, r, b)
  BY <1>2, AdMoves
<1>4. /\ AdCounts(AdAccepted, AdPastQueue, r, b)
      /\ AdCounts(AdAccepted, AdQueued \cup AdPastQueue, r, b)
  BY <1>1, AdMoves
<1>5. /\ AdAt(AdRequest, AdQueued)' = {q \in AdRequest : adPc'[q] \in AdQueued}
      /\ AdAt(AdRequest, AdCompiling)' = {q \in AdRequest : adPc'[q] \in AdCompiling}
  BY DEF AdAt, AdQueued, AdCompiling
<1>6. /\ AdAt(AdAccepted, AdPastQueue)' = {q \in AdAccepted : adPc'[q] \in AdPastQueue}
      /\ AdAt(AdAccepted, AdQueued \cup AdPastQueue)' =
           {q \in AdAccepted : adPc'[q] \in AdQueued \cup AdPastQueue}
  BY <1>1 DEF AdAt, AdQueued, AdCompiling, AdPastQueue
<1> QED
  BY <1>1, <1>3, <1>4, <1>5, <1>6 DEF AdCountsAll

\* The tickets stay as they are while nobody gets one.
LEMMA AdTicketsKept ==
    ASSUME AdTicketsDense, AdTicketsGiven, UNCHANGED adTicket,
           adGauge'.next_ticket = adGauge.next_ticket,
           AdAt(AdAccepted, AdQueued \cup AdPastQueue)' = AdAt(AdAccepted, AdQueued \cup AdPastQueue)
    PROVE  (AdTicketsDense /\ AdTicketsGiven)'
BY DEF AdTicketsDense, AdTicketsGiven

\* A step within the queue, within the compilation or past both is none to the
\* gauge.
LEMMA AdSilentStep ==
    ASSUME AdQueueInv, NEW r \in AdRequest, NEW b \in AdSteps, adPc' = [adPc EXCEPT ![r] = b],
           UNCHANGED <<adUnit, adGauge, adTicket>>,
           adPc[r] \in AdQueued <=> b \in AdQueued,
           adPc[r] \in AdCompiling <=> b \in AdCompiling,
           r \in AdAccepted => (adPc[r] \in AdPastQueue <=> b \in AdPastQueue),
           r \notin AdAccepted => b \in {"idle", "done"}
    PROVE  AdQueueInv'
<1>1. AdQueueTypes /\ AdCountsAll(r, b)
  BY AdMovesAll DEF AdQueueInv
<1>2. AdAt(AdRequest, AdQueued)' = AdAt(AdRequest, AdQueued)
  BY <1>1 DEF AdCounts, AdCountsAll
<1>3. AdAt(AdRequest, AdCompiling)' = AdAt(AdRequest, AdCompiling)
  BY <1>1 DEF AdCounts, AdCountsAll
<1>4. AdAt(AdAccepted, AdPastQueue)' = AdAt(AdAccepted, AdPastQueue)
  BY <1>1 DEF AdCounts, AdCountsAll
<1>5. AdAt(AdAccepted, AdQueued \cup AdPastQueue)' = AdAt(AdAccepted, AdQueued \cup AdPastQueue)
  BY <1>1 DEF AdCounts, AdCountsAll
<1>6. AdGaugeExact'
  BY <1>2, <1>3, <1>4, <1>5 DEF AdGaugeExact, AdQueueInv
<1>7. (AdTicketsDense /\ AdTicketsGiven)'
  BY <1>5, AdTicketsKept DEF AdQueueInv
<1>8. AdQueueTypes'
  BY <1>1 DEF AdQueueTypes, AdCountsAll
<1> QED
  BY <1>6, <1>7, <1>8 DEF AdQueueInv

\* Getting a ticket counts one request and gives it the next number.
LEMMA AdEnqueueStep ==
    ASSUME AdQueueInv, NEW r \in AdRequest, AdEnqueue(r)
    PROVE  AdQueueInv'
<1> DEFINE T == AdQueued \cup AdPastQueue
<1>1. /\ adPc[r] = "admission" /\ adPc' = [adPc EXCEPT ![r] = "ticketed"]
      /\ adTicket' = [adTicket EXCEPT ![r] = adGauge.next_ticket]
      /\ adGauge' = [adGauge EXCEPT !.next_ticket = @ + 1, !.waiting = @ + 1]
      /\ UNCHANGED adUnit
  BY DEF AdEnqueue
<1>2. AdQueueTypes /\ AdGaugeExact /\ AdTicketsDense /\ AdTicketsGiven
  BY DEF AdQueueInv
<1>3. r \in AdAccepted
  BY <1>1, <1>2 DEF AdQueueTypes
<1>4. AdCountsAll(r, "ticketed") /\ AdAccepted' = AdAccepted /\ AdAccepted \subseteq AdRequest
  BY <1>1, <1>2, AdMovesAll DEF AdCountsAll, AdAccepted
<1>5. Cardinality(AdAt(AdRequest, AdQueued)') = Cardinality(AdAt(AdRequest, AdQueued)) + 1
  BY <1>1, <1>4 DEF AdCountsAll, AdCounts, AdQueued
<1>6. AdAt(AdRequest, AdCompiling)' = AdAt(AdRequest, AdCompiling)
  BY <1>1, <1>4 DEF AdCountsAll, AdCounts, AdCompiling
<1>7. AdAt(AdAccepted, AdPastQueue)' = AdAt(AdAccepted, AdPastQueue)
  BY <1>1, <1>4 DEF AdCountsAll, AdCounts, AdPastQueue, AdCompiling
<1>8. Cardinality(AdAt(AdAccepted, T)') = Cardinality(AdAt(AdAccepted, T)) + 1
  <2>1. "ticketed" \in T /\ "admission" \notin T
    BY DEF AdQueued, AdPastQueue, AdCompiling
  <2> QED
    BY <1>1, <1>3, <1>4, <2>1 DEF AdCountsAll, AdCounts
<1>9. /\ adGauge'.waiting = adGauge.waiting + 1 /\ adGauge'.in_flight = adGauge.in_flight
      /\ adGauge'.admitted = adGauge.admitted
      /\ adGauge'.next_ticket = adGauge.next_ticket + 1 /\ adGauge.next_ticket \in Nat
  BY <1>1, <1>2 DEF AdQueueTypes
<1>10. AdGaugeExact'
  BY <1>2, <1>5, <1>6, <1>7, <1>8, <1>9 DEF AdGaugeExact
<1>11. AdQueueTypes'
  <2>1. /\ adPc' \in [AdRequest -> AdSteps] /\ adTicket' \in [AdRequest -> Nat]
        /\ \A q \in AdRequest \ AdAccepted' : adPc'[q] \in {"idle", "done"}
    BY <1>1, <1>2, <1>3, <1>4, <1>9 DEF AdQueueTypes, AdSteps
  <2>2. adGauge' \in [waiting : Nat, in_flight : Nat, next_ticket : Nat, admitted : Nat]
    <3>1. adGauge' = [waiting |-> adGauge.waiting + 1, in_flight |-> adGauge.in_flight,
                      next_ticket |-> adGauge.next_ticket + 1, admitted |-> adGauge.admitted]
      BY <1>1, <1>2 DEF AdQueueTypes
    <3> QED
      BY <1>2, <3>1 DEF AdQueueTypes
  <2> QED
    BY <2>1, <2>2 DEF AdQueueTypes
<1>12. /\ AdAt(AdAccepted, T)' = AdAt(AdAccepted, T) \cup {r}
       /\ r \notin AdAt(AdAccepted, T)
       /\ \A q \in AdAt(AdAccepted, T) : adTicket'[q] = adTicket[q]
       /\ adTicket'[r] = adGauge.next_ticket
  BY <1>1, <1>2, <1>3, <1>4 DEF AdAt, AdQueueTypes, AdQueued, AdPastQueue, AdCompiling
<1> HIDE DEF T
<1>13. AdTicketsDense'
  <2> SUFFICES ASSUME NEW t \in Nat, t < adGauge'.next_ticket
      PROVE  \E q \in AdAt(AdAccepted, T)' : adTicket'[q] = t
    BY DEF AdTicketsDense, T
  <2>1. CASE t = adGauge.next_ticket
    BY <1>12, <2>1
  <2>2. CASE t < adGauge.next_ticket
    BY <1>2, <1>12, <2>2 DEF AdTicketsDense, T
  <2> QED
    BY <1>9, <2>1, <2>2
<1>14. AdTicketsGiven'
  <2> SUFFICES ASSUME NEW q \in AdAt(AdAccepted, T)'
      PROVE  adTicket'[q] < adGauge'.next_ticket
    BY DEF AdTicketsGiven, T
  <2>1. CASE q = r
    BY <1>9, <1>12, <2>1
  <2>2. CASE q \in AdAt(AdAccepted, T)
    <3>1. adTicket[q] < adGauge.next_ticket /\ adTicket[q] \in Nat
      BY <1>2, <1>4, <2>2 DEF AdTicketsGiven, AdQueueTypes, AdAt, T
    <3> QED
      BY <1>9, <1>12, <2>2, <3>1
  <2> QED
    BY <1>12, <2>1, <2>2
<1> QED
  BY <1>10, <1>11, <1>13, <1>14 DEF AdQueueInv

\* Leaving the queue, into the compilation or as a waiter that gives up, takes one
\* from the waiting and advances the cursor.
LEMMA AdLeaveQueueStep ==
    ASSUME AdQueueInv, NEW r \in AdRequest, NEW b \in {"gatewait", "done"},
           adPc[r] \in AdQueued, adPc' = [adPc EXCEPT ![r] = b], UNCHANGED <<adUnit, adTicket>>,
           adGauge' = [waiting |-> adGauge.waiting - 1,
                       in_flight |-> IF b = "gatewait" THEN adGauge.in_flight + 1
                                                       ELSE adGauge.in_flight,
                       next_ticket |-> adGauge.next_ticket, admitted |-> adGauge.admitted + 1]
    PROVE  AdQueueInv'
<1>1. AdQueueTypes /\ AdCountsAll(r, b) /\ AdGaugeExact
  BY AdMovesAll DEF AdQueueInv
<1>2. r \in AdAccepted
  BY <1>1 DEF AdQueueTypes, AdQueued
<1>3. /\ Cardinality(AdAt(AdRequest, AdQueued)') = Cardinality(AdAt(AdRequest, AdQueued)) - 1
      /\ Cardinality(AdAt(AdRequest, AdQueued)') \in Nat
  <2>1. b \notin AdQueued
    BY DEF AdQueued
  <2> QED
    BY <1>1, <2>1 DEF AdCountsAll, AdCounts
<1>4. /\ Cardinality(AdAt(AdRequest, AdCompiling)') =
           IF b = "gatewait" THEN Cardinality(AdAt(AdRequest, AdCompiling)) + 1
                             ELSE Cardinality(AdAt(AdRequest, AdCompiling))
      /\ Cardinality(AdAt(AdRequest, AdCompiling)) \in Nat
  <2>1. adPc[r] \notin AdCompiling /\ (b \in AdCompiling <=> b = "gatewait")
    BY DEF AdQueued, AdCompiling
  <2> QED
    BY <1>1, <2>1 DEF AdCountsAll, AdCounts
<1>5. /\ Cardinality(AdAt(AdAccepted, AdPastQueue)') = Cardinality(AdAt(AdAccepted, AdPastQueue)) + 1
      /\ Cardinality(AdAt(AdAccepted, AdPastQueue)) \in Nat
  <2>1. b \in AdPastQueue /\ adPc[r] \notin AdPastQueue
    BY DEF AdQueued, AdPastQueue, AdCompiling
  <2> QED
    BY <1>1, <1>2, <2>1 DEF AdCountsAll, AdCounts
<1>6. AdAt(AdAccepted, AdQueued \cup AdPastQueue)' = AdAt(AdAccepted, AdQueued \cup AdPastQueue)
  <2>1. b \in AdQueued \cup AdPastQueue /\ adPc[r] \in AdQueued \cup AdPastQueue
    BY DEF AdPastQueue, AdCompiling
  <2> QED
    BY <1>1, <2>1 DEF AdCountsAll, AdCounts
<1>7. AdGaugeExact'
  BY <1>1, <1>3, <1>4, <1>5, <1>6 DEF AdGaugeExact
<1>8. (AdTicketsDense /\ AdTicketsGiven)'
  BY <1>6, AdTicketsKept DEF AdQueueInv
<1>9. AdQueueTypes'
  <2>1. adGauge' \in [waiting : Nat, in_flight : Nat, next_ticket : Nat, admitted : Nat]
    BY <1>1, <1>3 DEF AdQueueTypes, AdGaugeExact
  <2>2. adPc' \in [AdRequest -> AdSteps] /\ AdAccepted' = AdAccepted
    BY <1>1 DEF AdQueueTypes, AdSteps, AdCountsAll
  <2> QED
    BY <1>1, <1>2, <2>1, <2>2 DEF AdQueueTypes
<1> QED
  BY <1>7, <1>8, <1>9 DEF AdQueueInv

\* Leaving the compilation takes one from those in flight.
LEMMA AdLeaveFlightStep ==
    ASSUME AdQueueInv, NEW r \in AdRequest, NEW b \in {"posting", "done"},
           adPc[r] \in AdCompiling, adPc' = [adPc EXCEPT ![r] = b], UNCHANGED <<adUnit, adTicket>>,
           adGauge' = [waiting |-> adGauge.waiting, in_flight |-> adGauge.in_flight - 1,
                       next_ticket |-> adGauge.next_ticket, admitted |-> adGauge.admitted]
    PROVE  AdQueueInv'
<1>1. AdQueueTypes /\ AdCountsAll(r, b) /\ AdGaugeExact
  BY AdMovesAll DEF AdQueueInv
<1>2. r \in AdAccepted
  BY <1>1 DEF AdQueueTypes, AdCompiling
<1>3. /\ b \notin AdQueued /\ adPc[r] \notin AdQueued /\ b \notin AdCompiling
      /\ b \in AdPastQueue /\ adPc[r] \in AdPastQueue
  BY DEF AdQueued, AdPastQueue, AdCompiling
<1>4. AdAt(AdRequest, AdQueued)' = AdAt(AdRequest, AdQueued)
  BY <1>1, <1>3 DEF AdCountsAll, AdCounts
<1>5. /\ Cardinality(AdAt(AdRequest, AdCompiling)') = Cardinality(AdAt(AdRequest, AdCompiling)) - 1
      /\ Cardinality(AdAt(AdRequest, AdCompiling)') \in Nat
  BY <1>1, <1>3 DEF AdCountsAll, AdCounts
<1>6. AdAt(AdAccepted, AdPastQueue)' = AdAt(AdAccepted, AdPastQueue)
  BY <1>1, <1>3 DEF AdCountsAll, AdCounts
<1>7. AdAt(AdAccepted, AdQueued \cup AdPastQueue)' = AdAt(AdAccepted, AdQueued \cup AdPastQueue)
  BY <1>1, <1>3 DEF AdCountsAll, AdCounts
<1>8. AdGaugeExact'
  BY <1>1, <1>4, <1>5, <1>6, <1>7 DEF AdGaugeExact
<1>9. (AdTicketsDense /\ AdTicketsGiven)'
  BY <1>7, AdTicketsKept DEF AdQueueInv
<1>10. AdQueueTypes'
  <2>1. adGauge' \in [waiting : Nat, in_flight : Nat, next_ticket : Nat, admitted : Nat]
    BY <1>1, <1>5 DEF AdQueueTypes, AdGaugeExact
  <2>2. adPc' \in [AdRequest -> AdSteps] /\ AdAccepted' = AdAccepted
    BY <1>1 DEF AdQueueTypes, AdSteps, AdCountsAll
  <2> QED
    BY <1>1, <1>2, <2>1, <2>2 DEF AdQueueTypes
<1> QED
  BY <1>8, <1>9, <1>10 DEF AdQueueInv

\* Every step keeps the invariant of the queue.
LEMMA AdQueueStep == AdQueueInv /\ [AdNext]_adVars => AdQueueInv'
<1> SUFFICES ASSUME AdQueueInv, [AdNext]_adVars PROVE AdQueueInv'
  OBVIOUS
<1>1. adGauge \in [waiting : Nat, in_flight : Nat, next_ticket : Nat, admitted : Nat]
      /\ adPc \in [AdRequest -> AdSteps]
  BY DEF AdQueueInv, AdQueueTypes
<1>2. ASSUME NEW r \in AdRequest, AdHostAdmission(r)
      PROVE  AdQueueInv'
  <2> DEFINE b == IF adUnit[r].host = "error" THEN "done" ELSE "admission"
  <2>1. /\ adPc[r] = "idle" /\ adPc' = [adPc EXCEPT ![r] = b]
        /\ UNCHANGED <<adUnit, adGauge, adTicket>>
    BY <1>2 DEF AdHostAdmission
  <2>2. /\ b \in AdSteps /\ b \notin AdQueued /\ b \notin AdCompiling
        /\ r \in AdAccepted => b \notin AdPastQueue
        /\ r \notin AdAccepted => b \in {"idle", "done"}
    BY DEF AdSteps, AdQueued, AdCompiling, AdPastQueue, AdAccepted
  <2>3. "idle" \notin AdQueued /\ "idle" \notin AdPastQueue /\ "idle" \notin AdCompiling
    BY DEF AdQueued, AdCompiling, AdPastQueue
  <2> HIDE DEF b
  <2> QED
    BY <2>1, <2>2, <2>3, AdSilentStep
<1>3. ASSUME NEW r \in AdRequest, AdEnqueue(r)
      PROVE  AdQueueInv'
  BY <1>3, AdEnqueueStep
<1>4. ASSUME NEW r \in AdRequest, AdJoinSlots(r) \/ AdTakeSlot(r)
      PROVE  AdQueueInv'
  <2>1. PICK b \in {"slotwait", "granted"} : adPc' = [adPc EXCEPT ![r] = b]
    BY <1>4 DEF AdJoinSlots, AdTakeSlot
  <2>2. adPc[r] \in AdQueued /\ UNCHANGED <<adUnit, adGauge, adTicket>>
    BY <1>4 DEF AdJoinSlots, AdTakeSlot, AdQueued
  <2>3. /\ b \in AdSteps /\ b \in AdQueued /\ b \notin AdCompiling /\ b \notin AdPastQueue
        /\ adPc[r] \notin AdCompiling /\ adPc[r] \notin AdPastQueue
    BY <2>1, <2>2 DEF AdSteps, AdQueued, AdCompiling, AdPastQueue
  <2>4. r \in AdAccepted
    BY <2>2 DEF AdQueueInv, AdQueueTypes, AdQueued
  <2> QED
    BY <2>1, <2>2, <2>3, <2>4, AdSilentStep
<1>5. ASSUME NEW r \in AdRequest, AdAdmit(r)
      PROVE  AdQueueInv'
  <2>1. /\ adPc[r] = "granted" /\ adPc' = [adPc EXCEPT ![r] = "gatewait"]
        /\ adGauge' = [adGauge EXCEPT !.admitted = @ + 1, !.waiting = @ - 1, !.in_flight = @ + 1]
        /\ UNCHANGED <<adUnit, adTicket>>
    BY <1>5 DEF AdAdmit
  <2>2. adGauge' = [waiting |-> adGauge.waiting - 1, in_flight |-> adGauge.in_flight + 1,
                    next_ticket |-> adGauge.next_ticket, admitted |-> adGauge.admitted + 1]
    BY <1>1, <2>1
  <2>3. adPc[r] \in AdQueued
    BY <2>1 DEF AdQueued
  <2> QED
    BY <2>1, <2>2, <2>3, AdLeaveQueueStep
<1>6. ASSUME NEW r \in AdRequest, AdTakeGate(r) \/ AdReleaseSlot(r)
      PROVE  AdQueueInv'
  <2>1. PICK b \in {"running", "released"} : adPc' = [adPc EXCEPT ![r] = b]
    BY <1>6 DEF AdTakeGate, AdReleaseSlot
  <2>2. adPc[r] \in AdCompiling /\ UNCHANGED <<adUnit, adGauge, adTicket>>
    BY <1>6 DEF AdTakeGate, AdReleaseSlot, AdCompiling
  <2>3. /\ b \in AdSteps /\ b \notin AdQueued /\ b \in AdCompiling /\ b \in AdPastQueue
        /\ adPc[r] \notin AdQueued /\ adPc[r] \in AdPastQueue
    BY <2>1, <2>2 DEF AdSteps, AdQueued, AdCompiling, AdPastQueue
  <2>4. r \in AdAccepted
    BY <2>2 DEF AdQueueInv, AdQueueTypes, AdCompiling
  <2> QED
    BY <2>1, <2>2, <2>3, <2>4, AdSilentStep
<1>7. ASSUME NEW r \in AdRequest, AdLeaveGauge(r)
      PROVE  AdQueueInv'
  <2>1. /\ adPc[r] = "released" /\ adPc' = [adPc EXCEPT ![r] = "posting"]
        /\ adGauge' = [adGauge EXCEPT !.in_flight = @ - 1]
        /\ UNCHANGED <<adUnit, adTicket>>
    BY <1>7 DEF AdLeaveGauge
  <2>2. adGauge' = [waiting |-> adGauge.waiting, in_flight |-> adGauge.in_flight - 1,
                    next_ticket |-> adGauge.next_ticket, admitted |-> adGauge.admitted]
    BY <1>1, <2>1
  <2>3. adPc[r] \in AdCompiling
    BY <2>1 DEF AdCompiling
  <2> QED
    BY <2>1, <2>2, <2>3, AdLeaveFlightStep
<1>8. ASSUME NEW r \in AdRequest, adPc[r] = "posting", adPc' = [adPc EXCEPT ![r] = "done"],
             UNCHANGED <<adUnit, adGauge, adTicket>>
      PROVE  AdQueueInv'
  <2>1. /\ "done" \in AdSteps /\ "done" \notin AdQueued /\ "done" \notin AdCompiling
        /\ "done" \in AdPastQueue
        /\ adPc[r] \notin AdQueued /\ adPc[r] \notin AdCompiling /\ adPc[r] \in AdPastQueue
    BY <1>8 DEF AdSteps, AdQueued, AdCompiling, AdPastQueue
  <2> QED
    BY <1>8, <2>1, AdSilentStep
<1>9. ASSUME NEW r \in AdRequest, AdCancel(r)
      PROVE  AdQueueInv'
  <2>1. /\ adPc[r] \in {"slotwait", "gatewait", "running", "posting"} /\ AdDropGauge(r)
        /\ adPc' = [adPc EXCEPT ![r] = "done"] /\ UNCHANGED <<adUnit, adTicket>>
    BY <1>9 DEF AdCancel
  <2>2. CASE adPc[r] = "slotwait"
    <3>1. adGauge' = [waiting |-> adGauge.waiting - 1, in_flight |-> adGauge.in_flight,
                      next_ticket |-> adGauge.next_ticket, admitted |-> adGauge.admitted + 1]
      BY <1>1, <2>1, <2>2 DEF AdDropGauge
    <3>2. adPc[r] \in AdQueued
      BY <2>2 DEF AdQueued
    <3> QED
      BY <2>1, <3>1, <3>2, AdLeaveQueueStep
  <2>3. CASE adPc[r] = "posting"
    BY <1>8, <2>1, <2>3 DEF AdDropGauge
  <2>4. CASE adPc[r] \in {"gatewait", "running"}
    <3>1. adGauge' = [waiting |-> adGauge.waiting, in_flight |-> adGauge.in_flight - 1,
                      next_ticket |-> adGauge.next_ticket, admitted |-> adGauge.admitted]
      BY <1>1, <2>1, <2>4 DEF AdDropGauge
    <3>2. adPc[r] \in AdCompiling
      BY <2>4 DEF AdCompiling
    <3> QED
      BY <2>1, <3>1, <3>2, AdLeaveFlightStep
  <2> QED
    BY <2>1, <2>2, <2>3, <2>4
<1>10. CASE UNCHANGED adVars
  BY <1>10 DEF adVars, AdQueueInv, AdQueueTypes, AdGaugeExact, AdTicketsDense, AdTicketsGiven,
               AdAt, AdAccepted
<1>11. ASSUME NEW r \in AdRequest, AdFinish(r)
       PROVE  AdQueueInv'
  BY <1>8, <1>11 DEF AdFinish
<1> QED
  BY <1>2, <1>3, <1>4, <1>5, <1>6, <1>7, <1>9, <1>10, <1>11 DEF AdNext, AdProgress

\* At the start nobody is counted.
LEMMA AdQueueInit == AdInit => AdQueueInv
<1> SUFFICES ASSUME AdInit PROVE AdQueueInv
  OBVIOUS
<1>1. /\ adPc = [r \in AdRequest |-> "idle"] /\ adTicket = [r \in AdRequest |-> 0]
      /\ adGauge = [waiting |-> 0, in_flight |-> 0, next_ticket |-> 0, admitted |-> 0]
  BY DEF AdInit
<1>2. AdQueueTypes
  BY <1>1 DEF AdQueueTypes, AdSteps
<1>3. /\ AdAt(AdRequest, AdQueued) = {} /\ AdAt(AdRequest, AdCompiling) = {}
      /\ AdAt(AdAccepted, AdPastQueue) = {} /\ AdAt(AdAccepted, AdQueued \cup AdPastQueue) = {}
  BY <1>1 DEF AdAt, AdAccepted, AdQueued, AdPastQueue, AdCompiling
<1>4. AdGaugeExact
  BY <1>1, <1>3, FS_EmptySet DEF AdGaugeExact
<1>5. AdTicketsDense /\ AdTicketsGiven
  BY <1>1, <1>3 DEF AdTicketsDense, AdTicketsGiven
<1> QED
  BY <1>2, <1>4, <1>5 DEF AdQueueInv

\* enqueue, admit, the drop of a guard and the early release of the slot keep the
\* books together: for any requests, hosts and cancellations each counter is the
\* number of requests in its phase, so none of the atomics is ever taken below
\* zero.
THEOREM AdGaugeExactHolds == AdSpec => []AdGaugeExact
<1>1. AdQueueInv => AdGaugeExact
  BY DEF AdQueueInv
<1> QED
  BY <1>1, AdQueueInit, AdQueueStep, PTL DEF AdSpec

\* The requests with a ticket below r's are at least as many as the ticket says.
LEMMA AdTicketCounts ==
    ASSUME AdQueueInv, NEW r \in AdRequest, adPc[r] = "slotwait"
    PROVE  LET E == {s \in AdAt(AdAccepted, AdQueued \cup AdPastQueue) : adTicket[s] < adTicket[r]}
           IN  IsFiniteSet(E) /\ adTicket[r] <= Cardinality(E)
<1> DEFINE T == AdAt(AdAccepted, AdQueued \cup AdPastQueue)
           t == adTicket[r]
           E == {s \in T : adTicket[s] < t}
           f == [s \in E |-> adTicket[s]]
<1>1. /\ adTicket \in [AdRequest -> Nat] /\ adGauge.next_ticket \in Nat /\ t \in Nat
  BY DEF AdQueueInv, AdQueueTypes
<1>2. r \in T
  BY DEF AdQueueInv, AdQueueTypes, AdAt, AdQueued
<1>3. t < adGauge.next_ticket
  BY <1>2 DEF AdQueueInv, AdTicketsGiven
<1>4. IsFiniteSet(E)
  <2>1. E \in SUBSET AdRequest
    BY DEF AdAt, AdAccepted
  <2> QED
    BY <2>1, AdAssumption, FS_Subset
<1>5. CASE t = 0
  <2>1. Cardinality(E) \in Nat
    BY <1>4, FS_CardinalityType
  <2> QED
    BY <1>4, <1>5, <2>1
<1>6. CASE t > 0
  <2>1. \A n \in 0 .. t - 1 : \E s \in E : adTicket[s] = n
    <3> SUFFICES ASSUME NEW n \in 0 .. t - 1 PROVE \E s \in E : adTicket[s] = n
      OBVIOUS
    <3>1. n \in Nat /\ n < adGauge.next_ticket /\ n < t
      BY <1>1, <1>3
    <3>2. PICK s \in T : adTicket[s] = n
      BY <3>1 DEF AdQueueInv, AdTicketsDense
    <3> QED
      BY <3>1, <3>2
  <2>2. f \in [E -> 0 .. t - 1]
    BY <1>1 DEF AdAt, AdAccepted
  <2>3. f \in Surjection(E, 0 .. t - 1)
    BY <2>1, <2>2 DEF Surjection
  <2>4. Cardinality(0 .. t - 1) <= Cardinality(E)
    BY <1>4, <2>3, FS_Surjection
  <2>5. Cardinality(0 .. t - 1) = t
    BY <1>1, <1>6, FS_Interval
  <2> QED
    BY <1>4, <2>4, <2>5
<1> QED
  BY <1>1, <1>5, <1>6

\* A heartbeat's queue position is never above the requests that are really ahead,
\* for any requests, hosts and cancellations: those with an earlier ticket are
\* ahead or have left the queue, and the cursor has counted each that left.
THEOREM AdPositionNotAboveHolds == AdSpec => []AdPositionNotAbove
<1>1. AdQueueInv => AdPositionNotAbove
  <2> SUFFICES ASSUME AdQueueInv, NEW r \in AdRequest, adPc[r] = "slotwait"
      PROVE  AdPosition(r) <= Cardinality(AdAhead(r))
    BY DEF AdPositionNotAbove
  <2> DEFINE E == {s \in AdAt(AdAccepted, AdQueued \cup AdPastQueue) : adTicket[s] < adTicket[r]}
             P == AdAt(AdAccepted, AdPastQueue)
             H == AdAhead(r)
  <2>1. IsFiniteSet(E) /\ adTicket[r] <= Cardinality(E)
    BY AdTicketCounts
  <2>2. E \subseteq H \cup P
    BY DEF AdAhead, AdAt, AdAccepted, AdQueued
  <2>3. IsFiniteSet(H) /\ IsFiniteSet(P)
    <3>1. H \in SUBSET AdRequest /\ P \in SUBSET AdRequest
      BY DEF AdAhead, AdAt, AdAccepted
    <3> QED
      BY <3>1, AdAssumption, FS_Subset
  <2>4. /\ IsFiniteSet(H \cup P) /\ IsFiniteSet(H \cap P)
        /\ Cardinality(H \cup P) = Cardinality(H) + Cardinality(P) - Cardinality(H \cap P)
    BY <2>3, FS_Union, FS_Intersection
  <2>5. Cardinality(E) <= Cardinality(H \cup P)
    BY <2>2, <2>4, FS_Subset
  <2>6. /\ Cardinality(H) \in Nat /\ Cardinality(P) \in Nat /\ Cardinality(E) \in Nat
        /\ Cardinality(H \cap P) \in Nat
    BY <2>1, <2>3, <2>4, FS_CardinalityType
  <2>7. adGauge.admitted = Cardinality(P) /\ adTicket[r] \in Nat
    BY DEF AdQueueInv, AdGaugeExact, AdQueueTypes
  <2> HIDE DEF E, P, H
  <2>8. adTicket[r] <= Cardinality(H) + Cardinality(P)
    BY <2>1, <2>4, <2>5, <2>6, <2>7
  <2>9. AdPosition(r) <= Cardinality(H)
    BY <2>6, <2>7, <2>8 DEF AdPosition
  <2> QED
    BY <2>9 DEF H
<1> QED
  BY <1>1, AdQueueInit, AdQueueStep, PTL DEF AdSpec

-----------------------------------------------------------------------------
(* Admission: the types *)

AdIn(queue, r) == \E i \in 1 .. Len(queue) : queue[i] = r

\* The sets, and the queues with everybody who waits in them.
AdQueuesOK ==
    /\ adCap \in Nat /\ adUnit \in [AdRequest -> AdUnit] /\ adPc \in [AdRequest -> AdSteps]
    /\ adSlots \subseteq AdRequest /\ adGate \subseteq AdRequest
    /\ adSlotQueue \in Seq(AdRequest) /\ adGateQueue \in Seq(AdRequest)
    /\ \A r \in AdRequest : adPc[r] = "slotwait" => AdIn(adSlotQueue, r)
    /\ \A r \in AdRequest : adPc[r] = "gatewait" => AdIn(adGateQueue, r)

\* Queues of a lock: somebody joins at the end, the first is served, one gives up.
LEMMA AdJoins ==
    ASSUME NEW q \in Seq(AdRequest), NEW r \in AdRequest
    PROVE  /\ Append(q, r) \in Seq(AdRequest) /\ AdIn(Append(q, r), r)
           /\ \A s \in AdRequest : AdIn(q, s) => AdIn(Append(q, r), s)
<1>1. /\ Append(q, r) \in Seq(AdRequest) /\ Len(Append(q, r)) = Len(q) + 1
      /\ Append(q, r)[Len(q) + 1] = r /\ Len(q) \in Nat
      /\ \A i \in 1 .. Len(q) : Append(q, r)[i] = q[i]
  OBVIOUS
<1>2. /\ Len(q) + 1 \in 1 .. Len(Append(q, r))
      /\ \A i \in 1 .. Len(q) : i \in 1 .. Len(Append(q, r))
  BY <1>1
<1> QED BY <1>1, <1>2 DEF AdIn

\* Serving the head of a queue loses no other waiter.
LEMMA AdServes ==
    ASSUME NEW q \in Seq(AdRequest), NEW r \in AdRequest, AdIn(q, r), Head(q) = r
    PROVE  /\ Tail(q) \in Seq(AdRequest)
           /\ \A s \in AdRequest \ {r} : AdIn(q, s) => AdIn(Tail(q), s)
<1>1. q # <<>> /\ Len(q) \in Nat /\ Len(q) > 0
  BY DEF AdIn
<1>2. /\ Tail(q) \in Seq(AdRequest) /\ Len(Tail(q)) = Len(q) - 1 /\ q[1] = r
      /\ \A i \in 1 .. Len(q) - 1 : Tail(q)[i] = q[i + 1]
  BY <1>1
<1>3. ASSUME NEW s \in AdRequest \ {r}, AdIn(q, s) PROVE AdIn(Tail(q), s)
  <2>1. PICK i \in 1 .. Len(q) : q[i] = s
    BY <1>3 DEF AdIn
  <2>2. i - 1 \in 1 .. Len(q) - 1 /\ (i - 1) + 1 = i
    BY <1>1, <1>2, <1>3, <2>1
  <2>3. Tail(q)[i - 1] = s
    BY <1>2, <2>1, <2>2
  <2> QED BY <1>2, <2>2, <2>3 DEF AdIn
<1> QED BY <1>2, <1>3

\* A waiter that gives up takes no other out of the queue.
LEMMA AdGivesUp ==
    ASSUME NEW q \in Seq(AdRequest), NEW r \in AdRequest
    PROVE  /\ AdGiveUp(q, r) \in Seq(AdRequest)
           /\ \A s \in AdRequest \ {r} : AdIn(q, s) => AdIn(AdGiveUp(q, r), s)
<1>1. CASE ~AdIn(q, r)
  BY <1>1 DEF AdGiveUp, AdIn
<1>2. CASE AdIn(q, r)
  <2>1. PICK n : n = CHOOSE i \in 1 .. Len(q) : q[i] = r
    OBVIOUS
  <2>2. n \in 1 .. Len(q) /\ q[n] = r /\ Len(q) \in Nat
    BY <1>2, <2>1 DEF AdIn
  <2> DEFINE a == SubSeq(q, 1, n - 1)
             z == SubSeq(q, n + 1, Len(q))
             g == a \o z
  <2>3. AdGiveUp(q, r) = g
    BY <1>2, <2>1 DEF AdGiveUp, AdIn, RemoveAt
  <2>4. /\ a \in Seq(AdRequest) /\ Len(a) = n - 1
        /\ \A i \in 1 .. n - 1 : a[i] = q[i]
    BY <2>2
  <2>5. /\ z \in Seq(AdRequest) /\ Len(z) = Len(q) - n
        /\ \A i \in 1 .. Len(q) - n : z[i] = q[n + i]
    BY <2>2
  <2> HIDE DEF a, z
  <2>6. /\ g \in Seq(AdRequest) /\ Len(g) = Len(a) + Len(z)
        /\ \A i \in 1 .. Len(a) + Len(z) : g[i] = IF i <= Len(a) THEN a[i] ELSE z[i - Len(a)]
    <3>1. g \in Seq(AdRequest)
      BY <2>4, <2>5
    <3>2. Len(g) = Len(a) + Len(z)
      BY <2>4, <2>5
    <3>3. \A i \in 1 .. Len(a) + Len(z) : g[i] = IF i <= Len(a) THEN a[i] ELSE z[i - Len(a)]
      BY <2>4, <2>5
    <3> QED BY <3>1, <3>2, <3>3
  <2> HIDE DEF g
  <2>7. ASSUME NEW s \in AdRequest \ {r}, AdIn(q, s) PROVE AdIn(g, s)
    <3>1. PICK i \in 1 .. Len(q) : q[i] = s
      BY <2>7 DEF AdIn
    <3>2. CASE i < n
      <4>1. i \in 1 .. n - 1 /\ i \in 1 .. Len(a) + Len(z) /\ i <= Len(a)
        BY <2>2, <2>4, <2>5, <3>1, <3>2
      <4> QED BY <2>4, <2>6, <3>1, <4>1 DEF AdIn
    <3>3. CASE i > n
      <4>1. /\ i - 1 \in 1 .. Len(a) + Len(z) /\ ~(i - 1 <= Len(a))
            /\ i - 1 - Len(a) = i - n /\ i - n \in 1 .. Len(q) - n /\ n + (i - n) = i
        BY <2>2, <2>4, <2>5, <3>1, <3>3
      <4>2. g[i - 1] = z[i - n]
        BY <2>6, <4>1
      <4>3. g[i - 1] = s
        BY <2>5, <3>1, <4>1, <4>2
      <4> QED BY <2>6, <4>1, <4>3 DEF AdIn
    <3> QED BY <2>2, <2>7, <3>1, <3>2, <3>3
  <2> QED BY <2>3, <2>6, <2>7
<1> QED BY <1>1, <1>2

\* Every step keeps the queues and who waits in them.
LEMMA AdQueuesStep == AdQueuesOK /\ [AdNext]_adVars => AdQueuesOK'
<1> SUFFICES ASSUME AdQueuesOK, [AdNext]_adVars PROVE AdQueuesOK'
  OBVIOUS
<1>1. ASSUME NEW r \in AdRequest, NEW b \in AdSteps, adPc' = [adPc EXCEPT ![r] = b],
             UNCHANGED <<adCap, adUnit>>,
             adSlots' \subseteq AdRequest, adGate' \subseteq AdRequest,
             adSlotQueue' \in Seq(AdRequest), adGateQueue' \in Seq(AdRequest),
             b = "slotwait" => AdIn(adSlotQueue', r),
             b = "gatewait" => AdIn(adGateQueue', r),
             \A s \in AdRequest \ {r} : AdIn(adSlotQueue, s) => AdIn(adSlotQueue', s),
             \A s \in AdRequest \ {r} : AdIn(adGateQueue, s) => AdIn(adGateQueue', s)
      PROVE  AdQueuesOK'
  <2>1. /\ adPc' \in [AdRequest -> AdSteps]
        /\ \A s \in AdRequest : adPc'[s] = IF s = r THEN b ELSE adPc[s]
    BY <1>1 DEF AdQueuesOK
  <2>2. \A s \in AdRequest : adPc'[s] = "slotwait" => AdIn(adSlotQueue', s)
    BY <1>1, <2>1 DEF AdQueuesOK
  <2>3. \A s \in AdRequest : adPc'[s] = "gatewait" => AdIn(adGateQueue', s)
    BY <1>1, <2>1 DEF AdQueuesOK
  <2> QED BY <1>1, <2>1, <2>2, <2>3 DEF AdQueuesOK, AdIn
<1> USE DEF AdSteps
<1>2. /\ adSlots \subseteq AdRequest /\ adGate \subseteq AdRequest
      /\ adSlotQueue \in Seq(AdRequest) /\ adGateQueue \in Seq(AdRequest)
  BY DEF AdQueuesOK
<1>3. ASSUME NEW r \in AdRequest, AdHostAdmission(r) \/ AdEnqueue(r) PROVE AdQueuesOK'
  <2>1. PICK b \in {"done", "admission", "ticketed"} : adPc' = [adPc EXCEPT ![r] = b]
    BY <1>3 DEF AdHostAdmission, AdEnqueue
  <2>2. UNCHANGED <<adCap, adUnit, adSlots, adSlotQueue, adGate, adGateQueue>>
    BY <1>3 DEF AdHostAdmission, AdEnqueue
  <2> QED BY <1>1, <1>2, <2>1, <2>2
<1>4. ASSUME NEW r \in AdRequest, AdJoinSlots(r) PROVE AdQueuesOK'
  <2>1. UNCHANGED <<adCap, adUnit, adSlots, adGate, adGateQueue>>
    BY <1>4 DEF AdJoinSlots
  <2>2. CASE adPc' = [adPc EXCEPT ![r] = "granted"] /\ UNCHANGED adSlotQueue
    BY <1>1, <1>2, <2>1, <2>2
  <2>3. CASE adPc' = [adPc EXCEPT ![r] = "slotwait"] /\ adSlotQueue' = Append(adSlotQueue, r)
    BY <1>1, <1>2, <2>1, <2>3, AdJoins
  <2> QED BY <1>4, <2>2, <2>3 DEF AdJoinSlots
<1>5. ASSUME NEW r \in AdRequest, AdTakeSlot(r) PROVE AdQueuesOK'
  <2>1. /\ adPc' = [adPc EXCEPT ![r] = "granted"] /\ adSlots' = adSlots \cup {r}
        /\ Head(adSlotQueue) = r /\ adSlotQueue' = Tail(adSlotQueue) /\ adPc[r] = "slotwait"
        /\ UNCHANGED <<adCap, adUnit, adGate, adGateQueue>>
    BY <1>5 DEF AdTakeSlot
  <2>2. AdIn(adSlotQueue, r)
    BY <2>1 DEF AdQueuesOK
  <2> QED BY <1>1, <1>2, <2>1, <2>2, AdServes
<1>6. ASSUME NEW r \in AdRequest, AdAdmit(r) PROVE AdQueuesOK'
  <2>1. /\ adPc' = [adPc EXCEPT ![r] = "gatewait"] /\ adGateQueue' = Append(adGateQueue, r)
        /\ UNCHANGED <<adCap, adUnit, adSlots, adSlotQueue, adGate>>
    BY <1>6 DEF AdAdmit
  <2> QED BY <1>1, <1>2, <2>1, AdJoins
<1>7. ASSUME NEW r \in AdRequest, AdTakeGate(r) PROVE AdQueuesOK'
  <2>1. /\ adPc' = [adPc EXCEPT ![r] = "running"] /\ adGate' = adGate \cup {r}
        /\ Head(adGateQueue) = r /\ adGateQueue' = Tail(adGateQueue) /\ adPc[r] = "gatewait"
        /\ UNCHANGED <<adCap, adUnit, adSlots, adSlotQueue>>
    BY <1>7 DEF AdTakeGate
  <2>2. AdIn(adGateQueue, r)
    BY <2>1 DEF AdQueuesOK
  <2> QED BY <1>1, <1>2, <2>1, <2>2, AdServes
<1>8. ASSUME NEW r \in AdRequest, AdReleaseSlot(r) \/ AdLeaveGauge(r) \/ AdFinish(r)
      PROVE  AdQueuesOK'
  <2>1. PICK b \in {"released", "posting", "done"} : adPc' = [adPc EXCEPT ![r] = b]
    BY <1>8 DEF AdReleaseSlot, AdLeaveGauge, AdFinish
  <2>2. /\ adSlots' \subseteq adSlots /\ adGate' \subseteq adGate
        /\ UNCHANGED <<adCap, adUnit, adSlotQueue, adGateQueue>>
    BY <1>8 DEF AdReleaseSlot, AdLeaveGauge, AdFinish
  <2> QED BY <1>1, <1>2, <2>1, <2>2
<1>9. ASSUME NEW r \in AdRequest, AdCancel(r) PROVE AdQueuesOK'
  <2>1. /\ adPc' = [adPc EXCEPT ![r] = "done"]
        /\ adSlots' \subseteq adSlots /\ adGate' \subseteq adGate
        /\ adSlotQueue' = AdGiveUp(adSlotQueue, r) /\ adGateQueue' = AdGiveUp(adGateQueue, r)
        /\ UNCHANGED <<adCap, adUnit>>
    BY <1>9 DEF AdCancel
  <2> QED BY <1>1, <1>2, <2>1, AdGivesUp
<1>10. CASE UNCHANGED adVars
  BY <1>10 DEF adVars, AdQueuesOK, AdIn
<1> QED
  BY <1>3, <1>4, <1>5, <1>6, <1>7, <1>8, <1>9, <1>10 DEF AdNext, AdProgress

\* A request without a ticket has the number 0.
AdNoTicket ==
    \A r \in AdRequest : adTicket[r] # 0 => r \in AdAt(AdAccepted, AdQueued \cup AdPastQueue)

\* Every step keeps that only who has queued has a ticket.
LEMMA AdNoTicketStep == AdNoTicket /\ AdQueueInv /\ [AdNext]_adVars => AdNoTicket'
<1> SUFFICES ASSUME AdNoTicket, AdQueueInv, [AdNext]_adVars, NEW s \in AdRequest, adTicket'[s] # 0
             PROVE  s \in AdAccepted' /\ adPc'[s] \in AdQueued \cup AdPastQueue
  BY DEF AdNoTicket, AdAt, AdQueued, AdPastQueue, AdCompiling
<1> USE DEF AdQueued, AdPastQueue, AdCompiling, AdSteps
<1>1. UNCHANGED adUnit
  BY DEF AdNext, AdProgress, AdHostAdmission, AdEnqueue, AdJoinSlots, AdTakeSlot, AdAdmit,
         AdTakeGate, AdReleaseSlot, AdLeaveGauge, AdFinish, AdCancel, adVars
<1>2. AdAccepted' = AdAccepted
  BY <1>1 DEF AdAccepted
<1>3. /\ adPc \in [AdRequest -> AdSteps] /\ adTicket \in [AdRequest -> Nat]
      /\ \A r \in AdRequest : adPc[r] = "admission" => r \in AdAccepted
      /\ adTicket[s] # 0 => s \in AdAccepted /\ adPc[s] \notin {"idle", "admission"}
  BY DEF AdQueueInv, AdQueueTypes, AdNoTicket, AdAt
<1>4. ASSUME NEW r \in AdRequest, NEW b \in AdQueued \cup AdPastQueue,
             adPc' = [adPc EXCEPT ![r] = b], UNCHANGED adTicket
      PROVE  s \in AdAccepted' /\ adPc'[s] \in AdQueued \cup AdPastQueue
  BY <1>2, <1>3, <1>4
<1>5. ASSUME NEW r \in AdRequest, AdEnqueue(r)
      PROVE  s \in AdAccepted' /\ adPc'[s] \in AdQueued \cup AdPastQueue
  BY <1>2, <1>3, <1>5 DEF AdEnqueue
<1>6. ASSUME NEW r \in AdRequest, AdHostAdmission(r)
      PROVE  s \in AdAccepted' /\ adPc'[s] \in AdQueued \cup AdPastQueue
  BY <1>2, <1>3, <1>6 DEF AdHostAdmission
<1>7. ASSUME NEW r \in AdRequest, AdJoinSlots(r) \/ AdTakeSlot(r) \/ AdAdmit(r) \/ AdTakeGate(r)
      PROVE  s \in AdAccepted' /\ adPc'[s] \in AdQueued \cup AdPastQueue
  BY <1>4, <1>7 DEF AdJoinSlots, AdTakeSlot, AdAdmit, AdTakeGate
<1>8. ASSUME NEW r \in AdRequest,
             AdReleaseSlot(r) \/ AdLeaveGauge(r) \/ AdFinish(r) \/ AdCancel(r)
      PROVE  s \in AdAccepted' /\ adPc'[s] \in AdQueued \cup AdPastQueue
  BY <1>4, <1>8 DEF AdReleaseSlot, AdLeaveGauge, AdFinish, AdCancel
<1>9. CASE UNCHANGED adVars
  BY <1>2, <1>3, <1>9 DEF adVars
<1> QED BY <1>5, <1>6, <1>7, <1>8, <1>9 DEF AdNext, AdProgress

\* Type correctness of the admission (compile_resource_gate.rs), for any requests,
\* units and hosts: no counter is above the number of requests.
THEOREM AdTypeCorrect == AdSpec => []AdTypeOK
<1>1. AdInit => AdQueuesOK
  <2> SUFFICES ASSUME AdInit PROVE AdQueuesOK
    OBVIOUS
  <2>1. adCap \in Nat
    <3>1. PICK h \in AdHost : adCap = AdResolvePool(h)
      BY DEF AdInit
    <3>2. /\ h.override \in {"unset", "unlimited", "explicit", "invalid"}
          /\ h.value \in Nat /\ h.num_cpus \in Nat /\ h.is_ci \in BOOLEAN
      BY AdAssumption
    <3>3. AdDefaultCap(h) \in Nat
      BY <3>2 DEF AdDefaultCap
    <3> QED BY <3>1, <3>2, <3>3 DEF AdResolvePool
  <2>2. /\ adPc \in [AdRequest -> AdSteps]
        /\ \A r \in AdRequest : adPc[r] \notin {"slotwait", "gatewait"}
    BY DEF AdInit, AdSteps
  <2> QED BY <2>1, <2>2 DEF AdInit, AdQueuesOK
<1>2. AdQueuesOK /\ AdNoTicket /\ AdQueueInv => AdTypeOK
  <2> SUFFICES ASSUME AdQueuesOK, AdNoTicket, AdQueueInv PROVE AdTypeOK
    OBVIOUS
  <2>1. ASSUME NEW R \in SUBSET AdRequest
        PROVE  Cardinality(R) \in AdTickets
    <3>1. /\ IsFiniteSet(R) /\ Cardinality(R) <= Cardinality(AdRequest)
      BY AdAssumption, FS_Subset
    <3>2. Cardinality(R) \in Nat /\ Cardinality(AdRequest) \in Nat
      BY <3>1, AdAssumption, FS_CardinalityType
    <3> QED BY <3>1, <3>2 DEF AdTickets
  <2>2. /\ AdAt(AdRequest, AdQueued) \in SUBSET AdRequest
        /\ AdAt(AdRequest, AdCompiling) \in SUBSET AdRequest
        /\ AdAt(AdAccepted, AdPastQueue) \in SUBSET AdRequest
        /\ AdAt(AdAccepted, AdQueued \cup AdPastQueue) \in SUBSET AdRequest
    BY DEF AdAt, AdAccepted
  <2>3. /\ adGauge \in [waiting : Nat, in_flight : Nat, next_ticket : Nat, admitted : Nat]
        /\ AdGaugeExact
    BY DEF AdQueueInv, AdQueueTypes
  <2>4. adGauge \in [waiting : AdTickets, in_flight : AdTickets,
                     next_ticket : AdTickets, admitted : AdTickets]
    BY <2>1, <2>2, <2>3 DEF AdGaugeExact
  <2>5. \A r \in AdRequest : adTicket[r] \in AdTickets
    <3>1. adGauge.next_ticket \in AdTickets /\ 0 \in AdTickets
      BY <2>1, <2>2, <2>3, FS_EmptySet DEF AdGaugeExact
    <3>2. ASSUME NEW r \in AdRequest, adTicket[r] # 0 PROVE adTicket[r] < adGauge.next_ticket
      BY <3>2 DEF AdNoTicket, AdQueueInv, AdTicketsGiven
    <3>3. \A r \in AdRequest : adTicket[r] \in Nat
      BY DEF AdQueueInv, AdQueueTypes
    <3>4. Cardinality(AdRequest) \in Nat
      BY AdAssumption, FS_CardinalityType
    <3> QED BY <3>1, <3>2, <3>3, <3>4 DEF AdTickets
  <2>6. adTicket \in [AdRequest -> AdTickets]
    BY <2>5 DEF AdQueueInv, AdQueueTypes
  <2> QED BY <2>4, <2>6 DEF AdTypeOK, AdQueuesOK
<1>3. AdInit => AdNoTicket
  BY DEF AdInit, AdNoTicket
<1> QED
  BY <1>1, <1>2, <1>3, AdQueueInit, AdQueueStep, AdQueuesStep, AdNoTicketStep, PTL DEF AdSpec

-----------------------------------------------------------------------------
(* The requests together *)

\* Every behaviour of what requests share (exec handler, compiler admission, disk
\* maintenance) is type correct, whichever of them takes the steps.
THEOREM RequestsTypeCorrect == MCSpec => []TypesOK
<1>1. MCInit => ExInit /\ AdInit /\ DmInit
  BY DEF MCInit
<1>2. [MCNext]_<<focus, exVars, adVars, dmVars>> =>
        [ExNext]_exVars /\ [AdNext]_adVars /\ [DmNext]_dmVars
  BY Zenon DEF MCNext, Exec, Admission, Disk
<1>3. MCSpec => ExSpec /\ AdSpec /\ DmSpec
  BY <1>1, <1>2, PTL DEF MCSpec, ExSpec, AdSpec, DmSpec
<1> QED BY <1>3, ExTypeCorrect, AdTypeCorrect, DmTypeCorrect, PTL DEF TypesOK
=============================================================================
