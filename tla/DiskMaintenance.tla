--------------------------- MODULE DiskMaintenance ---------------------------
(***************************************************************************)
(* The retention pass over the artifact directory                          *)
(* (daemon/server/disk_maintenance.rs): scan, plan, take the publication   *)
(* barrier, plan again, remove, scan again; until nothing is selected.     *)
(* Compiles hit and publish artifacts meanwhile, other processes publish   *)
(* into the same store and use up the disk.                                *)
(*                                                                         *)
(* Ages are the classes the planner tells apart: 0 up to five minutes      *)
(* (HARD_PRESSURE_MIN_AGE), 1 up to four days (SOFT_AGE), 2 up to thirty   *)
(* (EXPIRE_AGE), 3 more.  `now' is read once per pass, so ages grow only   *)
(* between passes.  Sizes are in units of GIB bytes.                       *)
(***************************************************************************)
EXTENDS Naturals, FiniteSets, FiniteSetsExt, SequencesExt

CONSTANTS
    DmKey,          \* artifacts
    DmStaged,       \* those kept as staged generations
    DmAlloc,        \* artifact -> its allocated size
    DmCapacity,     \* of the volume
    DmLoads,        \* the initial situations a run considers
    DmMaxEvents     \* bound on what happens beside the pass

ASSUME DmAssumption ==
    /\ DmStaged \subseteq DmKey /\ IsFiniteSet(DmKey)
    /\ DmAlloc \in [DmKey -> Nat]
    /\ DmCapacity \in Nat /\ DmMaxEvents \in Nat
    /\ \A l \in DmLoads :
         /\ l.ages \in [DmKey -> 0..3] /\ l.shared \subseteq DmKey
         /\ {l.other, l.retired, l.pending} \subseteq Nat
         /\ l.budget \in [spec : {"Dynamic", "Bytes", "Percent"}, value : Nat]

VARIABLES
    dmBudget,       \* MaintenancePolicy
    dmDisk,         \* artifact -> what the directory holds
    dmLive,         \* artifact -> what the daemon's maps know of it
    dmOther,        \* the rest of the volume: bytes in use by others
    dmRetired,      \* bytes of retired sibling stores
    dmPending,      \* in_flight_bytes
    dmPass,         \* the pass
    dmFullDue,      \* the marker of the last full pass is too old
    dmShutdown,     \* shutdown_requested
    dmEvents        \* events so far

dmVars == <<dmBudget, dmDisk, dmLive, dmOther, dmRetired, dmPending, dmPass,
            dmFullDue, dmShutdown, dmEvents>>

DmAge == 0..3
DmPressure == {"None", "Soft", "Hard"}
DmPc == {"idle", "scan", "round", "commit", "locked", "report"}
DmView == [on : BOOLEAN, gen : Nat, shared : BOOLEAN, age : DmAge, recent : BOOLEAN]
DmPlanType == [pressure : DmPressure, selected : SUBSET DmKey, expired : SUBSET DmKey]

DmTypeOK ==
    /\ dmDisk \in [DmKey -> [on : BOOLEAN, gen : Nat, shared : BOOLEAN, age : DmAge]]
    /\ dmLive \in [DmKey -> [known : BOOLEAN, age : DmAge, published : BOOLEAN]]
    /\ {dmOther, dmRetired, dmPending} \subseteq Nat
    /\ dmPass \in [pc : DmPc, kind : {"Full", "Pressure"}, view : [DmKey -> DmView],
                   pending : Nat, retired : Nat, swept : BOOLEAN, pressure : DmPressure,
                   plan : DmPlanType, evicted : BOOLEAN, rounds : Nat, undisturbed : BOOLEAN]
    /\ dmFullDue \in BOOLEAN /\ dmShutdown \in BOOLEAN
    /\ dmEvents \in 0..DmMaxEvents

DmNoPlan == [pressure |-> "None", selected |-> {}, expired |-> {}]
DmNoView == [k \in DmKey |->
    [on |-> FALSE, gen |-> 0, shared |-> FALSE, age |-> 3, recent |-> FALSE]]

DmInit ==
    /\ \E l \in DmLoads :
         /\ dmBudget = l.budget
         /\ dmDisk = [k \in DmKey |-> [on |-> TRUE, gen |-> 0, shared |-> k \in l.shared,
                                       age |-> l.ages[k]]]
         /\ dmOther = l.other /\ dmRetired = l.retired /\ dmPending = l.pending
    /\ dmLive = [k \in DmKey |-> [known |-> TRUE, age |-> 3, published |-> FALSE]]
    /\ dmPass = [pc |-> "idle", kind |-> "Pressure", view |-> DmNoView, pending |-> 0,
                 retired |-> 0, swept |-> FALSE, pressure |-> "None", plan |-> DmNoPlan,
                 evicted |-> FALSE, rounds |-> 0, undisturbed |-> TRUE]
    /\ dmFullDue \in BOOLEAN /\ dmShutdown = FALSE /\ dmEvents = 0

DmPassAt(pc) == dmPass.pc = pc

-----------------------------------------------------------------------------
(* Thresholds *)

\* saturating_sub
DmMonus(a, b) == IF a > b THEN a - b ELSE 0

DmLowSpace == Min({Max({(DmCapacity * 5) \div 100, 20}), DmCapacity})
DmCriticalSpace == Min({Max({DmCapacity \div 100, 5}), DmLowSpace})
DmRecoveryFree == Min({Max({(DmCapacity * 8) \div 100, 30}), DmCapacity \div 2})

\* budget_bytes: what was asked for, as far as the recovery reserve stays free.
DmBudgetBytes ==
    LET dynamic == Min({Max({(DmCapacity * 5) \div 100, 40}), 200})
        requested == CASE dmBudget.spec = "Dynamic" -> dynamic
                       [] dmBudget.spec = "Bytes" -> dmBudget.value
                       [] dmBudget.spec = "Percent" -> (DmCapacity * dmBudget.value) \div 100
    IN Min({requested, DmMonus(DmCapacity, DmRecoveryFree)})

DmOf(percent) == (DmBudgetBytes * percent) \div 100

DmSizeOf == [keys \in SUBSET DmKey |-> MapThenSumSet(LAMBDA k : DmAlloc[k], keys)]
DmSize(keys) == DmSizeOf[keys]
DmOnDisk == {k \in DmKey : dmDisk[k].on}

\* filesystem_space.  An evicted file that is linked elsewhere stays in use.
DmFree == DmMonus(DmCapacity, dmOther + dmRetired + DmSize(DmOnDisk))

-----------------------------------------------------------------------------
(* plan_maintenance_at_least *)

\* What evicting the artifacts of a view gives back to the volume.
DmReclaimed(view, keys) == DmSize({k \in keys : ~view[k].shared})

\* sort_by_key: unshared first, then the least recently used.
DmSortsBefore(view, j, k) ==
    \/ ~view[j].shared /\ view[k].shared
    \/ view[j].shared = view[k].shared /\ view[j].age > view[k].age

\* Equal keys come in the order of a hash map: any.
DmOrders(view, keys) ==
    {s \in SetToSeqs(keys) :
        \A i, j \in DOMAIN s : i < j => ~DmSortsBefore(view, s[j], s[i])}

\* Mutant: one more is taken than is needed.
DmTakenOneMore(view, order, pressure, usageNeed, freeNeed) ==
    LET Before(i) == {order[j] : j \in 1..(i - 1)}
        Goes(i) ==
            /\ pressure # "None"
            /\ DmSize(Before(i)) <= usageNeed \/ DmReclaimed(view, Before(i)) < freeNeed
            /\ view[order[i]].shared
                 => pressure = "Hard" /\ DmSize(Before(i)) < usageNeed
    IN {order[i] : i \in {j \in DOMAIN order : \A h \in 1..j : Goes(h)}}

\* Mutant: it stops as soon as one of the two needs has been reached.
DmTakenEither(view, order, pressure, usageNeed, freeNeed) ==
    LET Before(i) == {order[j] : j \in 1..(i - 1)}
    IN {order[i] : i \in {j \in DOMAIN order :
          DmSize(Before(j)) < usageNeed /\ DmReclaimed(view, Before(j)) < freeNeed}}

\* The candidates in their order, up to the first the loop stops at: what is
\* needed has been reached, or evicting a shared one would not help.
DmTaken(view, order, pressure, usageNeed, freeNeed) ==
    LET Before(i) == {order[j] : j \in 1..(i - 1)}
        Goes(i) ==
            /\ \/ DmSize(Before(i)) < usageNeed
               \/ DmReclaimed(view, Before(i)) < freeNeed
            /\ view[order[i]].shared
                 => pressure = "Hard" /\ DmSize(Before(i)) < usageNeed
    IN {order[i] : i \in {j \in DOMAIN order : \A h \in 1..j : Goes(h)}}

\* The plans for a view, and the pressure earlier rounds found.
DmPlans(view, atLeast) ==
    LET keys == {k \in DmKey : view[k].on}
        expired == {k \in keys : dmPass.kind = "Full" /\ view[k].age = 3}
        usage == DmMonus(DmSize(keys) + dmPass.pending + dmPass.retired, DmSize(expired))
        free == DmFree + DmReclaimed(view, expired)
        low == free < DmLowSpace
        pressure ==
            IF atLeast = "Hard" \/ usage >= DmBudgetBytes \/ free < DmCriticalSpace THEN "Hard"
            ELSE IF atLeast = "Soft" \/ low \/ usage >= DmOf(85) THEN "Soft"
            ELSE "None"
        usageNeed == CASE pressure = "Hard" -> DmMonus(usage, DmOf(80))
                       [] pressure = "Soft" -> DmMonus(usage, DmOf(70))
                       [] OTHER -> 0
        freeNeed == IF pressure = "Hard" \/ (pressure = "Soft" /\ low)
                    THEN DmMonus(DmRecoveryFree, free) ELSE 0
        candidates ==
            {k \in keys \ expired :
                \/ pressure = "Hard" /\ (~view[k].recent \/ view[k].age > 0)
                \/ view[k].age > 1}
    IN {[pressure |-> pressure, expired |-> expired,
         selected |-> expired \cup DmTaken(view, s, pressure, usageNeed, freeNeed)]
            : s \in DmOrders(view, candidates)}

-----------------------------------------------------------------------------
(* The pass *)

\* refresh_live_access: the daemon's own record of use and of publication.
DmRefreshed(view) ==
    [k \in DmKey |->
        [view[k] EXCEPT
            !.age = Min({@, dmLive[k].age}),
            !.recent = dmLive[k].published
                         \/ (k \in DmStaged /\ dmLive[k].known /\ view[k].age = 0)]]

\* scan_artifacts and refresh_live_access.
DmScanned ==
    DmRefreshed([k \in DmKey |->
        [on |-> dmDisk[k].on, gen |-> dmDisk[k].gen, shared |-> dmDisk[k].shared,
         age |-> dmDisk[k].age, recent |-> FALSE]])

DmKeepWorld == UNCHANGED <<dmBudget, dmDisk, dmLive, dmOther, dmPending, dmEvents>>

\* pressure_scan_needed: the indexed size counts, and the free space.
DmScanNeeded ==
    \/ DmFree < DmLowSpace
    \/ DmSize({k \in DmKey : dmLive[k].known}) + dmPending >= DmOf(50)

\* The loop of spawn_disk_maintenance: the routine sweep of the retired stores,
\* then, for a full pass or when the preflight asks for one, maintain_state_disk.
DmStart ==
    /\ DmPassAt("idle") /\ ~dmShutdown
    /\ dmFullDue \/ DmScanNeeded
    /\ dmRetired' \in {0, dmRetired}
    /\ dmPass' = [dmPass EXCEPT
         !.pc = "scan", !.kind = IF dmFullDue THEN "Full" ELSE "Pressure",
         !.pending = dmPending, !.swept = FALSE, !.pressure = "None", !.evicted = FALSE,
         !.rounds = 0, !.undisturbed = TRUE]
    /\ DmKeepWorld /\ UNCHANGED <<dmFullDue, dmShutdown>>

\* The scan, at the beginning and after a round that evicted something.
DmScan ==
    /\ DmPassAt("scan")
    /\ dmPass' = [dmPass EXCEPT !.pc = "round", !.view = DmScanned,
                    !.retired = dmRetired]
    /\ DmKeepWorld /\ UNCHANGED <<dmRetired, dmFullDue, dmShutdown>>

\* Shutdown is looked for between rounds.
DmStop ==
    /\ DmPassAt("round") /\ dmShutdown
    /\ dmPass' = [dmPass EXCEPT !.pc = "report", !.undisturbed = FALSE]
    /\ DmKeepWorld /\ UNCHANGED <<dmRetired, dmFullDue, dmShutdown>>

\* Mutant: the sweep is repeated for as long as there is something to sweep.
DmSweepAgain(plan) == dmPass.retired > 0 /\ plan.pressure # "None"

\* Under pressure the retired stores go first, once per pass.
DmSweepDue(plan) == ~dmPass.swept /\ dmPass.retired > 0 /\ plan.pressure # "None"

DmSweep ==
    /\ DmPassAt("round") /\ ~dmShutdown
    /\ \E plan \in DmPlans(dmPass.view, dmPass.pressure) : DmSweepDue(plan)
    /\ \E left \in {0, dmRetired} :
         /\ dmRetired' = left
         /\ dmPass' = [dmPass EXCEPT !.swept = TRUE, !.retired = left, !.rounds = @ + 1]
    /\ DmKeepWorld /\ UNCHANGED <<dmFullDue, dmShutdown>>

\* Nothing is selected: the pass is over.  Otherwise it takes the barrier.
DmRound ==
    /\ DmPassAt("round") /\ ~dmShutdown
    /\ \E plan \in DmPlans(dmPass.view, dmPass.pressure) :
         /\ ~DmSweepDue(plan)
         /\ dmPass' = IF plan.selected = {}
                      THEN [dmPass EXCEPT !.pc = "report", !.pressure = plan.pressure]
                      ELSE [dmPass EXCEPT !.pc = "commit", !.rounds = @ + 1]
    /\ DmKeepWorld /\ UNCHANGED <<dmRetired, dmFullDue, dmShutdown>>

\* Mutant: the plan is made from what the scan saw.
DmCommitView == dmPass.view

\* Under the barrier the use since the scan is read again.
DmLockedView == DmRefreshed(dmPass.view)

\* blocking_write_for, then the second plan.
DmLock ==
    /\ DmPassAt("commit")
    /\ \E plan \in DmPlans(DmLockedView, dmPass.pressure) :
         dmPass' = [dmPass EXCEPT !.pc = "locked", !.view = DmLockedView, !.plan = plan]
    /\ DmKeepWorld /\ UNCHANGED <<dmRetired, dmFullDue, dmShutdown>>

\* evict_staged_artifact_keys_if_unchanged compares the generation.
DmUnchanged(k) == dmDisk[k].on /\ (k \in DmStaged => dmDisk[k].gen = dmPass.view[k].gen)

\* The files of the keys are gone; what was linked elsewhere stays on the volume.
DmUnlink(keys) ==
    /\ dmDisk' = [k \in DmKey |-> IF k \in keys THEN [dmDisk[k] EXCEPT !.on = FALSE]
                                                ELSE dmDisk[k]]
    /\ dmOther' = dmOther + DmSize({k \in keys : dmDisk[k].shared})

\* remove_planned_artifacts: files, rows and memory, under the barrier.  A busy
\* staged store defers its part.  A round that removed nothing is the last.
DmRemove(deferred) ==
    /\ DmPassAt("locked")
    /\ LET removed == {k \in dmPass.plan.selected : DmUnchanged(k)}
                        \ (IF deferred THEN DmStaged ELSE {})
       IN /\ DmUnlink(removed)
          /\ dmLive' = [k \in DmKey |->
               IF k \in removed THEN [known |-> FALSE, age |-> 3, published |-> FALSE]
               ELSE dmLive[k]]
          /\ dmPass' = [dmPass EXCEPT
               !.pc = IF removed = {} THEN "report" ELSE "scan",
               !.pressure = dmPass.plan.pressure, !.plan = DmNoPlan,
               !.evicted = @ \/ removed # {},
               !.undisturbed = @ /\ removed = dmPass.plan.selected]
    /\ UNCHANGED <<dmBudget, dmRetired, dmPending, dmFullDue, dmShutdown, dmEvents>>

\* A removal fails: the pass ends with the error, before any row was removed.
DmRemoveFails ==
    /\ DmPassAt("locked")
    /\ \E gone \in SUBSET {k \in dmPass.plan.selected : DmUnchanged(k)} : DmUnlink(gone)
    /\ dmPass' = [dmPass EXCEPT !.pc = "idle", !.plan = DmNoPlan, !.undisturbed = FALSE]
    /\ UNCHANGED <<dmBudget, dmLive, dmRetired, dmPending, dmFullDue, dmShutdown, dmEvents>>

\* maintain_state_disk: the removals are flushed, a full pass sets the marker.
DmReport(flushed) ==
    /\ DmPassAt("report")
    /\ dmFullDue' = (dmFullDue /\ ~(dmPass.kind = "Full" /\ (flushed \/ ~dmPass.evicted)))
    /\ dmPass' = [dmPass EXCEPT !.pc = "idle", !.view = DmNoView, !.retired = 0]
    /\ DmKeepWorld /\ UNCHANGED <<dmRetired, dmShutdown>>

DmPassStep ==
    \/ DmScan \/ DmStop \/ DmSweep \/ DmRound \/ DmLock \/ DmRemoveFails
    \/ \E b \in BOOLEAN : DmRemove(b) \/ DmReport(b)

-----------------------------------------------------------------------------
(* Beside the pass *)

DmEvent == dmEvents < DmMaxEvents /\ dmEvents' = dmEvents + 1
DmDisturb == dmPass' = [dmPass EXCEPT !.undisturbed = FALSE]

\* A compile holds a lease on the barrier while it hits or publishes.
DmLease == ~DmPassAt("locked")

\* A hit counts as a use, and links or clones the files into the build tree.
DmHit(k) ==
    /\ DmEvent /\ DmLease /\ dmDisk[k].on
    /\ dmLive' = [dmLive EXCEPT ![k].known = TRUE, ![k].age = 0]
    /\ dmDisk' = [dmDisk EXCEPT ![k].shared = TRUE]
    /\ DmDisturb
    /\ UNCHANGED <<dmBudget, dmOther, dmRetired, dmPending, dmFullDue, dmShutdown>>

\* A compile stores a result; its bytes are no longer in flight.
DmPublish(k) ==
    /\ DmEvent /\ DmLease
    /\ dmDisk' = [dmDisk EXCEPT ![k] =
         [on |-> TRUE, gen |-> @.gen + 1, shared |-> FALSE, age |-> 0]]
    /\ dmLive' = [dmLive EXCEPT ![k] = [known |-> TRUE, age |-> 0, published |-> TRUE]]
    /\ dmPending' = 0
    /\ DmDisturb
    /\ UNCHANGED <<dmBudget, dmOther, dmRetired, dmFullDue, dmShutdown>>

\* Another process publishes into the same staged store; it has no lease here.
DmForeignPublish(k) ==
    /\ DmEvent /\ k \in DmStaged
    /\ dmDisk' = [dmDisk EXCEPT ![k] =
         [on |-> TRUE, gen |-> @.gen + 1, shared |-> FALSE, age |-> 0]]
    /\ DmDisturb
    /\ UNCHANGED <<dmBudget, dmLive, dmOther, dmRetired, dmPending, dmFullDue, dmShutdown>>

\* The rest of the volume fills up or empties.
DmOtherUse(bytes) ==
    /\ DmEvent /\ dmOther' = bytes
    /\ DmDisturb
    /\ UNCHANGED <<dmBudget, dmDisk, dmLive, dmRetired, dmPending, dmFullDue, dmShutdown>>

DmRequestShutdown ==
    /\ DmEvent /\ ~dmShutdown /\ dmShutdown' = TRUE
    /\ UNCHANGED <<dmBudget, dmDisk, dmLive, dmOther, dmRetired, dmPending, dmPass, dmFullDue>>

DmEnvironment ==
    \/ \E k \in DmKey : DmHit(k) \/ DmPublish(k) \/ DmForeignPublish(k)
    \/ \E l \in DmLoads : DmOtherUse(l.other)
    \/ DmRequestShutdown

DmNext == DmStart \/ DmPassStep \/ DmEnvironment

DmSpec == DmInit /\ [][DmNext]_dmVars

-----------------------------------------------------------------------------
(* Properties *)

DmEvicted(k) == dmDisk[k].on /\ ~dmDisk'[k].on
DmLastUse(k) == Min({dmDisk[k].age, dmLive[k].age})
DmJustPublished(k) ==
    dmLive[k].published \/ (k \in DmStaged /\ dmLive[k].known /\ dmDisk[k].age = 0)
DmUsage == DmSize(DmOnDisk) + dmPending + dmRetired

\* Eviction never outruns use: at the moment an artifact goes, and not when it
\* was scanned, it is expired, or idle for four days under pressure, or the
\* pressure is hard and it was not just published.
DmEvictionJustified ==
    [][\A k \in DmKey : DmEvicted(k) =>
        \/ dmPass.kind = "Full" /\ DmLastUse(k) = 3
        \/ dmPass.plan.pressure # "None" /\ DmLastUse(k) > 1
        \/ /\ dmPass.plan.pressure = "Hard"
           /\ ~(DmLastUse(k) = 0 /\ DmJustPublished(k))]_dmVars

\* Eviction stops at its marks: while nobody interferes, an artifact that is
\* not expired goes only as long as the usage is above 80% (soft pressure: 70%)
\* of the budget or the free space below the recovery reserve, also in the
\* later rounds of a pass, and after the retired stores were swept.
DmEvictionNeeded ==
    [][\A k \in DmKey :
        DmEvicted(k) /\ k \notin dmPass.plan.expired /\ dmPass.undisturbed =>
            /\ \/ DmUsage > DmOf(IF dmPass.plan.pressure = "Hard" THEN 80 ELSE 70)
               \/ DmFree < DmRecoveryFree
            /\ dmPass.swept \/ dmRetired = 0]_dmVars

\* A pass that nobody disturbed relieves the pressure or leaves nothing behind
\* that it may evict and that would help.
DmRelieved ==
    DmPassAt("report") /\ dmPass.undisturbed =>
        \A k \in DmOnDisk :
            LET mark == DmOf(IF dmPass.pressure = "Hard" THEN 80 ELSE 70)
                helps == IF dmDisk[k].shared THEN DmUsage > mark /\ dmPass.pressure = "Hard"
                         ELSE DmUsage > mark \/ (DmFree < DmRecoveryFree /\ DmFree < DmLowSpace)
            IN ~ /\ dmPass.pressure # "None" /\ helps
                 /\ DmLastUse(k) > 1 \/ (dmPass.pressure = "Hard" /\ DmLastUse(k) = 1)

\* A pass ends, whatever compiles and other processes do meanwhile: every round
\* sweeps the retired stores, once, or has an artifact less to consider, and
\* what is published meanwhile comes once.
DmRoundsBounded == dmPass.rounds <= Cardinality(DmKey) + 1 + dmEvents
=============================================================================
