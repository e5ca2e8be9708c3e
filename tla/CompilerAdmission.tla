-------------------------- MODULE CompilerAdmission --------------------------
(***************************************************************************)
(* Admission of real compiler runs (compile_resource_gate.rs,              *)
(* compile_progress.rs, compile_concurrency.rs): a FIFO semaphore of       *)
(* compiler slots first, then a fair shared/exclusive gate that is kept    *)
(* through hashing and publication, and the counters heartbeats report.    *)
(* tokio's semaphore and lock serve their waiters in order.                *)
(***************************************************************************)
EXTENDS Naturals, Sequences, FiniteSets, SequencesExt

CONSTANTS
    AdRequest,      \* compile requests that missed every cache
    AdUnit,         \* what they compile, a set of units
    AdHost          \* hosts: ZCCACHE_MAX_PARALLEL_COMPILES, is_ci, num_cpus

ASSUME AdAssumption ==
    /\ IsFiniteSet(AdRequest)
    /\ \A h \in AdHost :
         /\ h.override \in {"unset", "unlimited", "explicit", "invalid"}
         /\ h.value \in Nat \ {0} /\ h.num_cpus \in Nat /\ h.is_ci \in BOOLEAN

VARIABLES
    adCap,          \* compiler slots; 0 when the cap is disabled
    adPc,           \* request -> where its handler is
    adUnit,         \* request -> its unit
    adSlots,        \* holders of a compiler slot
    adSlotQueue,    \* requests waiting for one
    adGate,         \* holders of the resource gate
    adGateQueue,    \* requests waiting for it
    adGauge,        \* CompileQueueGauge
    adTicket        \* request -> its queue ticket

adVars == <<adCap, adPc, adUnit, adSlots, adSlotQueue, adGate, adGateQueue, adGauge, adTicket>>

AdSteps == {"idle", "admission", "ticketed", "slotwait", "granted",
            "gatewait", "running", "released", "posting", "done"}

AdTickets == 0..Cardinality(AdRequest)

AdTypeOK ==
    /\ adCap \in Nat
    /\ adPc \in [AdRequest -> AdSteps]
    /\ adUnit \in [AdRequest -> AdUnit]
    /\ adSlots \subseteq AdRequest /\ adGate \subseteq AdRequest
    /\ adSlotQueue \in Seq(AdRequest) /\ adGateQueue \in Seq(AdRequest)
    /\ adGauge \in [waiting : AdTickets, in_flight : AdTickets,
                    next_ticket : AdTickets, admitted : AdTickets]
    /\ adTicket \in [AdRequest -> AdTickets]

\* default_cap: one CPU is left to an interactive user, and the floor is one slot.
AdDefaultCap(h) ==
    IF h.is_ci THEN (IF h.num_cpus > 1 THEN h.num_cpus ELSE 1)
               ELSE (IF h.num_cpus > 2 THEN h.num_cpus - 1 ELSE 1)

\* resolve_pool: an override wins, an unreadable one falls back, "0" and
\* "unlimited" disable the cap.
AdResolvePool(h) ==
    CASE h.override \in {"unset", "invalid"} -> AdDefaultCap(h)
      [] h.override = "unlimited" -> 0
      [] h.override = "explicit" -> h.value

AdInit ==
    /\ adCap \in {AdResolvePool(h) : h \in AdHost}
    /\ adPc = [r \in AdRequest |-> "idle"]
    /\ adUnit \in [AdRequest -> AdUnit]
    /\ adSlots = {} /\ adGate = {}
    /\ adSlotQueue = <<>> /\ adGateQueue = <<>>
    /\ adGauge = [waiting |-> 0, in_flight |-> 0, next_ticket |-> 0, admitted |-> 0]
    /\ adTicket = [r \in AdRequest |-> 0]

-----------------------------------------------------------------------------
(* Classification *)

\* A known crate, unless it links: linking calls the linker under the gate.
AdRustAmalgamation(u) == u.known /\ u.nonLinking

\* requires_exclusive_access: known amalgamations and multi-megabyte C units.
AdRequiresExclusive(u) ==
    \/ u.family = "Rustc" /\ AdRustAmalgamation(u)
    \/ u.family \in {"Gcc", "Clang", "Msvc"} /\ (u.known \/ u.large)

\* combines_exclusive_admission: the host may only add exclusivity.
AdExclusive(r) == AdRequiresExclusive(adUnit[r]) \/ adUnit[r].host = "exclusive"

-----------------------------------------------------------------------------
(* Acquisition *)

\* host_admission: the host's policy may refuse before any permit is taken.
AdHostAdmission(r) ==
    /\ adPc[r] = "idle"
    /\ adPc' = [adPc EXCEPT ![r] = IF adUnit[r].host = "error" THEN "done" ELSE "admission"]
    /\ UNCHANGED <<adCap, adUnit, adSlots, adSlotQueue, adGate, adGateQueue, adGauge, adTicket>>

\* CompileQueueGauge::enqueue
AdEnqueue(r) ==
    /\ adPc[r] = "admission"
    /\ adPc' = [adPc EXCEPT ![r] = "ticketed"]
    /\ adTicket' = [adTicket EXCEPT ![r] = adGauge.next_ticket]
    /\ adGauge' = [adGauge EXCEPT !.next_ticket = @ + 1, !.waiting = @ + 1]
    /\ UNCHANGED <<adCap, adUnit, adSlots, adSlotQueue, adGate, adGateQueue>>

\* acquire_compile_gate: join the semaphore's queue, if there is a semaphore.
AdJoinSlots(r) ==
    /\ adPc[r] = "ticketed"
    /\ IF adCap = 0
       THEN adPc' = [adPc EXCEPT ![r] = "granted"] /\ UNCHANGED adSlotQueue
       ELSE /\ adPc' = [adPc EXCEPT ![r] = "slotwait"]
            /\ adSlotQueue' = Append(adSlotQueue, r)
    /\ UNCHANGED <<adCap, adUnit, adSlots, adGate, adGateQueue, adGauge, adTicket>>

AdTakeSlot(r) ==
    /\ adPc[r] = "slotwait"
    /\ Head(adSlotQueue) = r /\ Cardinality(adSlots) < adCap
    /\ adSlots' = adSlots \cup {r}
    /\ adSlotQueue' = Tail(adSlotQueue)
    /\ adPc' = [adPc EXCEPT ![r] = "granted"]
    /\ UNCHANGED <<adCap, adUnit, adGate, adGateQueue, adGauge, adTicket>>

\* CompileQueueGuard::admit, then CompileResourceGate::acquire joins the gate's queue.
AdAdmit(r) ==
    /\ adPc[r] = "granted"
    /\ adPc' = [adPc EXCEPT ![r] = "gatewait"]
    /\ adGauge' = [adGauge EXCEPT !.admitted = @ + 1, !.waiting = @ - 1, !.in_flight = @ + 1]
    /\ adGateQueue' = Append(adGateQueue, r)
    /\ UNCHANGED <<adCap, adUnit, adSlots, adSlotQueue, adGate, adTicket>>

\* The gate admits its first waiter: a writer when it is empty, a reader when
\* no writer is in it.
AdTakeGate(r) ==
    /\ adPc[r] = "gatewait" /\ Head(adGateQueue) = r
    /\ IF AdExclusive(r) THEN adGate = {} ELSE \A h \in adGate : ~AdExclusive(h)
    /\ adGate' = adGate \cup {r}
    /\ adGateQueue' = Tail(adGateQueue)
    /\ adPc' = [adPc EXCEPT ![r] = "running"]
    /\ UNCHANGED <<adCap, adUnit, adSlots, adSlotQueue, adGauge, adTicket>>

-----------------------------------------------------------------------------
(* Release *)

\* Mutant: both layers are released when the compiler exits.
AdReleaseBoth(r) ==
    /\ adPc[r] = "running"
    /\ adSlots' = adSlots \ {r} /\ adGate' = adGate \ {r}
    /\ adPc' = [adPc EXCEPT ![r] = "released"]
    /\ UNCHANGED <<adCap, adUnit, adSlotQueue, adGateQueue, adGauge, adTicket>>

\* release_compiler_slot: the permit first ...
AdReleaseSlot(r) ==
    /\ adPc[r] = "running"
    /\ adSlots' = adSlots \ {r}
    /\ adPc' = [adPc EXCEPT ![r] = "released"]
    /\ UNCHANGED <<adCap, adUnit, adSlotQueue, adGate, adGateQueue, adGauge, adTicket>>

\* ... then the gauge.
AdLeaveGauge(r) ==
    /\ adPc[r] = "released"
    /\ adGauge' = [adGauge EXCEPT !.in_flight = @ - 1]
    /\ adPc' = [adPc EXCEPT ![r] = "posting"]
    /\ UNCHANGED <<adCap, adUnit, adSlots, adSlotQueue, adGate, adGateQueue, adTicket>>

\* Hashing and publication are over and the request's permit is dropped.
AdFinish(r) ==
    /\ adPc[r] = "posting"
    /\ adGate' = adGate \ {r}
    /\ adPc' = [adPc EXCEPT ![r] = "done"]
    /\ UNCHANGED <<adCap, adUnit, adSlots, adSlotQueue, adGateQueue, adGauge, adTicket>>

\* Mutant: a waiter that gives up leaves the queue cursor where it was.
AdDropGaugeStalls(r) ==
    adGauge' = IF adPc[r] = "slotwait" THEN [adGauge EXCEPT !.waiting = @ - 1]
               ELSE IF adPc[r] = "posting" THEN adGauge
               ELSE [adGauge EXCEPT !.in_flight = @ - 1]

\* CompileQueueGuard::drop: a waiter that gives up advances the cursor too.
AdDropGauge(r) ==
    adGauge' = IF adPc[r] = "slotwait" THEN [adGauge EXCEPT !.waiting = @ - 1, !.admitted = @ + 1]
               ELSE IF adPc[r] = "posting" THEN adGauge
               ELSE [adGauge EXCEPT !.in_flight = @ - 1]

\* A waiter gives up its place in a queue.
AdGiveUp(queue, r) ==
    IF \E i \in 1 .. Len(queue) : queue[i] = r
    THEN RemoveAt(queue, CHOOSE i \in 1 .. Len(queue) : queue[i] = r)
    ELSE queue

\* Mutant: a dropped handler keeps its place in the gate's queue.
AdCancelStays(r) ==
    /\ adPc[r] \in {"slotwait", "gatewait", "running", "posting"}
    /\ AdDropGauge(r)
    /\ adSlots' = adSlots \ {r} /\ adGate' = adGate \ {r}
    /\ adSlotQueue' = AdGiveUp(adSlotQueue, r)
    /\ adPc' = [adPc EXCEPT ![r] = "done"]
    /\ UNCHANGED <<adCap, adUnit, adGateQueue, adTicket>>

\* The client is gone: the handler is dropped where it waits, and with it its
\* permits and its places in the queues.
AdCancel(r) ==
    /\ adPc[r] \in {"slotwait", "gatewait", "running", "posting"}
    /\ AdDropGauge(r)
    /\ adSlots' = adSlots \ {r} /\ adGate' = adGate \ {r}
    /\ adSlotQueue' = AdGiveUp(adSlotQueue, r)
    /\ adGateQueue' = AdGiveUp(adGateQueue, r)
    /\ adPc' = [adPc EXCEPT ![r] = "done"]
    /\ UNCHANGED <<adCap, adUnit, adTicket>>

AdProgress(r) ==
    \/ AdEnqueue(r) \/ AdJoinSlots(r) \/ AdTakeSlot(r) \/ AdAdmit(r) \/ AdTakeGate(r)
    \/ AdReleaseSlot(r) \/ AdLeaveGauge(r) \/ AdFinish(r)

AdNext == \E r \in AdRequest : AdHostAdmission(r) \/ AdProgress(r) \/ AdCancel(r)

\* The runtime polls every handler that can move, and compilers exit.
AdFairness == WF_adVars(\E r \in AdRequest : AdProgress(r))

AdSpec == AdInit /\ [][AdNext]_adVars /\ AdFairness

-----------------------------------------------------------------------------
(* Properties *)

AdWorking(r) == adPc[r] \in {"running", "released", "posting"}

\* An exclusive unit compiles and publishes alone: the publication of another
\* request cannot overlap it although its compiler slot is free again.
AdExclusiveAlone ==
    \A r, s \in AdRequest : r # s /\ AdWorking(r) /\ AdWorking(s) =>
        ~AdExclusive(r) /\ ~AdExclusive(s)

AdPosition(r) ==
    IF adTicket[r] > adGauge.admitted THEN adTicket[r] - adGauge.admitted ELSE 0

\* Requests with an earlier ticket that are still before their admission.
AdAhead(r) ==
    {s \in AdRequest : /\ adPc[s] \in {"ticketed", "slotwait", "granted"}
                       /\ adTicket[s] < adTicket[r]}

\* A heartbeat never reports more requests ahead than there are: a queue behind
\* a waiter that gave up keeps shrinking.
AdPositionNotAbove ==
    \A r \in AdRequest : adPc[r] = "slotwait" => AdPosition(r) <= Cardinality(AdAhead(r))

\* Every request that arrived gets through both layers: no permit is waited for
\* by the requests that hold it, and none is lost with a client.
AdQuiesces == []<>(\A r \in AdRequest : adPc[r] \in {"idle", "done"})
=============================================================================
