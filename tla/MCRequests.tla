------------------------------ MODULE MCRequests ------------------------------
(***************************************************************************)
(* What requests share: tool runs (ExecCoalescing), compiler slots         *)
(* (CompilerAdmission) and the disk (DiskMaintenance).  They share no      *)
(* state with each other, so a behaviour is one of one module, chosen      *)
(* initially; the others rest, with no request in them.                    *)
(***************************************************************************)
EXTENDS ExecCoalescing, CompilerAdmission, DiskMaintenance, TLC

CONSTANTS q1, q2, q3, k1, k2, k3

\* Two requests that may store, and one that may only look or not even that;
\* with three of them the files stay as they are.
MCPolicies == q1 :> {"Normal"} @@ q2 :> {"Normal"} @@ q3 :> {"ReadOnly", "Bypass"}
MCExLoads == {[arrive |-> {q1, q2, q3}, edits |-> 0],
              [arrive |-> {q1, q2}, edits |-> 1]}

\* A shared unit, an exclusive one, and one that the host refuses.
MCUnit(family, known, nonLinking, host) ==
    [family |-> family, known |-> known, nonLinking |-> nonLinking, large |-> FALSE, host |-> host]
MCUnits == {MCUnit("Gcc", FALSE, TRUE, "absent"), MCUnit("Rustc", TRUE, TRUE, "absent"),
            MCUnit("Rustc", TRUE, FALSE, "error")}

\* One slot, two slots, no cap.
MCHost(override, value, ci, cpus) ==
    [override |-> override, value |-> value, is_ci |-> ci, num_cpus |-> cpus]
MCHosts == {MCHost("unset", 1, FALSE, 2), MCHost("explicit", 2, TRUE, 8),
            MCHost("unlimited", 1, FALSE, 8)}

\* Usage above the budget, too little free space, and both.
MCAlloc == k1 :> 12 @@ k2 :> 10 @@ k3 :> 8
MCAges(a, b, c) == k1 :> a @@ k2 :> b @@ k3 :> c
MCDmLoads == {
    [ages |-> MCAges(2, 1, 0), shared |-> {k1}, other |-> 100, retired |-> 6, pending |-> 5,
     budget |-> [spec |-> "Bytes", value |-> 30]],
    [ages |-> MCAges(3, 2, 1), shared |-> {}, other |-> 925, retired |-> 0, pending |-> 0,
     budget |-> [spec |-> "Dynamic", value |-> 0]],
    [ages |-> MCAges(1, 1, 3), shared |-> {k2}, other |-> 965, retired |-> 6, pending |-> 0,
     budget |-> [spec |-> "Percent", value |-> 4]]}

VARIABLE focus

AnyOf(S) == CHOOSE x \in S : TRUE

MCInit ==
    /\ focus \in {"exec", "admission", "disk"}
    /\ ExInit /\ AdInit /\ DmInit
    /\ focus # "exec" => exLoad = AnyOf(ExLoads) /\ ~exDepfile
    /\ focus # "admission" => adCap = 0 /\ \A r \in AdRequest : adUnit[r] = AnyOf(AdUnit)
    /\ focus # "disk" => ~dmFullDue /\ dmBudget = AnyOf(DmLoads).budget

Exec == focus = "exec" /\ ExNext /\ UNCHANGED <<focus, adVars, dmVars>>
Admission == focus = "admission" /\ AdNext /\ UNCHANGED <<focus, exVars, dmVars>>
Disk == focus = "disk" /\ DmNext /\ UNCHANGED <<focus, exVars, adVars>>

MCNext == Exec \/ Admission \/ Disk

MCSpec ==
    /\ MCInit /\ [][MCNext]_<<focus, exVars, adVars, dmVars>>
    /\ ExFairness /\ AdFairness

\* Type correctness of the three: the coalesced tool runs, the compiler slots
\* and the disk maintenance.
TypesOK == ExTypeOK /\ AdTypeOK /\ DmTypeOK
=============================================================================
