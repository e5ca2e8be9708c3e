----------------------------- MODULE MCFileCaches -----------------------------
(***************************************************************************)
(* The caches of what files contain: the metadata cache (FsCache), the     *)
(* daemon's fingerprints (FingerprintWatch) and the fingerprint files of   *)
(* the command line (FingerprintCycle), each hashing files on its own.  A  *)
(* behaviour is of one of four kinds, chosen initially: lookups by two     *)
(* threads at once; one lookup at a time, with restarts, rescans and every *)
(* size of mtime step; a fingerprint watch; cycles on a fingerprint file.  *)
(***************************************************************************)
EXTENDS FsCache, FingerprintWatch, FingerprintCycle, TLC

CONSTANTS f1, f2, c1, c2

\* Two cycles at once on one input, with and without a lock timeout; check and
\* mark as separate processes, with inputs that come, go and move.
MCFcLoad(kind, cycles, names, writes, calls, timeouts, cli) ==
    [kind |-> kind, cycles |-> cycles, names |-> names, edits |-> writes, calls |-> calls,
     timeouts |-> timeouts, cli |-> cli, skipMarks |-> kind = "two_layer" /\ ~cli]
MCFcLoads ==
    UNION {{MCFcLoad(kind, {c1, c2}, {f1}, 1, 3, 0, FALSE),
            MCFcLoad(kind, {c1, c2}, {f1}, 1, 2, 1, FALSE),
            MCFcLoad(kind, {c1}, {f1, f2}, 2, 2, 0, TRUE)} : kind \in {"two_layer", "hash"}}

VARIABLE focus

MCInit ==
    /\ focus \in {"threads", "restarts", "fingerprint", "cycle"}
    /\ Init /\ FwInit /\ FcInit
    /\ focus # "fingerprint" => \A f \in FwFile : fwDisk[f].here
    /\ focus # "cycle" => fcLoad.kind = "hash" /\ fcLoad.cli

Threads ==
    /\ focus = "threads" /\ Next /\ UNCHANGED <<focus, fwVars, fcVars>>
    /\ rescan' = None /\ saving' = None /\ restarts' = 0
    /\ \A p \in Path : mtime'[p] % 2 = 0

Restarts ==
    /\ focus = "restarts" /\ Next /\ UNCHANGED <<focus, fwVars, fcVars>>
    /\ Cardinality({t \in Thread : pc'[t] # "idle"}) <= 1

Fingerprint == focus = "fingerprint" /\ FwNext /\ UNCHANGED <<focus, vars, fcVars>>

Cycle == focus = "cycle" /\ FcNext /\ UNCHANGED <<focus, vars, fwVars>>

MCNext == Threads \/ Restarts \/ Fingerprint \/ Cycle

MCSpec == MCInit /\ [][MCNext]_<<focus, vars, fwVars, fcVars>>

ThreadSymmetry == Permutations(Thread)

\* Type correctness of the three: the metadata cache (metadata.rs), the
\* daemon's fingerprint watch (fingerprint/mod.rs), the fingerprint files
\* (persist.rs).
TypesOK == TypeOK /\ FwTypeOK /\ FcTypeOK
=============================================================================
