------------------------------ MODULE MCServices ------------------------------
(***************************************************************************)
(* What runs beside the compiles: the way of an event into the cache, the  *)
(* rescan after an overflow, the registration of directories, and the      *)
(* daemons themselves with the clients that start and stop them.  They     *)
(* share no state, so a behaviour is one of one component, chosen          *)
(* initially: TLC explores the sum of the four and not their product.      *)
(***************************************************************************)
EXTENDS EventSettling, OverflowRecovery, WatchRegistration, DaemonOwnership, TLC

\* Two watched paths and one the filter ignores; one directory, spelled once,
\* that several calls want (the proofs cover batches of directories).
CONSTANTS w1, w2, skip, r1, d1, c1, c2

OneSpelling == r1 :> d1

\* A client that compiles, next to one that does `other`.
OwLoad(other, unix, first, faults, retry, older) ==
    [unix |-> unix, job |-> c1 :> "compile" @@ c2 :> other, first |-> first,
     older |-> older, retry |-> retry, faults |-> faults]

\* Two compiles: without failures, from every beginning; on a named pipe, also
\* with an older daemon, and after a crash with one more failure.  One compile
\* with two failures and a second attempt; a compile and a stop.
MCOwLoads ==
    LET Firsts == {"unborn", "serving", "dead"} IN
    {OwLoad("compile", u, f, 0, FALSE, FALSE) : u \in BOOLEAN, f \in Firsts}
    \cup {OwLoad("compile", FALSE, "serving", 0, FALSE, TRUE)}
    \cup {OwLoad("compile", FALSE, "dead", 1, FALSE, FALSE)}
    \cup {OwLoad("none", u, f, 2, TRUE, FALSE) : u \in BOOLEAN, f \in Firsts}
    \cup {OwLoad("stop", u, f, 1, FALSE, FALSE) : u \in BOOLEAN, f \in {"serving", "dead"}}

VARIABLE focus

AnyOf(S) == CHOOSE x \in S : TRUE

MCInit ==
    /\ focus \in {"settle", "recovery", "watch", "ownership"}
    /\ SeInit /\ RoInit /\ WrInit
    /\ \E load \in IF focus = "ownership" THEN OwLoads ELSE {AnyOf(OwLoads)} : OwInitLoad(load)
    /\ focus # "watch" => wrWatcher /\ wrExists = {}

Settle == focus = "settle" /\ SeNext /\ UNCHANGED <<focus, roVars, wrVars, owVars>>
Recovery == focus = "recovery" /\ RoNext /\ UNCHANGED <<focus, seVars, wrVars, owVars>>
Watch == focus = "watch" /\ WrNext /\ UNCHANGED <<focus, seVars, roVars, owVars>>
Ownership == focus = "ownership" /\ OwNext /\ UNCHANGED <<focus, seVars, roVars, wrVars>>

MCNext == Settle \/ Recovery \/ Watch \/ Ownership

MCSpec ==
    /\ MCInit
    /\ [][MCNext]_<<focus, seVars, roVars, wrVars, owVars>>
    /\ SeFairness /\ RoFairness /\ WrFairness

\* Type correctness of the four: the settle buffer, the recovery task, the
\* registration of directories, the daemons and their clients.
TypesOK == SeTypeOK /\ RoTypeOK /\ WrTypeOK /\ OwTypeOK
=============================================================================
