---------------------------- MODULE MCDaemonState ----------------------------
(***************************************************************************)
(* What a daemon keeps: the change journal (ChangeJournal), the artifact   *)
(* files (StagedStore) and the index over them (ArtifactIndexLog).  The    *)
(* index sees of the files only that a published generation exists, the    *)
(* journal neither, so a behaviour is one of one module, chosen initially; *)
(* the others rest.                                                        *)
(***************************************************************************)
EXTENDS ChangeJournal, StagedStore, ArtifactIndexLog, TLC

CONSTANTS p1, p2, r1

\* Two publishers of one key; or a publisher, a reader and power failures.
MCLoads == {[publish |-> {p1, p2}, read |-> {}, power |-> FALSE],
            [publish |-> {p1}, read |-> {r1}, power |-> TRUE]}

VARIABLE focus

AnyOf(S) == CHOOSE x \in S : TRUE

MCInit ==
    /\ focus \in {"journal", "staged", "index"}
    /\ Init /\ StInit /\ IxInit
    /\ focus # "staged" => stLoad = AnyOf(StLoads)
    /\ focus # "index" => ixDisk = {} /\ \A p \in IxPublisher : ixPub[p].key = AnyOf(IxKey)

Journal == focus = "journal" /\ Next /\ UNCHANGED <<focus, stVars, ixVars>>
Staged == focus = "staged" /\ StNext /\ UNCHANGED <<focus, vars, ixVars>>
Index == focus = "index" /\ IxNext /\ UNCHANGED <<focus, vars, stVars>>

MCNext == Journal \/ Staged \/ Index

MCSpec == MCInit /\ [][MCNext]_<<focus, vars, stVars, ixVars>>

\* Type correctness of the three: the change journal (clock.rs), the
\* staged store (staged_store.rs), the artifact index and its log (wal.rs).
TypesOK == TypeOK /\ StTypeOK /\ IxTypeOK
=============================================================================
