--------------------------- MODULE DaemonOwnership ---------------------------
(***************************************************************************)
(* Who is the daemon of an endpoint: daemons that start, serve and leave   *)
(* (entry.rs, startup_lockfile.rs, lock_file_guard.rs,                     *)
(* cache_root_lock.rs), and the clients that look for one, replace one     *)
(* that does not answer, spawn one, or stop it (cli/runtime/mod.rs,        *)
(* wrap/ipc.rs, cmd_stop).  They share files only: the socket, the lock    *)
(* file with a PID, the identity sidecar, the writer lock of the cache     *)
(* root, the spawn slot and the breaker.  Daemons are numbered in the      *)
(* order of their spawns; no PID is used twice.  A file's existence or     *)
(* content may change between any two system calls of a process.           *)
(***************************************************************************)
EXTENDS Naturals

CONSTANTS
    OwClient,       \* processes of the command line
    OwLoads,        \* what each of them does, and the daemon they find
    OwMaxDaemons,   \* daemons that are ever started
    OwNone

OwDaemon == 1..OwMaxDaemons
OwTorn == 0         \* a lock file that holds no PID

ASSUME OwAssumption ==
    /\ OwMaxDaemons \in Nat \ {0} /\ OwNone \notin Nat
    /\ \A load \in OwLoads :
         /\ load.unix \in BOOLEAN
         /\ load.job \in [OwClient -> {"compile", "stop", "none"}]
         /\ load.first \in {"unborn", "serving", "dead"} /\ load.older \in BOOLEAN
         /\ load.retry \in BOOLEAN /\ load.faults \in Nat

VARIABLES
    owUnix,         \* the endpoint is a socket file, else a named pipe
    owOlder,        \* the first daemon's version is older than the clients'
    owJob,          \* client -> what it was started for
    owDaemon,       \* daemon -> where its main function is
    owSock,         \* whose listener the endpoint leads to
    owLock,         \* the PID in the lock file
    owIdent,        \* the daemon the identity sidecar describes
    owRoot,         \* holder of the cache root's writer lock
    owSlot,         \* the spawn slot file exists
    owBreaker,      \* the breaker marker exists
    owClient,       \* client -> its progress
    owFaults        \* failures to come: of file operations, daemons, clients

owFiles == <<owSock, owLock, owIdent, owSlot, owBreaker>>
owConf == <<owUnix, owOlder, owJob>>
owVars == <<owConf, owDaemon, owSock, owLock, owIdent, owRoot, owSlot, owBreaker,
            owClient, owFaults>>

OwStarting == {"probe", "connect", "retire", "bind", "root", "record"}
OwBound == {"root", "record", "refused", "unlink", "giveup", "ident", "serving",
            "draining", "released", "failed", "exiting"}

\* Where the ladder of ensure_daemon can be given up: at an await, or when its
\* next call fails.  What it does between two awaits it does to the end.
OwAwaitPcs == {"ask", "check", "retry", "ping", "gate", "shutdown", "drain", "kill",
               "forget", "slot", "spawn", "wait"}
OwLadderPcs == OwAwaitPcs \cup {"unlock", "retire", "clear", "reclaim", "slotagain", "lineage"}

\* Type correctness of the records of entry.rs and runtime/mod.rs: what a process
\* has noted as an instance is a daemon or nobody, never a PID that was not read.
OwTypeOK ==
    /\ owUnix \in BOOLEAN /\ owOlder \in BOOLEAN /\ owSlot \in BOOLEAN /\ owBreaker \in BOOLEAN
    /\ owJob \in [OwClient -> {"compile", "stop", "none"}]
    /\ owDaemon \in [OwDaemon -> {"unborn", "dead"} \cup OwStarting \cup OwBound]
    /\ owSock \in OwDaemon \cup {OwNone} /\ owIdent \in OwDaemon \cup {OwNone}
    /\ owLock \in OwDaemon \cup {OwNone, OwTorn}
    /\ owRoot \in OwDaemon \cup {OwNone}
    /\ owClient \in [OwClient ->
         [pc : {"idle", "ensure", "ready", "request", "stale", "end"} \cup OwLadderPcs,
          served : OwDaemon \cup {OwNone}, seen : OwDaemon \cup {OwNone},
          exch : OwDaemon \cup {OwNone},
          wedged : BOOLEAN, last : BOOLEAN, holds : BOOLEAN, took : BOOLEAN,
          retried : BOOLEAN, back : {"check", "retry", "slot", "wait", "ready", "stale"}]]
    /\ owFaults \in Nat

OwIdle ==
    [pc |-> "idle", served |-> OwNone, seen |-> OwNone, exch |-> OwNone,
     wedged |-> FALSE, last |-> FALSE, holds |-> FALSE, took |-> FALSE, retried |-> FALSE,
     back |-> "check"]

\* Of a client that has exited nothing matters any more.
OwEnded == [OwIdle EXCEPT !.pc = "end"]

\* Nobody has started anything, a daemon serves, or one died and left its files.
OwInitLoad(load) ==
    LET left == IF load.first = "unborn" THEN OwNone ELSE 1 IN
    /\ owUnix = load.unix /\ owOlder = load.older /\ owJob = load.job
    /\ owDaemon = [d \in OwDaemon |-> IF d = 1 THEN load.first ELSE "unborn"]
    /\ owSock = left /\ owLock = left /\ owIdent = left
    /\ owRoot = IF load.first = "serving" THEN 1 ELSE OwNone
    /\ owSlot = FALSE /\ owBreaker = FALSE
    /\ owClient = [c \in OwClient |-> [OwIdle EXCEPT !.retried = ~load.retry]]
    /\ owFaults = load.faults

OwInit == \E load \in OwLoads : OwInitLoad(load)

OwAlive(d) == owDaemon[d] \notin {"unborn", "dead"}

\* A connect succeeds as soon as the listener is bound, before the daemon serves
\* and after it has stopped accepting.
OwListening == owSock # OwNone /\ owDaemon[owSock] \in OwBound
OwServing == OwListening /\ owDaemon[owSock] = "serving"

OwOlder == owOlder /\ owSock = 1

OwFault == owFaults > 0 /\ owFaults' = owFaults - 1

-----------------------------------------------------------------------------
(* A daemon, from its spawn to its exit.                                   *)

OwTo(d, pc) == owDaemon' = [owDaemon EXCEPT ![d] = pc]

\* probe_existing_daemon, first half: the lock names another daemon, and the
\* sidecar describes it and it is alive.
OwProbeRecord(d) ==
    /\ owDaemon[d] = "probe"
    /\ LET found == /\ owLock \in OwDaemon /\ owLock # d
                    /\ owIdent = owLock /\ OwAlive(owLock)
       IN OwTo(d, IF found THEN "connect" ELSE "retire")
    /\ UNCHANGED <<owConf, owFiles, owRoot, owClient, owFaults>>

\* Second half: the endpoint accepts, and this daemon defers to the other; a
\* connect that fails or takes longer than 500 ms counts as nobody.
OwProbeConnect(d) ==
    /\ owDaemon[d] = "connect"
    /\ \/ OwListening /\ OwTo(d, "dead")
       \/ OwTo(d, "retire")
    /\ UNCHANGED <<owConf, owFiles, owRoot, owClient, owFaults>>

\* Listener::bind starts by unlinking the socket file, whoever listens on it.
OwBindRetire(d) ==
    /\ owDaemon[d] = "retire"
    /\ owSock' = IF owUnix THEN OwNone ELSE owSock
    /\ OwTo(d, "bind")
    /\ UNCHANGED <<owConf, owLock, owIdent, owRoot, owSlot, owBreaker, owClient, owFaults>>

\* The bind: a socket file that is there again, or a pipe somebody serves, means
\* that another daemon owns the endpoint, and this one exits.
OwBind(d) ==
    /\ owDaemon[d] = "bind"
    /\ IF IF owUnix THEN owSock # OwNone ELSE OwListening
       THEN OwTo(d, "dead") /\ UNCHANGED owSock
       ELSE OwTo(d, "root") /\ owSock' = d
    /\ UNCHANGED <<owConf, owLock, owIdent, owRoot, owSlot, owBreaker, owClient, owFaults>>

\* Mutant (#1905): a daemon that loses the cache root removes the lock file too.
OwLockRootUnguarded(d) ==
    /\ owDaemon[d] = "root"
    /\ IF owRoot = OwNone THEN owRoot' = d /\ OwTo(d, "record") /\ UNCHANGED owLock
                          ELSE OwTo(d, "dead") /\ owLock' = OwNone /\ UNCHANGED owRoot
    /\ UNCHANGED <<owConf, owSock, owIdent, owSlot, owBreaker, owClient, owFaults>>

\* CacheRootWriterLock::acquire.  A contended root is a failed bind: the guard
\* has not written a lock file, so it removes none.
OwLockRoot(d) ==
    /\ owDaemon[d] = "root"
    /\ IF owRoot = OwNone THEN owRoot' = d /\ OwTo(d, "record")
                          ELSE OwTo(d, "dead") /\ UNCHANGED owRoot
    /\ UNCHANGED <<owConf, owFiles, owClient, owFaults>>

\* record_ownership: the write fails before it touches the file, or after it
\* has truncated it.
OwRecord(d) ==
    /\ owDaemon[d] = "record"
    /\ \/ owLock' = d /\ OwTo(d, "ident") /\ UNCHANGED owFaults
       \/ owLock' \in {owLock, OwTorn} /\ OwTo(d, "refused") /\ OwFault
    /\ UNCHANGED <<owConf, owSock, owIdent, owRoot, owSlot, owBreaker, owClient>>

\* A daemon without a record refuses to serve.  It removes a lock file only when
\* that holds no PID, and retires the endpoint it has bound.
OwRefuseRead(d) ==
    /\ owDaemon[d] = "refused"
    /\ OwTo(d, IF owLock \in OwDaemon THEN "giveup" ELSE "unlink")
    /\ UNCHANGED <<owConf, owFiles, owRoot, owClient, owFaults>>

OwRefuseUnlink(d) ==
    /\ owDaemon[d] = "unlink"
    /\ owLock' = OwNone /\ OwTo(d, "giveup")
    /\ UNCHANGED <<owConf, owSock, owIdent, owRoot, owSlot, owBreaker, owClient, owFaults>>

OwRefuseExit(d) ==
    /\ owDaemon[d] = "giveup"
    /\ owSock' = IF owUnix THEN OwNone ELSE owSock
    /\ OwTo(d, "dead") /\ owRoot' = OwNone
    /\ UNCHANGED <<owConf, owLock, owIdent, owSlot, owBreaker, owClient, owFaults>>

\* write_backend_identity_for; a failure is logged and the daemon serves.
OwWriteIdentity(d) ==
    /\ owDaemon[d] = "ident"
    /\ \/ owIdent' = d /\ UNCHANGED owFaults
       \/ OwFault /\ UNCHANGED owIdent
    /\ OwTo(d, "serving")
    /\ UNCHANGED <<owConf, owSock, owLock, owRoot, owSlot, owBreaker, owClient>>

\* A signal or the idle timeout, or an accept that fails for good.
OwLeave(d) ==
    /\ owDaemon[d] = "serving"
    /\ OwFault
    /\ \E pc \in {"draining", "failed"} : OwTo(d, pc)
    /\ UNCHANGED <<owConf, owFiles, owRoot, owClient>>

\* The end of run: durable state is saved and the cache root is released.
OwDrained(d) ==
    /\ owDaemon[d] = "draining"
    /\ owRoot' = OwNone /\ OwTo(d, "released")
    /\ UNCHANGED <<owConf, owFiles, owClient, owFaults>>

\* LockFileGuard::remove_if_owned after the record was written: it removes the
\* file at its path.
OwRemoveIfOwned(d) ==
    /\ owDaemon[d] \in {"released", "failed"}
    /\ owLock' = OwNone /\ OwTo(d, "exiting")
    /\ UNCHANGED <<owConf, owSock, owIdent, owRoot, owSlot, owBreaker, owClient, owFaults>>

OwExit(d) ==
    /\ \/ owDaemon[d] = "exiting" /\ UNCHANGED owFaults
       \/ OwAlive(d) /\ OwFault                             \* a crash
    /\ OwTo(d, "dead")
    /\ owRoot' = IF owRoot = d THEN OwNone ELSE owRoot
    /\ UNCHANGED <<owConf, owFiles, owClient>>

OwDaemonStep(d) ==
    \/ OwProbeRecord(d) \/ OwProbeConnect(d) \/ OwBindRetire(d) \/ OwBind(d)
    \/ OwLockRoot(d) \/ OwRecord(d)
    \/ OwRefuseRead(d) \/ OwRefuseUnlink(d) \/ OwRefuseExit(d)
    \/ OwWriteIdentity(d) \/ OwLeave(d) \/ OwDrained(d) \/ OwRemoveIfOwned(d) \/ OwExit(d)

-----------------------------------------------------------------------------
(* A client: cmd_compile_ephemeral around ensure_daemon, and cmd_stop.     *)

OwAt(c, pc) == owClient[c].pc = pc
OwSet(c, r) == owClient' = [owClient EXCEPT ![c] = r]
OwGo(c, pc) == OwSet(c, IF pc = "end" THEN OwEnded ELSE [owClient[c] EXCEPT !.pc = pc])

\* The instance a stop is about: the one named before the failed exchange.
OwExpected(c) == IF owClient[c].wedged THEN owClient[c].served ELSE owClient[c].seen

\* What follows a stop: the ladder spawns, a wedged request or a stop ends.
OwAfterStop(c) == IF owClient[c].wedged \/ owJob[c] = "stop" THEN "end" ELSE "slot"

\* The guard of the spawn slot is dropped: the file at its path is removed.
OwDropSlot(c) == owSlot' = IF owClient[c].holds THEN FALSE ELSE owSlot

\* A failure before the dispatch: link_with_retry makes one more attempt, unless
\* ZCCACHE_DISABLE_LINK_RETRY forbids it.
OwAttemptFailed(c) ==
    OwSet(c, IF owClient[c].retried THEN OwEnded
             ELSE [OwIdle EXCEPT !.pc = "ensure", !.served = owClient[c].served,
                                 !.retried = TRUE])

\* current_daemon_instance, before anything else.
OwBegin(c) ==
    /\ OwAt(c, "idle") /\ owJob[c] = "compile"
    /\ OwSet(c, [owClient[c] EXCEPT !.pc = "ensure", !.served = owIdent])
    /\ UNCHANGED <<owConf, owDaemon, owFiles, owRoot, owFaults>>

\* ensure_daemon: an open breaker fails at once; otherwise, or when its
\* cool-down is over, the ladder names the instance it is about to ask.
OwEnsure(c) ==
    /\ OwAt(c, "ensure")
    /\ \/ owBreaker /\ OwAttemptFailed(c)
       \/ OwSet(c, [owClient[c] EXCEPT !.pc = "ask", !.seen = owIdent, !.back = "check"])
    /\ UNCHANGED <<owConf, owDaemon, owFiles, owRoot, owFaults>>

\* The ladder has succeeded: the breaker is cleared.
OwReady(c) ==
    /\ OwAt(c, "ready")
    /\ owBreaker' = FALSE /\ OwGo(c, "request")
    /\ UNCHANGED <<owConf, owDaemon, owSock, owLock, owIdent, owSlot, owRoot, owFaults>>

\* check_daemon_version.  An older daemon is replaced; a status that does not
\* come in time is no verdict yet; a connection refused or closed is nobody.
OwAsk(c) ==
    /\ OwAt(c, "ask")
    /\ \/ OwServing /\ ~OwOlder /\ OwGo(c, "ready")
       \/ /\ OwListening
          /\ OwSet(c, [owClient[c] EXCEPT !.exch = owSock,
                          !.pc = IF OwServing /\ OwOlder THEN "gate" ELSE "ping"])
       \/ ~OwServing /\ OwGo(c, owClient[c].back)
    /\ UNCHANGED <<owConf, owDaemon, owFiles, owRoot, owFaults>>

\* probe_daemon_responsive: an answer means a busy daemon, which is left alone.
OwPing(c) ==
    /\ OwAt(c, "ping")
    /\ \/ /\ OwServing
          /\ OwGo(c, IF owClient[c].wedged THEN "end"
                     ELSE IF owClient[c].back = "retry" THEN "retry" ELSE "ready")
       \/ OwGo(c, "gate")
    /\ UNCHANGED <<owConf, owDaemon, owFiles, owRoot, owFaults>>

\* check_running_daemon_for, the read: nobody, a live PID, or a dead one whose
\* lock and endpoint are cleaned up before the caller goes on.
OwLookUp(c, nobody, live, cleaned) ==
    IF owLock \notin OwDaemon THEN OwSet(c, nobody)
    ELSE IF OwAlive(owLock) THEN OwSet(c, live)
    ELSE OwSet(c, [cleaned EXCEPT !.pc = "unlock"])

OwCheck(c) ==
    /\ OwAt(c, "check")
    /\ LET r == owClient[c] IN
       OwLookUp(c, [r EXCEPT !.pc = "slot"], [r EXCEPT !.pc = "retry"], [r EXCEPT !.back = "slot"])
    /\ UNCHANGED <<owConf, owDaemon, owFiles, owRoot, owFaults>>

OwUnlock(c) ==
    /\ OwAt(c, "unlock")
    /\ owLock' = OwNone /\ OwGo(c, "retire")
    /\ UNCHANGED <<owConf, owDaemon, owSock, owIdent, owRoot, owSlot, owBreaker, owFaults>>

\* A waiting client that has seen a daemon takes the dead PID for its end.
OwRetire(c) ==
    /\ OwAt(c, "retire")
    /\ owSock' = IF owUnix THEN OwNone ELSE owSock
    /\ IF owClient[c].back = "wait" /\ owClient[c].last
       THEN OwAttemptFailed(c) /\ OwDropSlot(c) /\ owBreaker' = TRUE
       ELSE OwGo(c, owClient[c].back) /\ UNCHANGED <<owSlot, owBreaker>>
    /\ UNCHANGED <<owConf, owDaemon, owLock, owIdent, owRoot, owFaults>>

\* A live PID that does not answer yet is asked again, by the name it has now.
OwRetry(c) ==
    /\ OwAt(c, "retry")
    /\ OwSet(c, [owClient[c] EXCEPT !.pc = "ask", !.seen = owIdent, !.back = "retry"])
    /\ UNCHANGED <<owConf, owDaemon, owFiles, owRoot, owFaults>>

\* stop_daemon_instance: the sidecar must still name the expected instance.
OwGate(c) ==
    /\ OwAt(c, "gate")
    /\ LET same == OwExpected(c) # OwNone /\ owIdent = OwExpected(c)
       IN OwGo(c, IF same THEN "shutdown" ELSE OwAfterStop(c))
    /\ UNCHANGED <<owConf, owDaemon, owFiles, owRoot, owFaults>>

\* The Shutdown request goes to the endpoint, to whoever serves it now.
OwShutdown(c) ==
    /\ OwAt(c, "shutdown")
    /\ owDaemon' = IF OwServing THEN [owDaemon EXCEPT ![owSock] = "draining"] ELSE owDaemon
    /\ OwGo(c, "drain")
    /\ UNCHANGED <<owConf, owFiles, owRoot, owFaults>>

\* wait_for_process_exit: the instance is gone, or its budget has passed.
OwDrain(c) ==
    /\ OwAt(c, "drain")
    /\ OwGo(c, IF OwAlive(OwExpected(c)) THEN "kill" ELSE "forget")
    /\ UNCHANGED <<owConf, owDaemon, owFiles, owRoot, owFaults>>

\* Mutant (#1161): whoever the sidecar names at the time is killed.
OwKillCurrent(c) ==
    LET d == IF owIdent = OwNone THEN OwExpected(c) ELSE owIdent IN
    /\ OwAt(c, "kill")
    /\ owDaemon' = [owDaemon EXCEPT ![d] = "dead"]
    /\ owRoot' = IF owRoot = d THEN OwNone ELSE owRoot
    /\ OwGo(c, "forget")
    /\ UNCHANGED <<owConf, owFiles, owFaults>>

\* force_kill_verified_daemon_for: the sidecar is read again and must name the
\* expected PID and a live process; its exit may not be confirmed in time.
OwKill(c) ==
    LET d == OwExpected(c) IN
    /\ OwAt(c, "kill")
    /\ IF owIdent = d /\ OwAlive(d)
       THEN /\ owDaemon' = [owDaemon EXCEPT ![d] = "dead"]
            /\ owRoot' = IF owRoot = d THEN OwNone ELSE owRoot
            /\ \E pc \in {"forget", OwAfterStop(c)} : OwGo(c, pc)
       ELSE OwGo(c, OwAfterStop(c)) /\ UNCHANGED <<owDaemon, owRoot>>
    /\ UNCHANGED <<owConf, owFiles, owFaults>>

\* The dead instance's lock, then its spawn slot and its sidecar, by path.
OwForget(c) ==
    /\ OwAt(c, "forget")
    /\ owLock' = OwNone
    /\ OwGo(c, IF owJob[c] = "stop" THEN "end" ELSE "clear")
    /\ UNCHANGED <<owConf, owDaemon, owSock, owIdent, owRoot, owSlot, owBreaker, owFaults>>

OwClear(c) ==
    /\ OwAt(c, "clear")
    /\ owSlot' = FALSE /\ owIdent' = OwNone
    /\ IF OwAfterStop(c) = "end" THEN OwGo(c, "end")
       ELSE OwSet(c, [owClient[c] EXCEPT !.pc = "slot", !.took = TRUE])
    /\ UNCHANGED <<owConf, owDaemon, owSock, owLock, owRoot, owBreaker, owFaults>>

\* acquire_spawn_slot: the file is created, somebody else's is respected or,
\* after 20 s, taken for abandoned; where it cannot be created at all the client
\* spawns without it.
OwSlot(c) ==
    /\ OwAt(c, "slot") \/ OwAt(c, "slotagain")
    /\ \/ /\ ~owSlot /\ owSlot' = TRUE /\ UNCHANGED owFaults
          /\ OwSet(c, [owClient[c] EXCEPT !.pc = "spawn", !.holds = TRUE, !.last = FALSE])
       \/ /\ owSlot /\ UNCHANGED <<owSlot, owFaults>>
          /\ \/ OwSet(c, [owClient[c] EXCEPT !.pc = "wait", !.last = FALSE])
             \/ OwAt(c, "slot") /\ OwGo(c, "reclaim")
       \/ /\ OwFault /\ UNCHANGED owSlot
          /\ OwSet(c, [owClient[c] EXCEPT !.pc = "spawn", !.last = FALSE])
    /\ UNCHANGED <<owConf, owDaemon, owSock, owLock, owIdent, owBreaker, owRoot>>

OwReclaim(c) ==
    /\ OwAt(c, "reclaim")
    /\ owSlot' = FALSE /\ OwGo(c, "slotagain")
    /\ UNCHANGED <<owConf, owDaemon, owSock, owLock, owIdent, owBreaker, owRoot, owFaults>>

\* spawn_daemon: the next daemon starts.
OwSpawn(c) ==
    /\ OwAt(c, "spawn")
    /\ \E d \in OwDaemon :
         /\ owDaemon[d] = "unborn" /\ \A e \in OwDaemon : e < d => owDaemon[e] # "unborn"
         /\ OwTo(d, "probe")
    /\ OwGo(c, "wait")
    /\ UNCHANGED <<owConf, owFiles, owRoot, owFaults>>

\* wait_for_daemon_ready: a connect is enough; otherwise the lock file says
\* whether a daemon is on its way, was and is gone, or never was.
OwWait(c) ==
    /\ OwAt(c, "wait")
    /\ \/ /\ OwListening /\ OwDropSlot(c)
          /\ OwSet(c, [owClient[c] EXCEPT !.pc = IF owClient[c].took THEN "lineage" ELSE "ready",
                                          !.holds = FALSE, !.back = "ready"])
       \/ /\ ~OwListening /\ (owLock \in OwDaemon \/ ~owClient[c].last)
          /\ LET r == owClient[c] IN
             OwLookUp(c, r, [r EXCEPT !.last = TRUE], [r EXCEPT !.back = "wait"])
          /\ UNCHANGED owSlot
    /\ UNCHANGED <<owConf, owDaemon, owSock, owLock, owIdent, owBreaker, owRoot, owFaults>>

\* After a takeover the new daemon's PID is looked up for the lifecycle log.
OwLineage(c) ==
    /\ OwAt(c, "lineage")
    /\ LET r == [owClient[c] EXCEPT !.pc = "ready"] IN OwLookUp(c, r, r, r)
    /\ UNCHANGED <<owConf, owDaemon, owFiles, owRoot, owFaults>>

\* The ladder fails: a budget is spent, the retries are, or the daemon waited
\* for is gone.  The slot's guard is dropped and the breaker opens.
OwFail(c) ==
    /\ owClient[c].pc \in OwAwaitPcs /\ ~owClient[c].wedged /\ owJob[c] = "compile"
    /\ OwAttemptFailed(c) /\ OwDropSlot(c) /\ owBreaker' = TRUE
    /\ UNCHANGED <<owConf, owDaemon, owSock, owLock, owIdent, owRoot, owFaults>>

\* run_ephemeral_attempt after ensure_daemon.  An answer or a lost connection,
\* which is not tried again, a wedge, or no connection at all.
OwRequest(c) ==
    /\ OwAt(c, "request")
    /\ \/ OwListening /\ OwGo(c, "end")
       \/ /\ OwListening
          /\ OwSet(c, [owClient[c] EXCEPT !.pc = "ping", !.exch = owSock, !.wedged = TRUE])
       \/ ~OwListening /\ OwAttemptFailed(c)
    /\ UNCHANGED <<owConf, owDaemon, owFiles, owRoot, owFaults>>

\* cmd_stop: a daemon that answers drains; one that cannot be reached is killed
\* when its lock names a live PID.
OwStop(c) ==
    /\ OwAt(c, "idle") /\ owJob[c] = "stop"
    /\ \/ /\ OwServing
          /\ owDaemon' = [owDaemon EXCEPT ![owSock] = "draining"]
          /\ OwGo(c, "end")
       \/ OwListening /\ OwGo(c, "end") /\ UNCHANGED owDaemon
       \/ /\ ~OwListening /\ UNCHANGED owDaemon
          /\ LET r == owClient[c] IN
             OwLookUp(c, [r EXCEPT !.pc = "stale"], [r EXCEPT !.pc = "kill", !.seen = owLock],
                      [r EXCEPT !.back = "stale"])
    /\ UNCHANGED <<owConf, owFiles, owRoot, owFaults>>

\* A PID that is in the lock file after all is taken for a stale one.
OwStopStale(c) ==
    /\ OwAt(c, "stale")
    /\ owLock' = IF owLock \in OwDaemon THEN OwNone ELSE owLock
    /\ OwGo(c, "end")
    /\ UNCHANGED <<owConf, owDaemon, owSock, owIdent, owRoot, owSlot, owBreaker, owFaults>>

\* The build kills the wrapper: nothing is dropped.
OwVanish(c) ==
    /\ owClient[c].pc \notin {"idle", "end"}
    /\ OwFault /\ OwGo(c, "end")
    /\ UNCHANGED <<owConf, owDaemon, owFiles, owRoot>>

OwClientStep(c) ==
    \/ OwBegin(c) \/ OwEnsure(c) \/ OwReady(c) \/ OwAsk(c) \/ OwPing(c) \/ OwCheck(c) \/ OwUnlock(c)
    \/ OwRetire(c) \/ OwRetry(c) \/ OwGate(c) \/ OwShutdown(c) \/ OwDrain(c) \/ OwKill(c)
    \/ OwForget(c) \/ OwClear(c) \/ OwSlot(c) \/ OwReclaim(c) \/ OwSpawn(c) \/ OwWait(c)
    \/ OwLineage(c) \/ OwFail(c) \/ OwRequest(c) \/ OwStop(c) \/ OwStopStale(c) \/ OwVanish(c)

\* The build is over: every client has ended, and a daemon there is serves on.
OwRest ==
    /\ \A c \in OwClient : OwAt(c, "end") \/ owJob[c] = "none"
    /\ \A d \in OwDaemon : owDaemon[d] \in {"unborn", "dead", "serving"}
    /\ UNCHANGED owVars

OwNext ==
    \/ \E d \in OwDaemon : OwDaemonStep(d)
    \/ \E c \in OwClient : OwClientStep(c)
    \/ OwRest

OwSpec == OwInit /\ [][OwNext]_owVars

-----------------------------------------------------------------------------
\* Part of OwOthersSpared: on a named pipe, the daemon a recovering client kills
\* by force is the one its own exchange failed with.
OwVictimFailed ==
    \A c \in OwClient :
        OwAt(c, "kill") /\ owClient'[c].pc # "kill" /\ owJob[c] = "compile" /\ ~owUnix =>
            \A d \in OwDaemon :
                OwAlive(d) /\ owDaemon'[d] = "dead" => d = owClient[c].exch

\* Part of OwOthersSpared: a daemon takes away the record of another live daemon
\* only after it has written one of its own.
OwLoserSpares ==
    owLock' = OwNone /\ owLock \in OwDaemon /\ OwAlive(owLock) =>
        \A d \in OwDaemon \ {owLock} :
            owDaemon'[d] # owDaemon[d] => owDaemon[d] \in {"released", "failed"}

\* One process's failure does not become another daemon's: a client that timed
\* out kills the instance that failed it and never the replacement another
\* client has spawned since (stop_daemon_instance, runtime/mod.rs; on a Unix
\* socket the endpoint can move away from a live daemon and this does not hold),
\* and a daemon that loses the race for the endpoint or the cache root leaves
\* the winner's lock file alone (LockFileGuard, lock_file_guard.rs).
OwOthersSpared == [][OwVictimFailed /\ OwLoserSpares]_owVars
=============================================================================
