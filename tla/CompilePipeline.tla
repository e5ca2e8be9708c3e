--------------------------- MODULE CompilePipeline ---------------------------
(***************************************************************************)
(* How the daemon answers a compile request (zccache-daemon-core,          *)
(* daemon/server/handle_compile): the tiers of one compile context.        *)
(*                                                                         *)
(*   request cache    no stat, no hash: the journal says that nothing      *)
(*   fast-hit cache   changed since the tick of the last verified hit;     *)
(*   dep graph        hash the recorded inputs, compare the artifact key;  *)
(*   compile          run the compiler, scan, hash, record, store.         *)
(*                                                                         *)
(* The context has a source file and a header; whether the source includes *)
(* the header depends on the source's content.  Contents are numbered in   *)
(* the order they were written, so a larger number is a newer content.     *)
(* Both the artifact key and the object the compiler makes name the        *)
(* contents that went into them; an artifact is sound when the two agree.  *)
(*                                                                         *)
(* The file cache answers every lookup with the content the file has then  *)
(* (module FsCache), and the journal is its query interface (module        *)
(* ChangeJournal), each call one step.  Ticks of output files are left     *)
(* out: they only widen the gaps between the ticks of inputs.              *)
(***************************************************************************)
EXTENDS Naturals

CONSTANTS
    Request,        \* the connections that send compile requests
    FirstSource,    \* the contents the source may have at first: 0 includes
                    \* the header, 1 does not
    MaxEdits,       \* bound on the edits of source and header
    MaxOverflows,   \* bound on the watcher overflows and Clear requests
    QuietBuilds,    \* inputs are only edited while no request is under way
    InWorkingDir,   \* the inputs lie in the directory the session start watched
    LateArm,        \* the watcher failed at startup and is armed later
    Evictions,      \* contexts are evicted from the dep graph
    None

File == {"src", "hdr"}

VARIABLES
    \* the filesystem and the watcher
    content, edits,
    pending,        \* files with an event that was not applied yet
    watched,        \* the OS reports changes of the inputs' directory
    consumer,       \* the settle and consumer tasks: off, running, dead
    watcherActive,
    watchTask,      \* a background watch_directories is still to run
    \* the journal
    clock, lastChange, lastOverflow, overflows,
    \* the caches
    dep,            \* the context's entry in the dep graph, or None
    artifacts,      \* key -> object, as a set of pairs
    fastHit,        \* the FastHitEntry, or None
    requestCached,  \* request_cache knows the request
    \* the requests
    pc, req,
    \* ghosts
    settled         \* the newest content the daemon has been told of, or,
                    \* where nobody would tell it, the present one

world == <<content, edits, pending, watched, consumer, watcherActive, settled>>
journal == <<clock, lastChange, lastOverflow, overflows>>
caches == <<dep, artifacts, fastHit, requestCached>>
vars == <<world, watchTask, journal, caches, pc, req>>

Hashes == [File -> Nat \cup {None}]
Key == [src : Nat, hdr : Nat \cup {None}]
ContextEntry == [state : {"Cold", "Warm", "Stale"}, includes : SUBSET {"hdr"},
                 key : Key \cup {None}, hashes : Hashes]
FastHitEntry == [clock : Nat, key : Key]
Steps == {"idle", "request", "requestHit", "register", "fast", "fastHit", "cold",
          "hashSource", "hashHeaders", "fastKey", "check", "hit", "record", "miss",
          "compile", "compileHeader", "scan", "hash", "insert", "done"}

ASSUME PipelineConstants ==
    /\ FirstSource \subseteq {0, 1}
    /\ MaxEdits \in Nat /\ MaxOverflows \in Nat
    /\ QuietBuilds \in BOOLEAN /\ InWorkingDir \in BOOLEAN
    /\ LateArm \in BOOLEAN /\ Evictions \in BOOLEAN
    /\ None \notin Nat \cup Key \cup ContextEntry \cup FastHitEntry

\* The locals of one request: the clock snapped at its start, what `settled'
\* was then, the hashes it took, the includes it read, the key it looks up
\* or stores under, whether the verdict was Hit, the object it made or serves.
Req == [snap : Nat, floor : [File -> Nat], hashes : Hashes, includes : SUBSET {"hdr"},
        key : Key \cup {None}, hit : BOOLEAN, object : Key \cup {None}]

Nothing == [f \in File |-> None]
NoReq == [snap |-> 0, floor |-> [f \in File |-> 0], hashes |-> Nothing, includes |-> {},
          key |-> None, hit |-> FALSE, object |-> None]

TypeOK ==
    /\ content \in [File -> Nat] /\ edits \in Nat
    /\ pending \in SUBSET File
    /\ watched \in BOOLEAN /\ watcherActive \in BOOLEAN /\ watchTask \in BOOLEAN
    /\ consumer \in {"off", "running", "dead"}
    /\ clock \in Nat /\ lastOverflow \in Nat /\ overflows \in Nat
    /\ lastChange \in [File -> Nat \cup {None}]
    /\ dep \in ContextEntry \cup {None}
    /\ artifacts \in SUBSET [key : Key, object : Key]
    /\ fastHit \in FastHitEntry \cup {None}
    /\ requestCached \in BOOLEAN
    /\ pc \in [Request -> Steps]
    /\ req \in [Request -> Req]
    /\ settled \in [File -> Nat]

Init ==
    /\ \E first \in FirstSource : content = [f \in File |-> IF f = "src" THEN first ELSE 0]
    /\ edits = 0
    /\ pending = {}
    /\ consumer = IF LateArm THEN "off" ELSE "running"
    /\ watcherActive = ~LateArm
    /\ watched = (InWorkingDir /\ ~LateArm)
    /\ watchTask = FALSE
    /\ clock = 0 /\ lastOverflow = 0 /\ overflows = 0
    /\ lastChange = Nothing
    /\ dep = None /\ artifacts = {} /\ fastHit = None /\ requestCached = FALSE
    /\ pc = [r \in Request |-> "idle"]
    /\ req = [r \in Request |-> NoReq]
    /\ settled = content

\* The headers a source includes: its content decides.
IncludesOf(source) == IF source % 2 = 0 THEN {"hdr"} ELSE {}

-----------------------------------------------------------------------------
\* Editors and the watcher

Edit(f) ==
    /\ edits < MaxEdits
    /\ QuietBuilds => \A r \in Request : pc[r] = "idle"
    /\ edits' = edits + 1
    /\ content' = [content EXCEPT ![f] = edits + 2]
    /\ IF watched /\ watcherActive
          THEN pending' = pending \cup {f} /\ UNCHANGED settled
          ELSE settled' = [settled EXCEPT ![f] = edits + 2] /\ UNCHANGED pending
    /\ UNCHANGED <<watched, consumer, watcherActive, watchTask, journal, caches, pc, req>>

\* The consumer applies a settled batch: apply_changes_with_removals.
ApplyBatch ==
    /\ consumer = "running"
    /\ pending # {}
    /\ clock' = clock + 1
    /\ lastChange' = [f \in File |-> IF f \in pending THEN clock + 1 ELSE lastChange[f]]
    /\ settled' = [f \in File |-> IF f \in pending THEN content[f] ELSE settled[f]]
    /\ pending' = {}
    /\ UNCHANGED <<content, edits, watched, consumer, watcherActive, watchTask,
                   lastOverflow, overflows, caches, pc, req>>

\* The events were lost: apply_overflow.
ApplyOverflow ==
    /\ consumer = "running"
    /\ pending # {}
    /\ overflows < MaxOverflows
    /\ overflows' = overflows + 1
    /\ clock' = clock + 1
    /\ lastOverflow' = clock + 1
    /\ settled' = content
    /\ pending' = {}
    /\ UNCHANGED <<content, edits, watched, consumer, watcherActive, watchTask,
                   lastChange, caches, pc, req>>

\* The consumer task panics; its supervisor closes the fast tiers.
ConsumerDies ==
    /\ consumer = "running"
    /\ consumer' = "dead"
    /\ UNCHANGED <<content, edits, pending, watched, watcherActive, settled,
                   watchTask, journal, caches, pc, req>>

SupervisorNotices ==
    /\ consumer = "dead"
    /\ watcherActive
    /\ watcherActive' = FALSE
    /\ settled' = content
    /\ pending' = {}
    /\ UNCHANGED <<content, edits, watched, consumer, watchTask, journal, caches, pc, req>>

\* arm_watcher_pipeline, retried after a failure at startup.
Arm ==
    /\ consumer = "off"
    /\ consumer' = "running"
    /\ watcherActive' = TRUE
    /\ UNCHANGED <<content, edits, pending, watched, settled, watchTask, journal, caches, pc, req>>

\* The watch_directories a stored miss left to the background.
WatchDirs ==
    /\ watchTask
    /\ watchTask' = FALSE
    /\ watched' = (watched \/ consumer # "off")
    /\ UNCHANGED <<content, edits, pending, consumer, watcherActive, settled,
                   journal, caches, pc, req>>

-----------------------------------------------------------------------------
\* Maintenance

\* Entries expire by age (60 s, 300 s), or are trimmed.
FastHitExpires ==
    /\ fastHit # None
    /\ fastHit' = None
    /\ UNCHANGED <<world, watchTask, journal, dep, artifacts, requestCached, pc, req>>

RequestCacheExpires ==
    /\ requestCached
    /\ requestCached' = FALSE
    /\ UNCHANGED <<world, watchTask, journal, dep, artifacts, fastHit, pc, req>>

WithoutKey(k) == IF dep # None /\ dep.key = k THEN [dep EXCEPT !.key = None] ELSE dep

\* Disk maintenance removes an artifact, behind the same barrier as Clear.
EvictArtifact(a) ==
    /\ \A r \in Request : pc[r] # "insert"
    /\ artifacts' = artifacts \ {a}
    /\ dep' = WithoutKey(a.key)
    /\ UNCHANGED <<world, watchTask, journal, fastHit, requestCached, pc, req>>

\* The context leaves the dep graph: another worktree registered its instance
\* of the context and this one was the oldest over the limit.
EvictContext ==
    /\ Evictions
    /\ dep # None
    /\ dep' = None
    /\ UNCHANGED <<world, watchTask, journal, artifacts, fastHit, requestCached, pc, req>>

\* A Clear request, which waits until no request is publishing an artifact.
\* Its clears are one step: a tier that runs between two of them finds the
\* artifacts gone, they are cleared first, and goes on to the next tier.
Clear ==
    /\ \A r \in Request : pc[r] # "insert"
    /\ overflows < MaxOverflows
    /\ overflows' = overflows + 1
    /\ artifacts' = {} /\ dep' = None /\ fastHit' = None /\ requestCached' = FALSE
    /\ lastChange' = Nothing
    /\ clock' = clock + 1
    /\ lastOverflow' = clock + 1
    /\ UNCHANGED <<world, watchTask, pc, req>>

-----------------------------------------------------------------------------
\* The journal's queries

ProvesFresh(f, since) ==
    /\ since >= lastOverflow
    /\ lastChange[f] # None
    /\ lastChange[f] <= since

ColdContext == IF dep = None THEN TRUE ELSE dep.state = "Cold"
DepIncludes == IF dep = None THEN {} ELSE dep.includes

\* Mutant: the headers of the context are not asked about.
SourceFresh(since) == ProvesFresh("src", since)

\* context_files_fresh
ContextFilesFresh(since) ==
    \A f \in {"src"} \cup DepIncludes : ProvesFresh(f, since)

\* Mutant: registers as of the tick before the current one.
RegisteredPrevious(files) ==
    [f \in File |-> IF f \in files /\ lastChange[f] = None THEN clock - 1 ELSE lastChange[f]]

Registered(files) == [f \in File |-> IF f \in files /\ lastChange[f] = None THEN clock
                                                                          ELSE lastChange[f]]

-----------------------------------------------------------------------------
\* A request

Goto(r, step) == pc' = [pc EXCEPT ![r] = step]
\* Answer the request; what is left of its locals is the answer.
Answer(r, object) ==
    /\ req' = [req EXCEPT ![r] = [NoReq EXCEPT !.floor = req[r].floor, !.object = object]]
    /\ Goto(r, "done")
Artifact(k) == {a \in artifacts : a.key = k}

\* watch_directories is left to the background; for a directory that is
\* watched already it returns at its filter.
WatchLater == watchTask' = (watchTask \/ ~watched)

Start(r) ==
    /\ pc[r] = "idle"
    /\ req' = [req EXCEPT ![r] = [NoReq EXCEPT !.snap = clock, !.floor = settled]]
    /\ Goto(r, "request")
    /\ UNCHANGED <<world, watchTask, journal, caches>>

\* The gates of both zero-hash tiers.
FastGate == watcherActive /\ fastHit # None /\ ContextFilesFresh(fastHit.clock)

TryRequestCacheHit(r) ==
    /\ pc[r] = "request"
    /\ IF FastGate /\ requestCached
          THEN req' = [req EXCEPT ![r].key = fastHit.key] /\ Goto(r, "requestHit")
          ELSE UNCHANGED req /\ Goto(r, "register")
    /\ UNCHANGED <<world, watchTask, journal, caches>>

\* Materialization after the publication wait.  Without a payload, or when the
\* output cannot be written, the request goes on to the next tier.
Materialize(r, from) ==
    /\ pc[r] = from
    /\ \E a \in Artifact(req[r].key) : Answer(r, a.object)
    /\ UNCHANGED <<world, watchTask, journal, dep, artifacts, fastHit>>

NotDelivered(r, from, next) ==
    /\ pc[r] = from
    /\ req' = [req EXCEPT ![r].key = None]
    /\ Goto(r, next)
    /\ UNCHANGED <<world, watchTask, journal, caches>>

RequestCacheServe(r) ==
    \/ Materialize(r, "requestHit") /\ UNCHANGED requestCached
    \/ NotDelivered(r, "requestHit", "register")

\* register_context_entry
Register(r) ==
    /\ pc[r] = "register"
    /\ dep' = IF dep # None THEN dep
              ELSE [state |-> "Cold", includes |-> {}, key |-> None, hashes |-> Nothing]
    /\ Goto(r, "fast")
    /\ UNCHANGED <<world, watchTask, journal, artifacts, fastHit, requestCached, req>>

TryFastHit(r) ==
    /\ pc[r] = "fast"
    /\ IF FastGate
          THEN req' = [req EXCEPT ![r].key = fastHit.key] /\ Goto(r, "fastHit")
          ELSE UNCHANGED req /\ Goto(r, "cold")
    /\ UNCHANGED <<world, watchTask, journal, caches>>

FastServe(r) ==
    \/ Materialize(r, "fastHit") /\ requestCached' = TRUE
    \/ NotDelivered(r, "fastHit", "cold")

-----------------------------------------------------------------------------
\* hash_and_verify

IsCold(r) ==
    /\ pc[r] = "cold"
    /\ Goto(r, IF ColdContext THEN "miss" ELSE "hashSource")
    /\ UNCHANGED <<world, watchTask, journal, caches, req>>

HashSource(r) ==
    /\ pc[r] = "hashSource"
    /\ req' = [req EXCEPT ![r].hashes["src"] = content["src"]]
    /\ Goto(r, "hashHeaders")
    /\ UNCHANGED <<world, watchTask, journal, caches>>

HashHeaders(r) ==
    /\ pc[r] = "hashHeaders"
    /\ req' = [req EXCEPT ![r].hashes["hdr"] =
                  IF "hdr" \in DepIncludes THEN content["hdr"] ELSE None]
    /\ Goto(r, "fastKey")
    /\ UNCHANGED <<world, watchTask, journal, caches>>

\* The artifact key of the recorded inputs under the request's hashes; None
\* when an input was not hashed.
KeyOf(h, includes) ==
    IF "hdr" \in includes
       THEN IF h["hdr"] = None THEN None ELSE [src |-> h["src"], hdr |-> h["hdr"]]
       ELSE [src |-> h["src"], hdr |-> None]

\* Mutant: an input the journal calls unchanged since the start of the request
\* is taken at its recorded hash.
TrustingKey(r) ==
    KeyOf([f \in File |-> IF ProvesFresh(f, req[r].snap) THEN dep.hashes[f]
                                                         ELSE req[r].hashes[f]], dep.includes)

RequestKey(r) == KeyOf(req[r].hashes, dep.includes)

\* try_fast_hit_with_env
TryFastKey(r) ==
    /\ pc[r] = "fastKey"
    /\ IF ~ColdContext /\ dep.key # None /\ RequestKey(r) = dep.key
          THEN /\ req' = [req EXCEPT ![r].key = dep.key, ![r].hit = TRUE,
                                     ![r].includes = dep.includes]
               /\ Goto(r, "hit")
          ELSE UNCHANGED req /\ Goto(r, "check")
    /\ UNCHANGED <<world, watchTask, journal, caches>>

\* check_diagnostic_with_env.  Fresh by the journal, or unchanged by hash.
FreshOrMatch(r, f) ==
    \/ ProvesFresh(f, req[r].snap)
    \/ req[r].hashes[f] # None /\ req[r].hashes[f] = dep.hashes[f]

Drifted(r) == \E f \in {"src"} \cup dep.includes : req[r].hashes[f] # dep.hashes[f]

\* The verdict Hit or SourceChanged looks the key up; the others compile.
Lookup(r, verdictHit) ==
    /\ req' = [req EXCEPT ![r].key = RequestKey(r), ![r].hit = verdictHit,
                          ![r].includes = dep.includes]
    /\ Goto(r, "hit")

Recompile(r) == Goto(r, "miss") /\ UNCHANGED req

Check(r) ==
    /\ pc[r] = "check"
    /\ \/ /\ ColdContext
          /\ Recompile(r)
          /\ UNCHANGED dep
       \/ /\ ~ColdContext
          /\ \E f \in dep.includes : ~FreshOrMatch(r, f)
          /\ dep' = [dep EXCEPT !.state = "Stale"]
          /\ Recompile(r)
       \/ /\ ~ColdContext
          /\ \A f \in dep.includes : FreshOrMatch(r, f)
          /\ \/ RequestKey(r) = None /\ Recompile(r) /\ UNCHANGED dep
             \/ /\ RequestKey(r) # None
                /\ ~FreshOrMatch(r, "src")
                /\ dep' = [dep EXCEPT !.key = RequestKey(r)]
                /\ Lookup(r, FALSE)
             \/ /\ RequestKey(r) # None
                /\ FreshOrMatch(r, "src")
                /\ \/ RequestKey(r) = dep.key /\ Lookup(r, TRUE) /\ UNCHANGED dep
                   \/ /\ RequestKey(r) # dep.key
                      /\ dep' = IF Drifted(r) THEN [dep EXCEPT !.state = "Stale"] ELSE dep
                      /\ Recompile(r)
    /\ UNCHANGED <<world, watchTask, journal, artifacts, fastHit, requestCached>>

-----------------------------------------------------------------------------
\* try_depgraph_cached_hit: materialize, then remember the hit

DepgraphServe(r) ==
    /\ pc[r] = "hit"
    /\ \/ \E a \in Artifact(req[r].key) :
             /\ req' = [req EXCEPT ![r].object = a.object]
             /\ Goto(r, "record")
             /\ UNCHANGED dep
       \/ /\ dep' = IF req[r].hit /\ Artifact(req[r].key) = {} THEN WithoutKey(req[r].key)
                                                              ELSE dep
          /\ Goto(r, "miss")
          /\ UNCHANGED req
    /\ UNCHANGED <<world, watchTask, journal, artifacts, fastHit, requestCached>>

\* register_tracked, then current_clock, then the insert.
RecordHit(r) ==
    /\ pc[r] = "record"
    /\ lastChange' = Registered({"src"} \cup req[r].includes)
    /\ fastHit' = [clock |-> clock, key |-> req[r].key]
    /\ requestCached' = TRUE
    /\ Answer(r, req[r].object)
    /\ UNCHANGED <<world, watchTask, clock, lastOverflow, overflows, dep, artifacts>>

-----------------------------------------------------------------------------
\* The miss: forget the fast hit, run the compiler, store_successful_compile

Miss(r) ==
    /\ pc[r] = "miss"
    /\ fastHit' = None
    /\ req' = [req EXCEPT ![r] = [NoReq EXCEPT !.floor = req[r].floor, !.hashes = req[r].hashes]]
    /\ Goto(r, "compile")
    /\ UNCHANGED <<world, watchTask, journal, dep, artifacts, requestCached>>

\* The compiler reads the source, then the header the source names.
CompileSource(r) ==
    /\ pc[r] = "compile"
    /\ req' = [req EXCEPT ![r].object = [src |-> content["src"], hdr |-> None],
                          ![r].includes = IncludesOf(content["src"])]
    /\ Goto(r, IF IncludesOf(content["src"]) = {} THEN "scan" ELSE "compileHeader")
    /\ UNCHANGED <<world, watchTask, journal, caches>>

CompileHeader(r) ==
    /\ pc[r] = "compileHeader"
    /\ req' = [req EXCEPT ![r].object.hdr = content["hdr"]]
    /\ Goto(r, "scan")
    /\ UNCHANGED <<world, watchTask, journal, caches>>

\* The compiler reports errors in what it read: nothing is stored.
CompileFails(r) ==
    /\ pc[r] = "scan"
    /\ Answer(r, req[r].object)
    /\ UNCHANGED <<world, watchTask, journal, caches>>

\* The include scan has the compiler's dependencies: register them.
Scan(r) ==
    /\ pc[r] = "scan"
    /\ lastChange' = Registered({"src"} \cup req[r].includes)
    /\ Goto(r, "hash")
    /\ UNCHANGED <<world, watchTask, clock, lastOverflow, overflows, caches, req>>

\* Hash the inputs that were not hashed before the compiler ran.
Unhashed(r) == {f \in {"src"} \cup req[r].includes : req[r].hashes[f] = None}

HashInput(r, f) ==
    /\ pc[r] = "hash"
    /\ f \in Unhashed(r)
    /\ req' = [req EXCEPT ![r].hashes[f] = content[f]]
    /\ UNCHANGED <<world, watchTask, journal, caches, pc>>

\* Mutant: the key covers the includes known before the compile.
StoredKeyBeforeScan(r) == KeyOf(req[r].hashes, DepIncludes)

StoredKey(r) == KeyOf(req[r].hashes, req[r].includes)

\* update_with_env, which fails when the context is gone; the response does
\* not wait for anything but the insert.
Update(r) ==
    /\ pc[r] = "hash"
    /\ Unhashed(r) = {}
    /\ IF dep = None
          THEN UNCHANGED dep /\ WatchLater /\ Answer(r, req[r].object)
          ELSE /\ dep' = [state |-> "Warm", includes |-> req[r].includes, key |-> StoredKey(r),
                          hashes |-> [f \in File |-> IF f \in {"src"} \cup req[r].includes
                                                     THEN req[r].hashes[f] ELSE None]]
               /\ req' = [req EXCEPT ![r].key = StoredKey(r), ![r].hashes = Nothing,
                                     ![r].includes = {}]
               /\ UNCHANGED watchTask
               /\ Goto(r, "insert")
    /\ UNCHANGED <<world, journal, artifacts, fastHit, requestCached>>

\* begin_artifact_publication timed out behind a Clear or a collection: the
\* object is returned and nothing is recorded.
StoreSkipped(r) ==
    /\ pc[r] = "hash"
    /\ Unhashed(r) = {}
    /\ WatchLater
    /\ Answer(r, req[r].object)
    /\ UNCHANGED <<world, journal, caches>>

InsertArtifact(r) ==
    /\ pc[r] = "insert"
    /\ artifacts' = (artifacts \ Artifact(req[r].key))
                       \cup {[key |-> req[r].key, object |-> req[r].object]}
    /\ WatchLater
    /\ Answer(r, req[r].object)
    /\ UNCHANGED <<world, journal, dep, fastHit, requestCached>>

Return(r) ==
    /\ pc[r] = "done"
    /\ req' = [req EXCEPT ![r] = NoReq]
    /\ Goto(r, "idle")
    /\ UNCHANGED <<world, watchTask, journal, caches>>

-----------------------------------------------------------------------------
RequestStep(r) ==
    \/ Start(r) \/ TryRequestCacheHit(r) \/ RequestCacheServe(r)
    \/ Register(r) \/ TryFastHit(r) \/ FastServe(r)
    \/ IsCold(r) \/ HashSource(r) \/ HashHeaders(r) \/ TryFastKey(r) \/ Check(r)
    \/ DepgraphServe(r) \/ RecordHit(r)
    \/ Miss(r) \/ CompileSource(r) \/ CompileHeader(r) \/ CompileFails(r) \/ Scan(r)
    \/ (\E f \in File : HashInput(r, f)) \/ Update(r) \/ StoreSkipped(r)
    \/ InsertArtifact(r) \/ Return(r)

Watcher ==
    \/ \E f \in File : Edit(f)
    \/ ApplyBatch \/ ApplyOverflow \/ ConsumerDies \/ SupervisorNotices \/ Arm \/ WatchDirs

Maintenance ==
    \/ FastHitExpires \/ RequestCacheExpires
    \/ \E a \in artifacts : EvictArtifact(a)
    \/ EvictContext \/ Clear

Next ==
    \/ Watcher
    \/ Maintenance
    \/ \E r \in Request : RequestStep(r)

Spec == Init /\ [][Next]_vars

-----------------------------------------------------------------------------
NotOlder(key, floor) ==
    /\ key.src >= floor["src"]
    /\ key.hdr # None => key.hdr >= floor["hdr"]

(***************************************************************************)
(* "Builds must never return stale artifacts" (DD-003): the object a       *)
(* request is answered with was made of inputs no older than the ones the  *)
(* daemon had been told of, or had nobody to be told by, when the request  *)
(* came in.                                                                *)
(***************************************************************************)
NoStaleServe ==
    \A r \in Request : pc[r] = "done" => NotOlder(req[r].object, req[r].floor)

(***************************************************************************)
(* The dep graph tier needs no watcher: whatever the journal, evictions,   *)
(* other requests and editors do, the key it looks an artifact up under    *)
(* names inputs no older than the request's start.                         *)
(***************************************************************************)
VerifiedKeyFresh ==
    \A r \in Request : pc[r] \in {"hit", "record"} => NotOlder(req[r].key, req[r].floor)

(***************************************************************************)
(* The zero-hash tiers are "safe because the clock advances on every       *)
(* watcher event" (DD-003): the key they answer from names inputs no older *)
(* than those the daemon had been told of when the request came in.        *)
(***************************************************************************)
FastKeyFresh ==
    \A r \in Request :
        pc[r] \in {"requestHit", "fastHit"} => NotOlder(req[r].key, req[r].floor)

(***************************************************************************)
(* An artifact is what the compiler makes of the inputs its key names.     *)
(***************************************************************************)
ArtifactsSound == \A a \in artifacts : a.object = a.key
=============================================================================
