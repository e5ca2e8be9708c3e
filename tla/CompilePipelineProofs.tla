------------------------ MODULE CompilePipelineProofs ------------------------
(***************************************************************************)
(* For any number of requests and edits: type correctness and, whatever    *)
(* the watcher, evictions and editors do, that the dep graph tier looks up *)
(* no stale key.  When inputs are edited only between requests, their      *)
(* directory was watched from the start and no context is evicted: that no *)
(* tier serves a stale object and every artifact is what its key says.     *)
(***************************************************************************)
EXTENDS CompilePipeline, TLAPS

-----------------------------------------------------------------------------
(* The invariants *)

\* The locals a step relies on have been set before it.
LocalsSet(step, q) ==
    /\ step = "idle" => q = NoReq
    /\ step \in {"hashHeaders", "fastKey", "check"} => q.hashes["src"] # None
    /\ step \in {"requestHit", "fastHit", "hit", "record", "insert"} => q.key # None
    /\ step \in {"compileHeader", "scan", "hash", "insert", "record", "done"} =>
         q.object # None

TypeInv == TypeOK /\ \A r \in Request : LocalsSet(pc[r], req[r])

\* Contents only grow, and the daemon is told of none before it exists.
ContentsGrow == \A f \in File : content[f] <= edits + 1 /\ settled[f] <= content[f]

\* A request started in the past, hashes what it hashes after its start, and
\* the dep graph tier looks up a key made of those hashes.
FreshLocals(step, q) ==
    /\ \A f \in File : /\ q.floor[f] <= settled[f]
                       /\ q.hashes[f] # None => q.hashes[f] >= q.floor[f]
    /\ step \in {"hit", "record"} => NotOlder(q.key, q.floor)

FreshInv == ContentsGrow /\ \A r \in Request : FreshLocals(pc[r], req[r])

\* The key and the object of the present contents.
TrueKey == [src |-> content["src"],
            hdr |-> IF IncludesOf(content["src"]) = {} THEN None ELSE content["hdr"]]

\* A key the compiler's dependencies give: the header is in it exactly when the
\* source includes the header.
WellFormed(k) == k.hdr = None <=> IncludesOf(k.src) = {}

Present(k) == \E a \in artifacts : a.key = k

\* No edit happens under a request: what it hashed and compiled is what is there.
QuietLocals(r) ==
    /\ \A f \in File : req[r].hashes[f] # None => req[r].hashes[f] = content[f]
    /\ pc[r] \in {"hit", "record"} =>
         /\ req[r].key.src = content["src"]
         /\ req[r].key.hdr # None => req[r].key.hdr = content["hdr"]
    /\ pc[r] = "record" => req[r].object = req[r].key /\ WellFormed(req[r].key)
    /\ pc[r] = "compileHeader" =>
         /\ req[r].object = [src |-> content["src"], hdr |-> None]
         /\ IncludesOf(content["src"]) # {}
    /\ pc[r] \in {"scan", "hash", "insert"} => req[r].object = TrueKey
    /\ pc[r] \in {"compileHeader", "scan", "hash"} =>
         req[r].includes = IncludesOf(content["src"])
    /\ pc[r] = "insert" => req[r].key = TrueKey

\* The context that the zero-hash tiers ask about covers a key they may serve.
Covered(k) == Present(k) /\ k.hdr # None => "hdr" \in DepIncludes

Compiling == {"compile", "compileHeader", "scan", "hash", "insert"}

QuietCovered(r) ==
    /\ pc[r] \in {"hit", "record"} => Covered(req[r].key)
    /\ pc[r] = "insert" => dep # None /\ dep.includes = IncludesOf(content["src"])
    /\ pc[r] \in Compiling /\ fastHit # None => fastHit.key = TrueKey

\* What a request is about to serve from a zero-hash tier, and what it served.
QuietServes(r) ==
    /\ pc[r] \in {"requestHit", "fastHit"} /\ Present(req[r].key) =>
         NotOlder(req[r].key, req[r].floor)
    /\ pc[r] = "done" => NotOlder(req[r].object, req[r].floor)

QuietRequest(r) == QuietLocals(r) /\ QuietCovered(r) /\ QuietServes(r)

\* Every artifact is what the compiler makes of a key that its dependencies give.
QuietArtifacts == ArtifactsSound /\ \A a \in artifacts : WellFormed(a.key)

\* The fast-hit entry: while the journal calls its context unchanged, the key
\* names nothing older than what the daemon has been told of.
FastHitSound ==
    fastHit # None =>
        /\ fastHit.clock <= clock
        /\ Covered(fastHit.key)
        /\ FastGate /\ Present(fastHit.key) => NotOlder(fastHit.key, settled)

QuietInv ==
    /\ watched /\ consumer # "off"
    /\ QuietArtifacts
    /\ \A r \in Request : QuietRequest(r)
    /\ FastHitSound

-----------------------------------------------------------------------------
(* The steps of a request *)

\* Request r goes on to step with the locals q; the other requests rest.
Moved(r, step, q) == pc' = [pc EXCEPT ![r] = step] /\ req' = [req EXCEPT ![r] = q]

\* What is left of the locals of r once it is answered.
Answered(r, object) == [NoReq EXCEPT !.floor = req[r].floor, !.object = object]

\* Everything but the requests.
GlobalsOK ==
    /\ content \in [File -> Nat] /\ edits \in Nat
    /\ pending \in SUBSET File
    /\ watched \in BOOLEAN /\ watcherActive \in BOOLEAN /\ watchTask \in BOOLEAN
    /\ consumer \in {"off", "running", "dead"}
    /\ clock \in Nat /\ lastOverflow \in Nat /\ overflows \in Nat
    /\ lastChange \in [File -> Nat \cup {None}]
    /\ dep \in ContextEntry \cup {None}
    /\ artifacts \in SUBSET [key : Key, object : Key]
    /\ fastHit \in FastHitEntry \cup {None}
    /\ requestCached \in BOOLEAN
    /\ settled \in [File -> Nat]

globals == <<world, watchTask, journal, caches>>

\* The record of a new request ...
LEMMA NewRecord == NoReq \in Req
BY DEF NoReq, Req, Nothing, Hashes, File

\* ... and of an answered one.
LEMMA AnsweredRecord ==
    ASSUME TypeInv, NEW r \in Request, NEW o \in Key
    PROVE  Answered(r, o) \in Req /\ LocalsSet("done", Answered(r, o))
<1>1. req[r].floor \in [File -> Nat]
  BY DEF TypeInv, TypeOK, Req
<1>2. Answered(r, o) \in Req /\ Answered(r, o).object = o
  BY <1>1, NewRecord DEF Answered, Req
<1> QED
  BY <1>2, PipelineConstants DEF LocalsSet

\* A request that moves on with locals that fit its step keeps the types.
LEMMA MovedType ==
    ASSUME TypeInv, GlobalsOK', NEW r \in Request, NEW step \in Steps, NEW q \in Req,
           LocalsSet(step, q), Moved(r, step, q)
    PROVE  TypeInv'
<1>1. TypeOK'
  BY DEF TypeInv, TypeOK, GlobalsOK, Moved
<1>2. \A s \in Request : LocalsSet(pc[s], req[s])'
  BY DEF TypeInv, TypeOK, Moved, LocalsSet
<1> QED
  BY <1>1, <1>2 DEF TypeInv

\* A step that leaves the shared maps alone keeps their types.
LEMMA GlobalsRest ==
    ASSUME TypeInv, UNCHANGED globals
    PROVE  GlobalsOK'
BY DEF TypeInv, TypeOK, GlobalsOK, globals, world, journal, caches

\* The zero-hash tiers.
LEMMA TypeFastTiers ==
    ASSUME TypeInv, NEW r \in Request,
           Start(r) \/ TryRequestCacheHit(r) \/ RequestCacheServe(r) \/ Register(r)
             \/ TryFastHit(r) \/ FastServe(r) \/ Return(r)
    PROVE  TypeInv'
<1> USE DEF Goto, Moved, globals
<1>1. CASE Start(r)
  <2> DEFINE q == [NoReq EXCEPT !.snap = clock, !.floor = settled]
  <2>1. Moved(r, "request", q) /\ UNCHANGED globals
    BY <1>1 DEF Start
  <2>2. q \in Req
    BY NewRecord DEF TypeInv, TypeOK, Req
  <2> QED
    BY <2>1, <2>2, MovedType, GlobalsRest DEF LocalsSet, Steps
<1>2. ASSUME FastGate, NEW step \in {"requestHit", "fastHit"}, UNCHANGED globals,
             Moved(r, step, [req[r] EXCEPT !.key = fastHit.key])
      PROVE  TypeInv'
  <2>1. fastHit.key \in Key
    BY <1>2 DEF TypeInv, TypeOK, FastGate, FastHitEntry
  <2>2. /\ [req[r] EXCEPT !.key = fastHit.key] \in Req
        /\ [req[r] EXCEPT !.key = fastHit.key].key = fastHit.key
    BY <2>1 DEF TypeInv, TypeOK, Req
  <2> QED
    BY <1>2, <2>1, <2>2, MovedType, GlobalsRest, PipelineConstants DEF LocalsSet, Steps
<1>3. ASSUME NEW step \in {"register", "cold"}, UNCHANGED globals, Moved(r, step, req[r])
      PROVE  TypeInv'
  <2>1. req[r] \in Req
    BY DEF TypeInv, TypeOK
  <2> QED
    BY <1>3, <2>1, MovedType, GlobalsRest DEF LocalsSet, Steps
<1>4. CASE TryRequestCacheHit(r)
  BY <1>2, <1>3, <1>4 DEF TryRequestCacheHit, TypeInv, TypeOK
<1>5. CASE TryFastHit(r)
  BY <1>2, <1>3, <1>5 DEF TryFastHit, TypeInv, TypeOK
<1>6. ASSUME NEW from, Materialize(r, from), requestCached' \in BOOLEAN PROVE TypeInv'
  <2>1. PICK a \in artifacts : Moved(r, "done", Answered(r, a.object))
    BY <1>6 DEF Materialize, Artifact, Answer, Answered
  <2>2. a.object \in Key
    BY DEF TypeInv, TypeOK
  <2>3. GlobalsOK'
    BY <1>6 DEF Materialize, TypeInv, TypeOK, GlobalsOK, world, journal
  <2> QED
    BY <2>1, <2>2, <2>3, AnsweredRecord, MovedType DEF Steps
<1>7. ASSUME NEW from, NEW step \in {"register", "cold"}, NotDelivered(r, from, step)
      PROVE  TypeInv'
  <2>1. Moved(r, step, [req[r] EXCEPT !.key = None]) /\ UNCHANGED globals
    BY <1>7 DEF NotDelivered
  <2>2. [req[r] EXCEPT !.key = None] \in Req
    BY DEF TypeInv, TypeOK, Req
  <2> QED
    BY <2>1, <2>2, MovedType, GlobalsRest DEF LocalsSet, Steps
<1>8. CASE RequestCacheServe(r)
  BY <1>6, <1>7, <1>8 DEF RequestCacheServe, TypeInv, TypeOK
<1>9. CASE FastServe(r)
  BY <1>6, <1>7, <1>9 DEF FastServe
<1>10. CASE Register(r)
  <2>1. Moved(r, "fast", req[r])
    BY <1>10 DEF Register, TypeInv, TypeOK
  <2>2. [state |-> "Cold", includes |-> {}, key |-> None, hashes |-> Nothing] \in ContextEntry
    BY DEF ContextEntry, Nothing, Hashes
  <2>3. GlobalsOK'
    BY <1>10, <2>2 DEF Register, TypeInv, TypeOK, GlobalsOK, world, journal
  <2> QED
    BY <2>1, <2>3, MovedType DEF LocalsSet, Steps, TypeInv, TypeOK
<1>11. CASE Return(r)
  BY <1>11, NewRecord, MovedType, GlobalsRest DEF Return, LocalsSet, Steps
<1> QED
  BY <1>1, <1>4, <1>5, <1>8, <1>9, <1>10, <1>11

\* An artifact key is made of hashes; without the source's there is none.
LEMMA KeyOfType ==
    ASSUME NEW h \in Hashes, h["src"] # None, NEW includes
    PROVE  KeyOf(h, includes) \in Key \cup {None}
BY DEF KeyOf, Key, Hashes, File

\* The dep graph tier.
LEMMA TypeDepGraphTier ==
    ASSUME TypeInv, NEW r \in Request,
           IsCold(r) \/ HashSource(r) \/ HashHeaders(r) \/ TryFastKey(r) \/ Check(r)
             \/ DepgraphServe(r) \/ RecordHit(r)
    PROVE  TypeInv'
<1> USE DEF Goto, Moved, globals
<1>a. /\ GlobalsOK /\ req[r] \in Req /\ LocalsSet(pc[r], req[r])
      /\ req \in [Request -> Req] /\ pc \in [Request -> Steps]
  BY DEF TypeInv, TypeOK, GlobalsOK
<1>b. ASSUME NEW k \in Key, NEW hit \in BOOLEAN, NEW includes \in SUBSET {"hdr"}, GlobalsOK',
             Moved(r, "hit", [req[r] EXCEPT !.key = k, !.hit = hit, !.includes = includes])
      PROVE  TypeInv'
  <2> DEFINE q == [req[r] EXCEPT !.key = k, !.hit = hit, !.includes = includes]
  <2>1. q \in Req /\ q.key # None
    BY <1>a, PipelineConstants DEF Req
  <2> QED
    BY <1>b, <2>1, MovedType DEF LocalsSet, Steps
<1>c. ASSUME GlobalsOK', NEW step \in {"miss", "hashSource"}, Moved(r, step, req[r])
      PROVE  TypeInv'
  <2>1. LocalsSet(step, req[r]) /\ step \in Steps
    BY <1>c DEF LocalsSet, Steps
  <2> QED
    BY <1>a, <1>c, <2>1, MovedType, Zenon
<1>1. CASE IsCold(r)
  <2>1. UNCHANGED globals /\ \E step \in {"miss", "hashSource"} : Moved(r, step, req[r])
    BY <1>1, <1>a DEF IsCold
  <2> QED
    BY <1>c, <2>1, GlobalsRest, Zenon DEF Moved
<1>2. CASE HashSource(r)
  <2> DEFINE q == [req[r] EXCEPT !.hashes = [req[r].hashes EXCEPT !["src"] = content["src"]]]
  <2>1. Moved(r, "hashHeaders", q) /\ UNCHANGED globals
    BY <1>2, <1>a DEF HashSource
  <2>2. q \in Req /\ q.hashes["src"] = content["src"] /\ content["src"] \in Nat
    BY <1>a DEF Req, Hashes, GlobalsOK, File
  <2> QED
    BY <2>1, <2>2, MovedType, GlobalsRest, PipelineConstants DEF LocalsSet, Steps
<1>3. CASE HashHeaders(r)
  <2> DEFINE h == IF "hdr" \in DepIncludes THEN content["hdr"] ELSE None
             q == [req[r] EXCEPT !.hashes = [req[r].hashes EXCEPT !["hdr"] = h]]
  <2>1. Moved(r, "fastKey", q) /\ UNCHANGED globals /\ pc[r] = "hashHeaders"
    BY <1>3, <1>a DEF HashHeaders
  <2>2. h \in Nat \cup {None}
    BY <1>a DEF GlobalsOK, File
  <2>3. q \in Req /\ q.hashes["src"] = req[r].hashes["src"]
    BY <1>a, <2>2 DEF Req, Hashes, File
  <2> QED
    BY <1>a, <2>1, <2>3, MovedType, GlobalsRest DEF LocalsSet, Steps
<1>4. CASE TryFastKey(r)
  <2>1. UNCHANGED globals /\ pc[r] = "fastKey"
    BY <1>4 DEF TryFastKey
  <2>2. CASE ~ColdContext /\ dep.key # None /\ RequestKey(r) = dep.key
    <3>1. Moved(r, "hit", [req[r] EXCEPT !.key = dep.key, !.hit = TRUE, !.includes = dep.includes])
      BY <1>4, <1>a, <2>2 DEF TryFastKey
    <3>2. dep.key \in Key /\ dep.includes \in SUBSET {"hdr"}
      BY <1>a, <2>2 DEF GlobalsOK, ColdContext, ContextEntry
    <3> QED
      BY <1>b, <2>1, <3>1, <3>2, GlobalsRest
  <2>3. CASE ~(~ColdContext /\ dep.key # None /\ RequestKey(r) = dep.key)
    <3>1. Moved(r, "check", req[r])
      BY <1>4, <1>a, <2>3 DEF TryFastKey
    <3> QED
      BY <1>a, <2>1, <3>1, MovedType, GlobalsRest DEF LocalsSet, Steps
  <2> QED
    BY <2>2, <2>3
<1>5. CASE Check(r)
  <2>1. /\ pc[r] = "check"
        /\ UNCHANGED <<world, watchTask, journal, artifacts, fastHit, requestCached>>
    BY <1>5 DEF Check
  <2>2. \A d \in ContextEntry \cup {None} : dep' = d => GlobalsOK'
    BY <1>a, <2>1 DEF GlobalsOK, world, journal
  <2>3. ASSUME Recompile(r),
               dep' = dep \/ (dep # None /\ dep' = [dep EXCEPT !.state = "Stale"])
        PROVE  TypeInv'
    <3>1. Moved(r, "miss", req[r])
      BY <1>a, <2>3 DEF Recompile
    <3>2. GlobalsOK'
      <4>1. [dep EXCEPT !.state = "Stale"] \in ContextEntry \/ dep = None
        BY <1>a DEF GlobalsOK, ContextEntry
      <4> QED
        BY <1>a, <2>2, <2>3, <4>1 DEF GlobalsOK
    <3> QED
      BY <1>c, <3>1, <3>2
  <2>4. ASSUME ~ColdContext, RequestKey(r) # None, NEW verdict \in BOOLEAN, Lookup(r, verdict),
               dep' = dep \/ dep' = [dep EXCEPT !.key = RequestKey(r)]
        PROVE  TypeInv'
    <3>1. RequestKey(r) \in Key
      BY <1>a, <2>1, <2>4, KeyOfType DEF RequestKey, LocalsSet, Req
    <3>2. dep \in ContextEntry
      BY <1>a, <2>4 DEF GlobalsOK, ColdContext
    <3>3. GlobalsOK' /\ dep.includes \in SUBSET {"hdr"}
      BY <2>2, <2>4, <3>1, <3>2 DEF ContextEntry
    <3>4. Moved(r, "hit", [req[r] EXCEPT !.key = RequestKey(r), !.hit = verdict,
                                         !.includes = dep.includes])
      BY <1>a, <2>4 DEF Lookup
    <3> QED
      BY <1>b, <3>1, <3>3, <3>4
  <2> QED
    BY <1>5, <2>3, <2>4 DEF Check, ColdContext
<1>6. CASE DepgraphServe(r)
  <2>1. /\ pc[r] = "hit"
        /\ UNCHANGED <<world, watchTask, journal, artifacts, fastHit, requestCached>>
    BY <1>6 DEF DepgraphServe
  <2>2. ASSUME NEW a \in Artifact(req[r].key), UNCHANGED dep,
               Moved(r, "record", [req[r] EXCEPT !.object = a.object])
        PROVE  TypeInv'
    <3>1. GlobalsOK' /\ a.object \in Key
      BY <1>a, <2>1, <2>2 DEF GlobalsOK, world, journal, Artifact
    <3> DEFINE q == [req[r] EXCEPT !.object = a.object]
    <3>2. q \in Req /\ q.object = a.object /\ q.key = req[r].key
      BY <1>a, <3>1 DEF Req
    <3> QED
      BY <1>a, <2>1, <2>2, <3>1, <3>2, MovedType, PipelineConstants DEF LocalsSet, Steps
  <2>3. ASSUME Moved(r, "miss", req[r]), dep' = dep \/ dep' = WithoutKey(req[r].key)
        PROVE  TypeInv'
    <3>1. GlobalsOK'
      BY <1>a, <2>1, <2>3 DEF GlobalsOK, world, journal, WithoutKey, ContextEntry
    <3> QED
      BY <1>c, <2>3, <3>1
  <2> QED
    BY <1>6, <1>a, <2>2, <2>3 DEF DepgraphServe
<1>7. CASE RecordHit(r)
  <2>1. /\ pc[r] = "record"
        /\ Moved(r, "done", Answered(r, req[r].object))
    BY <1>7 DEF RecordHit, Answer, Answered
  <2>2. req[r].object \in Key /\ req[r].key \in Key
    BY <1>a, <2>1 DEF LocalsSet, Req
  <2>3. GlobalsOK'
    BY <1>7, <1>a, <2>2
       DEF RecordHit, GlobalsOK, world, Registered, FastHitEntry
  <2> QED
    BY <2>1, <2>2, <2>3, AnsweredRecord, MovedType DEF Steps
<1> QED
  BY <1>1, <1>2, <1>3, <1>4, <1>5, <1>6, <1>7

\* The compile.
LEMMA TypeCompile ==
    ASSUME TypeInv, NEW r \in Request,
           Miss(r) \/ CompileSource(r) \/ CompileHeader(r) \/ CompileFails(r) \/ Scan(r)
             \/ (\E f \in File : HashInput(r, f))
    PROVE  TypeInv'
<1> USE DEF Goto, Moved, globals
<1>a. /\ GlobalsOK /\ req[r] \in Req /\ LocalsSet(pc[r], req[r])
      /\ req \in [Request -> Req] /\ pc \in [Request -> Steps]
  BY DEF TypeInv, TypeOK, GlobalsOK
<1>1. CASE Miss(r)
  <2> DEFINE q == [NoReq EXCEPT !.floor = req[r].floor, !.hashes = req[r].hashes]
  <2>1. Moved(r, "compile", q)
    BY <1>1 DEF Miss
  <2>2. q \in Req
    BY <1>a, NewRecord DEF Req
  <2>3. GlobalsOK'
    BY <1>1, <1>a DEF Miss, GlobalsOK, world, journal
  <2> QED
    BY <2>1, <2>2, <2>3, MovedType DEF LocalsSet, Steps
<1>2. CASE CompileSource(r)
  <2> DEFINE o == [src |-> content["src"], hdr |-> None]
             includes == IncludesOf(content["src"])
             q == [req[r] EXCEPT !.object = o, !.includes = includes]
  <2>1. PICK step \in {"scan", "compileHeader"} : Moved(r, step, q)
    BY <1>2, <1>a DEF CompileSource
  <2>2. o \in Key /\ includes \in SUBSET {"hdr"}
    BY <1>a DEF GlobalsOK, Key, File, IncludesOf
  <2>3. q \in Req /\ q.object = o
    BY <1>a, <2>2 DEF Req
  <2>4. UNCHANGED globals
    BY <1>2 DEF CompileSource
  <2>5. LocalsSet(step, q) /\ step \in Steps
    BY <2>2, <2>3, PipelineConstants DEF LocalsSet, Steps
  <2> QED
    BY <2>1, <2>3, <2>4, <2>5, MovedType, GlobalsRest
<1>3. CASE CompileHeader(r)
  <2> DEFINE o == [req[r].object EXCEPT !.hdr = content["hdr"]]
             q == [req[r] EXCEPT !.object = o]
  <2>1. Moved(r, "scan", q) /\ UNCHANGED globals /\ pc[r] = "compileHeader"
    BY <1>3, <1>a DEF CompileHeader
  <2>2. req[r].object \in Key
    BY <1>a, <2>1 DEF LocalsSet, Req
  <2>3. o \in Key
    BY <1>a, <2>2 DEF GlobalsOK, Key, File
  <2>4. q \in Req /\ q.object = o
    BY <1>a, <2>3 DEF Req
  <2>5. LocalsSet("scan", q) /\ "scan" \in Steps
    BY <2>3, <2>4, PipelineConstants DEF LocalsSet, Steps
  <2> QED
    BY <2>1, <2>4, <2>5, MovedType, GlobalsRest
<1>4. CASE CompileFails(r)
  <2>1. /\ Moved(r, "done", Answered(r, req[r].object)) /\ UNCHANGED globals
        /\ pc[r] = "scan"
    BY <1>4 DEF CompileFails, Answer, Answered
  <2>2. req[r].object \in Key
    BY <1>a, <2>1 DEF LocalsSet, Req
  <2> QED
    BY <2>1, <2>2, AnsweredRecord, MovedType, GlobalsRest DEF Steps
<1>5. CASE Scan(r)
  <2>1. Moved(r, "hash", req[r]) /\ pc[r] = "scan"
    BY <1>5, <1>a DEF Scan
  <2>2. GlobalsOK'
    BY <1>5, <1>a DEF Scan, GlobalsOK, world, caches, Registered
  <2>3. LocalsSet("hash", req[r]) /\ "hash" \in Steps
    BY <1>a, <2>1 DEF LocalsSet, Steps
  <2> QED
    BY <1>a, <2>1, <2>2, <2>3, MovedType, Zenon
<1>6. ASSUME NEW f \in File, HashInput(r, f) PROVE TypeInv'
  <2> DEFINE q == [req[r] EXCEPT !.hashes = [req[r].hashes EXCEPT ![f] = content[f]]]
  <2>1. Moved(r, "hash", q) /\ UNCHANGED globals /\ pc[r] = "hash"
    BY <1>6, <1>a DEF HashInput
  <2>2. q \in Req /\ q.object = req[r].object
    BY <1>a DEF Req, Hashes, GlobalsOK
  <2>3. LocalsSet("hash", q) /\ "hash" \in Steps
    BY <1>a, <2>1, <2>2 DEF LocalsSet, Steps
  <2> QED
    BY <2>1, <2>2, <2>3, MovedType, GlobalsRest
<1> QED
  BY <1>1, <1>2, <1>3, <1>4, <1>5, <1>6

\* What the store does with a compiled object.
LEMMA TypeStore ==
    ASSUME TypeInv, NEW r \in Request, Update(r) \/ StoreSkipped(r) \/ InsertArtifact(r)
    PROVE  TypeInv'
<1> USE DEF Goto, Moved, globals
<1>a. /\ GlobalsOK /\ req[r] \in Req /\ LocalsSet(pc[r], req[r])
      /\ req \in [Request -> Req] /\ pc \in [Request -> Steps]
  BY DEF TypeInv, TypeOK, GlobalsOK
<1>b. req[r].object \in Key /\ (pc[r] = "insert" => req[r].key \in Key)
  BY <1>a DEF Update, StoreSkipped, InsertArtifact, LocalsSet, Req
<1>c. WatchLater => watchTask' \in BOOLEAN
  BY Zenon DEF WatchLater
<1>d. ASSUME Answer(r, req[r].object), GlobalsOK' PROVE TypeInv'
  <2>1. Moved(r, "done", Answered(r, req[r].object))
    BY <1>d DEF Answer, Answered
  <2> QED
    BY <1>b, <1>d, <2>1, AnsweredRecord, MovedType DEF Steps
<1>1. CASE Update(r) /\ dep = None
  <2>1. GlobalsOK' /\ Answer(r, req[r].object)
    BY <1>1, <1>a, <1>c DEF Update, GlobalsOK, world, journal
  <2> QED
    BY <1>d, <2>1
<1>2. CASE Update(r) /\ dep # None
  <2> DEFINE d == [state |-> "Warm", includes |-> req[r].includes, key |-> StoredKey(r),
                   hashes |-> [f \in File |-> IF f \in {"src"} \cup req[r].includes
                                              THEN req[r].hashes[f] ELSE None]]
             q == [req[r] EXCEPT !.key = StoredKey(r), !.hashes = Nothing, !.includes = {}]
  <2>1. /\ Moved(r, "insert", q) /\ dep' = d /\ Unhashed(r) = {}
        /\ UNCHANGED <<world, journal, artifacts, fastHit, requestCached, watchTask>>
    BY <1>2, <1>a DEF Update
  <2>2. StoredKey(r) \in Key
    <3>1. \A f \in {"src"} \cup req[r].includes : req[r].hashes[f] # None
      BY <2>1 DEF Unhashed
    <3>2. StoredKey(r) \in Key \cup {None}
      BY <1>a, <3>1, KeyOfType DEF StoredKey, Req
    <3>3. StoredKey(r) # None
      BY <1>a, <3>1, PipelineConstants DEF StoredKey, KeyOf, Req, Hashes, Key, File
    <3> QED
      BY <3>2, <3>3
  <2>3. d \in ContextEntry
    BY <1>a, <2>2 DEF ContextEntry, Req, Hashes
  <2>4. GlobalsOK'
    BY <1>a, <2>1, <2>3 DEF GlobalsOK, world, journal
  <2>5. q \in Req /\ q.key = StoredKey(r) /\ q.object = req[r].object
    BY <1>a, <2>2 DEF Req, Nothing, Hashes
  <2>6. LocalsSet("insert", q) /\ "insert" \in Steps
    BY <1>b, <2>2, <2>5, PipelineConstants DEF LocalsSet, Steps
  <2> QED
    BY <2>1, <2>4, <2>5, <2>6, MovedType
<1>3. CASE StoreSkipped(r)
  <2>1. GlobalsOK' /\ Answer(r, req[r].object)
    BY <1>3, <1>a, <1>c DEF StoreSkipped, GlobalsOK, world, journal, caches
  <2> QED
    BY <1>d, <2>1
<1>4. CASE InsertArtifact(r)
  <2>1. artifacts' \in SUBSET [key : Key, object : Key]
    BY <1>4, <1>a, <1>b DEF InsertArtifact, Artifact, GlobalsOK
  <2>2. GlobalsOK' /\ Answer(r, req[r].object)
    BY <1>4, <1>a, <1>c, <2>1 DEF InsertArtifact, GlobalsOK, world, journal
  <2> QED
    BY <1>d, <2>2
<1> QED
  BY <1>1, <1>2, <1>3, <1>4

\* A step of anyone else leaves the requests alone.
LEMMA TypeOtherStep ==
    ASSUME TypeInv, Watcher \/ Maintenance
    PROVE  TypeInv' /\ UNCHANGED <<pc, req>>
<1>a. GlobalsOK
  BY DEF TypeInv, TypeOK, GlobalsOK
<1>b. UNCHANGED <<pc, req>>
  BY DEF Watcher, Edit, ApplyBatch, ApplyOverflow, ConsumerDies, SupervisorNotices, Arm, WatchDirs,
     Maintenance, FastHitExpires, RequestCacheExpires, EvictArtifact, EvictContext, Clear
<1> SUFFICES GlobalsOK'
  BY <1>b DEF TypeInv, TypeOK, LocalsSet, GlobalsOK
<1> USE DEF GlobalsOK, world, journal, caches
<1>1. ASSUME NEW f \in File, Edit(f) PROVE GlobalsOK'
  BY <1>1, <1>a DEF Edit
<1>2. CASE ApplyBatch
  BY <1>2, <1>a DEF ApplyBatch
<1>3. CASE ApplyOverflow
  BY <1>3, <1>a DEF ApplyOverflow
<1>4. CASE ConsumerDies \/ SupervisorNotices \/ Arm
  BY <1>4, <1>a DEF ConsumerDies, SupervisorNotices, Arm
<1>5. CASE WatchDirs
  <2>1. watched' \in BOOLEAN
    BY <1>5, Zenon DEF WatchDirs
  <2> QED
    BY <1>5, <1>a, <2>1 DEF WatchDirs
<1>6. CASE FastHitExpires \/ RequestCacheExpires \/ EvictContext
  BY <1>6, <1>a DEF FastHitExpires, RequestCacheExpires, EvictContext
<1>7. ASSUME NEW a \in artifacts, EvictArtifact(a) PROVE GlobalsOK'
  <2>1. dep' \in ContextEntry \cup {None}
    BY <1>7, <1>a DEF EvictArtifact, WithoutKey, ContextEntry
  <2> QED
    BY <1>7, <1>a, <2>1 DEF EvictArtifact
<1>8. CASE Clear
  <2>1. lastChange' \in [File -> Nat \cup {None}]
    BY <1>8 DEF Clear, Nothing
  <2>2. artifacts' \in SUBSET [key : Key, object : Key]
    BY <1>8 DEF Clear
  <2> QED
    <3>1. /\ requestCached' \in BOOLEAN
          /\ dep' \in ContextEntry \cup {None} /\ fastHit' \in FastHitEntry \cup {None}
      BY <1>8 DEF Clear
    <3>2. clock' \in Nat /\ lastOverflow' \in Nat /\ overflows' \in Nat
      BY <1>8, <1>a DEF Clear
    <3>3. UNCHANGED <<world, watchTask>>
      BY <1>8 DEF Clear
    <3> QED
      BY <1>a, <2>1, <2>2, <3>1, <3>2, <3>3
<1> QED
  BY <1>1, <1>2, <1>3, <1>4, <1>5, <1>6, <1>7, <1>8 DEF Watcher, Maintenance

\* Every step keeps the types and the locals that steps rely on.
LEMMA TypeStep == TypeInv /\ [Next]_vars => TypeInv'
<1> SUFFICES ASSUME TypeInv, [Next]_vars PROVE TypeInv'
  OBVIOUS
<1>1. CASE UNCHANGED vars
  BY <1>1 DEF TypeInv, TypeOK, LocalsSet, vars, world, journal, caches
<1>2. CASE Watcher \/ Maintenance
  BY <1>2, TypeOtherStep
<1>3. ASSUME NEW r \in Request, RequestStep(r) PROVE TypeInv'
  BY <1>3, TypeFastTiers, TypeDepGraphTier, TypeCompile, TypeStore DEF RequestStep
<1> QED
  BY <1>1, <1>2, <1>3 DEF Next

\* The inductive type invariant holds throughout.
LEMMA TypeHolds == Spec => []TypeInv
<1>1. Init => TypeInv
  <2> SUFFICES ASSUME Init PROVE TypeInv
    OBVIOUS
  <2>1. content \in [File -> Nat] /\ settled = content
    BY PipelineConstants DEF Init
  <2>2. watched \in BOOLEAN /\ watcherActive \in BOOLEAN
    BY Zenon DEF Init
  <2>3. lastChange \in [File -> Nat \cup {None}]
    BY DEF Init, Nothing
  <2>4. \A r \in Request : pc[r] = "idle" /\ req[r] = NoReq
    BY DEF Init
  <2>5. pc \in [Request -> Steps] /\ req \in [Request -> Req]
    BY NewRecord DEF Init, Steps
  <2>6. GlobalsOK
    BY <2>1, <2>2, <2>3 DEF Init, GlobalsOK
  <2> QED
    BY <2>4, <2>5, <2>6 DEF TypeInv, TypeOK, GlobalsOK, LocalsSet
<1> QED
  BY <1>1, TypeStep, PTL DEF Spec

\* Type correctness of the compile pipeline (daemon/server/handle_compile).
THEOREM TypeCorrect == Spec => []TypeOK
<1>1. TypeInv => TypeOK
  BY DEF TypeInv
<1> QED
  BY <1>1, TypeHolds, PTL

-----------------------------------------------------------------------------
(* What a step of a request makes of its locals *)

\* Request r goes on to step with these locals.
Moves(r, step, floor, hashes, includes, key, object) ==
    /\ UNCHANGED world
    /\ pc' = [pc EXCEPT ![r] = step]
    /\ req' = [req EXCEPT ![r] = req'[r]]
    /\ req'[r].floor = floor /\ req'[r].hashes = hashes /\ req'[r].includes = includes
    /\ req'[r].key = key /\ req'[r].object = object

\* The same, with the locals it had.
MovesOn(r, step) == Moves(r, step, req[r].floor, req[r].hashes, req[r].includes, req[r].key,
                          req[r].object)

MovesTo(r, step, key) == Moves(r, step, req[r].floor, req[r].hashes, req[r].includes, key,
                               req[r].object)

Answers(r, object) == Moves(r, "done", req[r].floor, Nothing, {}, None, object)

\* What the steps of the zero-hash tiers make of the locals.
LEMMA FastTierMoves ==
    ASSUME TypeInv, NEW r \in Request
    PROVE  /\ Start(r) => Moves(r, "request", settled, Nothing, {}, None, None)
           /\ TryRequestCacheHit(r) =>
                \/ FastGate /\ MovesTo(r, "requestHit", fastHit.key)
                \/ MovesOn(r, "register")
           /\ RequestCacheServe(r) =>
                \/ pc[r] = "requestHit" /\ \E a \in Artifact(req[r].key) : Answers(r, a.object)
                \/ MovesTo(r, "register", None)
           /\ Register(r) => MovesOn(r, "fast")
           /\ TryFastHit(r) =>
                \/ FastGate /\ MovesTo(r, "fastHit", fastHit.key)
                \/ MovesOn(r, "cold")
           /\ FastServe(r) =>
                \/ pc[r] = "fastHit" /\ \E a \in Artifact(req[r].key) : Answers(r, a.object)
                \/ MovesTo(r, "cold", None)
           /\ Return(r) => Moves(r, "idle", NoReq.floor, Nothing, {}, None, None)
<1>a. req \in [Request -> Req] /\ pc \in [Request -> Steps]
  BY DEF TypeInv, TypeOK
<1> USE DEF Goto, Moves, MovesOn, MovesTo, Answers, Req
<1>1. Start(r) => Moves(r, "request", settled, Nothing, {}, None, None)
  BY <1>a DEF Start, NoReq
<1>2. TryRequestCacheHit(r) =>
        (FastGate /\ MovesTo(r, "requestHit", fastHit.key)) \/ MovesOn(r, "register")
  BY <1>a DEF TryRequestCacheHit
<1>3. ASSUME NEW from, Materialize(r, from)
      PROVE  pc[r] = from /\ \E a \in Artifact(req[r].key) : Answers(r, a.object)
  BY <1>3, <1>a DEF Materialize, Answer, NoReq
<1>4. ASSUME NEW from, NEW step, NotDelivered(r, from, step) PROVE MovesTo(r, step, None)
  BY <1>4, <1>a DEF NotDelivered
<1>5. RequestCacheServe(r) =>
        \/ pc[r] = "requestHit" /\ \E a \in Artifact(req[r].key) : Answers(r, a.object)
        \/ MovesTo(r, "register", None)
  BY <1>3, <1>4, Zenon DEF RequestCacheServe
<1>6. FastServe(r) =>
        \/ pc[r] = "fastHit" /\ \E a \in Artifact(req[r].key) : Answers(r, a.object)
        \/ MovesTo(r, "cold", None)
  BY <1>3, <1>4, Zenon DEF FastServe
<1>7. Register(r) => MovesOn(r, "fast")
  BY <1>a DEF Register
<1>8. TryFastHit(r) => (FastGate /\ MovesTo(r, "fastHit", fastHit.key)) \/ MovesOn(r, "cold")
  BY <1>a DEF TryFastHit
<1>9. Return(r) => Moves(r, "idle", NoReq.floor, Nothing, {}, None, None)
  BY <1>a DEF Return, NoReq
<1> QED
  BY <1>1, <1>2, <1>5, <1>6, <1>7, <1>8, <1>9, Zenon

\* What the steps of the dep graph tier make of them.
LEMMA DepGraphMoves ==
    ASSUME TypeInv, NEW r \in Request
    PROVE  /\ IsCold(r) => MovesOn(r, "miss") \/ MovesOn(r, "hashSource")
           /\ HashSource(r) =>
                Moves(r, "hashHeaders", req[r].floor,
                      [req[r].hashes EXCEPT !["src"] = content["src"]],
                      req[r].includes, req[r].key, req[r].object)
           /\ HashHeaders(r) =>
                \E h \in {content["hdr"], None} :
                    Moves(r, "fastKey", req[r].floor, [req[r].hashes EXCEPT !["hdr"] = h],
                          req[r].includes, req[r].key, req[r].object)
           /\ TryFastKey(r) \/ Check(r) =>
                \/ MovesOn(r, "check") \/ MovesOn(r, "miss")
                \/ /\ dep # None /\ RequestKey(r) \in Key /\ req[r].hashes["src"] # None
                   /\ Moves(r, "hit", req[r].floor, req[r].hashes, dep.includes,
                            RequestKey(r), req[r].object)
           /\ DepgraphServe(r) =>
                \/ MovesOn(r, "miss")
                \/ \E a \in Artifact(req[r].key) :
                       /\ pc[r] = "hit"
                       /\ Moves(r, "record", req[r].floor, req[r].hashes, req[r].includes,
                                req[r].key, a.object)
           /\ RecordHit(r) => Answers(r, req[r].object)
<1>a. /\ req \in [Request -> Req] /\ pc \in [Request -> Steps]
      /\ LocalsSet(pc[r], req[r]) /\ req[r] \in Req
  BY DEF TypeInv, TypeOK
<1>b. ASSUME pc[r] \in {"fastKey", "check"}
      PROVE  req[r].hashes["src"] # None /\ RequestKey(r) \in Key \cup {None}
  BY <1>a, <1>b, KeyOfType DEF LocalsSet, RequestKey, Req
<1> USE DEF Goto, Moves, MovesOn
<1>1. IsCold(r) => MovesOn(r, "miss") \/ MovesOn(r, "hashSource")
  BY <1>a DEF IsCold
<1>2. HashSource(r) => Moves(r, "hashHeaders", req[r].floor,
                             [req[r].hashes EXCEPT !["src"] = content["src"]],
                             req[r].includes, req[r].key, req[r].object)
  BY <1>a DEF HashSource, Req
<1>3. HashHeaders(r) =>
        \E h \in {content["hdr"], None} :
            Moves(r, "fastKey", req[r].floor, [req[r].hashes EXCEPT !["hdr"] = h],
                  req[r].includes, req[r].key, req[r].object)
  BY <1>a DEF HashHeaders, Req
<1>4. TryFastKey(r) =>
        \/ MovesOn(r, "check")
        \/ /\ dep # None /\ RequestKey(r) \in Key /\ req[r].hashes["src"] # None
           /\ Moves(r, "hit", req[r].floor, req[r].hashes, dep.includes,
                    RequestKey(r), req[r].object)
  BY <1>a, <1>b DEF TryFastKey, ColdContext, Req
<1>5. ASSUME Recompile(r), UNCHANGED world PROVE MovesOn(r, "miss")
  BY <1>5, <1>a DEF Recompile
<1>6. ASSUME NEW verdict, Lookup(r, verdict), UNCHANGED world
      PROVE  Moves(r, "hit", req[r].floor, req[r].hashes, dep.includes,
                   RequestKey(r), req[r].object)
  BY <1>6, <1>a DEF Lookup, Req
<1>7. ASSUME Check(r)
      PROVE  \/ MovesOn(r, "miss")
             \/ /\ dep # None /\ RequestKey(r) \in Key /\ req[r].hashes["src"] # None
                /\ Moves(r, "hit", req[r].floor, req[r].hashes, dep.includes,
                         RequestKey(r), req[r].object)
  <2>1. /\ UNCHANGED world
        /\ \/ Recompile(r)
           \/ /\ dep # None /\ RequestKey(r) # None
              /\ Lookup(r, TRUE) \/ Lookup(r, FALSE)
    BY <1>7 DEF Check, ColdContext
  <2>2. pc[r] = "check"
    BY <1>7 DEF Check
  <2> QED
    BY <1>b, <1>5, <1>6, <2>1, <2>2
<1>8. DepgraphServe(r) =>
        \/ MovesOn(r, "miss")
        \/ \E a \in Artifact(req[r].key) :
               /\ pc[r] = "hit"
               /\ Moves(r, "record", req[r].floor, req[r].hashes, req[r].includes,
                        req[r].key, a.object)
  BY <1>a DEF DepgraphServe, Req
<1>9. RecordHit(r) => Answers(r, req[r].object)
  BY <1>a DEF RecordHit, Answer, Answers, NoReq
<1> QED
  BY <1>1, <1>2, <1>3, <1>4, <1>7, <1>8, <1>9, Zenon

\* What the steps of a compile make of them.
LEMMA CompileMoves ==
    ASSUME TypeInv, NEW r \in Request
    PROVE  /\ Miss(r) => Moves(r, "compile", req[r].floor, req[r].hashes, {}, None, None)
           /\ CompileSource(r) =>
                \E step \in {"scan", "compileHeader"} :
                    /\ step = "scan" <=> IncludesOf(content["src"]) = {}
                    /\ Moves(r, step, req[r].floor, req[r].hashes, IncludesOf(content["src"]),
                             req[r].key, [src |-> content["src"], hdr |-> None])
           /\ CompileHeader(r) =>
                Moves(r, "scan", req[r].floor, req[r].hashes, req[r].includes,
                      req[r].key, [req[r].object EXCEPT !.hdr = content["hdr"]])
           /\ CompileFails(r) => Answers(r, req[r].object)
           /\ Scan(r) => MovesOn(r, "hash")
           /\ \A f \in File : HashInput(r, f) =>
                Moves(r, "hash", req[r].floor, [req[r].hashes EXCEPT ![f] = content[f]],
                      req[r].includes, req[r].key, req[r].object)
           /\ Update(r) =>
                \/ dep = None /\ UNCHANGED dep /\ Answers(r, req[r].object)
                \/ /\ dep # None
                   /\ Moves(r, "insert", req[r].floor, Nothing, {}, StoredKey(r), req[r].object)
           /\ StoreSkipped(r) => Answers(r, req[r].object)
           /\ InsertArtifact(r) => Answers(r, req[r].object)
<1>a. req \in [Request -> Req] /\ pc \in [Request -> Steps]
  BY DEF TypeInv, TypeOK
<1>b. Answer(r, req[r].object) /\ UNCHANGED world => Answers(r, req[r].object)
  BY <1>a DEF Answer, Answers, NoReq, Goto, Moves, Req
<1> USE DEF Goto, Moves, MovesOn, Req
<1>1. Miss(r) => Moves(r, "compile", req[r].floor, req[r].hashes, {}, None, None)
  BY <1>a DEF Miss, NoReq
<1>2. CompileSource(r) =>
        \E step \in {"scan", "compileHeader"} :
            /\ step = "scan" <=> IncludesOf(content["src"]) = {}
            /\ Moves(r, step, req[r].floor, req[r].hashes, IncludesOf(content["src"]),
                     req[r].key, [src |-> content["src"], hdr |-> None])
  <2> SUFFICES ASSUME CompileSource(r)
               PROVE  \E step \in {"scan", "compileHeader"} :
                        /\ step = "scan" <=> IncludesOf(content["src"]) = {}
                        /\ Moves(r, step, req[r].floor, req[r].hashes,
                                 IncludesOf(content["src"]), req[r].key,
                                 [src |-> content["src"], hdr |-> None])
    OBVIOUS
  <2> DEFINE step == IF IncludesOf(content["src"]) = {} THEN "scan" ELSE "compileHeader"
  <2>1. Moves(r, step, req[r].floor, req[r].hashes, IncludesOf(content["src"]), req[r].key,
              [src |-> content["src"], hdr |-> None])
    BY <1>a DEF CompileSource
  <2>2. step \in {"scan", "compileHeader"} /\ (step = "scan" <=> IncludesOf(content["src"]) = {})
    OBVIOUS
  <2> HIDE DEF step, Moves
  <2> QED
    BY <2>1, <2>2
<1>3. CompileHeader(r) =>
        Moves(r, "scan", req[r].floor, req[r].hashes, req[r].includes,
              req[r].key, [req[r].object EXCEPT !.hdr = content["hdr"]])
  BY <1>a DEF CompileHeader
<1>4. Scan(r) => MovesOn(r, "hash")
  BY <1>a DEF Scan
<1>5. \A f \in File : HashInput(r, f) =>
        Moves(r, "hash", req[r].floor, [req[r].hashes EXCEPT ![f] = content[f]],
              req[r].includes, req[r].key, req[r].object)
  BY <1>a DEF HashInput
<1>6. Update(r) =>
        \/ dep = None /\ UNCHANGED dep /\ Answers(r, req[r].object)
        \/ /\ dep # None
           /\ Moves(r, "insert", req[r].floor, Nothing, {}, StoredKey(r), req[r].object)
  BY <1>a, <1>b DEF Update
<1>7. /\ CompileFails(r) => Answers(r, req[r].object)
      /\ StoreSkipped(r) => Answers(r, req[r].object)
      /\ InsertArtifact(r) => Answers(r, req[r].object)
  BY <1>b, Zenon DEF CompileFails, StoreSkipped, InsertArtifact
<1> QED
  BY <1>1, <1>2, <1>3, <1>4, <1>5, <1>6, <1>7, Zenon

-----------------------------------------------------------------------------
(* The dep graph tier looks up no stale key *)

FreshHashes(floor, hashes) ==
    \A f \in File : floor[f] <= settled[f] /\ (hashes[f] # None => hashes[f] >= floor[f])

\* A request that moves on with locals that are fresh keeps the invariant.
LEMMA MovesFresh ==
    ASSUME TypeInv, FreshInv, NEW r \in Request, NEW step, NEW floor, NEW hashes, NEW includes,
           NEW key, NEW object, Moves(r, step, floor, hashes, includes, key, object),
           FreshHashes(floor, hashes), step \in {"hit", "record"} => NotOlder(key, floor)
    PROVE  FreshInv'
<1>1. ContentsGrow'
  BY DEF FreshInv, ContentsGrow, Moves, world
<1>2. FreshLocals(pc'[r], req'[r])
  BY DEF TypeInv, TypeOK, Moves, FreshLocals, FreshHashes
<1>3. \A s \in Request : s # r => pc'[s] = pc[s] /\ req'[s] = req[s]
  BY DEF TypeInv, TypeOK, Moves
<1>4. \A s \in Request : FreshLocals(pc'[s], req'[s])
  BY <1>2, <1>3 DEF FreshInv
<1>5. UNCHANGED settled
  BY DEF Moves, world
<1>6. \A s \in Request : FreshLocals(pc[s], req[s])'
  BY <1>4, <1>5 DEF FreshLocals
<1> QED
  BY <1>1, <1>6 DEF FreshInv

\* A step of a request keeps that its hashes are fresh.
LEMMA FreshRequestStep ==
    ASSUME TypeInv, FreshInv, NEW r \in Request, RequestStep(r)
    PROVE  FreshInv'
<1>a. /\ req[r] \in Req /\ FreshHashes(req[r].floor, req[r].hashes)
      /\ pc[r] \in {"hit", "record"} => NotOlder(req[r].key, req[r].floor)
  BY DEF TypeInv, TypeOK, FreshInv, FreshLocals, FreshHashes
<1>b. /\ content \in [File -> Nat] /\ settled \in [File -> Nat]
      /\ \A f \in File : content[f] >= settled[f]
  BY DEF TypeInv, TypeOK, FreshInv, ContentsGrow
<1>c. FreshHashes(req[r].floor, Nothing)
  BY <1>a DEF FreshHashes, Nothing
\* The locals move on, or are given up, or the key is exchanged.
<1>1. ASSUME NEW step \in Steps \ {"hit", "record"}, NEW hashes \in {req[r].hashes, Nothing},
             NEW includes, NEW key, NEW object,
             Moves(r, step, req[r].floor, hashes, includes, key, object)
      PROVE  FreshInv'
  BY <1>1, <1>a, <1>c, MovesFresh
\* A file is hashed.
<1>2. ASSUME NEW step \in Steps \ {"hit", "record"}, NEW f \in File, NEW h \in {content[f], None},
             NEW includes, NEW key, NEW object,
             Moves(r, step, req[r].floor, [req[r].hashes EXCEPT ![f] = h], includes, key, object)
      PROVE  FreshInv'
  <2>1. FreshHashes(req[r].floor, [req[r].hashes EXCEPT ![f] = h])
    BY <1>a, <1>b DEF FreshHashes, Req, Hashes
  <2> QED
    BY <1>2, <2>1, MovesFresh
<1>3. CASE Start(r)
  <2>1. FreshHashes(settled, Nothing)
    BY <1>b DEF FreshHashes, Nothing
  <2> QED
    BY <1>3, <2>1, FastTierMoves, MovesFresh
<1>4. CASE Return(r)
  <2>1. FreshHashes(NoReq.floor, Nothing)
    BY <1>b DEF FreshHashes, Nothing, NoReq
  <2> QED
    BY <1>4, <2>1, FastTierMoves, MovesFresh
<1>5. CASE TryRequestCacheHit(r) \/ RequestCacheServe(r) \/ Register(r) \/ TryFastHit(r)
             \/ FastServe(r)
  BY <1>1, <1>5, FastTierMoves DEF MovesOn, MovesTo, Answers, Steps
<1>6. CASE IsCold(r) \/ RecordHit(r)
  BY <1>1, <1>6, DepGraphMoves DEF MovesOn, Answers, Steps
<1>7. CASE HashSource(r) \/ HashHeaders(r)
  BY <1>2, <1>7, DepGraphMoves DEF File, Steps
<1>8. CASE TryFastKey(r) \/ Check(r)
  <2>1. ASSUME dep # None, RequestKey(r) \in Key, req[r].hashes["src"] # None
        PROVE  NotOlder(RequestKey(r), req[r].floor)
    BY <2>1, <1>a, PipelineConstants DEF RequestKey, KeyOf, NotOlder, FreshHashes, File, Key
  <2>2. ASSUME dep # None, RequestKey(r) \in Key, req[r].hashes["src"] # None,
               Moves(r, "hit", req[r].floor, req[r].hashes, dep.includes, RequestKey(r),
                     req[r].object)
        PROVE  FreshInv'
    BY <1>a, <2>1, <2>2, MovesFresh
  <2> QED
    BY <1>1, <1>8, <2>2, DepGraphMoves DEF MovesOn, Steps
<1>9. CASE DepgraphServe(r)
  <2>1. ASSUME NEW object, pc[r] = "hit",
               Moves(r, "record", req[r].floor, req[r].hashes, req[r].includes, req[r].key, object)
        PROVE  FreshInv'
    BY <1>a, <2>1, MovesFresh
  <2> QED
    BY <1>1, <1>9, <2>1, DepGraphMoves DEF MovesOn, Steps
<1>10. CASE Miss(r) \/ CompileSource(r) \/ CompileHeader(r) \/ CompileFails(r) \/ Scan(r)
  BY <1>1, <1>10, CompileMoves DEF MovesOn, Answers, Steps
<1>11. CASE Update(r) \/ StoreSkipped(r) \/ InsertArtifact(r)
  BY <1>1, <1>11, CompileMoves DEF Answers, Steps
<1>12. ASSUME NEW f \in File, HashInput(r, f) PROVE FreshInv'
  BY <1>2, <1>12, CompileMoves DEF Steps
<1> QED
  BY <1>3, <1>4, <1>5, <1>6, <1>7, <1>8, <1>9, <1>10, <1>11, <1>12 DEF RequestStep

\* The watcher and maintenance keep it too.
LEMMA FreshOtherStep ==
    ASSUME TypeInv, FreshInv, Watcher \/ Maintenance
    PROVE  FreshInv'
<1>a. UNCHANGED <<pc, req>> /\ req \in [Request -> Req]
  BY TypeOtherStep DEF TypeInv, TypeOK
<1>b. content \in [File -> Nat] /\ settled \in [File -> Nat] /\ edits \in Nat
  BY DEF TypeInv, TypeOK
<1>1. ContentsGrow' /\ \A f \in File : settled'[f] \in Nat /\ settled'[f] >= settled[f]
  <2> USE DEF FreshInv, ContentsGrow
  <2>1. ASSUME NEW f \in File, Edit(f)
        PROVE  ContentsGrow' /\ \A g \in File : settled'[g] \in Nat /\ settled'[g] >= settled[g]
    BY <2>1, <1>b DEF Edit
  <2>2. CASE ApplyBatch \/ ApplyOverflow \/ SupervisorNotices
    BY <2>2, <1>b DEF ApplyBatch, ApplyOverflow, SupervisorNotices
  <2>3. ASSUME UNCHANGED <<content, edits, settled>>
        PROVE  ContentsGrow' /\ \A g \in File : settled'[g] \in Nat /\ settled'[g] >= settled[g]
    BY <2>3, <1>b
  <2>4. CASE ConsumerDies \/ Arm \/ WatchDirs \/ Maintenance
    BY <2>3, <2>4 DEF ConsumerDies, Arm, WatchDirs, Maintenance, FastHitExpires,
       RequestCacheExpires, EvictArtifact, EvictContext, Clear, world
  <2> QED
    BY <2>1, <2>2, <2>4 DEF Watcher
<1>2. ASSUME NEW r \in Request PROVE FreshLocals(pc[r], req[r])'
  <2>1. FreshLocals(pc[r], req[r]) /\ \A f \in File : req[r].floor[f] \in Nat
    BY <1>a DEF FreshInv, Req
  <2> QED
    BY <2>1, <1>a, <1>b, <1>1 DEF FreshLocals
<1> QED
  BY <1>1, <1>2 DEF FreshInv

\* The freshness invariant holds throughout.
LEMMA FreshHolds == Spec => []FreshInv
<1>1. Init => FreshInv
  <2> SUFFICES ASSUME Init PROVE FreshInv
    OBVIOUS
  <2>1. content \in [File -> Nat] /\ settled = content
    BY PipelineConstants DEF Init
  <2>2. ContentsGrow
    BY <2>1, PipelineConstants DEF Init, ContentsGrow
  <2>3. \A r \in Request : pc[r] = "idle" /\ req[r] = NoReq
    BY DEF Init
  <2>4. FreshLocals("idle", NoReq)
    BY <2>1 DEF FreshLocals, NoReq, Nothing
  <2> QED
    BY <2>2, <2>3, <2>4 DEF FreshInv
<1>2. TypeInv /\ FreshInv /\ [Next]_vars => FreshInv'
  <2> SUFFICES ASSUME TypeInv, FreshInv, [Next]_vars PROVE FreshInv'
    OBVIOUS
  <2>1. CASE UNCHANGED vars
    BY <2>1 DEF FreshInv, ContentsGrow, FreshLocals, vars, world
  <2> QED
    BY <2>1, FreshRequestStep, FreshOtherStep DEF Next
<1> QED
  BY <1>1, <1>2, TypeHolds, PTL DEF Spec

(***************************************************************************)
(* The dep graph tier needs no watcher: with any number of requests, edits *)
(* at any time, any batches, overflows, evictions and Clears, the key      *)
(* try_depgraph_cached_hit looks an artifact up under names inputs no      *)
(* older than those the daemon had been told of when the request came in.  *)
(***************************************************************************)
THEOREM VerifiedKeyFreshHolds == Spec => []VerifiedKeyFresh
<1>1. FreshInv => VerifiedKeyFresh
  BY DEF FreshInv, FreshLocals, VerifiedKeyFresh
<1> QED
  BY <1>1, FreshHolds, PTL

-----------------------------------------------------------------------------
(* Edits only between requests *)

\* A key no older than what the daemon has been told of is none the older for
\* a request that started before.
LEMMA FloorsSettled ==
    ASSUME TypeInv, FreshInv, NEW r \in Request, NEW k \in Key, NotOlder(k, settled)
    PROVE  NotOlder(k, req[r].floor)
<1>1. /\ settled \in [File -> Nat] /\ req[r].floor \in [File -> Nat]
      /\ \A f \in File : settled[f] >= req[r].floor[f]
  BY DEF TypeInv, TypeOK, FreshInv, FreshLocals, Req
<1> QED
  BY <1>1 DEF NotOlder, Key, File

\* The key of the present contents is well formed, and no older than anything
\* the daemon has been told of.
LEMMA TrueKeyFacts ==
    ASSUME TypeInv, FreshInv
    PROVE  /\ TrueKey \in Key /\ WellFormed(TrueKey) /\ NotOlder(TrueKey, settled)
           /\ \A r \in Request : NotOlder(TrueKey, req[r].floor)
<1>1. /\ content \in [File -> Nat] /\ settled \in [File -> Nat]
      /\ \A f \in File : content[f] >= settled[f]
  BY DEF TypeInv, TypeOK, FreshInv, ContentsGrow
<1>2. TrueKey \in Key
  BY <1>1 DEF TrueKey, Key, File
<1>3. WellFormed(TrueKey)
  <2>1. content["hdr"] # None
    BY <1>1, PipelineConstants DEF File
  <2>2. /\ TrueKey.src = content["src"]
        /\ TrueKey.hdr = IF IncludesOf(content["src"]) = {} THEN None ELSE content["hdr"]
    BY DEF TrueKey
  <2> QED
    BY <2>1, <2>2, Zenon DEF WellFormed
<1>4. NotOlder(TrueKey, settled)
  BY <1>1 DEF TrueKey, NotOlder, File
<1>5. \A r \in Request : NotOlder(TrueKey, req[r].floor)
  BY <1>2, <1>4, FloorsSettled
<1> QED
  BY <1>2, <1>3, <1>4, <1>5

\* What a request step may do to the caches without harm to the others.
QuietCaches ==
    /\ UNCHANGED <<world, clock>>
    /\ dep # None => dep' # None
    /\ DepIncludes' = DepIncludes \/ DepIncludes' = IncludesOf(content["src"])
    /\ QuietArtifacts'
    /\ \A k : Present(k)' => \/ Present(k)
                             \/ k = TrueKey /\ DepIncludes' = IncludesOf(content["src"])
    /\ \/ fastHit' = None
       \/ fastHit'.key = TrueKey /\ fastHit'.clock <= clock /\ Covered(TrueKey)
       \/ UNCHANGED <<fastHit, lastChange, lastOverflow>> /\ DepIncludes' = DepIncludes

\* A step of one request, with sound caches, keeps the quiet invariant.
LEMMA QuietMoves ==
    ASSUME TypeInv, FreshInv, QuietInv, QuietCaches, NEW r \in Request,
           req' = [req EXCEPT ![r] = req'[r]], pc' = [pc EXCEPT ![r] = pc'[r]],
           QuietRequest(r)'
    PROVE  QuietInv'
<1>a. UNCHANGED <<content, settled, watched, consumer, watcherActive, clock, TrueKey>>
  BY DEF QuietCaches, world, TrueKey
<1>b. TrueKey \in Key /\ WellFormed(TrueKey) /\ NotOlder(TrueKey, settled)
      /\ \A s \in Request : NotOlder(TrueKey, req[s].floor)
  BY TrueKeyFacts
<1>1. watched' /\ (consumer # "off")' /\ QuietArtifacts'
  BY <1>a DEF QuietInv, QuietCaches
<1>2. ASSUME NEW k \in Key, Covered(k), k.src = content["src"] PROVE Covered(k)'
  <2>1. Present(k) => WellFormed(k)
    BY DEF Present, QuietInv, QuietArtifacts
  <2>2. k.hdr # None /\ WellFormed(k) => "hdr" \in IncludesOf(content["src"])
    BY <1>2 DEF WellFormed, IncludesOf
  <2>3. ASSUME Present(k)', k.hdr # None PROVE "hdr" \in DepIncludes'
    <3>1. \/ DepIncludes' = IncludesOf(content["src"])
          \/ Present(k) /\ DepIncludes' = DepIncludes
      BY <2>3 DEF QuietCaches
    <3>2. WellFormed(k)
      BY <1>b, <2>1, <2>3 DEF QuietCaches
    <3> QED
      BY <1>2, <2>2, <2>3, <3>1, <3>2 DEF Covered
  <2> QED
    BY <2>3 DEF Covered
<1>3. FastHitSound'
  <2> SUFFICES ASSUME fastHit' # None
               PROVE  /\ fastHit'.clock <= clock'
                      /\ Covered(fastHit.key)'
                      /\ FastGate' /\ Present(fastHit.key)' => NotOlder(fastHit'.key, settled')
    BY DEF FastHitSound
  <2>1. CASE fastHit'.key = TrueKey /\ fastHit'.clock <= clock /\ Covered(TrueKey)
    <3>1. Covered(TrueKey)'
      <4>1. TrueKey.src = content["src"]
        BY DEF TrueKey
      <4> QED
        BY <1>2, <1>a, <1>b, <2>1, <4>1 DEF Covered, Present
    <3> QED
      BY <1>a, <1>b, <2>1, <3>1
  <2>2. CASE UNCHANGED <<fastHit, lastChange, lastOverflow>> /\ DepIncludes' = DepIncludes
    <3>1. FastGate' = FastGate
      BY <2>2, <1>a DEF FastGate, ContextFilesFresh, ProvesFresh
    <3>2. \/ ~Present(fastHit.key)' \/ Present(fastHit.key)
          \/ fastHit.key = TrueKey /\ DepIncludes' = IncludesOf(content["src"])
      <4>1. \A k : (\E a \in artifacts' : a.key = k) =>
                     \/ Present(k)
                     \/ k = TrueKey /\ DepIncludes' = IncludesOf(content["src"])
        BY DEF QuietCaches, Present
      <4>2. fastHit' = fastHit
        BY <2>2
      <4> QED
        BY <4>1, <4>2 DEF Present
    <3>3. "hdr" \in IncludesOf(content["src"]) \/ TrueKey.hdr = None
      BY DEF TrueKey, IncludesOf
    <3> QED
      BY <1>a, <1>b, <2>2, <3>1, <3>2, <3>3 DEF QuietInv, FastHitSound, Covered
  <2> QED
    BY <2>1, <2>2 DEF QuietCaches
<1>4. ASSUME NEW s \in Request, s # r
      PROVE  QuietRequest(s)'
  <2>1. pc'[s] = pc[s] /\ req'[s] = req[s]
    BY <1>4 DEF TypeInv, TypeOK
  <2>2. QuietRequest(s)
    BY DEF QuietInv
  <2>3. QuietLocals(s)'
    BY <1>a, <2>1, <2>2 DEF QuietRequest, QuietLocals
  <2>4. QuietServes(s)'
    BY <1>b, <2>1, <2>2 DEF QuietRequest, QuietServes, QuietCaches
  <2>5. pc[s] \in {"hit", "record"} => Covered(req[s].key)'
    <3> SUFFICES ASSUME pc[s] \in {"hit", "record"} PROVE Covered(req[s].key)'
      OBVIOUS
    <3>1. req[s].key \in Key
      BY DEF TypeInv, TypeOK, LocalsSet, Req
    <3>2. Covered(req[s].key) /\ req[s].key.src = content["src"]
      BY <2>2 DEF QuietRequest, QuietLocals, QuietCovered
    <3> QED
      BY <1>2, <2>1, <3>1, <3>2 DEF Covered, Present
  <2>6. pc[s] = "insert" => (dep # None /\ dep.includes = IncludesOf(content["src"]))'
    BY <1>a, <2>2 DEF QuietRequest, QuietCovered, QuietCaches, DepIncludes
  <2>7. pc[s] \in Compiling /\ fastHit' # None => fastHit'.key = TrueKey
    BY <2>2 DEF QuietRequest, QuietCovered, QuietCaches
  <2> QED
    BY <1>a, <2>1, <2>3, <2>4, <2>5, <2>6, <2>7 DEF QuietRequest, QuietCovered
<1> QED
  BY <1>1, <1>3, <1>4 DEF QuietInv

\* The key of a hit is the key of the present contents.
LEMMA RecordedKey ==
    ASSUME TypeInv, FreshInv, QuietInv, NEW r \in Request, pc[r] = "record"
    PROVE  req[r].key = TrueKey /\ req[r].object = TrueKey /\ Covered(TrueKey)
<1>1. req[r].key \in Key /\ QuietLocals(r) /\ QuietCovered(r)
  BY DEF TypeInv, TypeOK, LocalsSet, Req, QuietInv, QuietRequest
<1>2. req[r].key.src = TrueKey.src /\ req[r].key.hdr = TrueKey.hdr
  BY <1>1 DEF QuietLocals, WellFormed, TrueKey
<1>3. req[r].key = TrueKey
  BY <1>1, <1>2, TrueKeyFacts DEF Key
<1> QED
  BY <1>1, <1>3 DEF QuietLocals, QuietCovered

\* What a request stores under is the key of the present contents.
LEMMA UpdatedKey ==
    ASSUME TypeInv, FreshInv, QuietInv, NEW r \in Request, Update(r)
    PROVE  StoredKey(r) = TrueKey /\ req[r].includes = IncludesOf(content["src"])
<1>1. pc[r] = "hash" /\ \A f \in {"src"} \cup req[r].includes : req[r].hashes[f] # None
  BY DEF Update, Unhashed
<1>2. QuietLocals(r)
  BY DEF QuietInv, QuietRequest
<1>3. req[r].includes = IncludesOf(content["src"])
  BY <1>1, <1>2 DEF QuietLocals
<1>4. \A f \in {"src"} \cup req[r].includes : req[r].hashes[f] = content[f]
  BY <1>1, <1>2, <1>3 DEF QuietLocals, IncludesOf, File
<1>5. StoredKey(r) = TrueKey
  BY <1>1, <1>3, <1>4 DEF StoredKey, KeyOf, TrueKey, IncludesOf
<1> QED
  BY <1>3, <1>5

\* Neither the check nor a hit whose artifact is gone changes the includes.
LEMMA IncludesKept ==
    ASSUME TypeInv, NEW r \in Request, Check(r) \/ DepgraphServe(r)
    PROVE  (dep # None => dep' # None) /\ DepIncludes' = DepIncludes
<1>1. pc[r] = "check" => RequestKey(r) \in Key \cup {None}
  BY KeyOfType DEF TypeInv, TypeOK, LocalsSet, RequestKey, Req
<1>2. \/ dep' = dep
      \/ dep # None /\ dep' = [dep EXCEPT !.state = "Stale"]
      \/ dep # None /\ \E k \in Key \cup {None} : dep' = [dep EXCEPT !.key = k]
  BY <1>1 DEF Check, DepgraphServe, WithoutKey, ColdContext
<1>3. ASSUME dep # None
      PROVE  /\ [dep EXCEPT !.state = "Stale"] \in ContextEntry
             /\ [dep EXCEPT !.state = "Stale"].includes = dep.includes
             /\ \A k \in Key \cup {None} : /\ [dep EXCEPT !.key = k] \in ContextEntry
                                           /\ [dep EXCEPT !.key = k].includes = dep.includes
  BY <1>3 DEF TypeInv, TypeOK, ContextEntry
<1> QED
  BY <1>2, <1>3, PipelineConstants DEF DepIncludes

\* What every step of a request does to the caches is harmless.
LEMMA QuietStepCaches ==
    ASSUME TypeInv, FreshInv, QuietInv, NEW r \in Request, RequestStep(r)
    PROVE  QuietCaches
<1>1. ASSUME UNCHANGED <<world, clock, lastChange, lastOverflow, artifacts>>,
             dep # None => dep' # None, DepIncludes' = DepIncludes,
             fastHit' = fastHit \/ fastHit' = None
      PROVE  QuietCaches
  <2>1. \A k : Present(k)' => Present(k)
    BY <1>1 DEF Present
  <2>2. QuietArtifacts'
    BY <1>1 DEF QuietInv, QuietArtifacts, ArtifactsSound, WellFormed
  <2> QED
    BY <1>1, <2>1, <2>2 DEF QuietCaches
<1>2. ASSUME UNCHANGED <<world, clock, lastChange, lastOverflow, dep, artifacts, fastHit>>
      PROVE  QuietCaches
  BY <1>1, <1>2 DEF DepIncludes
<1>3. CASE \/ Start(r) \/ TryRequestCacheHit(r) \/ RequestCacheServe(r) \/ TryFastHit(r)
           \/ FastServe(r) \/ Return(r)
  BY <1>2, <1>3 DEF Start, TryRequestCacheHit, RequestCacheServe, TryFastHit, FastServe, Return,
     Materialize, NotDelivered, journal, caches
<1>4. CASE \/ IsCold(r) \/ HashSource(r) \/ HashHeaders(r) \/ TryFastKey(r)
           \/ CompileSource(r) \/ CompileHeader(r) \/ CompileFails(r)
           \/ (\E f \in File : HashInput(r, f)) \/ StoreSkipped(r)
  BY <1>2, <1>4 DEF IsCold, HashSource, HashHeaders, TryFastKey, CompileSource, CompileHeader,
     CompileFails, HashInput, StoreSkipped, journal, caches
<1>5. CASE Register(r) \/ Miss(r)
  BY <1>1, <1>5, PipelineConstants
     DEF Register, Miss, DepIncludes, journal, ContextEntry, Nothing,
     Hashes
<1>6. CASE Check(r) \/ DepgraphServe(r)
  <2>1. UNCHANGED <<world, clock, lastChange, lastOverflow, artifacts, fastHit>>
    BY <1>6 DEF Check, DepgraphServe, journal
  <2> QED
    BY <1>1, <1>6, <2>1, IncludesKept
<1>7. CASE RecordHit(r)
  <2>1. /\ UNCHANGED <<world, clock, dep, artifacts>>
        /\ fastHit' = [clock |-> clock, key |-> req[r].key] /\ pc[r] = "record"
    BY <1>7 DEF RecordHit
  <2>2. \A k : Present(k)' => Present(k)
    BY <2>1 DEF Present
  <2>3. QuietArtifacts' /\ DepIncludes' = DepIncludes
    BY <2>1 DEF QuietInv, QuietArtifacts, ArtifactsSound, WellFormed, DepIncludes
  <2>4. fastHit'.key = TrueKey /\ fastHit'.clock <= clock /\ Covered(TrueKey)
    BY <2>1, RecordedKey DEF TypeInv, TypeOK
  <2> QED
    BY <2>1, <2>2, <2>3, <2>4 DEF QuietCaches
<1>8. CASE Scan(r) \/ Update(r)
  <2>1. UNCHANGED <<world, clock, artifacts, fastHit>> /\ pc[r] \in {"scan", "hash"}
    BY <1>8 DEF Scan, Update, caches, journal
  <2>2. \A k : Present(k)' => Present(k)
    BY <2>1 DEF Present
  <2>3. QuietArtifacts'
    BY <2>1 DEF QuietInv, QuietArtifacts, ArtifactsSound, WellFormed
  <2>4. fastHit # None =>
          fastHit.key = TrueKey /\ fastHit.clock <= clock /\ Covered(TrueKey)
    BY <2>1 DEF QuietInv, QuietRequest, QuietCovered, Compiling, FastHitSound
  <2>5. /\ dep # None => dep' # None
        /\ DepIncludes' = DepIncludes \/ DepIncludes' = IncludesOf(content["src"])
    <3>1. CASE UNCHANGED dep
      BY <3>1 DEF DepIncludes
    <3>2. CASE Update(r) /\ dep # None
      <4>1. dep' = [state |-> "Warm", includes |-> IncludesOf(content["src"]), key |-> TrueKey,
                    hashes |-> [f \in File |-> IF f \in {"src"} \cup IncludesOf(content["src"])
                                               THEN req[r].hashes[f] ELSE None]]
        BY <3>2, UpdatedKey DEF Update
      <4>2. dep' \in ContextEntry
        <5>1. [f \in File |-> IF f \in {"src"} \cup IncludesOf(content["src"])
                              THEN req[r].hashes[f] ELSE None] \in Hashes
          BY DEF TypeInv, TypeOK, Req, Hashes
        <5> QED
          BY <4>1, <5>1, TrueKeyFacts DEF ContextEntry, IncludesOf
      <4> QED
        BY <4>1, <4>2, PipelineConstants DEF DepIncludes
    <3> QED
      BY <1>8, <3>1, <3>2 DEF Scan, Update, caches
  <2> QED
    BY <2>1, <2>2, <2>3, <2>4, <2>5 DEF QuietCaches
<1>9. CASE InsertArtifact(r)
  <2>1. /\ UNCHANGED <<world, clock, lastChange, lastOverflow, dep, fastHit>> /\ pc[r] = "insert"
        /\ artifacts' = (artifacts \ Artifact(req[r].key))
                           \cup {[key |-> req[r].key, object |-> req[r].object]}
    BY <1>9 DEF InsertArtifact, journal
  <2>2. /\ req[r].key = TrueKey /\ req[r].object = TrueKey
        /\ dep # None /\ dep.includes = IncludesOf(content["src"])
    BY <2>1 DEF QuietInv, QuietRequest, QuietLocals, QuietCovered
  <2>3. \A a \in artifacts' : a \in artifacts \/ (a.key = TrueKey /\ a.object = TrueKey)
    <3> SUFFICES ASSUME NEW a \in artifacts', a \notin artifacts
                 PROVE  a.key = TrueKey /\ a.object = TrueKey
      OBVIOUS
    <3>1. a = [key |-> req[r].key, object |-> req[r].object]
      BY <2>1
    <3> QED
      BY <2>2, <3>1
  <2>4. DepIncludes' = DepIncludes /\ DepIncludes' = IncludesOf(content["src"])
    BY <2>1, <2>2 DEF DepIncludes
  <2>5. \A k : Present(k)' => Present(k) \/ k = TrueKey
    BY <2>3 DEF Present
  <2>6. QuietArtifacts'
    <3>1. WellFormed(TrueKey) /\ \A a \in artifacts : a.object = a.key /\ WellFormed(a.key)
      BY TrueKeyFacts DEF QuietInv, QuietArtifacts, ArtifactsSound
    <3>2. \A a \in artifacts' : a.object = a.key /\ WellFormed(a.key)
      BY <2>3, <3>1
    <3> QED
      BY <3>2 DEF QuietArtifacts, ArtifactsSound, WellFormed
  <2> QED
    BY <2>1, <2>4, <2>5, <2>6 DEF QuietCaches
<1> QED
  BY <1>3, <1>4, <1>5, <1>6, <1>7, <1>8, <1>9 DEF RequestStep

\* The hashes a request holds are those of the present contents.
TrueHashes(hashes) == \A f \in File : hashes[f] # None => hashes[f] = content[f]

\* A step of a request keeps the quiet invariant.
LEMMA QuietRequestStep ==
    ASSUME TypeInv, FreshInv, QuietInv, NEW r \in Request, RequestStep(r)
    PROVE  QuietInv'
<1>a. QuietCaches /\ QuietRequest(r) /\ req[r] \in Req /\ LocalsSet(pc[r], req[r])
  BY QuietStepCaches DEF QuietInv, TypeInv, TypeOK
<1>b. /\ TrueKey \in Key /\ WellFormed(TrueKey) /\ NotOlder(TrueKey, req[r].floor)
      /\ UNCHANGED <<content, TrueKey>>
  BY <1>a, TrueKeyFacts DEF QuietCaches, world, TrueKey
<1>c. TrueHashes(req[r].hashes) /\ TrueHashes(Nothing)
  BY <1>a DEF QuietRequest, QuietLocals, TrueHashes, Nothing
<1>d. ASSUME NEW step, NEW floor, NEW hashes, NEW includes, NEW key, NEW object,
             Moves(r, step, floor, hashes, includes, key, object), QuietRequest(r)'
      PROVE  QuietInv'
  <2>1. req' = [req EXCEPT ![r] = req'[r]] /\ pc' = [pc EXCEPT ![r] = pc'[r]]
    BY <1>d DEF Moves, TypeInv, TypeOK
  <2> QED
    BY <1>a, <1>d, <2>1, QuietMoves
<1>e. ASSUME NEW step, NEW floor, NEW hashes, NEW includes, NEW key, NEW object,
             Moves(r, step, floor, hashes, includes, key, object)
      PROVE  /\ pc'[r] = step /\ req'[r].floor = floor /\ req'[r].hashes = hashes
             /\ req'[r].includes = includes /\ req'[r].key = key /\ req'[r].object = object
  BY <1>e DEF Moves, TypeInv, TypeOK
\* Steps that ask nothing of the locals but the hashes.
<1>1. ASSUME NEW step \in {"idle", "request", "register", "fast", "cold", "hashSource",
                           "hashHeaders", "fastKey", "check", "miss"},
             NEW floor, NEW hashes, NEW includes, NEW key, NEW object, TrueHashes(hashes),
             Moves(r, step, floor, hashes, includes, key, object)
      PROVE  QuietInv'
  <2>1. pc'[r] = step /\ req'[r].hashes = hashes
    BY <1>1, <1>e
  <2>2. QuietRequest(r)'
    BY <1>1, <1>b, <2>1
       DEF QuietRequest, QuietLocals, QuietCovered, QuietServes, Compiling, TrueHashes
  <2> QED
    BY <1>1, <1>d, <2>2
\* The answer is no older than the request.
<1>2. ASSUME NEW object, Answers(r, object), NotOlder(object, req[r].floor)
      PROVE  QuietInv'
  <2>1. Moves(r, "done", req[r].floor, Nothing, {}, None, object)
    BY <1>2 DEF Answers
  <2>2. /\ pc'[r] = "done" /\ req'[r].hashes = Nothing /\ req'[r].floor = req[r].floor
        /\ req'[r].object = object
    BY <2>1, <1>e
  <2>3. QuietRequest(r)'
    BY <1>2, <1>b, <1>c, <2>2
       DEF QuietRequest, QuietLocals, QuietCovered, QuietServes, Compiling, TrueHashes
  <2> QED
    BY <1>d, <2>1, <2>3
\* A zero-hash tier is about to serve what the fast-hit entry names.
<1>3. ASSUME FastGate, NEW step \in {"requestHit", "fastHit"}, MovesTo(r, step, fastHit.key),
             UNCHANGED artifacts
      PROVE  QuietInv'
  <2>1. Moves(r, step, req[r].floor, req[r].hashes, req[r].includes, fastHit.key, req[r].object)
    BY <1>3 DEF MovesTo
  <2>2. /\ pc'[r] = step /\ req'[r].hashes = req[r].hashes /\ req'[r].floor = req[r].floor
        /\ req'[r].key = fastHit.key
    BY <2>1, <1>e
  <2>3. Present(fastHit.key) => NotOlder(fastHit.key, req[r].floor)
    BY <1>3, FloorsSettled
       DEF QuietInv, FastHitSound, FastGate, TypeInv, TypeOK, FastHitEntry
  <2>4. Present(req[r].key)' => Present(fastHit.key)
    BY <1>3, <2>2 DEF Present
  <2>5. QuietRequest(r)'
    BY <1>3, <1>b, <1>c, <2>2, <2>3, <2>4
       DEF QuietRequest, QuietLocals, QuietCovered, QuietServes, Compiling, TrueHashes
  <2> QED
    BY <1>d, <2>1, <2>5
\* What such a tier delivers.
<1>4. ASSUME pc[r] \in {"requestHit", "fastHit"}, NEW a \in Artifact(req[r].key),
             Answers(r, a.object)
      PROVE  QuietInv'
  <2>1. a.object = req[r].key /\ Present(req[r].key)
    BY <1>4 DEF Artifact, Present, QuietInv, QuietArtifacts, ArtifactsSound
  <2>2. NotOlder(a.object, req[r].floor)
    BY <1>4, <1>a, <2>1 DEF QuietRequest, QuietServes
  <2> QED
    BY <1>2, <1>4, <2>2
<1>5. CASE Start(r) \/ Return(r) \/ Register(r)
  BY <1>1, <1>5, <1>c, FastTierMoves DEF MovesOn
<1>6. CASE TryRequestCacheHit(r) \/ TryFastHit(r)
  <2>1. UNCHANGED artifacts
    BY <1>6 DEF TryRequestCacheHit, TryFastHit, caches
  <2> QED
    BY <1>1, <1>3, <1>6, <1>c, <2>1, FastTierMoves DEF MovesOn
<1>7. CASE RequestCacheServe(r) \/ FastServe(r)
  BY <1>1, <1>4, <1>7, <1>c, FastTierMoves DEF MovesTo
<1>8. CASE IsCold(r)
  BY <1>1, <1>8, <1>c, DepGraphMoves DEF MovesOn
<1>9. CASE HashSource(r) \/ HashHeaders(r)
  <2>1. \A f \in File : \A h \in {content[f], None} : TrueHashes([req[r].hashes EXCEPT ![f] = h])
    BY <1>a, <1>c DEF TrueHashes, Req, Hashes
  <2> QED
    BY <1>1, <1>9, <2>1, DepGraphMoves DEF File
<1>10. CASE TryFastKey(r) \/ Check(r)
  <2>1. ASSUME dep # None, RequestKey(r) \in Key, req[r].hashes["src"] # None,
               Moves(r, "hit", req[r].floor, req[r].hashes, dep.includes, RequestKey(r),
                     req[r].object)
        PROVE  QuietInv'
    <3>1. /\ pc'[r] = "hit" /\ req'[r].hashes = req[r].hashes
          /\ req'[r].key = RequestKey(r)
      BY <2>1, <1>e
    <3>2. RequestKey(r).src = req[r].hashes["src"]
          /\ (RequestKey(r).hdr # None =>
                "hdr" \in dep.includes /\ RequestKey(r).hdr = req[r].hashes["hdr"])
      BY <2>1, PipelineConstants DEF RequestKey, KeyOf
    <3>3. /\ RequestKey(r).src = content["src"]
          /\ RequestKey(r).hdr # None => RequestKey(r).hdr = content["hdr"]
      BY <1>c, <2>1, <3>2 DEF TrueHashes, File
    <3>4. RequestKey(r).hdr # None => "hdr" \in DepIncludes'
      <4>1. DepIncludes' = DepIncludes
        BY <1>10, IncludesKept DEF DepIncludes, TryFastKey, caches
      <4> QED
        BY <2>1, <3>2, <4>1 DEF DepIncludes
    <3>5. QuietRequest(r)'
      BY <1>b, <1>c, <3>1, <3>3, <3>4
         DEF QuietRequest, QuietLocals, QuietCovered, QuietServes, Compiling, TrueHashes, Covered
    <3> QED
      BY <1>d, <2>1, <3>5
  <2> QED
    BY <1>1, <1>10, <1>c, <2>1, DepGraphMoves DEF MovesOn
<1>11. CASE DepgraphServe(r)
  <2>1. ASSUME NEW a \in Artifact(req[r].key), pc[r] = "hit",
               Moves(r, "record", req[r].floor, req[r].hashes, req[r].includes,
                     req[r].key, a.object)
        PROVE  QuietInv'
    <3>1. /\ pc'[r] = "record" /\ req'[r].hashes = req[r].hashes
          /\ req'[r].key = req[r].key /\ req'[r].object = a.object
      BY <2>1, <1>e
    <3>2. a.object = req[r].key /\ WellFormed(req[r].key) /\ Present(req[r].key)
      BY <2>1 DEF Artifact, Present, QuietInv, QuietArtifacts, ArtifactsSound
    <3>3. /\ req[r].key.src = content["src"]
          /\ req[r].key.hdr # None => req[r].key.hdr = content["hdr"]
          /\ req[r].key.hdr # None => "hdr" \in DepIncludes
      BY <1>a, <2>1, <3>2 DEF QuietRequest, QuietLocals, QuietCovered, Covered
    <3>4. req[r].key.hdr # None => "hdr" \in DepIncludes'
      BY <1>a, <3>2, <3>3 DEF QuietCaches, WellFormed, IncludesOf
    <3>5. QuietRequest(r)'
      BY <1>b, <1>c, <3>1, <3>2, <3>3, <3>4
         DEF QuietRequest, QuietLocals, QuietCovered, QuietServes, Compiling, TrueHashes, Covered,
             WellFormed
    <3> QED
      BY <1>d, <2>1, <3>5
  <2> QED
    BY <1>1, <1>11, <1>c, <2>1, DepGraphMoves DEF MovesOn
<1>12. CASE RecordHit(r)
  <2>1. pc[r] = "record"
    BY <1>12 DEF RecordHit
  <2> QED
    BY <1>2, <1>12, <1>b, <2>1, RecordedKey, DepGraphMoves
\* The compiler's steps: nothing is edited under them.
<1>13. ASSUME NEW step \in {"compile", "compileHeader", "scan", "hash"},
              pc[r] \in Compiling \/ fastHit' = None, fastHit' = fastHit \/ fastHit' = None,
              NEW hashes, NEW includes, NEW key, NEW object, TrueHashes(hashes),
              step # "compile" => includes = IncludesOf(content["src"]),
              step = "compileHeader" =>
                /\ object = [src |-> content["src"], hdr |-> None]
                /\ IncludesOf(content["src"]) # {},
              step \in {"scan", "hash"} => object = TrueKey,
              Moves(r, step, req[r].floor, hashes, includes, key, object)
       PROVE  QuietInv'
  <2>1. /\ pc'[r] = step /\ req'[r].hashes = hashes
        /\ req'[r].includes = includes /\ req'[r].object = object
    BY <1>13, <1>e
  <2>2. fastHit' # None => fastHit'.key = TrueKey
    BY <1>13, <1>a DEF QuietRequest, QuietCovered
  <2>3. QuietLocals(r)'
    BY <1>13, <1>b, <2>1 DEF QuietLocals, TrueHashes
  <2>4. QuietCovered(r)' /\ QuietServes(r)'
    BY <1>13, <1>b, <2>1, <2>2 DEF QuietCovered, QuietServes
  <2> QED
    BY <1>13, <1>d, <2>3, <2>4 DEF QuietRequest
<1>14. CASE Miss(r)
  <2>1. fastHit' = None
    BY <1>14 DEF Miss
  <2> QED
    BY <1>13, <1>14, <1>c, <2>1, CompileMoves
<1>15. CASE CompileSource(r)
  <2>1. UNCHANGED fastHit /\ pc[r] \in Compiling
    BY <1>15 DEF CompileSource, caches, Compiling
  <2>2. IncludesOf(content["src"]) = {} => [src |-> content["src"], hdr |-> None] = TrueKey
    BY DEF TrueKey
  <2> QED
    BY <1>13, <1>15, <1>c, <2>1, <2>2, CompileMoves
<1>16. CASE CompileHeader(r)
  <2>1. UNCHANGED fastHit /\ pc[r] = "compileHeader"
    BY <1>16 DEF CompileHeader, caches
  <2>2. /\ req[r].includes = IncludesOf(content["src"])
        /\ req[r].object = [src |-> content["src"], hdr |-> None]
        /\ IncludesOf(content["src"]) # {}
    BY <1>a, <2>1 DEF QuietRequest, QuietLocals
  <2>3. [req[r].object EXCEPT !.hdr = content["hdr"]] = TrueKey
    BY <2>2 DEF TrueKey
  <2> QED
    BY <1>13, <1>16, <1>c, <2>1, <2>2, <2>3, CompileMoves DEF Compiling
<1>17. CASE Scan(r)
  <2>1. UNCHANGED fastHit /\ pc[r] = "scan"
    BY <1>17 DEF Scan, caches
  <2>2. req[r].includes = IncludesOf(content["src"]) /\ req[r].object = TrueKey
    BY <1>a, <2>1 DEF QuietRequest, QuietLocals
  <2> QED
    BY <1>13, <1>17, <1>c, <2>1, <2>2, CompileMoves DEF Compiling, MovesOn
<1>18. ASSUME NEW f \in File, HashInput(r, f) PROVE QuietInv'
  <2>1. UNCHANGED fastHit /\ pc[r] = "hash"
    BY <1>18 DEF HashInput, caches
  <2>2. req[r].includes = IncludesOf(content["src"]) /\ req[r].object = TrueKey
    BY <1>a, <2>1 DEF QuietRequest, QuietLocals
  <2>3. TrueHashes([req[r].hashes EXCEPT ![f] = content[f]])
    BY <1>a, <1>c DEF TrueHashes, Req, Hashes
  <2> QED
    BY <1>13, <1>18, <2>1, <2>2, <2>3, CompileMoves DEF Compiling
<1>19. ASSUME pc[r] \in {"scan", "hash", "insert"}, Answers(r, req[r].object) PROVE QuietInv'
  BY <1>2, <1>19, <1>a, <1>b DEF QuietRequest, QuietLocals
<1>20. CASE CompileFails(r) \/ StoreSkipped(r) \/ InsertArtifact(r)
  BY <1>19, <1>20, CompileMoves DEF CompileFails, StoreSkipped, InsertArtifact
<1>21. CASE Update(r)
  <2>1. pc[r] = "hash" /\ UNCHANGED fastHit
    BY <1>21 DEF Update
  <2>2. StoredKey(r) = TrueKey /\ req[r].includes = IncludesOf(content["src"])
    BY <1>21, UpdatedKey
  <2>3. ASSUME dep # None,
               Moves(r, "insert", req[r].floor, Nothing, {}, StoredKey(r), req[r].object)
        PROVE  QuietInv'
    <3>1. /\ pc'[r] = "insert" /\ req'[r].hashes = Nothing
          /\ req'[r].key = StoredKey(r) /\ req'[r].object = req[r].object
      BY <2>3, <1>e
    <3>2. /\ req[r].object = TrueKey
          /\ fastHit # None => fastHit.key = TrueKey
      BY <1>a, <2>1 DEF QuietRequest, QuietLocals, QuietCovered, Compiling
    <3>3. dep' # None /\ dep'.includes = IncludesOf(content["src"])
      BY <1>21, <1>a, <2>2, <2>3 DEF Update, QuietCaches
    <3>4. QuietLocals(r)'
      BY <1>b, <1>c, <2>2, <3>1, <3>2 DEF QuietLocals, TrueHashes
    <3>5. QuietCovered(r)' /\ QuietServes(r)'
      BY <1>b, <2>1, <3>1, <3>2, <3>3 DEF QuietCovered, QuietServes
    <3> QED
      BY <1>d, <2>3, <3>4, <3>5 DEF QuietRequest
  <2> QED
    BY <1>19, <1>21, <2>1, <2>3, CompileMoves
<1> QED
  BY <1>5, <1>6, <1>7, <1>8, <1>9, <1>10, <1>11, <1>12, <1>14, <1>15, <1>16, <1>17, <1>18, <1>20,
     <1>21 DEF RequestStep

\* The watcher's and the maintenance's steps, when inputs are only edited
\* between requests and no context is evicted.
LEMMA QuietOtherStep ==
    ASSUME TypeInv, FreshInv, QuietInv, QuietBuilds, ~Evictions, Watcher \/ Maintenance
    PROVE  QuietInv'
<1>a. UNCHANGED <<pc, req>>
  BY TypeOtherStep
<1>b. /\ content \in [File -> Nat] /\ settled \in [File -> Nat] /\ clock \in Nat
      /\ lastChange \in [File -> Nat \cup {None}]
      /\ fastHit # None => fastHit.clock \in Nat /\ fastHit.key \in Key
  BY DEF TypeInv, TypeOK, FastHitEntry
<1>c. /\ watched /\ consumer # "off" /\ QuietArtifacts /\ FastHitSound
      /\ \A r \in Request : QuietRequest(r)
  BY DEF QuietInv
\* Nothing that a request relies on changes.
<1>1. ASSUME UNCHANGED content, \A k : Present(k)' => Present(k), DepIncludes' = DepIncludes,
             \A r \in Request : pc[r] = "insert" => UNCHANGED dep,
             fastHit' = fastHit \/ fastHit' = None, NEW r \in Request
      PROVE  QuietRequest(r)'
  <2>1. UNCHANGED TrueKey /\ QuietRequest(r) /\ QuietLocals(r)'
    BY <1>1, <1>a, <1>c DEF TrueKey, QuietRequest, QuietLocals
  <2>2. /\ Covered(req[r].key) => Covered(req[r].key)'
        /\ Present(req[r].key)' => Present(req[r].key)
    <3>1. \A k : (\E a \in artifacts' : a.key = k) => Present(k)
      BY <1>1 DEF Present
    <3> QED
      BY <1>1, <1>a, <3>1 DEF Covered, Present
  <2>3. QuietCovered(r)'
    BY <1>1, <1>a, <2>1, <2>2 DEF QuietRequest, QuietCovered
  <2>4. QuietServes(r)'
    BY <1>a, <2>1, <2>2 DEF QuietRequest, QuietServes
  <2> QED
    BY <2>1, <2>3, <2>4 DEF QuietRequest
<1>2. ASSUME UNCHANGED <<content, artifacts, dep, fastHit>>, NEW r \in Request
      PROVE  QuietRequest(r)'
  BY <1>1, <1>2 DEF Present, DepIncludes
<1>3. UNCHANGED artifacts => QuietArtifacts'
  BY <1>c DEF QuietArtifacts, ArtifactsSound, WellFormed
\* The journal calls the context changed, or nobody asks it.
<1>4. ASSUME UNCHANGED <<artifacts, dep, fastHit>>, clock <= clock', clock' \in Nat,
             fastHit # None => ~FastGate'
      PROVE  FastHitSound'
  <2>1. Covered(fastHit.key)' = Covered(fastHit.key)
    BY <1>4 DEF Covered, Present, DepIncludes
  <2> QED
    BY <1>b, <1>c, <1>4, <2>1 DEF FastHitSound
<1>5. ASSUME NEW f \in File, Edit(f) PROVE QuietInv'
  <2>1. \A r \in Request : pc[r] = "idle" /\ req[r] = NoReq
    BY <1>5 DEF Edit, TypeInv, LocalsSet
  <2>2. UNCHANGED <<watched, consumer, watcherActive, journal, caches>>
    BY <1>5 DEF Edit
  <2>3. \A r \in Request : QuietRequest(r)'
    BY <1>a, <2>1
       DEF QuietRequest, QuietLocals, QuietCovered, QuietServes, Compiling, NoReq, Nothing
  <2>4. FastHitSound'
    <3>1. CASE watcherActive
      <4>1. UNCHANGED <<settled, watcherActive, journal, caches>>
        BY <1>5, <1>c, <2>2, <3>1 DEF Edit
      <4> QED
        BY <1>c, <4>1
           DEF FastHitSound, FastGate, ContextFilesFresh, ProvesFresh, Covered, Present,
           DepIncludes, journal, caches
    <3>2. CASE ~watcherActive
      BY <1>4, <1>b, <2>2, <3>2 DEF FastGate, journal, caches
    <3> QED
      BY <3>1, <3>2
  <2> QED
    BY <1>3, <1>c, <2>2, <2>3, <2>4 DEF QuietInv, caches
<1>6. CASE ApplyBatch
  <2>1. /\ UNCHANGED <<content, watched, consumer, watcherActive, lastOverflow, dep, artifacts,
                       fastHit>>
        /\ clock' = clock + 1
        /\ lastChange' = [f \in File |-> IF f \in pending THEN clock + 1 ELSE lastChange[f]]
        /\ settled' = [f \in File |-> IF f \in pending THEN content[f] ELSE settled[f]]
    BY <1>6 DEF ApplyBatch, caches
  <2>2. FastHitSound'
    <3> SUFFICES ASSUME fastHit # None
                 PROVE  /\ fastHit.clock <= clock'
                        /\ Covered(fastHit.key)'
                        /\ FastGate' /\ Present(fastHit.key)' => NotOlder(fastHit.key, settled')
      BY <2>1 DEF FastHitSound
    <3>1. fastHit.clock <= clock /\ Covered(fastHit.key)
      BY <1>c DEF FastHitSound
    <3>2. fastHit.clock <= clock' /\ Covered(fastHit.key)'
      BY <1>b, <2>1, <3>1 DEF Covered, Present, DepIncludes
    <3>3. ASSUME NEW f \in File, ProvesFresh(f, fastHit.clock)'
          PROVE  settled'[f] = settled[f] /\ ProvesFresh(f, fastHit.clock)
      BY <1>b, <2>1, <3>1, <3>3 DEF ProvesFresh
    <3>4. ASSUME FastGate', Present(fastHit.key)' PROVE NotOlder(fastHit.key, settled')
      <4>1. Present(fastHit.key)
        BY <2>1, <3>4 DEF Present
      <4>2. \A f \in {"src"} \cup DepIncludes : ProvesFresh(f, fastHit.clock)' /\ f \in File
        BY <2>1, <3>4 DEF FastGate, ContextFilesFresh, DepIncludes, File, TypeInv, TypeOK,
           ContextEntry
      <4>3. FastGate
        BY <2>1, <3>3, <3>4, <4>2 DEF FastGate, ContextFilesFresh
      <4>4. NotOlder(fastHit.key, settled)
        BY <1>c, <4>1, <4>3 DEF FastHitSound
      <4>5. fastHit.key.hdr # None => "hdr" \in DepIncludes
        BY <3>1, <4>1 DEF Covered
      <4> QED
        BY <3>3, <4>2, <4>4, <4>5 DEF NotOlder
    <3> QED
      BY <3>2, <3>4
  <2> QED
    BY <1>2, <1>3, <1>c, <2>1, <2>2 DEF QuietInv
<1>7. CASE ApplyOverflow
  <2>1. /\ UNCHANGED <<content, watched, consumer, dep, artifacts, fastHit>>
        /\ clock' = clock + 1 /\ lastOverflow' = clock + 1
    BY <1>7 DEF ApplyOverflow, caches
  <2>2. fastHit # None => ~FastGate'
    BY <1>b, <1>c, <2>1 DEF FastGate, ContextFilesFresh, ProvesFresh, FastHitSound
  <2>3. FastHitSound'
    BY <1>4, <1>b, <2>1, <2>2
  <2> QED
    BY <1>2, <1>3, <1>c, <2>1, <2>3 DEF QuietInv
<1>8. CASE SupervisorNotices
  <2>1. /\ UNCHANGED <<content, watched, consumer, clock, dep, artifacts, fastHit>>
        /\ watcherActive' = FALSE
    BY <1>8 DEF SupervisorNotices, journal, caches
  <2>2. FastHitSound'
    BY <1>4, <1>b, <2>1 DEF FastGate
  <2> QED
    BY <1>2, <1>3, <1>c, <2>1, <2>2 DEF QuietInv
<1>9. CASE ConsumerDies \/ WatchDirs \/ RequestCacheExpires
  <2>1. /\ UNCHANGED <<content, settled, watcherActive, journal, dep, artifacts, fastHit>>
        /\ watched' /\ consumer' # "off"
    BY <1>9, <1>c DEF ConsumerDies, WatchDirs, RequestCacheExpires, caches, world
  <2>2. FastHitSound'
    BY <1>c, <2>1 DEF FastHitSound, FastGate, ContextFilesFresh, ProvesFresh, Covered, Present,
       DepIncludes, journal
  <2> QED
    BY <1>2, <1>3, <1>c, <2>1, <2>2 DEF QuietInv
<1>10. CASE Arm \/ EvictContext
  BY <1>10, <1>c DEF Arm, EvictContext
<1>11. CASE FastHitExpires
  <2>1. UNCHANGED <<world, dep, artifacts>> /\ fastHit' = None
    BY <1>11 DEF FastHitExpires
  <2>2. \A r \in Request : QuietRequest(r)'
    BY <1>1, <2>1 DEF Present, DepIncludes, world
  <2> QED
    BY <1>3, <1>c, <2>1, <2>2 DEF QuietInv, FastHitSound, world
<1>12. ASSUME NEW a \in artifacts, EvictArtifact(a) PROVE QuietInv'
  <2>1. /\ UNCHANGED <<world, journal, fastHit>> /\ artifacts' = artifacts \ {a}
        /\ \A r \in Request : pc[r] # "insert"
    BY <1>12 DEF EvictArtifact
  <2>2. DepIncludes' = DepIncludes
    <3>1. dep' = dep \/ (dep # None /\ dep' = [dep EXCEPT !.key = None])
      BY <1>12 DEF EvictArtifact, WithoutKey
    <3>2. dep # None => /\ [dep EXCEPT !.key = None] \in ContextEntry
                        /\ [dep EXCEPT !.key = None].includes = dep.includes
      BY DEF TypeInv, TypeOK, ContextEntry
    <3> QED
      BY <3>1, <3>2, PipelineConstants DEF DepIncludes
  <2>3. \A k : Present(k)' => Present(k)
    BY <2>1 DEF Present
  <2>4. \A r \in Request : QuietRequest(r)'
    BY <1>1, <2>1, <2>2, <2>3 DEF world
  <2>5. QuietArtifacts'
    BY <1>c, <2>1 DEF QuietArtifacts, ArtifactsSound, WellFormed
  <2>6. FastHitSound'
    <3>1. FastGate' = FastGate
      BY <2>1, <2>2 DEF FastGate, ContextFilesFresh, ProvesFresh, world, journal
    <3>2. Present(fastHit.key)' => Present(fastHit.key)
      BY <2>1 DEF Present
    <3> QED
      BY <1>c, <2>1, <2>2, <3>1, <3>2 DEF FastHitSound, Covered, world, journal
  <2> QED
    BY <1>c, <2>1, <2>4, <2>5, <2>6 DEF QuietInv, world
<1>13. CASE Clear
  <2>1. /\ UNCHANGED world /\ artifacts' = {} /\ fastHit' = None
        /\ \A r \in Request : pc[r] # "insert"
    BY <1>13 DEF Clear
  <2>2. ASSUME NEW r \in Request PROVE QuietRequest(r)'
    <3>1. QuietRequest(r) /\ QuietLocals(r)'
      BY <1>a, <1>c, <2>1 DEF QuietRequest, QuietLocals, TrueKey, world
    <3>2. QuietCovered(r)'
      BY <1>a, <2>1 DEF QuietCovered, Covered, Present
    <3>3. QuietServes(r)'
      BY <1>a, <2>1, <3>1 DEF QuietRequest, QuietServes, Present
    <3> QED
      BY <3>1, <3>2, <3>3 DEF QuietRequest
  <2>3. QuietArtifacts' /\ FastHitSound'
    BY <2>1 DEF QuietArtifacts, ArtifactsSound, FastHitSound
  <2> QED
    BY <1>c, <2>1, <2>2, <2>3 DEF QuietInv, world
<1> QED
  BY <1>5, <1>6, <1>7, <1>8, <1>9, <1>10, <1>11, <1>12, <1>13 DEF Watcher, Maintenance

\* In quiet, watched builds without evictions the invariant holds throughout.
LEMMA QuietHolds ==
    ASSUME QuietBuilds, InWorkingDir, ~LateArm, ~Evictions
    PROVE  Spec => []QuietInv
<1>1. Init => QuietInv
  <2> SUFFICES ASSUME Init PROVE QuietInv
    OBVIOUS
  <2>1. watched /\ consumer # "off" /\ QuietArtifacts /\ FastHitSound
    BY DEF Init, QuietArtifacts, ArtifactsSound, FastHitSound
  <2>2. \A r \in Request : pc[r] = "idle" /\ req[r] = NoReq
    BY DEF Init
  <2>3. ASSUME NEW r \in Request PROVE QuietRequest(r)
    <3>1. pc[r] = "idle" /\ \A f \in File : req[r].hashes[f] = None
      BY <2>2 DEF NoReq, Nothing
    <3> QED
      BY <3>1 DEF QuietRequest, QuietLocals, QuietCovered, QuietServes, Compiling
  <2> QED
    BY <2>1, <2>3 DEF QuietInv
<1>2. TypeInv /\ FreshInv /\ QuietInv /\ [Next]_vars => QuietInv'
  <2> SUFFICES ASSUME TypeInv, FreshInv, QuietInv, [Next]_vars PROVE QuietInv'
    OBVIOUS
  <2>1. CASE UNCHANGED vars
    <3>1. UNCHANGED <<content, settled, watched, consumer, watcherActive, clock, lastChange,
                      lastOverflow, dep, artifacts, fastHit, pc, req>>
      BY <2>1 DEF vars, world, journal, caches
    <3>2. UNCHANGED <<TrueKey, FastGate>>
      BY <3>1 DEF TrueKey, FastGate, ContextFilesFresh, ProvesFresh, DepIncludes
    <3>3. \A r \in Request : QuietRequest(r)'
      BY <3>1, <3>2 DEF QuietInv, QuietRequest, QuietLocals, QuietCovered, QuietServes, Covered,
         Present, DepIncludes, WellFormed
    <3>4. QuietArtifacts' /\ FastHitSound'
      BY <3>1, <3>2
         DEF QuietInv, QuietArtifacts, ArtifactsSound, WellFormed, FastHitSound, Covered,
         Present, DepIncludes
    <3> QED
      BY <3>1, <3>3, <3>4 DEF QuietInv
  <2> QED
    BY <2>1, QuietRequestStep, QuietOtherStep DEF Next
<1> QED
  BY <1>1, <1>2, TypeHolds, FreshHolds, PTL DEF Spec

(***************************************************************************)
(* "Builds must never return stale artifacts" (DD-003), for any number of  *)
(* requests and edits, when inputs are edited only between requests, their *)
(* directory is watched since the session's start by a watcher that came   *)
(* up with the daemon, and no context is evicted from the dep graph: the   *)
(* object any tier answers with was made of inputs no older than those the *)
(* daemon had been told of when the request came in.  Batches may be late, *)
(* events lost to an overflow, the consumer may die, artifacts and cache   *)
(* entries expire, and Clear may come at any time.                         *)
(***************************************************************************)
THEOREM NoStaleServeHolds ==
    ASSUME QuietBuilds, InWorkingDir, ~LateArm, ~Evictions
    PROVE  Spec => []NoStaleServe
<1>1. QuietInv => NoStaleServe
  BY DEF QuietInv, QuietRequest, QuietServes, NoStaleServe
<1> QED
  BY <1>1, QuietHolds, PTL

(***************************************************************************)
(* Under the same assumptions every artifact store_successful_compile      *)
(* publishes is what the compiler makes of the inputs its key names.       *)
(***************************************************************************)
THEOREM ArtifactsSoundHolds ==
    ASSUME QuietBuilds, InWorkingDir, ~LateArm, ~Evictions
    PROVE  Spec => []ArtifactsSound
<1>1. QuietInv => ArtifactsSound
  BY DEF QuietInv, QuietArtifacts
<1> QED
  BY <1>1, QuietHolds, PTL
=============================================================================
