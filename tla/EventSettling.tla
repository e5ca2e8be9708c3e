---------------------------- MODULE EventSettling ----------------------------
(***************************************************************************)
(* From the OS watcher to the cache (zccache-watcher notify_watcher.rs and *)
(* settle.rs, and the consumer of daemon/server/run.rs): notifications     *)
(* become WatchEvents on an unbounded channel, the settle task coalesces   *)
(* them per path, and the consumer applies each settled batch.             *)
(*                                                                         *)
(* Every change of a path has a number; told[p] is the newest one that the *)
(* cache has been told of.  Numbers stop at MaxVersion, so that a stream   *)
(* of events without end stays finite.                                     *)
(***************************************************************************)
EXTENDS Naturals, Sequences

CONSTANTS
    SePath,
    SeIgnored,        \* paths the ignore filter drops
    SeMaxVersion,     \* where the numbering of changes stops
    SeMaxInFlight,    \* bound on the events under way when the OS reports more
    SeNone

VARIABLES
    seVersion,    \* path -> number of its newest change
    seRaw,        \* the channel from the watcher callback
    seOpen,       \* the callback still holds the sender
    seStage,      \* the settle task: idle, coalescing, or stopped
    seExpired,    \* max_wait passed since the first event of the batch
    sePending,    \* path -> the change to report: kind and number, or None
    seSettled,    \* the channel to the consumer
    seTold        \* path -> number of the newest change the cache heard of

seVars == <<seVersion, seRaw, seOpen, seStage, seExpired, sePending, seSettled, seTold>>

SeKind == {"Modified", "Removed"}
SeChange == [kind : SeKind, version : Nat]

ASSUME SeSettlingConstants ==
    /\ SeIgnored \subseteq SePath
    /\ SeMaxVersion \in Nat \ {0}
    /\ SeMaxInFlight \in Nat \ {0}
    /\ SeNone \notin SeChange

\* A WatchEvent, by what apply_event makes of it: the paths it names and how;
\* Overflow and Error have their own handling.
SeEvent == [type : {"Change"}, of : [SePath -> SeChange \cup {SeNone}]]
            \cup [type : {"Overflow", "Error"}]
SeEmission == [type : {"Batch"}, of : [SePath -> SeChange \cup {SeNone}]]
                 \cup [type : {"Overflow"}]

SeTypeOK ==
    /\ seVersion \in [SePath -> 0 .. SeMaxVersion]
    /\ seRaw \in Seq(SeEvent)
    /\ seOpen \in BOOLEAN
    /\ seStage \in {"idle", "coalescing", "stopped"}
    /\ seExpired \in BOOLEAN
    /\ sePending \in [SePath -> SeChange \cup {SeNone}]
    /\ seSettled \in Seq(SeEmission)
    /\ seTold \in [SePath -> 0 .. SeMaxVersion]
    /\ seStage = "idle" => sePending = [p \in SePath |-> SeNone]

SeNothingPending == [p \in SePath |-> SeNone]

SeInit ==
    /\ seVersion = [p \in SePath |-> 0]
    /\ seRaw = <<>> /\ seOpen = TRUE
    /\ seStage = "idle" /\ seExpired = FALSE
    /\ sePending = SeNothingPending
    /\ seSettled = <<>>
    /\ seTold = [p \in SePath |-> 0]

-----------------------------------------------------------------------------
\* Notifications: the file system changed, and convert_notification puts
\* WatchEvents on the channel.

SeInFlight == Len(seRaw) + Len(seSettled)

SeNewer(paths) ==
    [p \in SePath |-> IF p \in paths \ SeIgnored /\ seVersion[p] < SeMaxVersion
                    THEN seVersion[p] + 1 ELSE seVersion[p]]

\* The WatchEvents of one notification: one per path and kind given, none
\* for an ignored path.  `to' is the second path of a rename.
SeRenamed(from, to) ==
    [type |-> "Change",
     of |-> [p \in SePath |->
               IF p \in {from, to} \ SeIgnored
               THEN [kind |-> IF p = to THEN "Modified" ELSE "Removed", version |-> seVersion'[p]]
               ELSE SeNone]]

SeSingle(path, kind) ==
    [type |-> "Change",
     of |-> [p \in SePath |-> IF p = path THEN [kind |-> kind, version |-> seVersion'[p]]
                                        ELSE SeNone]]

SeSend(events) == seRaw' = seRaw \o events

\* Created, ContentModified, MetadataModified, Other, Removed, or one half of a
\* rename.  An access changes nothing and is not reported.
SeNotify(p, kind) ==
    /\ seOpen /\ SeInFlight < SeMaxInFlight
    /\ seVersion' = SeNewer({p})
    /\ SeSend(IF p \in SeIgnored THEN <<>> ELSE <<SeSingle(p, kind)>>)
    /\ UNCHANGED <<seOpen, seStage, seExpired, sePending, seSettled, seTold>>

\* A rename reported with both paths: Renamed, Created, Removed or nothing,
\* as the filter ignores neither, the source, the target or both.
SeNotifyRename(from, to) ==
    /\ seOpen /\ SeInFlight < SeMaxInFlight
    /\ from # to
    /\ seVersion' = SeNewer({from, to})
    /\ SeSend(IF {from, to} \subseteq SeIgnored THEN <<>> ELSE <<SeRenamed(from, to)>>)
    /\ UNCHANGED <<seOpen, seStage, seExpired, sePending, seSettled, seTold>>

\* RescanRequired or a watcher error: changes of any path went unreported.
SeNotifyIncomplete(type) ==
    /\ seOpen /\ SeInFlight < SeMaxInFlight
    /\ \E lost \in SUBSET SePath : seVersion' = SeNewer(lost)
    /\ SeSend(<<[type |-> type]>>)
    /\ UNCHANGED <<seOpen, seStage, seExpired, sePending, seSettled, seTold>>

\* The watcher is dropped, and the sender with it.
SeClose ==
    /\ seOpen
    /\ seOpen' = FALSE
    /\ UNCHANGED <<seVersion, seRaw, seStage, seExpired, sePending, seSettled, seTold>>

-----------------------------------------------------------------------------
\* SettleBuffer::run

\* apply_event: the last event of a path wins.
SeApplyEvent(batch, event) ==
    [p \in SePath |-> IF event.of[p] # SeNone THEN event.of[p] ELSE batch[p]]

SeIsOverflow(event) == event.type \in {"Overflow", "Error"}

\* Mutant: an error is dropped with what was pending.
SeOverflowUnlessError(event) ==
    IF event.type = "Error" THEN <<>> ELSE <<[type |-> "Overflow"]>>

\* An error counts as an overflow.
SeOverflowOf(event) == <<[type |-> "Overflow"]>>

\* drain, if there is anything to drain.
SeEmit ==
    /\ seSettled' = IF sePending = SeNothingPending THEN seSettled
                  ELSE Append(seSettled, [type |-> "Batch", of |-> sePending])
    /\ sePending' = SeNothingPending

SeReceive ==
    /\ seStage \in {"idle", "coalescing"}
    /\ ~seExpired
    /\ seRaw # <<>>
    /\ seRaw' = Tail(seRaw)
    /\ \/ /\ SeIsOverflow(Head(seRaw))
          /\ sePending' = SeNothingPending
          /\ seSettled' = seSettled \o SeOverflowOf(Head(seRaw))
          /\ seStage' = "idle"
       \/ /\ ~SeIsOverflow(Head(seRaw))
          /\ sePending' = SeApplyEvent(sePending, Head(seRaw))
          /\ seStage' = "coalescing"
          /\ UNCHANGED seSettled
    /\ UNCHANGED <<seVersion, seOpen, seExpired, seTold>>

\* Time passes: max_wait since the first event of the batch is over.
SeDeadlinePasses ==
    /\ seStage = "coalescing"
    /\ ~seExpired
    /\ seExpired' = TRUE
    /\ UNCHANGED <<seVersion, seRaw, seOpen, seStage, sePending, seSettled, seTold>>

\* Mutant: there is no forced emission.
SeNoMaxWait == FALSE /\ UNCHANGED seVars

\* Mutant: the forced emission copies the batch instead of draining it.
SeMaxWaitKeepsBatch ==
    /\ seStage = "coalescing"
    /\ seExpired
    /\ seSettled' = Append(seSettled, [type |-> "Batch", of |-> sePending])
    /\ seStage' = "idle" /\ seExpired' = FALSE
    /\ UNCHANGED <<seVersion, seRaw, seOpen, sePending, seTold>>

\* The forced emission.
SeMaxWait ==
    /\ seStage = "coalescing"
    /\ seExpired
    /\ SeEmit
    /\ seStage' = "idle" /\ seExpired' = FALSE
    /\ UNCHANGED <<seVersion, seRaw, seOpen, seTold>>

\* The settle window passed without an event.
SeQuiet ==
    /\ seStage = "coalescing"
    /\ ~seExpired
    /\ seRaw = <<>> /\ seOpen
    /\ SeEmit
    /\ seStage' = "idle"
    /\ UNCHANGED <<seVersion, seRaw, seOpen, seExpired, seTold>>

\* recv() returns None: flush and stop.
SeClosed ==
    /\ seStage \in {"idle", "coalescing"}
    /\ ~seExpired
    /\ seRaw = <<>> /\ ~seOpen
    /\ SeEmit
    /\ seStage' = "stopped"
    /\ UNCHANGED <<seVersion, seRaw, seOpen, seExpired, seTold>>

-----------------------------------------------------------------------------
\* The consumer: apply_changes_with_removals or apply_overflow, after which a
\* lookup of any path takes a new look at the file.

SeHeard(p, change) ==
    IF change = SeNone \/ change.version < seTold[p] THEN seTold[p] ELSE change.version

SeConsume ==
    /\ seSettled # <<>>
    /\ seSettled' = Tail(seSettled)
    /\ seTold' = IF Head(seSettled).type = "Overflow" THEN seVersion
               ELSE [p \in SePath |-> SeHeard(p, Head(seSettled).of[p])]
    /\ UNCHANGED <<seVersion, seRaw, seOpen, seStage, seExpired, sePending>>

SeEnvironment ==
    \/ \E p \in SePath, kind \in SeKind : SeNotify(p, kind)
    \/ \E p, q \in SePath : SeNotifyRename(p, q)
    \/ \E type \in {"Overflow", "Error"} : SeNotifyIncomplete(type)
    \/ SeClose

SeSettleTask == SeReceive \/ SeMaxWait \/ SeQuiet \/ SeClosed

SeNext == SeEnvironment \/ SeSettleTask \/ SeDeadlinePasses \/ SeConsume

SeSpec == SeInit /\ [][SeNext]_seVars

\* The runtime polls both tasks, and time passes.
SeFairness ==
    WF_seVars(SeSettleTask) /\ WF_seVars(SeDeadlinePasses) /\ WF_seVars(SeConsume)

-----------------------------------------------------------------------------
(* Properties *)

\* The newest change of p is under way, or an overflow that covers it.
SeUnderWay(p) ==
    \/ \E i \in 1 .. Len(seRaw) : SeIsOverflow(seRaw[i])
    \/ \E i \in 1 .. Len(seRaw) :
          ~SeIsOverflow(seRaw[i]) /\ seRaw[i].of[p] # SeNone
             /\ seRaw[i].of[p].version = seVersion[p]
    \/ sePending[p] # SeNone /\ sePending[p].version = seVersion[p]
    \/ \E i \in 1 .. Len(seSettled) : seSettled[i].type = "Overflow"
    \/ \E i \in 1 .. Len(seSettled) :
          seSettled[i].type = "Batch" /\ seSettled[i].of[p] # SeNone
             /\ seSettled[i].of[p].version = seVersion[p]

\* No change is lost between the OS and the cache: as long as the cache has
\* not heard of the newest change of a path, that change is on a channel or in
\* the settle buffer, or an overflow behind it will cover it.
SeNothingLost ==
    \A p \in SePath \ SeIgnored : seTold[p] # seVersion[p] => SeUnderWay(p)

\* Continuous events do not starve the settle buffer: whatever is pending is
\* reported, again and again, even when the OS never pauses.
SePendingSettles == []<>(sePending = SeNothingPending)
=============================================================================
