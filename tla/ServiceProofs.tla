---------------------------- MODULE ServiceProofs ----------------------------
(***************************************************************************)
(* Proofs about what runs beside the compiles.  For any number of builds   *)
(* no wake-up of the rescan task is lost (OverflowRecovery); for any       *)
(* paths and events no change is lost between the OS callback and the      *)
(* cache (EventSettling); for any spellings and calls no reservation       *)
(* outlives its registration and a marked path is watched                  *)
(* (WatchRegistration); for any daemons and clients nobody removes what    *)
(* another has (DaemonOwnership). All are type correct, alone and          *)
(* together.                                                               *)
(***************************************************************************)
EXTENDS MCServices, TLAPS

-----------------------------------------------------------------------------
(* Overflow recovery *)

\* The flags, the task and the callers of recovery.rs keep their types.
THEOREM RoTypeCorrect == RoSpec => []RoTypeOK
<1>1. RoInit => RoTypeOK
  BY Zenon DEF RoInit, RoTypeOK
<1>2. RoTypeOK /\ [RoNext]_roVars => RoTypeOK'
  <2> SUFFICES ASSUME RoTypeOK, [RoNext]_roVars PROVE RoTypeOK'
    OBVIOUS
  <2> USE DEF RoTypeOK
  <2>1. CASE RoOnOverflowStore
    BY <2>1 DEF RoOnOverflowStore
  <2>2. CASE RoOnOverflowNotify
    BY <2>2 DEF RoOnOverflowNotify
  <2>3. CASE \E b \in RoBuild : RoOnBuildEvent(b) \/ RoOnBuildNotify(b)
    BY <2>3 DEF RoOnBuildEvent, RoOnBuildNotify
  <2>4. CASE RoRun
    BY <2>4 DEF RoRun, RoWoken, RoBuildTriggered, RoRescanned, RoClearPending
  <2>5. CASE RoDelayElapsed
    BY <2>5 DEF RoDelayElapsed
  <2>6. CASE UNCHANGED roVars
    BY <2>6 DEF roVars
  <2> QED
    BY <2>1, <2>2, <2>3, <2>4, <2>5, <2>6 DEF RoNext
<1> QED
  BY <1>1, <1>2, PTL DEF RoSpec

\* No step of the task, of on_overflow or of on_build_event loses the wake-up
\* of a rescan that is owed: the permit of an overflow is consumed only by the
\* step into the delay, and the delay ends only in a rescan.
THEOREM RoOwedIsScheduledHolds == RoSpec => []RoOwedIsScheduled
<1>1. RoInit => RoOwedIsScheduled
  BY DEF RoInit, RoOwedIsScheduled
<1>2. RoOwedIsScheduled /\ [RoNext]_roVars => RoOwedIsScheduled'
  <2> SUFFICES ASSUME RoOwedIsScheduled, [RoNext]_roVars PROVE RoOwedIsScheduled'
    OBVIOUS
  <2> USE DEF RoOwedIsScheduled
  <2>1. CASE RoOnOverflowStore
    BY <2>1 DEF RoOnOverflowStore
  <2>2. CASE RoOnOverflowNotify
    BY <2>2 DEF RoOnOverflowNotify
  <2>3. ASSUME NEW b \in RoBuild, RoOnBuildEvent(b) \/ RoOnBuildNotify(b)
        PROVE  RoOwedIsScheduled'
    <3>1. UNCHANGED <<roOverflow, roSignal, roTask, roOwed>>
      BY <2>3, Zenon DEF RoOnBuildEvent, RoOnBuildNotify
    <3> QED
      BY <3>1, Zenon
  <2>4. CASE RoWoken
    BY <2>4 DEF RoWoken
  <2>5. CASE RoDelayElapsed \/ RoBuildTriggered
    BY <2>5 DEF RoDelayElapsed, RoBuildTriggered
  <2>6. CASE RoRescanned \/ RoClearPending
    BY <2>6 DEF RoRescanned, RoClearPending
  <2>7. CASE UNCHANGED roVars
    BY <2>7 DEF roVars
  <2> QED
    BY <2>1, <2>2, <2>3, <2>4, <2>5, <2>6, <2>7 DEF RoNext, RoRun
<1> QED
  BY <1>1, <1>2, PTL DEF RoSpec

-----------------------------------------------------------------------------
(* Settling *)

\* What appending one element to a channel leaves and adds.
LEMMA SeSent ==
    ASSUME NEW S, NEW s \in Seq(S), NEW e \in S
    PROVE  /\ s \o <<e>> = Append(s, e)
           /\ Append(s, e) \in Seq(S)
           /\ Len(s) \in Nat
           /\ Len(Append(s, e)) = Len(s) + 1
           /\ \A i \in 1 .. Len(s) : Append(s, e)[i] = s[i]
           /\ Append(s, e)[Len(s) + 1] = e
BY SMT

\* What receiving from a channel takes and leaves.
LEMMA SeReceived ==
    ASSUME NEW S, NEW s \in Seq(S), s # <<>>
    PROVE  /\ Head(s) \in S
           /\ Tail(s) \in Seq(S)
           /\ Len(s) \in Nat /\ Len(s) > 0
           /\ Head(s) = s[1]
           /\ Len(Tail(s)) = Len(s) - 1
           /\ \A i \in 1 .. Len(Tail(s)) : Tail(s)[i] = s[i + 1]
BY SMT

\* Sending nothing leaves the channel as it is.
LEMMA SeSentNothing == ASSUME NEW S, NEW s \in Seq(S) PROVE s \o <<>> = s
BY SMT

\* A WatchEvent or a settled batch that reports a change of p.
SeNames(e, p) == e.type \in {"Change", "Batch"} /\ e.of[p] # SeNone

\* The changes of p come in the order in which they happened: the cache, the
\* batches and the settle buffer are never ahead of the file, and the channel
\* from the callback is never behind the buffer.
SeInOrder(p) ==
    /\ seTold[p] <= seVersion[p]
    /\ \A i \in 1 .. Len(seSettled) :
         SeNames(seSettled[i], p) => seSettled[i].of[p].version <= seVersion[p]
    /\ sePending[p] # SeNone => sePending[p].version <= seVersion[p]
    /\ \A i \in 1 .. Len(seRaw) : SeNames(seRaw[i], p) =>
         /\ seRaw[i].of[p].version <= seVersion[p]
         /\ sePending[p] # SeNone => sePending[p].version <= seRaw[i].of[p].version
    /\ \A i, j \in 1 .. Len(seRaw) : i < j /\ SeNames(seRaw[i], p) /\ SeNames(seRaw[j], p) =>
         seRaw[i].of[p].version <= seRaw[j].of[p].version

\* The inductive invariant of SeNothingLost.
SeInv == SeTypeOK /\ \A p \in SePath : SeInOrder(p)

\* What a notification does to the channel from the callback: nothing, when the
\* filter ignores all its paths, or one event that names every change it stands
\* for with its newest number, or says that the report is incomplete.
SeReports(e) ==
    /\ e \in SeEvent
    /\ seRaw' = Append(seRaw, e)
    /\ \A p \in SePath : SeNames(e, p) => e.of[p].version = seVersion'[p]
    /\ \A p \in SePath \ SeIgnored :
         seVersion'[p] # seVersion[p] => SeIsOverflow(e) \/ SeNames(e, p)

SeNotified ==
    /\ seVersion' \in [SePath -> 0 .. SeMaxVersion]
    /\ \A p \in SePath : seVersion[p] <= seVersion'[p]
    /\ \/ \E e : SeReports(e)
       \/ seRaw' = seRaw /\ \A p \in SePath \ SeIgnored : seVersion'[p] = seVersion[p]
    /\ UNCHANGED <<seStage, seExpired, sePending, seSettled, seTold>>
    /\ seOpen' \in BOOLEAN

\* A change gives a path the next number, or leaves it at the last one.
LEMMA SeNewerGrows ==
    ASSUME SeTypeOK, NEW paths
    PROVE  /\ SeNewer(paths) \in [SePath -> 0 .. SeMaxVersion]
           /\ \A p \in SePath : seVersion[p] <= SeNewer(paths)[p]
           /\ \A p \in SePath : SeNewer(paths)[p] # seVersion[p] => p \in paths \ SeIgnored
BY SeSettlingConstants DEF SeTypeOK, SeNewer

\* Every notification has that effect.
LEMMA SeEnvironmentNotifies ==
    ASSUME SeTypeOK, SeEnvironment
    PROVE  SeNotified
<1> USE DEF SeTypeOK
<1>1. ASSUME NEW p \in SePath, NEW kind \in SeKind, SeNotify(p, kind)
      PROVE  SeNotified
  <2>1. /\ seVersion' = SeNewer({p})
        /\ UNCHANGED <<seOpen, seStage, seExpired, sePending, seSettled, seTold>>
        /\ seRaw' = seRaw \o (IF p \in SeIgnored THEN <<>> ELSE <<SeSingle(p, kind)>>)
    BY <1>1 DEF SeNotify, SeSend
  <2>2. /\ seVersion' \in [SePath -> 0 .. SeMaxVersion]
        /\ \A q \in SePath : seVersion[q] <= seVersion'[q]
        /\ \A q \in SePath : seVersion'[q] # seVersion[q] => q \in {p} \ SeIgnored
    BY <2>1, SeNewerGrows
  <2>3. CASE p \in SeIgnored
    <3>1. seRaw' = seRaw
      BY <2>1, <2>3, SeSentNothing
    <3> QED
      BY <2>1, <2>2, <2>3, <3>1 DEF SeNotified
  <2>4. CASE p \notin SeIgnored
    <3> DEFINE e == SeSingle(p, kind)
    <3>1. /\ e.type = "Change"
          /\ \A q \in SePath : e.of[q] # SeNone => q = p
          /\ e.of[p] = [kind |-> kind, version |-> seVersion'[p]]
      BY DEF SeSingle
    <3>2. e \in SeEvent
      <4>1. seVersion' \in [SePath -> Nat]
        BY <2>2, SeSettlingConstants
      <4>2. [q \in SePath |-> IF q = p THEN [kind |-> kind, version |-> seVersion'[q]]
                                       ELSE SeNone]
              \in [SePath -> SeChange \cup {SeNone}]
        BY <4>1 DEF SeChange
      <4> QED
        BY <4>2 DEF SeSingle, SeEvent
    <3>3. e.of[p] # SeNone /\ e.of[p].version = seVersion'[p]
      <4>1. seVersion'[p] \in Nat
        BY <2>2, SeSettlingConstants
      <4> QED
        BY <3>1, <4>1, SeSettlingConstants DEF SeChange
    <3>4. seRaw' = Append(seRaw, e)
      BY <2>1, <2>4, <3>2, SeSent
    <3>5. SeReports(e)
      BY <2>2, <3>1, <3>2, <3>3, <3>4 DEF SeReports, SeNames
    <3> QED
      BY <2>1, <2>2, <3>5 DEF SeNotified
  <2> QED
    BY <2>3, <2>4
<1>2. ASSUME NEW p \in SePath, NEW q \in SePath, SeNotifyRename(p, q)
      PROVE  SeNotified
  <2> DEFINE e == SeRenamed(p, q)
  <2>1. /\ p # q
        /\ seVersion' = SeNewer({p, q})
        /\ UNCHANGED <<seOpen, seStage, seExpired, sePending, seSettled, seTold>>
        /\ seRaw' = seRaw \o (IF {p, q} \subseteq SeIgnored THEN <<>> ELSE <<e>>)
    BY <1>2 DEF SeNotifyRename, SeSend
  <2>2. /\ seVersion' \in [SePath -> 0 .. SeMaxVersion]
        /\ \A r \in SePath : seVersion[r] <= seVersion'[r]
        /\ \A r \in SePath : seVersion'[r] # seVersion[r] => r \in {p, q} \ SeIgnored
    BY <2>1, SeNewerGrows
  <2>3. CASE {p, q} \subseteq SeIgnored
    <3>1. seRaw' = seRaw
      BY <2>1, <2>3, SeSentNothing
    <3> QED
      BY <2>1, <2>2, <2>3, <3>1 DEF SeNotified
  <2>4. CASE ~({p, q} \subseteq SeIgnored)
    <3> DEFINE Change(r) ==
                 IF r \in {p, q} \ SeIgnored
                 THEN [kind |-> IF r = q THEN "Modified" ELSE "Removed", version |-> seVersion'[r]]
                 ELSE SeNone
    <3>1. ASSUME NEW r \in SePath
          PROVE  /\ Change(r) \in SeChange \cup {SeNone}
                 /\ Change(r) # SeNone => Change(r).version = seVersion'[r]
                 /\ r \in {p, q} \ SeIgnored => Change(r) # SeNone
      <4>1. seVersion'[r] \in Nat
        BY <2>2, SeSettlingConstants
      <4>2. /\ [kind |-> "Modified", version |-> seVersion'[r]] \in SeChange
            /\ [kind |-> "Removed", version |-> seVersion'[r]] \in SeChange
        BY <4>1 DEF SeChange, SeKind
      <4> QED
        BY <4>2, SeSettlingConstants
    <3>2. e = [type |-> "Change", of |-> [r \in SePath |-> Change(r)]]
      BY DEF SeRenamed
    <3> HIDE DEF Change, e
    <3>3. e \in SeEvent
      BY <3>1, <3>2 DEF SeEvent
    <3>4. e.type = "Change" /\ \A r \in SePath : e.of[r] = Change(r)
      BY <3>2
    <3>5. seRaw' = Append(seRaw, e)
      BY <2>1, <2>4, <3>3, SeSent
    <3>6. SeReports(e)
      BY <2>2, <3>1, <3>3, <3>4, <3>5 DEF SeReports, SeNames
    <3> QED
      BY <2>1, <2>2, <3>6 DEF SeNotified
  <2> QED
    BY <2>3, <2>4
<1>3. ASSUME NEW type \in {"Overflow", "Error"}, SeNotifyIncomplete(type)
      PROVE  SeNotified
  <2> DEFINE e == [type |-> type]
  <2>1. PICK lost \in SUBSET SePath : seVersion' = SeNewer(lost)
    BY <1>3 DEF SeNotifyIncomplete
  <2>2. /\ seVersion' \in [SePath -> 0 .. SeMaxVersion]
        /\ \A r \in SePath : seVersion[r] <= seVersion'[r]
    BY <2>1, SeNewerGrows
  <2>3. e \in SeEvent /\ SeIsOverflow(e) /\ \A r \in SePath : ~SeNames(e, r)
    BY <1>3 DEF SeEvent, SeIsOverflow, SeNames
  <2>4. /\ seRaw' = Append(seRaw, e)
        /\ UNCHANGED <<seOpen, seStage, seExpired, sePending, seSettled, seTold>>
    BY <1>3, <2>3, SeSent DEF SeNotifyIncomplete, SeSend
  <2>5. SeReports(e)
    BY <2>3, <2>4 DEF SeReports
  <2> QED
    BY <2>2, <2>4, <2>5 DEF SeNotified
<1>4. CASE SeClose
  <2>1. /\ UNCHANGED <<seVersion, seRaw, seStage, seExpired, sePending, seSettled, seTold>>
        /\ seOpen' = FALSE
    BY <1>4 DEF SeClose
  <2>2. ASSUME NEW p \in SePath
        PROVE  seVersion[p] <= seVersion[p]
    <3>1. seVersion[p] \in Nat
      BY SeSettlingConstants
    <3> QED
      BY <3>1
  <2>3. /\ seVersion' \in [SePath -> 0 .. SeMaxVersion]
        /\ \A p \in SePath : seVersion[p] <= seVersion'[p]
        /\ seRaw' = seRaw /\ \A p \in SePath \ SeIgnored : seVersion'[p] = seVersion[p]
        /\ seOpen' \in BOOLEAN
    BY <2>1, <2>2
  <2> QED
    BY <2>1, <2>3, Zenon DEF SeNotified
<1> QED
  BY <1>1, <1>2, <1>3, <1>4 DEF SeEnvironment

\* The number of a change is a number.
LEMMA SeNumbers ==
    ASSUME SeTypeOK, NEW p \in SePath
    PROVE  /\ seVersion[p] \in Nat /\ seTold[p] \in Nat
           /\ sePending[p] # SeNone => sePending[p].version \in Nat
           /\ \A e \in SeEvent \cup SeEmission : SeNames(e, p) => e.of[p].version \in Nat
<1>1. /\ seVersion[p] \in Nat /\ seTold[p] \in Nat
      /\ sePending[p] # SeNone => sePending[p].version \in Nat
  BY SeSettlingConstants DEF SeTypeOK, SeChange
<1>2. ASSUME NEW e \in SeEvent \cup SeEmission, SeNames(e, p)
      PROVE  e.of[p].version \in Nat
  <2>1. e.of \in [SePath -> SeChange \cup {SeNone}] /\ e.of[p] # SeNone
    BY <1>2 DEF SeNames, SeEvent, SeEmission
  <2> QED
    BY <2>1 DEF SeChange
<1> QED
  BY <1>1, <1>2

\* A notification keeps the types.
LEMMA SeNotifiedKeepsTypes == SeTypeOK /\ SeNotified => SeTypeOK'
<1> SUFFICES ASSUME SeTypeOK, SeNotified PROVE SeTypeOK'
  OBVIOUS
<1>1. seRaw' \in Seq(SeEvent)
  <2>1. seRaw \in Seq(SeEvent)
    BY DEF SeTypeOK
  <2>2. ASSUME NEW e, SeReports(e)
        PROVE  seRaw' \in Seq(SeEvent)
    BY <2>1, <2>2, SeSent DEF SeReports
  <2> QED
    BY <2>1, <2>2 DEF SeNotified
<1>3. UNCHANGED seStage /\ UNCHANGED seExpired /\ UNCHANGED sePending /\ UNCHANGED seSettled
      /\ UNCHANGED seTold
  BY DEF SeNotified
<1>2. /\ seVersion' \in [SePath -> 0 .. SeMaxVersion] /\ seOpen' \in BOOLEAN
  BY DEF SeNotified
<1> QED
  BY <1>1, <1>2, <1>3, Zenon DEF SeTypeOK

\* A notification keeps the order: its number is the newest.
LEMMA SeNotifiedKeepsOrder ==
    ASSUME SeTypeOK, SeNotified, NEW p \in SePath, SeInOrder(p)
    PROVE  SeInOrder(p)'
<1>1. /\ seVersion'[p] \in Nat /\ seVersion[p] <= seVersion'[p]
      /\ UNCHANGED <<sePending, seSettled, seTold>>
  BY SeSettlingConstants DEF SeTypeOK, SeNotified
<1>2. /\ seRaw \in Seq(SeEvent) /\ seSettled \in Seq(SeEmission)
      /\ Len(seRaw) \in Nat
      /\ \A i \in 1 .. Len(seRaw) : SeNames(seRaw[i], p) => seRaw[i].of[p].version \in Nat
      /\ \A i \in 1 .. Len(seSettled) :
           SeNames(seSettled[i], p) => seSettled[i].of[p].version \in Nat
  BY SeNumbers DEF SeTypeOK
<1>3. /\ seTold'[p] <= seVersion'[p]
      /\ \A i \in 1 .. Len(seSettled') :
           SeNames(seSettled'[i], p) => seSettled'[i].of[p].version <= seVersion'[p]
      /\ sePending'[p] # SeNone => sePending'[p].version <= seVersion'[p]
  BY <1>1, <1>2, SeNumbers DEF SeInOrder
<1>4. CASE seRaw' = seRaw
  <2>1. \A i \in 1 .. Len(seRaw') : SeNames(seRaw'[i], p) =>
         /\ seRaw'[i].of[p].version <= seVersion'[p]
         /\ sePending'[p] # SeNone => sePending'[p].version <= seRaw'[i].of[p].version
    BY <1>1, <1>2, <1>4, SeNumbers DEF SeInOrder
  <2>2. \A i, j \in 1 .. Len(seRaw') :
          i < j /\ SeNames(seRaw'[i], p) /\ SeNames(seRaw'[j], p) =>
            seRaw'[i].of[p].version <= seRaw'[j].of[p].version
    BY <1>4 DEF SeInOrder
  <2> QED
    BY <1>3, <2>1, <2>2 DEF SeInOrder, SeNames
<1>5. ASSUME NEW e, SeReports(e)
      PROVE  SeInOrder(p)'
  <2>1. /\ Len(seRaw') = Len(seRaw) + 1
        /\ \A i \in 1 .. Len(seRaw) : seRaw'[i] = seRaw[i]
        /\ seRaw'[Len(seRaw) + 1] = e
        /\ SeNames(e, p) => e.of[p].version = seVersion'[p]
    BY <1>2, <1>5, SeSent DEF SeReports
  <2>2. ASSUME NEW i \in 1 .. Len(seRaw'), SeNames(seRaw'[i], p)
        PROVE  /\ seRaw'[i].of[p].version <= seVersion'[p]
               /\ sePending'[p] # SeNone => sePending'[p].version <= seRaw'[i].of[p].version
    <3>1. CASE i \in 1 .. Len(seRaw)
      BY <1>1, <1>2, <2>1, <2>2, <3>1, SeNumbers DEF SeInOrder
    <3>2. CASE i = Len(seRaw) + 1
      BY <1>1, <1>3, <2>1, <2>2, <3>2
    <3> QED
      BY <1>2, <2>1, <3>1, <3>2
  <2>3. ASSUME NEW i \in 1 .. Len(seRaw'), NEW j \in 1 .. Len(seRaw'), i < j,
               SeNames(seRaw'[i], p), SeNames(seRaw'[j], p)
        PROVE  seRaw'[i].of[p].version <= seRaw'[j].of[p].version
    <3>1. CASE j \in 1 .. Len(seRaw)
      <4>1. i \in 1 .. Len(seRaw)
        BY <1>2, <2>3, <3>1
      <4> QED
        BY <2>1, <2>3, <3>1, <4>1 DEF SeInOrder
    <3>2. CASE j = Len(seRaw) + 1
      BY <2>1, <2>2, <2>3, <3>2
    <3> QED
      BY <1>2, <2>1, <3>1, <3>2
  <2> QED
    BY <1>3, <2>2, <2>3 DEF SeInOrder, SeNames
<1> QED
  BY <1>4, <1>5 DEF SeNotified

\* Receiving an event keeps the order: an overflow empties the buffer, and what
\* apply_event puts there is not newer than what is still on the channel.
LEMMA SeReceiveKeepsOrder ==
    ASSUME SeTypeOK, SeReceive, NEW p \in SePath, SeInOrder(p)
    PROVE  SeInOrder(p)'
<1>1. /\ seRaw # <<>> /\ seRaw' = Tail(seRaw)
      /\ UNCHANGED <<seVersion, seTold>>
  BY DEF SeReceive
<1>2. /\ seRaw \in Seq(SeEvent) /\ seSettled \in Seq(SeEmission)
      /\ sePending \in [SePath -> SeChange \cup {SeNone}]
      /\ \A i \in 1 .. Len(seRaw) : SeNames(seRaw[i], p) => seRaw[i].of[p].version \in Nat
  BY SeNumbers DEF SeTypeOK
<1>3. /\ Head(seRaw) \in SeEvent /\ Len(seRaw) \in Nat /\ 1 \in 1 .. Len(seRaw)
      /\ Head(seRaw) = seRaw[1] /\ Len(seRaw') = Len(seRaw) - 1
      /\ \A i \in 1 .. Len(seRaw') : seRaw'[i] = seRaw[i + 1]
  BY <1>1, <1>2, SeReceived
<1>4. /\ seTold'[p] <= seVersion'[p]
      /\ \A i \in 1 .. Len(seRaw') : SeNames(seRaw'[i], p) =>
           seRaw'[i].of[p].version <= seVersion'[p]
      /\ \A i, j \in 1 .. Len(seRaw') :
          i < j /\ SeNames(seRaw'[i], p) /\ SeNames(seRaw'[j], p) =>
            seRaw'[i].of[p].version <= seRaw'[j].of[p].version
  BY <1>1, <1>3 DEF SeInOrder
<1>5. CASE SeIsOverflow(Head(seRaw))
  <2>1. sePending' = SeNothingPending /\ seSettled' = seSettled \o SeOverflowOf(Head(seRaw))
    BY <1>5 DEF SeReceive
  <2>2. /\ seSettled' = Append(seSettled, [type |-> "Overflow"])
        /\ [type |-> "Overflow"] \in SeEmission
    BY <1>2, <2>1, SeSent DEF SeOverflowOf, SeEmission
  <2>3. /\ Len(seSettled) \in Nat /\ Len(seSettled') = Len(seSettled) + 1
        /\ \A i \in 1 .. Len(seSettled) : seSettled'[i] = seSettled[i]
        /\ seSettled'[Len(seSettled) + 1].type = "Overflow"
    BY <1>2, <2>2, SeSent
  <2>4. ~SeNames(seSettled'[Len(seSettled) + 1], p)
    BY <2>3 DEF SeNames
  <2>5. \A i \in 1 .. Len(seSettled') :
          SeNames(seSettled'[i], p) => seSettled'[i].of[p].version <= seVersion'[p]
    BY <1>1, <2>3, <2>4 DEF SeInOrder
  <2>6. sePending'[p] = SeNone
    BY <2>1 DEF SeNothingPending
  <2> QED
    BY <1>4, <2>5, <2>6 DEF SeInOrder, SeNames
<1>6. CASE ~SeIsOverflow(Head(seRaw))
  <2>1. sePending' = SeApplyEvent(sePending, Head(seRaw)) /\ UNCHANGED seSettled
    BY <1>6 DEF SeReceive
  <2>2. sePending'[p] = IF SeNames(seRaw[1], p) THEN seRaw[1].of[p] ELSE sePending[p]
    <3>1. seRaw[1].type = "Change"
      BY <1>3, <1>6 DEF SeEvent, SeIsOverflow
    <3> QED
      BY <1>3, <2>1, <3>1 DEF SeApplyEvent, SeNames
  <2>3. sePending'[p] # SeNone => sePending'[p].version <= seVersion'[p]
    BY <1>1, <1>3, <2>2 DEF SeInOrder
  <2>4. ASSUME NEW i \in 1 .. Len(seRaw'), SeNames(seRaw'[i], p), sePending'[p] # SeNone
        PROVE  sePending'[p].version <= seRaw'[i].of[p].version
    <3>1. i + 1 \in 1 .. Len(seRaw) /\ 1 < i + 1 /\ seRaw'[i] = seRaw[i + 1]
      BY <1>3
    <3> QED
      BY <1>3, <2>2, <2>4, <3>1 DEF SeInOrder
  <2>5. \A i \in 1 .. Len(seSettled') :
          SeNames(seSettled'[i], p) => seSettled'[i].of[p].version <= seVersion'[p]
    BY <1>1, <2>1 DEF SeInOrder
  <2> QED
    BY <1>4, <2>3, <2>4, <2>5 DEF SeInOrder, SeNames
<1> QED
  BY <1>5, <1>6

\* The emission of what is pending, at the three places that drain the buffer.
SeEmits == SeEmit /\ UNCHANGED <<seVersion, seRaw, seTold>>

\* An emission keeps the order.
LEMMA SeEmitKeepsOrder ==
    ASSUME SeTypeOK, SeEmits, NEW p \in SePath, SeInOrder(p)
    PROVE  SeInOrder(p)'
<1> DEFINE batch == [type |-> "Batch", of |-> sePending]
<1>1. /\ UNCHANGED <<seVersion, seRaw, seTold>> /\ sePending' = SeNothingPending
      /\ seSettled' = seSettled \/ seSettled' = Append(seSettled, batch)
  BY DEF SeEmits, SeEmit
<1>2. seSettled \in Seq(SeEmission) /\ batch \in SeEmission
  BY DEF SeTypeOK, SeEmission
<1>3. SeNames(batch, p) => batch.of[p].version <= seVersion[p]
  BY DEF SeNames, SeInOrder
<1> HIDE DEF batch
<1>4. \A i \in 1 .. Len(seSettled') :
        SeNames(seSettled'[i], p) => seSettled'[i].of[p].version <= seVersion'[p]
  <2>1. CASE seSettled' = seSettled
    BY <1>1, <2>1 DEF SeInOrder
  <2>2. CASE seSettled' = Append(seSettled, batch)
    <3>1. /\ Len(seSettled) \in Nat /\ Len(seSettled') = Len(seSettled) + 1
          /\ \A i \in 1 .. Len(seSettled) : seSettled'[i] = seSettled[i]
          /\ seSettled'[Len(seSettled) + 1] = batch
      BY <1>2, <2>2, SeSent
    <3> QED
      BY <1>1, <1>3, <3>1 DEF SeInOrder
  <2> QED
    BY <1>1, <2>1, <2>2
<1>5. sePending'[p] = SeNone
  BY <1>1 DEF SeNothingPending
<1> QED
  BY <1>1, <1>4, <1>5 DEF SeInOrder, SeNames

\* The consumer keeps the order: it takes over a number only from a batch.
LEMMA SeConsumeKeepsOrder ==
    ASSUME SeTypeOK, SeConsume, NEW p \in SePath, SeInOrder(p)
    PROVE  /\ SeInOrder(p)'
           /\ seTold'[p] >= seTold[p] /\ seTold'[p] \in Nat
<1>1. /\ UNCHANGED <<seVersion, seRaw, sePending>>
      /\ seSettled # <<>> /\ seSettled' = Tail(seSettled)
  BY DEF SeConsume
<1>2. seSettled \in Seq(SeEmission)
  BY DEF SeTypeOK
<1>3. /\ Head(seSettled) \in SeEmission /\ Len(seSettled) \in Nat /\ 1 \in 1 .. Len(seSettled)
      /\ Head(seSettled) = seSettled[1] /\ Len(seSettled') = Len(seSettled) - 1
      /\ \A i \in 1 .. Len(seSettled') : seSettled'[i] = seSettled[i + 1]
  BY <1>1, <1>2, SeReceived
<1>4. \A i \in 1 .. Len(seSettled') :
        SeNames(seSettled'[i], p) => seSettled'[i].of[p].version <= seVersion'[p]
  BY <1>1, <1>3 DEF SeInOrder
<1>5. seTold'[p] <= seVersion'[p] /\ seTold'[p] >= seTold[p] /\ seTold'[p] \in Nat
  <2>1. CASE Head(seSettled).type = "Overflow"
    BY <1>1, <2>1, SeNumbers DEF SeConsume, SeInOrder
  <2>2. CASE Head(seSettled).type # "Overflow"
    <3>1. seSettled[1].type = "Batch"
      BY <1>3, <2>2 DEF SeEmission
    <3>2. seTold'[p] = SeHeard(p, seSettled[1].of[p])
      BY <1>3, <2>2 DEF SeConsume
    <3>3. SeNames(seSettled[1], p) =>
            /\ seSettled[1].of[p].version <= seVersion[p]
            /\ seSettled[1].of[p].version \in Nat
      BY <1>3, SeNumbers DEF SeInOrder
    <3>4. seSettled[1].of[p] # SeNone => SeNames(seSettled[1], p)
      BY <3>1 DEF SeNames
    <3> QED
      BY <1>1, <3>2, <3>3, <3>4, SeNumbers DEF SeHeard, SeInOrder
  <2> QED
    BY <2>1, <2>2
<1> QED
  BY <1>1, <1>4, <1>5 DEF SeInOrder, SeNames

\* The settle task and the consumer keep the types.
LEMMA SeTasksKeepTypes ==
    ASSUME SeTypeOK, \A p \in SePath : SeInOrder(p),
           SeSettleTask \/ SeDeadlinePasses \/ SeConsume
    PROVE  SeTypeOK'
<1> USE DEF SeTypeOK
<1>1. CASE SeReceive
  <2>1. /\ seRaw # <<>> /\ seRaw' = Tail(seRaw)
        /\ UNCHANGED <<seVersion, seOpen, seExpired, seTold>>
    BY <1>1 DEF SeReceive
  <2>2. seRaw' \in Seq(SeEvent) /\ Head(seRaw) \in SeEvent
    BY <2>1, SeReceived
  <2>3. CASE SeIsOverflow(Head(seRaw))
    <3>1. /\ sePending' = SeNothingPending /\ seStage' = "idle"
          /\ seSettled' = seSettled \o <<[type |-> "Overflow"]>>
      BY <1>1, <2>3 DEF SeReceive, SeOverflowOf
    <3>2. [type |-> "Overflow"] \in SeEmission
      BY DEF SeEmission
    <3>3. seSettled' \in Seq(SeEmission)
      BY <3>1, <3>2, SeSent
    <3> QED
      BY <2>1, <2>2, <3>1, <3>3 DEF SeNothingPending
  <2>4. CASE ~SeIsOverflow(Head(seRaw))
    <3>1. /\ sePending' = SeApplyEvent(sePending, Head(seRaw)) /\ seStage' = "coalescing"
          /\ UNCHANGED seSettled
      BY <1>1, <2>4 DEF SeReceive
    <3>2. Head(seRaw).of \in [SePath -> SeChange \cup {SeNone}]
      BY <2>2, <2>4 DEF SeEvent, SeIsOverflow
    <3>3. sePending' \in [SePath -> SeChange \cup {SeNone}]
      BY <3>1, <3>2 DEF SeApplyEvent
    <3> QED
      BY <2>1, <2>2, <3>1, <3>3
  <2> QED
    BY <2>3, <2>4
<1>2. CASE SeMaxWait \/ SeQuiet \/ SeClosed
  <2> DEFINE batch == [type |-> "Batch", of |-> sePending]
  <2>1. /\ SeEmit /\ UNCHANGED <<seVersion, seRaw, seOpen, seTold>>
        /\ seStage' \in {"idle", "stopped"} /\ seExpired' \in BOOLEAN
    BY <1>2 DEF SeMaxWait, SeQuiet, SeClosed
  <2>2. /\ sePending' = SeNothingPending
        /\ seSettled' = seSettled \/ seSettled' = Append(seSettled, batch)
    BY <2>1 DEF SeEmit
  <2>3. batch \in SeEmission
    BY DEF SeEmission
  <2> HIDE DEF batch
  <2>4. seSettled' \in Seq(SeEmission)
    <3>1. Append(seSettled, batch) \in Seq(SeEmission)
      BY <2>3, SeSent
    <3> QED
      BY <2>2, <3>1
  <2> QED
    BY <2>1, <2>2, <2>4 DEF SeNothingPending
<1>3. CASE SeDeadlinePasses
  BY <1>3 DEF SeDeadlinePasses
<1>4. CASE SeConsume
  <2>1. /\ UNCHANGED <<seVersion, seRaw, seOpen, seStage, seExpired, sePending>>
        /\ seSettled # <<>> /\ seSettled' = Tail(seSettled)
    BY <1>4 DEF SeConsume
  <2>2. seSettled' \in Seq(SeEmission)
    BY <2>1, SeReceived
  <2>3. seTold' = [p \in SePath |-> seTold'[p]]
    <3>1. CASE Head(seSettled).type = "Overflow"
      <4>1. seTold' = seVersion
        BY <1>4, <3>1 DEF SeConsume
      <4> QED
        BY <4>1
    <3>2. CASE Head(seSettled).type # "Overflow"
      <4>1. seTold' = [p \in SePath |-> SeHeard(p, Head(seSettled).of[p])]
        BY <1>4, <3>2 DEF SeConsume
      <4> QED
        BY <4>1
    <3> QED
      BY <3>1, <3>2
  <2>4. ASSUME NEW p \in SePath
        PROVE  seTold'[p] \in 0 .. SeMaxVersion
    <3>1. seTold'[p] <= seVersion'[p] /\ seTold'[p] \in Nat
      BY <1>4, SeConsumeKeepsOrder DEF SeInOrder
    <3> QED
      BY <2>1, <3>1, SeSettlingConstants
  <2>5. seTold' \in [SePath -> 0 .. SeMaxVersion]
    BY <2>3, <2>4
  <2> QED
    BY <2>1, <2>2, <2>5
<1> QED
  BY <1>1, <1>2, <1>3, <1>4 DEF SeSettleTask

\* The inductive invariant holds of every behaviour.
LEMMA SeInvStep == SeInv /\ [SeNext]_seVars => SeInv'
<1> SUFFICES ASSUME SeTypeOK, \A p \in SePath : SeInOrder(p), [SeNext]_seVars
    PROVE  SeTypeOK' /\ \A p \in SePath : SeInOrder(p)'
  BY DEF SeInv
<1>1. CASE SeEnvironment
  BY <1>1, SeEnvironmentNotifies, SeNotifiedKeepsTypes, SeNotifiedKeepsOrder
<1>2. CASE SeReceive
  BY <1>2, SeTasksKeepTypes, SeReceiveKeepsOrder DEF SeSettleTask
<1>3. CASE SeMaxWait \/ SeQuiet \/ SeClosed
  <2>1. SeEmits
    BY <1>3 DEF SeMaxWait, SeQuiet, SeClosed, SeEmits
  <2> QED
    BY <1>3, <2>1, SeTasksKeepTypes, SeEmitKeepsOrder DEF SeSettleTask
<1>4. CASE SeDeadlinePasses
  <2>1. ASSUME NEW p \in SePath PROVE SeInOrder(p)'
    <3>1. UNCHANGED <<seVersion, seRaw, sePending, seSettled, seTold>>
      BY <1>4 DEF SeDeadlinePasses
    <3> QED
      BY <3>1 DEF SeInOrder, SeNames
  <2> QED
    BY <1>4, <2>1, SeTasksKeepTypes
<1>5. CASE SeConsume
  BY <1>5, SeTasksKeepTypes, SeConsumeKeepsOrder
<1>6. CASE UNCHANGED seVars
  BY <1>6 DEF seVars, SeTypeOK, SeInOrder, SeNames
<1> QED
  BY <1>1, <1>2, <1>3, <1>4, <1>5, <1>6 DEF SeNext, SeSettleTask

\* The initial state satisfies it.
LEMMA SeInvInit == SeInit => SeInv
<1> SUFFICES ASSUME SeInit PROVE SeInv
  OBVIOUS
<1>1. SeTypeOK
  <2>1. /\ seRaw \in Seq(SeEvent) /\ seSettled \in Seq(SeEmission)
        /\ seOpen \in BOOLEAN /\ seExpired \in BOOLEAN /\ seStage = "idle"
    <3>1. seRaw = <<>> /\ seSettled = <<>> /\ seOpen = TRUE /\ seExpired = FALSE
          /\ seStage = "idle"
      BY DEF SeInit
    <3>2. seRaw \in Seq(SeEvent)
      BY <3>1
    <3>3. seSettled \in Seq(SeEmission)
      BY <3>1
    <3> QED
      BY <3>1, <3>2, <3>3, Zenon
  <2>2. /\ seVersion \in [SePath -> 0 .. SeMaxVersion]
        /\ seTold \in [SePath -> 0 .. SeMaxVersion]
    BY SeSettlingConstants DEF SeInit
  <2>3. sePending = [p \in SePath |-> SeNone]
    BY DEF SeInit, SeNothingPending
  <2> QED
    BY <2>1, <2>2, <2>3 DEF SeTypeOK
<1>2. \A p \in SePath : SeInOrder(p)
  <2>1. Len(seRaw) = 0 /\ Len(seSettled) = 0
    BY DEF SeInit
  <2>2. \A p \in SePath : sePending[p] = SeNone /\ seTold[p] = 0 /\ seVersion[p] = 0
    BY DEF SeInit, SeNothingPending
  <2>3. /\ \A i \in 1 .. Len(seRaw) : FALSE
        /\ \A i \in 1 .. Len(seSettled) : FALSE
    BY <2>1
  <2>4. 0 <= 0
    OBVIOUS
  <2> QED
    BY <2>2, <2>3, <2>4, Zenon DEF SeInOrder
<1> QED
  BY <1>1, <1>2 DEF SeInv

\* Channels, buffer and numbers keep their types; that a number the cache is
\* told stays within the numbers given out is part of the order.
THEOREM SeTypeCorrect == SeSpec => []SeTypeOK
<1>1. SeInv => SeTypeOK
  BY DEF SeInv
<1> QED
  BY <1>1, SeInvInit, SeInvStep, PTL DEF SeSpec

-----------------------------------------------------------------------------
(* Nothing is lost *)

\* A change of p that the cache has not heard of is under way.
SeCovered(p) == seTold[p] # seVersion[p] => SeUnderWay(p)

\* A notification puts the change it stands for on the channel.
LEMMA SeNotifiedCovers ==
    ASSUME SeTypeOK, SeNotified, NEW p \in SePath \ SeIgnored, SeCovered(p)
    PROVE  SeCovered(p)'
<1>1. UNCHANGED <<sePending, seSettled, seTold>> /\ seRaw \in Seq(SeEvent)
  BY DEF SeNotified, SeTypeOK
<1>2. CASE seRaw' = seRaw /\ seVersion'[p] = seVersion[p]
  BY <1>1, <1>2 DEF SeCovered, SeUnderWay, SeIsOverflow
<1>3. ASSUME NEW e, SeReports(e)
      PROVE  SeCovered(p)'
  <2>1. /\ Len(seRaw) \in Nat /\ Len(seRaw') = Len(seRaw) + 1
        /\ \A i \in 1 .. Len(seRaw) : i \in 1 .. Len(seRaw') /\ seRaw'[i] = seRaw[i]
        /\ Len(seRaw) + 1 \in 1 .. Len(seRaw') /\ seRaw'[Len(seRaw) + 1] = e
    BY <1>1, <1>3, SeSent DEF SeReports
  <2>2. CASE seVersion'[p] = seVersion[p]
    BY <1>1, <2>1, <2>2 DEF SeCovered, SeUnderWay, SeIsOverflow
  <2>3. CASE SeIsOverflow(e)
    BY <2>1, <2>3 DEF SeCovered, SeUnderWay, SeIsOverflow
  <2>4. CASE SeNames(e, p)
    <3>1. e.of[p] # SeNone /\ e.of[p].version = seVersion'[p] /\ ~SeIsOverflow(e)
      BY <1>3, <2>4 DEF SeReports, SeNames, SeIsOverflow
    <3> QED
      BY <2>1, <3>1 DEF SeCovered, SeUnderWay, SeIsOverflow
  <2> QED
    BY <1>3, <2>2, <2>3, <2>4 DEF SeReports
<1> QED
  BY <1>2, <1>3 DEF SeNotified

\* An event moves from the channel into the buffer, where it replaces a change of
\* the same path only by one that is not older; an overflow takes the place of
\* everything it drops.
LEMMA SeReceiveCovers ==
    ASSUME SeTypeOK, SeReceive, NEW p \in SePath, SeInOrder(p), SeCovered(p)
    PROVE  SeCovered(p)'
<1>1. /\ seRaw # <<>> /\ seRaw' = Tail(seRaw) /\ UNCHANGED <<seVersion, seTold>>
  BY DEF SeReceive
<1>2. seRaw \in Seq(SeEvent) /\ seSettled \in Seq(SeEmission)
  BY DEF SeTypeOK
<1>3. /\ Head(seRaw) \in SeEvent /\ Len(seRaw) \in Nat /\ 1 \in 1 .. Len(seRaw)
      /\ Head(seRaw) = seRaw[1] /\ Len(seRaw') = Len(seRaw) - 1
      /\ \A i \in 1 .. Len(seRaw') : seRaw'[i] = seRaw[i + 1]
  BY <1>1, <1>2, SeReceived
<1>4. CASE SeIsOverflow(Head(seRaw))
  <2>1. /\ seSettled' = seSettled \o <<[type |-> "Overflow"]>>
        /\ [type |-> "Overflow"] \in SeEmission
    BY <1>4 DEF SeReceive, SeOverflowOf, SeEmission
  <2>2. /\ Len(seSettled) + 1 \in 1 .. Len(seSettled')
        /\ seSettled'[Len(seSettled) + 1].type = "Overflow"
    BY <1>2, <2>1, SeSent
  <2> QED
    BY <2>2 DEF SeCovered, SeUnderWay
<1>5. CASE ~SeIsOverflow(Head(seRaw))
  <2>1. sePending' = SeApplyEvent(sePending, Head(seRaw)) /\ UNCHANGED seSettled
    BY <1>5 DEF SeReceive
  <2>2. sePending'[p] = IF seRaw[1].of[p] # SeNone THEN seRaw[1].of[p] ELSE sePending[p]
    BY <1>3, <2>1 DEF SeApplyEvent
  <2>3. ASSUME NEW i \in 1 .. Len(seRaw), i # 1
        PROVE  i - 1 \in 1 .. Len(seRaw') /\ seRaw'[i - 1] = seRaw[i]
    BY <1>3, <2>3
  <2>4. CASE seTold[p] = seVersion[p]
    BY <1>1, <2>4 DEF SeCovered
  <2>5. CASE \E i \in 1 .. Len(seRaw) : SeIsOverflow(seRaw[i])
    <3>1. PICK i \in 1 .. Len(seRaw) : SeIsOverflow(seRaw[i])
      BY <2>5
    <3>2. i # 1
      BY <1>3, <1>5, <3>1
    <3> QED
      BY <2>3, <3>1, <3>2 DEF SeCovered, SeUnderWay, SeIsOverflow
  <2>6. CASE \E i \in 1 .. Len(seRaw) :
                ~SeIsOverflow(seRaw[i]) /\ seRaw[i].of[p] # SeNone
                   /\ seRaw[i].of[p].version = seVersion[p]
    <3>1. PICK i \in 1 .. Len(seRaw) :
             ~SeIsOverflow(seRaw[i]) /\ seRaw[i].of[p] # SeNone
                /\ seRaw[i].of[p].version = seVersion[p]
      BY <2>6
    <3>2. CASE i = 1
      BY <1>1, <2>2, <3>1, <3>2 DEF SeCovered, SeUnderWay
    <3>3. CASE i # 1
      BY <1>1, <2>3, <3>1, <3>3 DEF SeCovered, SeUnderWay, SeIsOverflow
    <3> QED
      BY <3>2, <3>3
  <2>7. CASE sePending[p] # SeNone /\ sePending[p].version = seVersion[p]
    <3>1. CASE seRaw[1].of[p] # SeNone
      <4>1. SeNames(seRaw[1], p)
        BY <1>3, <1>5, <3>1 DEF SeNames, SeEvent, SeIsOverflow
      <4>2. /\ seRaw[1].of[p].version <= seVersion[p]
            /\ sePending[p].version <= seRaw[1].of[p].version
        BY <1>3, <2>7, <4>1 DEF SeInOrder
      <4>3. seRaw[1].of[p].version \in Nat /\ seVersion[p] \in Nat
        BY <1>3, <4>1, SeNumbers
      <4>4. seRaw[1].of[p].version = seVersion[p]
        BY <2>7, <4>2, <4>3
      <4> QED
        BY <1>1, <2>2, <3>1, <4>4 DEF SeCovered, SeUnderWay
    <3>2. CASE seRaw[1].of[p] = SeNone
      BY <1>1, <2>2, <2>7, <3>2 DEF SeCovered, SeUnderWay
    <3> QED
      BY <3>1, <3>2
  <2>8. CASE \/ \E i \in 1 .. Len(seSettled) : seSettled[i].type = "Overflow"
             \/ \E i \in 1 .. Len(seSettled) :
                   seSettled[i].type = "Batch" /\ seSettled[i].of[p] # SeNone
                      /\ seSettled[i].of[p].version = seVersion[p]
    BY <1>1, <2>1, <2>8 DEF SeCovered, SeUnderWay
  <2> QED
    BY <2>4, <2>5, <2>6, <2>7, <2>8 DEF SeCovered, SeUnderWay
<1> QED
  BY <1>4, <1>5

\* An emission moves the buffer to the consumer's channel.
LEMMA SeEmitCovers ==
    ASSUME SeTypeOK, SeEmits, NEW p \in SePath, SeCovered(p)
    PROVE  SeCovered(p)'
<1> DEFINE batch == [type |-> "Batch", of |-> sePending]
<1>1. UNCHANGED <<seVersion, seRaw, seTold>>
  BY DEF SeEmits
<1>2. CASE sePending = SeNothingPending
  <2>1. UNCHANGED <<seSettled, sePending>>
    BY <1>2 DEF SeEmits, SeEmit
  <2> QED
    BY <1>1, <2>1 DEF SeCovered, SeUnderWay, SeIsOverflow
<1>3. CASE sePending # SeNothingPending
  <2>1. seSettled' = Append(seSettled, batch)
    BY <1>3 DEF SeEmits, SeEmit
  <2>2. seSettled \in Seq(SeEmission) /\ batch \in SeEmission
    BY DEF SeTypeOK, SeEmission
  <2>3. batch.type = "Batch" /\ batch.of = sePending
    OBVIOUS
  <2> HIDE DEF batch
  <2>4. /\ \A i \in 1 .. Len(seSettled) : i \in 1 .. Len(seSettled') /\ seSettled'[i] = seSettled[i]
        /\ Len(seSettled) + 1 \in 1 .. Len(seSettled')
        /\ seSettled'[Len(seSettled) + 1] = batch
    BY <2>1, <2>2, SeSent
  <2> QED
    BY <1>1, <2>3, <2>4 DEF SeCovered, SeUnderWay, SeIsOverflow
<1> QED
  BY <1>2, <1>3

\* The consumer tells the cache of what it takes off the channel: everything for
\* an overflow, and a batch's newest change of p.
LEMMA SeConsumeCovers ==
    ASSUME SeTypeOK, SeConsume, NEW p \in SePath, SeInOrder(p), SeCovered(p)
    PROVE  SeCovered(p)'
<1>1. /\ UNCHANGED <<seVersion, seRaw, sePending>>
      /\ seSettled # <<>> /\ seSettled' = Tail(seSettled)
  BY DEF SeConsume
<1>2. seSettled \in Seq(SeEmission)
  BY DEF SeTypeOK
<1>3. /\ Head(seSettled) \in SeEmission /\ Len(seSettled) \in Nat /\ 1 \in 1 .. Len(seSettled)
      /\ Head(seSettled) = seSettled[1] /\ Len(seSettled') = Len(seSettled) - 1
      /\ \A i \in 1 .. Len(seSettled') : seSettled'[i] = seSettled[i + 1]
  BY <1>1, <1>2, SeReceived
<1>4. ASSUME NEW i \in 1 .. Len(seSettled), i # 1
      PROVE  i - 1 \in 1 .. Len(seSettled') /\ seSettled'[i - 1] = seSettled[i]
  BY <1>3, <1>4
<1>5. CASE seSettled[1].type = "Overflow"
  <2>1. seTold' = seVersion
    BY <1>3, <1>5 DEF SeConsume
  <2> QED
    BY <1>1, <2>1 DEF SeCovered
<1>6. CASE seSettled[1].type # "Overflow"
  <2>1. seTold'[p] = SeHeard(p, seSettled[1].of[p])
    BY <1>3, <1>6 DEF SeConsume
  <2>2. CASE seTold[p] = seVersion[p]
    <3>1. /\ seTold'[p] <= seVersion[p] /\ seTold'[p] >= seVersion[p]
          /\ seTold'[p] \in Nat /\ seVersion[p] \in Nat
      BY <1>1, <2>2, SeConsumeKeepsOrder, SeNumbers DEF SeInOrder
    <3> QED
      BY <1>1, <3>1 DEF SeCovered
  <2>3. CASE \/ \E i \in 1 .. Len(seRaw) : SeIsOverflow(seRaw[i])
             \/ \E i \in 1 .. Len(seRaw) :
                   ~SeIsOverflow(seRaw[i]) /\ seRaw[i].of[p] # SeNone
                      /\ seRaw[i].of[p].version = seVersion[p]
             \/ sePending[p] # SeNone /\ sePending[p].version = seVersion[p]
    BY <1>1, <2>3 DEF SeCovered, SeUnderWay, SeIsOverflow
  <2>4. CASE \E i \in 1 .. Len(seSettled) : seSettled[i].type = "Overflow"
    <3>1. PICK i \in 1 .. Len(seSettled) : seSettled[i].type = "Overflow"
      BY <2>4
    <3> QED
      BY <1>4, <1>6, <3>1 DEF SeCovered, SeUnderWay
  <2>5. CASE \E i \in 1 .. Len(seSettled) :
                seSettled[i].type = "Batch" /\ seSettled[i].of[p] # SeNone
                   /\ seSettled[i].of[p].version = seVersion[p]
    <3>1. PICK i \in 1 .. Len(seSettled) :
                seSettled[i].type = "Batch" /\ seSettled[i].of[p] # SeNone
                   /\ seSettled[i].of[p].version = seVersion[p]
      BY <2>5
    <3>2. CASE i = 1
      <4>1. seVersion[p] \in Nat /\ seTold[p] \in Nat /\ seTold[p] <= seVersion[p]
        BY SeNumbers DEF SeInOrder
      <4>2. seTold'[p] = seVersion[p]
        BY <2>1, <3>1, <3>2, <4>1 DEF SeHeard
      <4> QED
        BY <1>1, <4>2 DEF SeCovered
    <3>3. CASE i # 1
      BY <1>1, <1>4, <3>1, <3>3 DEF SeCovered, SeUnderWay
    <3> QED
      BY <3>2, <3>3
  <2> QED
    BY <2>2, <2>3, <2>4, <2>5 DEF SeCovered, SeUnderWay
<1> QED
  BY <1>5, <1>6

\* No change is lost between the OS callback and the cache, for any paths, any
\* ignored ones and any number of events under way: as long as the cache has not
\* heard of the newest change of a path, a channel or the settle buffer holds it,
\* or an overflow that covers it.
THEOREM SeNothingLostHolds == SeSpec => []SeNothingLost
<1>1. SeInit => SeNothingLost
  BY DEF SeInit, SeNothingLost
<1>2. SeInv /\ SeNothingLost /\ [SeNext]_seVars => SeNothingLost'
  <2> SUFFICES ASSUME SeInv, [SeNext]_seVars, NEW p \in SePath \ SeIgnored, SeCovered(p)
      PROVE  SeCovered(p)'
    BY DEF SeNothingLost, SeCovered
  <2>1. SeTypeOK /\ SeInOrder(p)
    BY DEF SeInv
  <2>2. CASE SeEnvironment
    BY <2>1, <2>2, SeEnvironmentNotifies, SeNotifiedCovers
  <2>3. CASE SeReceive
    BY <2>1, <2>3, SeReceiveCovers
  <2>4. CASE SeMaxWait \/ SeQuiet \/ SeClosed
    <3>1. SeEmits
      BY <2>4 DEF SeMaxWait, SeQuiet, SeClosed, SeEmits
    <3> QED
      BY <2>1, <3>1, SeEmitCovers
  <2>5. CASE SeConsume
    BY <2>1, <2>5, SeConsumeCovers
  <2>6. CASE SeDeadlinePasses \/ UNCHANGED seVars
    <3>1. UNCHANGED <<seVersion, seRaw, sePending, seSettled, seTold>>
      BY <2>6 DEF SeDeadlinePasses, seVars
    <3> QED
      BY <3>1 DEF SeCovered, SeUnderWay, SeIsOverflow
  <2> QED
    BY <2>2, <2>3, <2>4, <2>5, <2>6 DEF SeNext, SeSettleTask
<1> QED
  BY <1>1, <1>2, SeInvInit, SeInvStep, PTL DEF SeSpec

-----------------------------------------------------------------------------
(* Registration of directories *)

\* The step of one call.
WrCallStep(c) == WrStep(c) \/ \E batch \in SUBSET WrRaw : WrRequest(c, batch)

\* The steps of everything else.
WrOtherStep ==
    \/ \E d \in WrDir : WrDirAppears(d) \/ WrWatchLost(d)
    \/ WrArm \/ WrClearRaw \/ WrClearDirs

-----------------------------------------------------------------------------
(* Type correctness *)

\* The initial state is well typed.
LEMMA WrTypeInit == WrInit => WrTypeOK
<1> SUFFICES ASSUME WrInit PROVE WrTypeOK
  OBVIOUS
<1>1. /\ wrExists \subseteq WrDir /\ wrOs \subseteq WrDir /\ wrReserved \subseteq WrDir
      /\ wrMarked \subseteq WrRaw /\ wrMissing \subseteq wrMarked
      /\ wrLost \subseteq WrLosable /\ (wrOs # {} => wrWatcher)
  BY DEF WrInit
<1>2. /\ wrPc \in [WrCall -> WrSteps]
      /\ wrDirs \in [WrCall -> SUBSET WrRaw]
      /\ wrFound \in [WrCall -> SUBSET WrRaw]
      /\ wrToUnmark \in [WrCall -> SUBSET WrRaw]
  BY DEF WrInit, WrSteps
<1>3. wrFailures \in 0 .. WrMaxFailures
  BY WrRegistrationConstants DEF WrInit
<1>4. wrWatcher \in BOOLEAN /\ wrClearing \in BOOLEAN
  BY Zenon DEF WrInit
<1> QED
  BY <1>1, <1>2, <1>3, <1>4, Zenon DEF WrTypeOK

\* Every step of a call keeps the types.
LEMMA WrTypeCallStep ==
    ASSUME WrTypeOK, NEW c \in WrCall, WrCallStep(c)
    PROVE  WrTypeOK'
<1> USE WrRegistrationConstants DEF WrTypeOK, WrGoto, WrReturn, WrSteps, wrLocals
<1>1. CASE WrFilter(c)
  BY <1>1 DEF WrFilter
<1>2. CASE WrCanonicalize(c)
  BY <1>2 DEF WrCanonicalize
<1>3. CASE WrMark(c)
  BY <1>3 DEF WrMark
<1>4. CASE WrReserve(c)
  BY <1>4 DEF WrReserve, WrIsReservation, WrDirsOf
<1>5. CASE WrRegister(c)
  BY <1>5 DEF WrRegister, WrDirsOf
<1>6. CASE WrRegisterNoWatcher(c)
  BY <1>6 DEF WrRegisterNoWatcher
<1>7. CASE WrUnmark(c)
  BY <1>7 DEF WrUnmark
<1>8. CASE \E batch \in SUBSET WrRaw : WrRequest(c, batch)
  BY <1>8 DEF WrRequest
<1> QED
  BY <1>1, <1>2, <1>3, <1>4, <1>5, <1>6, <1>7, <1>8 DEF WrCallStep, WrStep

\* So do the steps of the OS, the watcher and Clear.
LEMMA WrTypeOtherStep ==
    ASSUME WrTypeOK, WrOtherStep
    PROVE  WrTypeOK'
BY DEF WrTypeOK, WrOtherStep, WrDirAppears, WrWatchLost, WrArm, WrClearRaw, WrClearDirs,
   wrLocals

\* Type correctness of watch_directories and of what runs beside it.
THEOREM WrTypeCorrect == WrSpec => []WrTypeOK
<1>1. WrTypeOK /\ [WrNext]_wrVars => WrTypeOK'
  <2> SUFFICES ASSUME WrTypeOK, [WrNext]_wrVars PROVE WrTypeOK'
    OBVIOUS
  <2>1. CASE UNCHANGED wrVars
    BY <2>1 DEF WrTypeOK, wrVars
  <2>2. CASE WrNext
    BY <2>2, WrTypeCallStep, WrTypeOtherStep DEF WrNext, WrCallStep, WrOtherStep
  <2> QED
    BY <2>1, <2>2
<1> QED
  BY WrTypeInit, <1>1, PTL DEF WrSpec

-----------------------------------------------------------------------------
(* No reservation outlives its registration *)

\* A step of a call keeps every reserved directory registered or held.
LEMMA WrReservedCallStep ==
    ASSUME WrTypeOK, WrReservedIsRegistered, NEW c \in WrCall, WrCallStep(c)
    PROVE  WrReservedIsRegistered'
<1> USE DEF WrTypeOK, WrGoto, WrReturn, WrSteps, wrLocals, WrReservedIsRegistered, WrHeld
<1>1. CASE WrFilter(c)
  BY <1>1 DEF WrFilter, WrDirsOf
<1>2. CASE WrCanonicalize(c)
  BY <1>2 DEF WrCanonicalize, WrDirsOf
<1>3. CASE WrMark(c)
  BY <1>3 DEF WrMark, WrDirsOf
<1>4. CASE WrReserve(c)
  BY <1>4 DEF WrReserve, WrIsReservation, WrDirsOf
<1>5. CASE WrRegister(c)
  BY <1>5 DEF WrRegister, WrDirsOf
<1>6. CASE WrRegisterNoWatcher(c)
  BY <1>6 DEF WrRegisterNoWatcher, WrDirsOf
<1>7. CASE WrUnmark(c)
  BY <1>7 DEF WrUnmark, WrDirsOf
<1>8. CASE \E batch \in SUBSET WrRaw : WrRequest(c, batch)
  BY <1>8 DEF WrRequest, WrDirsOf
<1> QED
  BY <1>1, <1>2, <1>3, <1>4, <1>5, <1>6, <1>7, <1>8 DEF WrCallStep, WrStep

\* A lost watch stays accounted for, and Clear gives up every reservation.
LEMMA WrReservedOtherStep ==
    ASSUME WrTypeOK, WrReservedIsRegistered, WrOtherStep
    PROVE  WrReservedIsRegistered'
BY DEF WrTypeOK, WrReservedIsRegistered, WrHeld, WrDirsOf, WrOtherStep,
       WrDirAppears, WrWatchLost, WrArm, WrClearRaw, WrClearDirs, wrLocals

\* A directory in watched_dirs was accepted by the watcher, or a call will
\* still register it or roll its reservation back, whatever the spellings of
\* the directories, the failures and the calls of Clear.
THEOREM WrReservedIsRegisteredHolds == WrSpec => []WrReservedIsRegistered
<1>1. WrInit => WrReservedIsRegistered
  BY DEF WrInit, WrReservedIsRegistered
<1>2. WrTypeOK /\ WrReservedIsRegistered /\ [WrNext]_wrVars => WrReservedIsRegistered'
  <2> SUFFICES ASSUME WrTypeOK, WrReservedIsRegistered, [WrNext]_wrVars
               PROVE  WrReservedIsRegistered'
    OBVIOUS
  <2>1. CASE UNCHANGED wrVars
    BY <2>1 DEF WrReservedIsRegistered, WrHeld, wrVars
  <2>2. CASE WrNext
    BY <2>2, WrReservedCallStep, WrReservedOtherStep DEF WrNext, WrCallStep, WrOtherStep
  <2> QED
    BY <2>1, <2>2
<1> QED
  BY <1>1, <1>2, WrTypeCorrect, PTL DEF WrSpec

-----------------------------------------------------------------------------
(* A marked path is watched *)

\* No directory has two spellings among the paths requests use.
WrOneSpellingEach == \A r, s \in WrRaw : WrCanonical[r] = WrCanonical[s] => r = s

\* The step that may give a path up without registering it: reserve drops a
\* path only when another call holds the same path, or it is watched.
LEMMA WrMarkedReserve ==
    ASSUME WrOneSpellingEach, WrTypeOK,
           WrReservedIsRegistered, WrMarkedIsWatched,
           NEW c \in WrCall, WrReserve(c)
    PROVE  WrMarkedIsWatched'
<1> SUFFICES ASSUME NEW r \in wrMarked \ wrMissing,
                    WrCanonical[r] \notin wrOs \cup wrLost
             PROVE  WrPending(r)'
  BY DEF WrMarkedIsWatched, WrReserve
<1>1. PICK kept \in SUBSET wrFound[c] :
        /\ WrIsReservation(wrFound[c], kept)
        /\ \/ kept = {} /\ WrReturn(c)
           \/ /\ kept # {}
              /\ wrFound' = [wrFound EXCEPT ![c] = kept]
              /\ WrGoto(c, "register")
              /\ UNCHANGED <<wrDirs, wrToUnmark>>
  BY DEF WrReserve
<1>2. \A k \in WrCall \ {c} :
        UNCHANGED <<wrPc[k], wrFound[k], wrToUnmark[k]>>
  BY <1>1 DEF WrTypeOK, WrReturn, WrGoto
<1>3. PICK k \in WrCall :
        \/ wrPc[k] \in {"reserve", "register"} /\ r \in wrFound[k]
        \/ wrPc[k] = "unmark" /\ r \in wrToUnmark[k]
  BY DEF WrMarkedIsWatched, WrPending
<1>4. CASE k # c
  BY <1>2, <1>3, <1>4 DEF WrPending
<1>5. CASE k = c /\ r \in kept
  BY <1>1, <1>5 DEF WrTypeOK, WrGoto, WrPending
<1>6. CASE k = c /\ r \notin kept
  <2>1. r \in wrFound[c] /\ r \in WrRaw /\ wrFound[c] \subseteq WrRaw
    BY <1>3, <1>6 DEF WrReserve, WrTypeOK
  <2>2. WrCanonical[r] \in wrReserved
    BY <1>1, <1>6, <2>1 DEF WrIsReservation, WrDirsOf, WrOneSpellingEach
  <2>3. WrHeld(WrCanonical[r])
    BY <2>2 DEF WrReservedIsRegistered
  <2>4. PICK h \in WrCall :
          \/ wrPc[h] = "register" /\ WrCanonical[r] \in WrDirsOf(wrFound[h])
          \/ wrPc[h] = "unmark" /\ WrCanonical[r] \in WrDirsOf(wrToUnmark[h])
    BY <2>3 DEF WrHeld
  <2>5. h # c
    BY <2>4 DEF WrReserve
  <2>6. \/ wrPc[h] = "register" /\ r \in wrFound[h]
        \/ wrPc[h] = "unmark" /\ r \in wrToUnmark[h]
    BY <2>1, <2>4 DEF WrDirsOf, WrTypeOK, WrOneSpellingEach
  <2> QED
    BY <1>2, <2>5, <2>6 DEF WrPending
<1> QED
  BY <1>4, <1>5, <1>6

\* The other steps of a call.
LEMMA WrMarkedCallStep ==
    ASSUME WrOneSpellingEach, WrTypeOK,
           WrReservedIsRegistered, WrMarkedIsWatched,
           NEW c \in WrCall, WrCallStep(c)
    PROVE  WrMarkedIsWatched'
<1> USE DEF WrTypeOK, WrGoto, WrReturn, WrSteps, wrLocals, WrMarkedIsWatched, WrPending
<1>1. CASE WrFilter(c)
  BY <1>1 DEF WrFilter
<1>2. CASE WrCanonicalize(c)
  BY <1>2 DEF WrCanonicalize
<1>3. CASE WrMark(c)
  BY <1>3 DEF WrMark
<1>4. CASE WrReserve(c)
  BY <1>4, WrMarkedReserve
<1>5. CASE WrRegister(c)
  BY <1>5 DEF WrRegister, WrDirsOf
<1>6. CASE WrRegisterNoWatcher(c)
  BY <1>6 DEF WrRegisterNoWatcher
<1>7. CASE WrUnmark(c)
  BY <1>7 DEF WrUnmark
<1>8. CASE \E batch \in SUBSET WrRaw : WrRequest(c, batch)
  BY <1>8 DEF WrRequest
<1> QED
  BY <1>1, <1>2, <1>3, <1>4, <1>5, <1>6, <1>7, <1>8 DEF WrCallStep, WrStep

\* watch.rs: "a raw path stays marked in watched_raw_dirs iff its watch
\* registration took": proved for any number of concurrent calls, when no
\* directory has two spellings.
THEOREM WrMarkedIsWatchedHolds ==
    ASSUME WrOneSpellingEach
    PROVE  WrSpec => []WrMarkedIsWatched
<1>1. WrInit => WrMarkedIsWatched
  BY DEF WrInit, WrMarkedIsWatched
<1>2. WrTypeOK /\ WrReservedIsRegistered /\ WrMarkedIsWatched /\ [WrNext]_wrVars
        => WrMarkedIsWatched'
  <2> SUFFICES ASSUME WrTypeOK, WrReservedIsRegistered, WrMarkedIsWatched, [WrNext]_wrVars
               PROVE  WrMarkedIsWatched'
    OBVIOUS
  <2>1. CASE UNCHANGED wrVars
    BY <2>1 DEF WrMarkedIsWatched, WrPending, wrVars
  <2>2. ASSUME NEW c \in WrCall, WrCallStep(c) PROVE WrMarkedIsWatched'
    BY <2>2, WrMarkedCallStep
  <2>3. CASE WrOtherStep
    BY <2>3 DEF WrMarkedIsWatched, WrPending, WrOtherStep, WrDirAppears, WrWatchLost,
                WrArm, WrClearRaw, WrClearDirs, wrLocals
  <2> QED
    BY <2>1, <2>2, <2>3 DEF WrNext, WrCallStep, WrOtherStep
<1> QED
  BY <1>1, <1>2, WrTypeCorrect, WrReservedIsRegisteredHolds, PTL DEF WrSpec

-----------------------------------------------------------------------------
(* Daemons and their clients *)

OwPid == OwDaemon \cup {OwNone}
OwPcs == {"idle", "ensure", "ready", "request", "stale", "end"} \cup OwLadderPcs
OwBacks == {"check", "retry", "slot", "wait", "ready", "stale"}
OwStates == {"unborn", "dead"} \cup OwStarting \cup OwBound
OwProgress ==
    [pc : OwPcs, served : OwPid, seen : OwPid, exch : OwPid, wedged : BOOLEAN, last : BOOLEAN,
     holds : BOOLEAN, took : BOOLEAN, retried : BOOLEAN, back : OwBacks]

\* Type correctness, spelled out.
LEMMA OwTypes ==
    OwTypeOK <=>
        /\ owUnix \in BOOLEAN /\ owOlder \in BOOLEAN /\ owSlot \in BOOLEAN /\ owBreaker \in BOOLEAN
        /\ owJob \in [OwClient -> {"compile", "stop", "none"}]
        /\ owDaemon \in [OwDaemon -> OwStates]
        /\ owSock \in OwPid /\ owIdent \in OwPid /\ owLock \in OwPid \cup {OwTorn}
        /\ owRoot \in OwPid /\ owClient \in [OwClient -> OwProgress] /\ owFaults \in Nat
BY DEF OwTypeOK, OwStates, OwPid, OwProgress, OwPcs, OwBacks

\* Neither no daemon nor a torn record is a daemon.
LEMMA OwNoneIsNobody ==
    OwNone \notin OwDaemon /\ OwTorn \notin OwDaemon /\ OwTorn # OwNone
BY OwAssumption DEF OwDaemon, OwTorn

\* From the exchange that failed to the kill.
OwExchange == {"ping", "gate", "shutdown", "drain", "kill"}

\* What a step makes of its client: it forgets or names daemons anew, and is not
\* after an exchange; or it goes on after the exchange, with all it has noted; or the
\* exchange has just failed; or it is a stop that is about to kill.
OwMoves(c, r) ==
    LET k == owClient[c] IN
    \/ /\ r.pc \notin OwExchange
       /\ r.served \in {k.served, owIdent, OwNone} /\ r.seen \in {k.seen, owIdent, OwNone}
    \/ /\ k.pc \in OwExchange
       /\ r.served = k.served /\ r.seen = k.seen /\ r.exch = k.exch /\ r.wedged = k.wedged
    \/ OwListening /\ r.exch = owSock /\ r.served = k.served /\ r.seen = k.seen
    \/ owJob[c] = "stop" /\ r.served = k.served /\ r.seen = owLock

\* A client may always end.
LEMMA OwEndedMoves ==
    /\ OwIdle \in OwProgress /\ OwEnded \in OwProgress
    /\ \A c \in OwClient : OwMoves(c, OwEnded)
BY DEF OwIdle, OwEnded, OwProgress, OwPcs, OwBacks, OwPid, OwMoves, OwExchange

\* Only the place changes.
LEMMA OwPlaced ==
    ASSUME NEW k \in OwProgress, NEW pc \in OwPcs, NEW r, r = [k EXCEPT !.pc = pc]
    PROVE  /\ r \in OwProgress /\ r.pc = pc /\ r.served = k.served /\ r.seen = k.seen
           /\ r.exch = k.exch /\ r.wedged = k.wedged
BY DEF OwProgress

\* A client that goes on to another step moves as a client may.
LEMMA OwGoes ==
    ASSUME OwTypeOK, NEW c \in OwClient, NEW pc \in OwPcs, OwGo(c, pc),
           pc \notin OwExchange \/ owClient[c].pc \in OwExchange
    PROVE  \E r \in OwProgress : OwSet(c, r) /\ OwMoves(c, r)
<1>1. owClient[c] \in OwProgress
  BY OwTypes
<1> DEFINE r == [owClient[c] EXCEPT !.pc = pc]
<1>2. CASE pc = "end"
  BY <1>2, OwEndedMoves DEF OwGo
<1>3. CASE pc # "end"
  <2>1. OwSet(c, r)
    BY <1>3 DEF OwGo
  <2>2. /\ r \in OwProgress /\ r.pc = pc /\ r.served = owClient[c].served
        /\ r.seen = owClient[c].seen /\ r.exch = owClient[c].exch
        /\ r.wedged = owClient[c].wedged
    BY <1>1, OwPlaced
  <2> HIDE DEF r
  <2>3. OwMoves(c, r)
    BY <2>2 DEF OwMoves
  <2> QED BY <2>1, <2>2, <2>3
<1> QED BY <1>2, <1>3

\* A client whose attempt failed moves as a client may.
LEMMA OwAttempts ==
    ASSUME OwTypeOK, NEW c \in OwClient, OwAttemptFailed(c)
    PROVE  \E r \in OwProgress : OwSet(c, r) /\ OwMoves(c, r)
<1>1. owClient[c] \in OwProgress
  BY OwTypes
<1> DEFINE r == [OwIdle EXCEPT !.pc = "ensure", !.served = owClient[c].served, !.retried = TRUE]
<1>2. CASE owClient[c].retried
  BY <1>2, OwEndedMoves DEF OwAttemptFailed
<1>3. CASE ~owClient[c].retried
  <2>1. OwSet(c, r)
    BY <1>3 DEF OwAttemptFailed
  <2>2. /\ r \in OwProgress /\ r.pc = "ensure" /\ r.served = owClient[c].served /\ r.seen = OwNone
    BY <1>1 DEF OwIdle, OwProgress, OwPcs, OwPid, OwBacks
  <2> HIDE DEF r
  <2>3. OwMoves(c, r)
    BY <2>2 DEF OwMoves, OwExchange
  <2> QED BY <2>1, <2>2, <2>3
<1> QED BY <1>2, <1>3

\* A look at the lock file: the three continuations.
LEMMA OwLooks ==
    ASSUME OwTypeOK, NEW c \in OwClient, NEW nobody \in OwProgress, NEW live \in OwProgress,
           NEW cleaned \in OwProgress, OwLookUp(c, nobody, live, cleaned),
           OwMoves(c, nobody), owLock \in OwDaemon => OwMoves(c, live),
           cleaned.served = owClient[c].served, cleaned.seen = owClient[c].seen
    PROVE  \E r \in OwProgress : OwSet(c, r) /\ OwMoves(c, r)
<1> DEFINE r == [cleaned EXCEPT !.pc = "unlock"]
<1>1. "unlock" \in OwPcs /\ "unlock" \notin OwExchange
  BY DEF OwPcs, OwLadderPcs, OwExchange
<1>2. r \in OwProgress /\ r.pc = "unlock" /\ r.served = cleaned.served /\ r.seen = cleaned.seen
  BY <1>1, OwPlaced
<1>3. OwMoves(c, r)
  <2> HIDE DEF r
  <2> QED BY <1>1, <1>2 DEF OwMoves
<1> QED BY <1>2, <1>3 DEF OwLookUp


\* Every step of a client moves it as a client may.
LEMMA OwClientMoves ==
    ASSUME OwTypeOK, NEW c \in OwClient, OwClientStep(c)
    PROVE  \E r \in OwProgress : OwSet(c, r) /\ OwMoves(c, r)
<1> DEFINE k == owClient[c]
           Goal == \E r \in OwProgress : OwSet(c, r) /\ OwMoves(c, r)
<1>k. k \in OwProgress /\ owIdent \in OwPid /\ owSock \in OwPid
  BY OwTypes
<1>p. /\ OwAwaitPcs \subseteq OwPcs /\ OwBacks \subseteq OwPcs
      /\ {"ensure", "ready", "request", "stale", "end", "unlock", "retire", "clear", "reclaim",
          "slotagain", "lineage"} \subseteq OwPcs
      /\ OwExchange \subseteq OwPcs
      /\ \A pc \in OwBacks : pc \notin OwExchange
  BY DEF OwPcs, OwLadderPcs, OwAwaitPcs, OwBacks, OwExchange
<1>b. k.back \in OwBacks
  BY <1>k DEF OwProgress
<1>s. OwAfterStop(c) \in {"end", "slot"}
  BY DEF OwAfterStop
<1>g. \A pc \in OwPcs : OwGo(c, pc) /\ (pc \notin OwExchange \/ k.pc \in OwExchange) => Goal
  BY OwGoes
<1>e. /\ "ask" \in OwPcs /\ "slot" \in OwPcs /\ "spawn" \in OwPcs /\ "wait" \in OwPcs
      /\ \A pc \in {"ask", "slot", "spawn", "wait", "ensure", "ready", "request", "stale", "end",
                    "unlock", "retire", "clear", "reclaim", "slotagain", "lineage", "forget",
                    "retry", "check"} :
           pc \notin OwExchange /\ pc \in OwPcs
      /\ \A pc \in OwExchange : pc \in OwPcs
  BY DEF OwPcs, OwLadderPcs, OwAwaitPcs, OwExchange
<1>a. OwAttemptFailed(c) => Goal
  BY OwAttempts
<1> SUFFICES Goal
  OBVIOUS
<1> HIDE DEF Goal
<1>1. CASE OwBegin(c)
  <2> DEFINE r == [k EXCEPT !.pc = "ensure", !.served = owIdent]
  <2>1. OwSet(c, r)
    BY <1>1 DEF OwBegin
  <2>2. r \in OwProgress /\ r.pc = "ensure" /\ r.served = owIdent /\ r.seen = k.seen
    BY <1>e, <1>k DEF OwProgress
  <2> HIDE DEF r
  <2> QED BY <1>e, <2>1, <2>2 DEF Goal, OwMoves
<1>2. CASE OwEnsure(c)
  <2> DEFINE r == [k EXCEPT !.pc = "ask", !.seen = owIdent, !.back = "check"]
  <2>1. OwAttemptFailed(c) \/ OwSet(c, r)
    BY <1>2 DEF OwEnsure
  <2>2. r \in OwProgress /\ r.pc = "ask" /\ r.served = k.served /\ r.seen = owIdent
    BY <1>e, <1>k DEF OwProgress, OwBacks
  <2> HIDE DEF r
  <2> QED BY <1>a, <1>e, <2>1, <2>2 DEF Goal, OwMoves
<1>3. CASE OwReady(c)
  BY <1>3, <1>e, <1>g DEF OwReady
<1>4. CASE OwAsk(c)
  <2> DEFINE pc == IF OwServing /\ OwOlder THEN "gate" ELSE "ping"
             r == [k EXCEPT !.exch = owSock, !.pc = pc]
  <2>1. OwGo(c, "ready") \/ (OwListening /\ OwSet(c, r)) \/ OwGo(c, k.back)
    BY <1>4 DEF OwAsk
  <2>2. pc \in OwPcs
    BY <1>e DEF OwExchange
  <2> HIDE DEF pc
  <2>3. r \in OwProgress /\ r.exch = owSock /\ r.served = k.served /\ r.seen = k.seen
    BY <1>k, <2>2 DEF OwProgress
  <2> HIDE DEF r
  <2>4. OwListening /\ OwSet(c, r) => Goal
    BY <2>3 DEF Goal, OwMoves
  <2> QED BY <1>b, <1>e, <1>g, <1>p, <2>1, <2>4
<1>5. CASE OwPing(c)
  <2>1. k.pc \in OwExchange
    BY <1>5 DEF OwPing, OwAt, OwExchange
  <2>2. OwGo(c, "end") \/ OwGo(c, "retry") \/ OwGo(c, "ready") \/ OwGo(c, "gate")
    BY <1>5 DEF OwPing
  <2>3. "gate" \in OwPcs
    BY <1>e DEF OwExchange
  <2> QED BY <1>e, <1>g, <2>1, <2>2, <2>3
<1>6. CASE OwCheck(c)
  <2> DEFINE k1 == [k EXCEPT !.pc = "slot"]
             k2 == [k EXCEPT !.pc = "retry"]
             k3 == [k EXCEPT !.back = "slot"]
  <2>1. OwLookUp(c, k1, k2, k3)
    BY <1>6 DEF OwCheck
  <2>2. k1 \in OwProgress /\ k1.pc = "slot" /\ k1.served = k.served /\ k1.seen = k.seen
    BY <1>e, <1>k DEF OwProgress
  <2>3. k2 \in OwProgress /\ k2.pc = "retry" /\ k2.served = k.served /\ k2.seen = k.seen
    BY <1>e, <1>k DEF OwProgress
  <2>4. k3 \in OwProgress /\ k3.served = k.served /\ k3.seen = k.seen
    BY <1>k DEF OwProgress, OwBacks
  <2> HIDE DEF k1, k2, k3
  <2>5. OwMoves(c, k1) /\ OwMoves(c, k2)
    BY <1>e, <2>2, <2>3 DEF OwMoves
  <2> QED BY <2>1, <2>2, <2>3, <2>4, <2>5, OwLooks DEF Goal
<1>7. CASE OwUnlock(c)
  BY <1>7, <1>e, <1>g DEF OwUnlock
<1>8. CASE OwRetire(c)
  BY <1>8, <1>a, <1>b, <1>g, <1>p DEF OwRetire
<1>9. CASE OwRetry(c)
  <2> DEFINE r == [k EXCEPT !.pc = "ask", !.seen = owIdent, !.back = "retry"]
  <2>1. OwSet(c, r)
    BY <1>9 DEF OwRetry
  <2>2. r \in OwProgress /\ r.pc = "ask" /\ r.served = k.served /\ r.seen = owIdent
    BY <1>e, <1>k DEF OwProgress, OwBacks
  <2> HIDE DEF r
  <2> QED BY <1>e, <2>1, <2>2 DEF Goal, OwMoves
<1>10. CASE OwGate(c)
  <2>1. k.pc \in OwExchange
    BY <1>10 DEF OwGate, OwAt, OwExchange
  <2>2. OwGo(c, "shutdown") \/ OwGo(c, OwAfterStop(c))
    BY <1>10 DEF OwGate
  <2>3. "shutdown" \in OwPcs
    BY <1>e DEF OwExchange
  <2> QED BY <1>e, <1>g, <1>s, <2>1, <2>2, <2>3
<1>11. CASE OwShutdown(c)
  <2>1. k.pc \in OwExchange /\ OwGo(c, "drain")
    BY <1>11 DEF OwShutdown, OwAt, OwExchange
  <2>2. "drain" \in OwPcs
    BY <1>e DEF OwExchange
  <2> QED BY <1>g, <2>1, <2>2
<1>12. CASE OwDrain(c)
  <2>1. k.pc \in OwExchange /\ (OwGo(c, "kill") \/ OwGo(c, "forget"))
    BY <1>12 DEF OwDrain, OwAt, OwExchange
  <2>2. "kill" \in OwPcs
    BY <1>e DEF OwExchange
  <2> QED BY <1>e, <1>g, <2>1, <2>2
<1>13. CASE OwKill(c)
  <2>1. OwGo(c, "forget") \/ OwGo(c, OwAfterStop(c))
    BY <1>13 DEF OwKill
  <2> QED BY <1>e, <1>g, <1>s, <2>1
<1>14. CASE OwForget(c)
  BY <1>14, <1>e, <1>g DEF OwForget
<1>15. CASE OwClear(c)
  <2> DEFINE r == [k EXCEPT !.pc = "slot", !.took = TRUE]
  <2>1. OwGo(c, "end") \/ OwSet(c, r)
    BY <1>15 DEF OwClear
  <2>2. r \in OwProgress /\ r.pc = "slot" /\ r.served = k.served /\ r.seen = k.seen
    BY <1>e, <1>k DEF OwProgress
  <2> HIDE DEF r
  <2>3. OwSet(c, r) => Goal
    BY <1>e, <2>2 DEF Goal, OwMoves
  <2> QED BY <1>e, <1>g, <2>1, <2>3
<1>16. CASE OwSlot(c)
  <2> DEFINE k1 == [k EXCEPT !.pc = "spawn", !.holds = TRUE, !.last = FALSE]
             k2 == [k EXCEPT !.pc = "wait", !.last = FALSE]
             k3 == [k EXCEPT !.pc = "spawn", !.last = FALSE]
  <2>1. OwSet(c, k1) \/ OwSet(c, k2) \/ OwSet(c, k3) \/ OwGo(c, "reclaim")
    BY <1>16 DEF OwSlot
  <2>2. k1 \in OwProgress /\ k1.pc = "spawn" /\ k1.served = k.served /\ k1.seen = k.seen
    BY <1>e, <1>k DEF OwProgress
  <2>3. k2 \in OwProgress /\ k2.pc = "wait" /\ k2.served = k.served /\ k2.seen = k.seen
    BY <1>e, <1>k DEF OwProgress
  <2>4. k3 \in OwProgress /\ k3.pc = "spawn" /\ k3.served = k.served /\ k3.seen = k.seen
    BY <1>e, <1>k DEF OwProgress
  <2> HIDE DEF k1, k2, k3
  <2>5. (OwSet(c, k1) \/ OwSet(c, k2) \/ OwSet(c, k3)) => Goal
    BY <1>e, <2>2, <2>3, <2>4 DEF Goal, OwMoves
  <2> QED BY <1>e, <1>g, <2>1, <2>5
<1>17. CASE OwReclaim(c)
  BY <1>17, <1>e, <1>g DEF OwReclaim
<1>18. CASE OwSpawn(c)
  BY <1>18, <1>e, <1>g DEF OwSpawn
<1>19. CASE OwWait(c)
  <2> DEFINE pc == IF k.took THEN "lineage" ELSE "ready"
             k1 == [k EXCEPT !.pc = pc, !.holds = FALSE, !.back = "ready"]
             k2 == [k EXCEPT !.last = TRUE]
             k3 == [k EXCEPT !.back = "wait"]
  <2>1. OwSet(c, k1) \/ OwLookUp(c, k, k2, k3)
    BY <1>19 DEF OwWait
  <2>2. pc \in OwPcs /\ pc \notin OwExchange
    BY <1>e
  <2>w. k.pc = "wait"
    BY <1>19 DEF OwWait, OwAt
  <2> HIDE DEF pc
  <2>3. k1 \in OwProgress /\ k1.pc = pc /\ k1.served = k.served /\ k1.seen = k.seen
    BY <1>k, <2>2 DEF OwProgress, OwBacks
  <2>4. k2 \in OwProgress /\ k2.pc = "wait" /\ k2.served = k.served /\ k2.seen = k.seen
    BY <1>k, <2>w DEF OwProgress
  <2>5. k3 \in OwProgress /\ k3.served = k.served /\ k3.seen = k.seen
    BY <1>k DEF OwProgress, OwBacks
  <2> HIDE DEF k1, k2, k3
  <2>6. OwSet(c, k1) => Goal
    BY <2>2, <2>3 DEF Goal, OwMoves
  <2>7. OwMoves(c, k) /\ OwMoves(c, k2)
    BY <1>e, <2>4, <2>w DEF OwMoves
  <2> QED BY <1>k, <2>1, <2>4, <2>5, <2>6, <2>7, OwLooks DEF Goal
<1>20. CASE OwLineage(c)
  <2> DEFINE r == [k EXCEPT !.pc = "ready"]
  <2>1. OwLookUp(c, r, r, r)
    BY <1>20 DEF OwLineage
  <2>2. r \in OwProgress /\ r.pc = "ready" /\ r.served = k.served /\ r.seen = k.seen
    BY <1>e, <1>k DEF OwProgress
  <2> HIDE DEF r
  <2>3. OwMoves(c, r)
    BY <1>e, <2>2 DEF OwMoves
  <2> QED BY <2>1, <2>2, <2>3, OwLooks DEF Goal
<1>21. CASE OwFail(c)
  BY <1>21, <1>a DEF OwFail
<1>22. CASE OwRequest(c)
  <2> DEFINE r == [k EXCEPT !.pc = "ping", !.exch = owSock, !.wedged = TRUE]
  <2>1. OwGo(c, "end") \/ (OwListening /\ OwSet(c, r)) \/ OwAttemptFailed(c)
    BY <1>22 DEF OwRequest
  <2>2. "ping" \in OwPcs
    BY <1>e DEF OwExchange
  <2>3. r \in OwProgress /\ r.exch = owSock /\ r.served = k.served /\ r.seen = k.seen
    BY <1>k, <2>2 DEF OwProgress
  <2> HIDE DEF r
  <2>4. OwListening /\ OwSet(c, r) => Goal
    BY <2>3 DEF Goal, OwMoves
  <2> QED BY <1>a, <1>e, <1>g, <2>1, <2>4
<1>23. CASE OwStop(c)
  <2> DEFINE k1 == [k EXCEPT !.pc = "stale"]
             k2 == [k EXCEPT !.pc = "kill", !.seen = owLock]
             k3 == [k EXCEPT !.back = "stale"]
  <2>1. OwGo(c, "end") \/ OwLookUp(c, k1, k2, k3)
    BY <1>23 DEF OwStop
  <2>j. owJob[c] = "stop"
    BY <1>23 DEF OwStop
  <2>2. k1 \in OwProgress /\ k1.pc = "stale" /\ k1.served = k.served /\ k1.seen = k.seen
    BY <1>e, <1>k DEF OwProgress
  <2>3. k3 \in OwProgress /\ k3.served = k.served /\ k3.seen = k.seen
    BY <1>k DEF OwProgress, OwBacks
  <2>4. ASSUME owLock \in OwDaemon
        PROVE  k2 \in OwProgress /\ k2.served = k.served /\ k2.seen = owLock
    <3>1. "kill" \in OwPcs /\ owLock \in OwPid
      BY <1>e, <2>4 DEF OwExchange, OwPid
    <3> QED BY <1>k, <3>1 DEF OwProgress
  <2> HIDE DEF k1, k2, k3
  <2>5. OwMoves(c, k1)
    BY <1>e, <2>2 DEF OwMoves
  <2>6. owLock \in OwDaemon => OwMoves(c, k2)
    BY <2>4, <2>j DEF OwMoves
  <2>7. CASE owLock \in OwDaemon
    <3>1. OwLookUp(c, k1, k2, k3) => Goal
      BY <2>2, <2>3, <2>4, <2>5, <2>6, <2>7, OwLooks DEF Goal
    <3> QED BY <1>e, <1>g, <2>1, <3>1
  <2>8. CASE owLock \notin OwDaemon
    <3>1. OwLookUp(c, k1, k2, k3) => Goal
      BY <2>2, <2>5, <2>8 DEF Goal, OwLookUp
    <3> QED BY <1>e, <1>g, <2>1, <3>1
  <2> QED BY <2>7, <2>8
<1>24. CASE OwStopStale(c)
  BY <1>24, <1>e, <1>g DEF OwStopStale
<1>25. CASE OwVanish(c)
  BY <1>25, <1>e, <1>g DEF OwVanish
<1> QED
  BY <1>1, <1>2, <1>3, <1>4, <1>5, <1>6, <1>7, <1>8, <1>9, <1>10, <1>11, <1>12, <1>13, <1>14,
     <1>15, <1>16, <1>17, <1>18, <1>19, <1>20, <1>21, <1>22, <1>23, <1>24, <1>25
  DEF OwClientStep


\* What a client's step makes of the daemons and of the files.
OwWorldMoves(c) ==
    /\ UNCHANGED owConf /\ owFaults' \in Nat /\ owSlot' \in BOOLEAN /\ owBreaker' \in BOOLEAN
    /\ owSock' = owSock \/ (owUnix /\ owSock' = OwNone)
    /\ owIdent' \in {owIdent, OwNone}
    /\ owLock' = owLock \/ (owLock' = OwNone /\ UNCHANGED <<owDaemon, owRoot>>)
    /\ \/ UNCHANGED <<owDaemon, owRoot>>
       \/ OwServing /\ owDaemon' = [owDaemon EXCEPT ![owSock] = "draining"] /\ UNCHANGED owRoot
       \/ \E d \in OwDaemon : owDaemon[d] = "unborn" /\ OwTo(d, "probe") /\ UNCHANGED owRoot
       \/ /\ owClient[c].pc = "kill"
          /\ owDaemon' = [owDaemon EXCEPT ![OwExpected(c)] = "dead"]
          /\ owRoot' = IF owRoot = OwExpected(c) THEN OwNone ELSE owRoot

\* What a step of a client may do to files, endpoint and daemons.
LEMMA OwClientWorld ==
    ASSUME OwTypeOK, NEW c \in OwClient, OwClientStep(c)
    PROVE  OwWorldMoves(c)
<1>t. owFaults \in Nat /\ owSlot \in BOOLEAN /\ owBreaker \in BOOLEAN
  BY OwTypes
<1>f. OwFault => owFaults' \in Nat
  BY <1>t DEF OwFault
<1>1. CASE \/ OwBegin(c) \/ OwEnsure(c) \/ OwAsk(c) \/ OwPing(c) \/ OwCheck(c) \/ OwRetry(c)
           \/ OwGate(c) \/ OwDrain(c) \/ OwLineage(c) \/ OwRequest(c)
  BY <1>1, <1>t DEF OwBegin, OwEnsure, OwAsk, OwPing, OwCheck, OwRetry, OwGate, OwDrain, OwLineage,
                    OwRequest, OwWorldMoves, owFiles
<1>2. CASE OwReady(c) \/ OwUnlock(c) \/ OwRetire(c)
  BY <1>2, <1>t DEF OwReady, OwUnlock, OwRetire, OwDropSlot, OwWorldMoves
<1>3. CASE OwShutdown(c)
  BY <1>3, <1>t DEF OwShutdown, OwWorldMoves, owFiles
<1>4. CASE OwKill(c)
  BY <1>4, <1>t DEF OwKill, OwAt, OwWorldMoves, owFiles
<1>5. CASE OwForget(c) \/ OwClear(c) \/ OwReclaim(c)
  BY <1>5, <1>t DEF OwForget, OwClear, OwReclaim, OwWorldMoves
<1>6. CASE OwSlot(c)
  BY <1>6, <1>f, <1>t DEF OwSlot, OwWorldMoves
<1>7. CASE OwSpawn(c)
  BY <1>7, <1>t DEF OwSpawn, OwWorldMoves, owFiles
<1>8. CASE OwWait(c) \/ OwFail(c)
  BY <1>8, <1>t DEF OwWait, OwFail, OwDropSlot, OwWorldMoves
<1>9. CASE OwStop(c)
  BY <1>9, <1>t DEF OwStop, OwWorldMoves, owFiles
<1>10. CASE OwStopStale(c)
  BY <1>10, <1>t DEF OwStopStale, OwWorldMoves
<1>11. CASE OwVanish(c)
  BY <1>11, <1>f, <1>t DEF OwVanish, OwWorldMoves, owFiles
<1> QED BY <1>1, <1>2, <1>3, <1>4, <1>5, <1>6, <1>7, <1>8, <1>9, <1>10, <1>11 DEF OwClientStep

\* The daemons that hold the cache root.
OwRooted == {"record", "refused", "unlink", "giveup", "ident", "serving", "draining", "failed"}

\* What a daemon's step makes of it, to the detail the invariant needs.
OwDaemonMoves(d, pc) ==
    /\ OwTo(d, pc) /\ owDaemon[d] \notin {"unborn", "dead"}
    /\ UNCHANGED <<owConf, owClient, owSlot, owBreaker>> /\ owFaults' \in Nat
    /\ owIdent' = owIdent \/ (owIdent' = d /\ pc = "serving")
    /\ \/ owLock' = owLock
       \/ owLock' = d /\ owDaemon[d] = "record"
       \/ owLock' = OwTorn
       \/ owLock' = OwNone /\ owDaemon[d] \in {"unlink", "released", "failed"}
    /\ \/ owSock' = owSock \/ (owUnix /\ owSock' = OwNone)
       \/ owSock' = d /\ pc = "root" /\ (owUnix \/ ~OwListening)
    /\ pc \in OwBound => pc = "root" \/ owDaemon[d] \in OwBound
    /\ owDaemon[d] \in OwBound => pc \in OwBound \cup {"dead"}
    /\ pc = "root" => owSock' = d
    /\ \/ owRoot' = owRoot
       \/ owRoot = OwNone /\ owRoot' = d
       \/ owRoot' = OwNone /\ (owDaemon[d] \in OwRooted \/ owRoot = d) /\ pc \notin OwRooted
    /\ pc \in OwRooted => (owDaemon[d] \in OwRooted /\ owRoot' = owRoot) \/ owRoot' = d
    /\ pc = "unlink" => owLock \notin OwDaemon /\ owLock' = owLock

\* What a step of a daemon may do to files, endpoint and itself.
LEMMA OwDaemonWorld ==
    ASSUME OwTypeOK, NEW d \in OwDaemon, OwDaemonStep(d)
    PROVE  \E pc \in OwStates : OwDaemonMoves(d, pc)
<1>t. owFaults \in Nat /\ owDaemon[d] \in OwStates
  BY OwTypes
<1>f. OwFault => owFaults' \in Nat
  BY <1>t DEF OwFault
<1>s. \A pc \in {"connect", "retire", "dead", "bind", "root", "record", "refused", "ident", "unlink",
                 "giveup", "serving", "draining", "failed", "released", "exiting"} : pc \in OwStates
  BY DEF OwStates, OwStarting, OwBound
<1> USE DEF OwDaemonMoves
<1>1. CASE OwProbeRecord(d)
  <2>1. PICK pc \in {"connect", "retire"} : OwTo(d, pc)
    BY <1>1 DEF OwProbeRecord
  <2>2. OwDaemonMoves(d, pc)
    BY <1>1, <1>t, <2>1 DEF OwProbeRecord, owFiles, OwBound, OwRooted
  <2> QED BY <1>s, <2>2
<1>2. CASE OwProbeConnect(d)
  <2>1. PICK pc \in {"dead", "retire"} : OwTo(d, pc)
    BY <1>2 DEF OwProbeConnect
  <2>2. OwDaemonMoves(d, pc)
    BY <1>2, <1>t, <2>1 DEF OwProbeConnect, owFiles, OwBound, OwRooted
  <2> QED BY <1>s, <2>2
<1>3. CASE OwBindRetire(d)
  <2>1. OwDaemonMoves(d, "bind")
    BY <1>3, <1>t DEF OwBindRetire, OwBound, OwRooted
  <2> QED BY <1>s, <2>1
<1>4. CASE OwBind(d)
  <2>1. CASE IF owUnix THEN owSock # OwNone ELSE OwListening
    <3>1. OwDaemonMoves(d, "dead")
      BY <1>4, <1>t, <2>1 DEF OwBind, OwBound, OwRooted
    <3> QED BY <1>s, <3>1
  <2>2. CASE ~(IF owUnix THEN owSock # OwNone ELSE OwListening)
    <3>1. OwDaemonMoves(d, "root")
      BY <1>4, <1>t, <2>2 DEF OwBind, OwBound, OwRooted
    <3> QED BY <1>s, <3>1
  <2> QED BY <2>1, <2>2
<1>5. CASE OwLockRoot(d)
  <2>1. CASE owRoot = OwNone
    <3>1. OwDaemonMoves(d, "record")
      BY <1>5, <1>t, <2>1 DEF OwLockRoot, owFiles, OwBound, OwRooted
    <3> QED BY <1>s, <3>1
  <2>2. CASE owRoot # OwNone
    <3>1. OwDaemonMoves(d, "dead")
      BY <1>5, <1>t, <2>2 DEF OwLockRoot, owFiles, OwBound, OwRooted
    <3> QED BY <1>s, <3>1
  <2> QED BY <2>1, <2>2
<1>6. CASE OwRecord(d)
  <2>1. PICK pc \in {"ident", "refused"} : OwTo(d, pc)
    BY <1>6 DEF OwRecord
  <2>2. OwDaemonMoves(d, pc)
    BY <1>6, <1>f, <1>t, <2>1 DEF OwRecord, OwBound, OwRooted
  <2> QED BY <1>s, <2>2
<1>7. CASE OwRefuseRead(d)
  <2>1. CASE owLock \in OwDaemon
    <3>1. OwDaemonMoves(d, "giveup")
      BY <1>7, <1>t, <2>1 DEF OwRefuseRead, owFiles, OwBound, OwRooted
    <3> QED BY <1>s, <3>1
  <2>2. CASE owLock \notin OwDaemon
    <3>1. OwDaemonMoves(d, "unlink")
      BY <1>7, <1>t, <2>2 DEF OwRefuseRead, owFiles, OwBound, OwRooted
    <3> QED BY <1>s, <3>1
  <2> QED BY <2>1, <2>2
<1>8. CASE OwRefuseUnlink(d)
  <2>1. OwDaemonMoves(d, "giveup")
    BY <1>8, <1>t DEF OwRefuseUnlink, OwBound, OwRooted
  <2> QED BY <1>s, <2>1
<1>9. CASE OwRefuseExit(d)
  <2>1. OwDaemonMoves(d, "dead")
    BY <1>9, <1>t DEF OwRefuseExit, OwBound, OwRooted
  <2> QED BY <1>s, <2>1
<1>10. CASE OwWriteIdentity(d)
  <2>1. OwDaemonMoves(d, "serving")
    BY <1>10, <1>f, <1>t DEF OwWriteIdentity, OwBound, OwRooted
  <2> QED BY <1>s, <2>1
<1>11. CASE OwLeave(d)
  <2>1. PICK pc \in {"draining", "failed"} : OwTo(d, pc)
    BY <1>11 DEF OwLeave
  <2>2. OwDaemonMoves(d, pc)
    BY <1>11, <1>f, <1>t, <2>1 DEF OwLeave, owFiles, OwBound, OwRooted
  <2> QED BY <1>s, <2>2
<1>12. CASE OwDrained(d)
  <2>1. OwDaemonMoves(d, "released")
    BY <1>12, <1>t DEF OwDrained, owFiles, OwBound, OwRooted
  <2> QED BY <1>s, <2>1
<1>13. CASE OwRemoveIfOwned(d)
  <2>1. OwDaemonMoves(d, "exiting")
    BY <1>13, <1>t DEF OwRemoveIfOwned, OwBound, OwRooted
  <2> QED BY <1>s, <2>1
<1>14. CASE OwExit(d)
  <2>1. OwDaemonMoves(d, "dead")
    BY <1>14, <1>f, <1>t DEF OwExit, OwAlive, owFiles, OwBound, OwRooted
  <2> QED BY <1>s, <2>1
<1> QED
  BY <1>1, <1>2, <1>3, <1>4, <1>5, <1>6, <1>7, <1>8, <1>9, <1>10, <1>11, <1>12, <1>13, <1>14
  DEF OwDaemonStep

\* The types hold initially.
LEMMA OwTypeInit == OwInit => OwTypeOK
<1> SUFFICES ASSUME NEW load \in OwLoads, OwInitLoad(load) PROVE OwTypeOK
  BY DEF OwInit
<1>1. /\ load.unix \in BOOLEAN /\ load.job \in [OwClient -> {"compile", "stop", "none"}]
      /\ load.first \in {"unborn", "serving", "dead"} /\ load.older \in BOOLEAN
      /\ load.retry \in BOOLEAN /\ load.faults \in Nat /\ 1 \in OwDaemon
  BY OwAssumption DEF OwDaemon
<1>2. owDaemon \in [OwDaemon -> OwStates]
  BY <1>1 DEF OwInitLoad, OwStates, OwBound
<1>3. owSock \in OwPid /\ owIdent \in OwPid /\ owLock \in OwPid \cup {OwTorn} /\ owRoot \in OwPid
  BY <1>1 DEF OwInitLoad, OwPid
<1>4. owClient \in [OwClient -> OwProgress]
  <2>1. PICK retried \in BOOLEAN : retried = ~load.retry
    BY <1>1
  <2>2. owClient = [c \in OwClient |-> [OwIdle EXCEPT !.retried = retried]]
    BY <2>1 DEF OwInitLoad
  <2>3. [OwIdle EXCEPT !.retried = retried] \in OwProgress
    BY OwEndedMoves DEF OwProgress
  <2> QED BY <2>2, <2>3
<1>5. /\ owUnix \in BOOLEAN /\ owOlder \in BOOLEAN /\ owSlot \in BOOLEAN /\ owBreaker \in BOOLEAN
      /\ owJob \in [OwClient -> {"compile", "stop", "none"}] /\ owFaults \in Nat
  BY <1>1 DEF OwInitLoad
<1> QED BY <1>2, <1>3, <1>4, <1>5, OwTypes

\* Every step keeps the types.
LEMMA OwTypeStep == OwTypeOK /\ [OwNext]_owVars => OwTypeOK'
<1> SUFFICES ASSUME OwTypeOK, [OwNext]_owVars PROVE OwTypeOK'
  OBVIOUS
<1>t. /\ owUnix \in BOOLEAN /\ owOlder \in BOOLEAN /\ owSlot \in BOOLEAN /\ owBreaker \in BOOLEAN
      /\ owJob \in [OwClient -> {"compile", "stop", "none"}]
      /\ owDaemon \in [OwDaemon -> OwStates]
      /\ owSock \in OwPid /\ owIdent \in OwPid /\ owLock \in OwPid \cup {OwTorn}
      /\ owRoot \in OwPid /\ owClient \in [OwClient -> OwProgress] /\ owFaults \in Nat
  BY OwTypes
<1>g. ASSUME
        /\ owUnix' \in BOOLEAN /\ owOlder' \in BOOLEAN /\ owSlot' \in BOOLEAN /\ owBreaker' \in BOOLEAN
        /\ owJob' \in [OwClient -> {"compile", "stop", "none"}]
        /\ owDaemon' \in [OwDaemon -> OwStates]
        /\ owSock' \in OwPid /\ owIdent' \in OwPid /\ owLock' \in OwPid \cup {OwTorn}
        /\ owRoot' \in OwPid /\ owClient' \in [OwClient -> OwProgress] /\ owFaults' \in Nat
      PROVE OwTypeOK'
  BY <1>g DEF OwTypeOK, OwStates, OwPid, OwProgress, OwPcs, OwBacks
<1>s. "draining" \in OwStates /\ "probe" \in OwStates /\ "dead" \in OwStates /\ OwNone \in OwPid
      /\ OwDaemon \subseteq OwPid
  BY DEF OwStates, OwStarting, OwBound, OwPid
<1>1. ASSUME NEW c \in OwClient, OwClientStep(c) PROVE OwTypeOK'
  <2>1. PICK r \in OwProgress : OwSet(c, r)
    BY <1>1, OwClientMoves
  <2>2. owClient' \in [OwClient -> OwProgress]
    BY <1>t, <2>1 DEF OwSet
  <2>3. OwWorldMoves(c)
    BY <1>1, OwClientWorld
  <2>4. owDaemon' \in [OwDaemon -> OwStates]
    BY <1>s, <1>t, <2>3 DEF OwWorldMoves, OwTo
  <2>5. owRoot' \in OwPid /\ owSock' \in OwPid /\ owIdent' \in OwPid /\ owLock' \in OwPid \cup {OwTorn}
    BY <1>s, <1>t, <2>3 DEF OwWorldMoves
  <2> QED BY <1>g, <1>t, <2>2, <2>3, <2>4, <2>5 DEF OwWorldMoves, owConf
<1>2. ASSUME NEW d \in OwDaemon, OwDaemonStep(d) PROVE OwTypeOK'
  <2>1. PICK pc \in OwStates : OwDaemonMoves(d, pc)
    BY <1>2, OwDaemonWorld
  <2>2. owDaemon' \in [OwDaemon -> OwStates]
    BY <1>t, <2>1 DEF OwDaemonMoves, OwTo
  <2>3. owRoot' \in OwPid /\ owSock' \in OwPid /\ owIdent' \in OwPid /\ owLock' \in OwPid \cup {OwTorn}
    BY <1>s, <1>t, <2>1 DEF OwDaemonMoves
  <2> QED BY <1>g, <1>t, <2>1, <2>2, <2>3 DEF OwDaemonMoves, owConf
<1>3. CASE UNCHANGED owVars
  BY <1>3, <1>g, <1>t DEF owVars, owConf
<1> QED BY <1>1, <1>2, <1>3 DEF OwNext, OwRest

\* Type correctness of the daemons and their clients: whatever files are gone,
\* torn or somebody else's, a process acts on a daemon or on nobody (entry.rs,
\* runtime/mod.rs).
THEOREM OwTypeCorrect == OwSpec => []OwTypeOK
BY OwTypeInit, OwTypeStep, PTL DEF OwSpec


-----------------------------------------------------------------------------
\* Whoever was named, by the sidecar, by the lock file or to a client, had the endpoint.
OwNamed(x) == x \in OwDaemon => owDaemon[x] \in OwBound \cup {"dead"}

OwNamedOK ==
    /\ OwNamed(owIdent) /\ OwNamed(owLock)
    /\ \A c \in OwClient : OwNamed(owClient[c].served) /\ OwNamed(owClient[c].seen)

\* The cache root is one daemon's from its lock to its release, so nobody else writes
\* a PID into the lock file that a refused daemon has found empty.
OwRootOK ==
    \A d \in OwDaemon :
        /\ owDaemon[d] \in OwRooted => owRoot = d
        /\ owDaemon[d] = "unlink" => owLock \notin OwDaemon

\* A pipe stays with the daemon that serves it, until that is gone.
OwPipeOK == ~owUnix => \A d \in OwDaemon : owDaemon[d] \in OwBound => owSock = d

\* Whom the client has named before the exchange failed, if alive, has failed it.
OwExchOK ==
    ~owUnix => \A c \in OwClient :
        LET d == OwExpected(c) IN
        /\ owJob[c] = "compile" /\ owClient[c].pc \in OwExchange
        /\ d \in OwDaemon /\ owDaemon[d] # "dead"
        => owClient[c].exch = d

OwInv == OwTypeOK /\ OwNamedOK /\ OwRootOK /\ OwPipeOK /\ OwExchOK


\* What the steps of clients and daemons have in common.
LEMMA OwSteps ==
    ASSUME OwTypeOK, [OwNext]_owVars
    PROVE  /\ \A x \in OwDaemon :
                /\ owDaemon[x] = "dead" => owDaemon'[x] = "dead"
                /\ owDaemon[x] \in OwBound \cup {"dead"} => owDaemon'[x] \in OwBound \cup {"dead"}
           /\ owUnix' = owUnix /\ owJob' = owJob
<1>t. owDaemon \in [OwDaemon -> OwStates] /\ owSock \in OwPid
  BY OwTypes
<1>1. ASSUME NEW c \in OwClient, OwClientStep(c), NEW x \in OwDaemon
      PROVE  /\ owDaemon[x] = "dead" => owDaemon'[x] = "dead"
             /\ owDaemon[x] \in OwBound \cup {"dead"} => owDaemon'[x] \in OwBound \cup {"dead"}
             /\ owUnix' = owUnix /\ owJob' = owJob
  <2>1. OwWorldMoves(c)
    BY <1>1, OwClientWorld
  <2> QED BY <1>t, <2>1 DEF OwWorldMoves, OwTo, OwServing, OwListening, OwBound, owConf
<1>2. ASSUME NEW d \in OwDaemon, OwDaemonStep(d), NEW x \in OwDaemon
      PROVE  /\ owDaemon[x] = "dead" => owDaemon'[x] = "dead"
             /\ owDaemon[x] \in OwBound \cup {"dead"} => owDaemon'[x] \in OwBound \cup {"dead"}
             /\ owUnix' = owUnix /\ owJob' = owJob
  <2>1. PICK pc \in OwStates : OwDaemonMoves(d, pc)
    BY <1>2, OwDaemonWorld
  <2>2. owDaemon'[x] = IF x = d THEN pc ELSE owDaemon[x]
    BY <1>t, <2>1 DEF OwDaemonMoves, OwTo
  <2> QED BY <2>1, <2>2 DEF OwDaemonMoves, owConf
<1>3. CASE UNCHANGED owVars
  BY <1>3 DEF owVars, owConf
<1>4. 1 \in OwDaemon
  BY OwAssumption DEF OwDaemon
<1> QED BY <1>1, <1>2, <1>3, <1>4 DEF OwNext, OwRest

\* Every step keeps whom records may name.
LEMMA OwNamedStep == OwTypeOK /\ OwNamedOK /\ [OwNext]_owVars => OwNamedOK'
<1> SUFFICES ASSUME OwTypeOK, OwNamedOK, [OwNext]_owVars PROVE OwNamedOK'
  OBVIOUS
<1> DEFINE Had(x) == x \in OwDaemon => owDaemon[x] \in OwBound \cup {"dead"}
           Has(x) == x \in OwDaemon => owDaemon'[x] \in OwBound \cup {"dead"}
<1>1. \A x : Had(x) => Has(x)
  BY OwSteps
<1>2. Had(owIdent) /\ Had(owLock) /\ \A c \in OwClient : Had(owClient[c].served) /\ Had(owClient[c].seen)
  BY DEF OwNamedOK, OwNamed
<1>3. Has(OwNone) /\ Has(OwTorn)
  BY OwNoneIsNobody
<1>4. ASSUME Has(owIdent'), Has(owLock'),
             \A c \in OwClient : Has(owClient'[c].served) /\ Has(owClient'[c].seen)
      PROVE  OwNamedOK'
  BY <1>4 DEF OwNamedOK, OwNamed
<1>t. owDaemon \in [OwDaemon -> OwStates] /\ owClient \in [OwClient -> OwProgress]
  BY OwTypes
<1>5. ASSUME NEW c \in OwClient, OwClientStep(c) PROVE OwNamedOK'
  <2> HIDE DEF Had, Has
  <2>1. PICK r \in OwProgress : OwSet(c, r) /\ OwMoves(c, r)
    BY <1>5, OwClientMoves
  <2>2. OwWorldMoves(c)
    BY <1>5, OwClientWorld
  <2>3. Has(owIdent') /\ Has(owLock')
    BY <1>1, <1>2, <1>3, <2>2 DEF OwWorldMoves
  <2>4. Has(r.served) /\ Has(r.seen)
    BY <1>1, <1>2, <1>3, <2>1 DEF OwMoves
  <2>5. \A j \in OwClient : owClient'[j] = IF j = c THEN r ELSE owClient[j]
    BY <1>t, <2>1 DEF OwSet
  <2> QED BY <1>1, <1>2, <1>4, <2>3, <2>4, <2>5
<1>6. ASSUME NEW d \in OwDaemon, OwDaemonStep(d) PROVE OwNamedOK'
  <2>1. PICK pc \in OwStates : OwDaemonMoves(d, pc)
    BY <1>6, OwDaemonWorld
  <2>2. owDaemon'[d] = pc
    BY <1>t, <2>1 DEF OwDaemonMoves, OwTo
  <2>3. owDaemon[d] = "record" => pc \in OwBound \cup {"dead"}
    BY <2>1 DEF OwDaemonMoves, OwBound
  <2>4. pc = "serving" => pc \in OwBound
    BY DEF OwBound
  <2>5. owDaemon[d] = "record" \/ pc = "serving" => Has(d)
    BY <2>2, <2>3, <2>4
  <2> HIDE DEF Had, Has
  <2>6. Has(owIdent') /\ Has(owLock')
    BY <1>1, <1>2, <1>3, <2>1, <2>5 DEF OwDaemonMoves
  <2> QED BY <1>1, <1>2, <1>4, <2>1, <2>6 DEF OwDaemonMoves
<1>7. CASE UNCHANGED owVars
  <2> HIDE DEF Had, Has
  <2> QED BY <1>1, <1>2, <1>4, <1>7 DEF owVars
<1> QED BY <1>5, <1>6, <1>7 DEF OwNext, OwRest

\* Every step keeps who holds the cache root.
LEMMA OwRootStep == OwTypeOK /\ OwRootOK /\ [OwNext]_owVars => OwRootOK'
<1> SUFFICES ASSUME OwTypeOK, OwRootOK, [OwNext]_owVars, NEW e \in OwDaemon
             PROVE  /\ owDaemon'[e] \in OwRooted => owRoot' = e
                    /\ owDaemon'[e] = "unlink" => owLock' \notin OwDaemon
  BY DEF OwRootOK
<1>t. owDaemon \in [OwDaemon -> OwStates] /\ owSock \in OwPid
  BY OwTypes
<1>h. \A x \in OwDaemon : /\ owDaemon[x] \in OwRooted => owRoot = x
                          /\ owDaemon[x] = "unlink" => owLock \notin OwDaemon
  BY DEF OwRootOK
<1>1. ASSUME NEW c \in OwClient, OwClientStep(c)
      PROVE  /\ owDaemon'[e] \in OwRooted => owRoot' = e
             /\ owDaemon'[e] = "unlink" => owLock' \notin OwDaemon
  <2>1. OwWorldMoves(c)
    BY <1>1, OwClientWorld
  <2>2. /\ owDaemon'[e] \in OwRooted => owDaemon[e] \in OwRooted
        /\ owDaemon'[e] = "unlink" => owDaemon[e] = "unlink"
        /\ owRoot' = owRoot \/ (owRoot' = OwNone /\ owDaemon'[owRoot] = "dead") \/ owRoot \notin OwDaemon
    BY <1>t, <2>1 DEF OwWorldMoves, OwTo, OwServing, OwListening, OwRooted
  <2>3. owDaemon'[e] = "dead" => owDaemon'[e] \notin OwRooted
    BY DEF OwRooted
  <2>4. owLock' \in {owLock, OwNone}
    BY <2>1 DEF OwWorldMoves
  <2> QED BY <1>h, <2>2, <2>3, <2>4, OwNoneIsNobody
<1>2. ASSUME NEW d \in OwDaemon, OwDaemonStep(d)
      PROVE  /\ owDaemon'[e] \in OwRooted => owRoot' = e
             /\ owDaemon'[e] = "unlink" => owLock' \notin OwDaemon
  <2>1. PICK pc \in OwStates : OwDaemonMoves(d, pc)
    BY <1>2, OwDaemonWorld
  <2>2. owDaemon'[e] = IF e = d THEN pc ELSE owDaemon[e]
    BY <1>t, <2>1 DEF OwDaemonMoves, OwTo
  <2>3. CASE e = d
    BY <1>h, <2>1, <2>2, <2>3 DEF OwDaemonMoves
  <2>4. CASE e # d
    <3>1. owDaemon[e] \in OwRooted => owRoot' = e
      BY <1>h, <2>1, <2>4, OwNoneIsNobody DEF OwDaemonMoves
    <3>2. owDaemon[e] = "unlink" => owLock' \notin OwDaemon
      BY <1>h, <2>1, <2>4, OwNoneIsNobody DEF OwDaemonMoves, OwRooted
    <3> QED BY <2>2, <2>4, <3>1, <3>2
  <2> QED BY <2>3, <2>4
<1>3. CASE UNCHANGED owVars
  BY <1>3, <1>h DEF owVars
<1> QED BY <1>1, <1>2, <1>3 DEF OwNext, OwRest

\* Every step keeps who holds a named pipe.
LEMMA OwPipeStep == OwTypeOK /\ OwPipeOK /\ [OwNext]_owVars => OwPipeOK'
<1> SUFFICES ASSUME OwTypeOK, OwPipeOK, [OwNext]_owVars, ~owUnix', NEW e \in OwDaemon,
                    owDaemon'[e] \in OwBound
             PROVE  owSock' = e
  BY DEF OwPipeOK
<1>t. owDaemon \in [OwDaemon -> OwStates] /\ owSock \in OwPid
  BY OwTypes
<1>u. ~owUnix /\ \A x \in OwDaemon : owDaemon[x] \in OwBound => owSock = x
  BY OwSteps DEF OwPipeOK
<1>1. ASSUME NEW c \in OwClient, OwClientStep(c) PROVE owSock' = e
  <2>1. OwWorldMoves(c)
    BY <1>1, OwClientWorld
  <2>2. owDaemon[e] \in OwBound
    BY <1>t, <2>1 DEF OwWorldMoves, OwTo, OwServing, OwListening, OwBound
  <2> QED BY <1>u, <2>1, <2>2 DEF OwWorldMoves
<1>2. ASSUME NEW d \in OwDaemon, OwDaemonStep(d) PROVE owSock' = e
  <2>1. PICK pc \in OwStates : OwDaemonMoves(d, pc)
    BY <1>2, OwDaemonWorld
  <2>2. owDaemon'[e] = IF e = d THEN pc ELSE owDaemon[e]
    BY <1>t, <2>1 DEF OwDaemonMoves, OwTo
  <2>3. CASE e = d
    BY <1>u, <2>1, <2>2, <2>3 DEF OwDaemonMoves
  <2>4. CASE e # d
    <3>1. owSock = e /\ OwListening
      BY <1>u, <2>2, <2>4, OwNoneIsNobody DEF OwListening
    <3> QED BY <1>u, <2>1, <3>1 DEF OwDaemonMoves
  <2> QED BY <2>3, <2>4
<1>3. CASE UNCHANGED owVars
  BY <1>3, <1>u DEF owVars
<1> QED BY <1>1, <1>2, <1>3 DEF OwNext, OwRest

\* Every step keeps what a client knows of whom it talked to.
LEMMA OwExchStep ==
    OwTypeOK /\ OwNamedOK /\ OwPipeOK /\ OwExchOK /\ [OwNext]_owVars => OwExchOK'
<1> SUFFICES ASSUME OwTypeOK, OwNamedOK, OwPipeOK, OwExchOK, [OwNext]_owVars, ~owUnix',
                    NEW j \in OwClient, owJob'[j] = "compile", owClient'[j].pc \in OwExchange,
                    OwExpected(j)' \in OwDaemon, owDaemon'[OwExpected(j)'] # "dead"
             PROVE  owClient'[j].exch = OwExpected(j)'
  BY DEF OwExchOK
<1>t. owClient \in [OwClient -> OwProgress]
  BY OwTypes
<1>u. /\ ~owUnix /\ owJob[j] = "compile"
      /\ \A x \in OwDaemon : owDaemon[x] \in OwBound => owSock = x
      /\ \A x \in OwDaemon : owDaemon'[x] # "dead" => owDaemon[x] # "dead"
  BY OwSteps DEF OwPipeOK
<1>h. LET d == IF owClient[j].wedged THEN owClient[j].served ELSE owClient[j].seen
      IN  /\ owClient[j].pc \in OwExchange /\ d \in OwDaemon /\ owDaemon[d] # "dead"
          => owClient[j].exch = d
  BY <1>u DEF OwExchOK, OwExpected
<1>n. /\ owClient[j].served \in OwDaemon => owDaemon[owClient[j].served] \in OwBound \cup {"dead"}
      /\ owClient[j].seen \in OwDaemon => owDaemon[owClient[j].seen] \in OwBound \cup {"dead"}
  BY DEF OwNamedOK, OwNamed
<1>x. OwExpected(j)' = IF owClient'[j].wedged THEN owClient'[j].served ELSE owClient'[j].seen
  BY DEF OwExpected
<1>d. owClient'[j] = owClient[j] => owClient'[j].exch = OwExpected(j)'
  BY <1>h, <1>u, <1>x
<1>1. ASSUME NEW c \in OwClient, OwClientStep(c) PROVE owClient'[j].exch = OwExpected(j)'
  <2>1. PICK r \in OwProgress : OwSet(c, r) /\ OwMoves(c, r)
    BY <1>1, OwClientMoves
  <2>2. owClient'[j] = IF j = c THEN r ELSE owClient[j]
    BY <1>t, <2>1 DEF OwSet
  <2>3. CASE j = c
    <3> DEFINE d == OwExpected(j)'
    <3>1. d = IF r.wedged THEN r.served ELSE r.seen
      BY <1>x, <2>2, <2>3
    <3>2. d \in OwDaemon /\ owDaemon[d] # "dead" /\ r.pc \in OwExchange
      BY <1>u, <2>2, <2>3
    <3> HIDE DEF d
    <3>3. \/ /\ owClient[j].pc \in OwExchange /\ r.served = owClient[j].served
             /\ r.seen = owClient[j].seen
             /\ r.exch = owClient[j].exch /\ r.wedged = owClient[j].wedged
          \/ r.exch = owSock /\ r.served = owClient[j].served /\ r.seen = owClient[j].seen
      BY <1>u, <2>1, <2>3, <3>2 DEF OwMoves
    <3>4. r.exch = d
      BY <1>h, <1>n, <1>u, <3>1, <3>2, <3>3
    <3> QED BY <2>2, <2>3, <3>4 DEF d
  <2>4. CASE j # c
    BY <1>d, <2>2, <2>4
  <2> QED BY <2>3, <2>4
<1>2. ASSUME NEW d \in OwDaemon, OwDaemonStep(d) PROVE owClient'[j].exch = OwExpected(j)'
  <2>1. PICK pc \in OwStates : OwDaemonMoves(d, pc)
    BY <1>2, OwDaemonWorld
  <2> QED BY <1>d, <2>1 DEF OwDaemonMoves
<1>3. CASE UNCHANGED owVars
  BY <1>3, <1>d DEF owVars
<1> QED BY <1>1, <1>2, <1>3 DEF OwNext, OwRest

\* The inductive invariant holds initially.
LEMMA OwInvInit == OwInit => OwInv
<1> SUFFICES ASSUME NEW load \in OwLoads, OwInitLoad(load) PROVE OwInv
  BY DEF OwInit
<1>1. OwTypeOK
  BY OwTypeInit DEF OwInit
<1>2. /\ load.first \in {"unborn", "serving", "dead"} /\ 1 \in OwDaemon
      /\ \A d \in OwDaemon : owDaemon[d] = IF d = 1 THEN load.first ELSE "unborn"
      /\ LET left == IF load.first = "unborn" THEN OwNone ELSE 1
         IN  owSock = left /\ owLock = left /\ owIdent = left
      /\ load.first = "serving" => owRoot = 1
  BY OwAssumption DEF OwInitLoad, OwDaemon
<1>3. \A c \in OwClient : /\ owClient[c].pc = "idle" /\ owClient[c].served = OwNone
                          /\ owClient[c].seen = OwNone
  <2>1. PICK retried : retried = ~load.retry
    OBVIOUS
  <2>2. owClient = [c \in OwClient |-> [OwIdle EXCEPT !.retried = retried]]
    BY <2>1 DEF OwInitLoad
  <2> QED BY <2>2 DEF OwIdle
<1>4. OwNamedOK
  BY <1>2, <1>3, OwNoneIsNobody DEF OwNamedOK, OwNamed, OwBound
<1>5. OwRootOK /\ OwPipeOK
  BY <1>2 DEF OwRootOK, OwRooted, OwPipeOK, OwBound
<1>6. OwExchOK
  BY <1>3 DEF OwExchOK, OwExchange
<1> QED BY <1>1, <1>4, <1>5, <1>6 DEF OwInv

\* The inductive invariant holds throughout.
LEMMA OwInvHolds == OwSpec => []OwInv
<1>1. OwInv /\ [OwNext]_owVars => OwInv'
  BY OwTypeStep, OwNamedStep, OwRootStep, OwPipeStep, OwExchStep DEF OwInv
<1> QED BY <1>1, OwInvInit, PTL DEF OwSpec

\* One process's failure does not become another daemon's: on a named pipe a client
\* kills by force only the daemon its own exchange failed with, whatever was spawned
\* meanwhile (stop_daemon_instance), and a daemon removes the record of another live
\* one only after it had one of its own (LockFileGuard, lock_file_guard.rs).
THEOREM OwOthersSparedHolds == OwSpec => OwOthersSpared
<1>1. ASSUME OwInv, [OwNext]_owVars, NEW c \in OwClient, OwAt(c, "kill"),
             owClient'[c].pc # "kill", owJob[c] = "compile", ~owUnix,
             NEW d \in OwDaemon, OwAlive(d), owDaemon'[d] = "dead"
      PROVE  d = owClient[c].exch
  <2>t. owDaemon \in [OwDaemon -> OwStates] /\ owClient \in [OwClient -> OwProgress]
    BY <1>1, OwTypes DEF OwInv
  <2>a. owDaemon[d] # "dead" /\ owClient[c].pc = "kill"
    BY <1>1 DEF OwAlive, OwAt
  <2>1. ASSUME NEW e \in OwDaemon, OwDaemonStep(e) PROVE FALSE
    <3>1. PICK pc \in OwStates : OwDaemonMoves(e, pc)
      BY <1>1, <2>1, OwDaemonWorld DEF OwInv
    <3> QED BY <1>1, <2>a, <3>1 DEF OwDaemonMoves
  <2>2. UNCHANGED owVars => FALSE
    BY <1>1, <2>a DEF owVars
  <2>3. PICK j \in OwClient : OwClientStep(j)
    BY <1>1, <2>1, <2>2 DEF OwNext, OwRest
  <2>4. PICK r \in OwProgress : OwSet(j, r)
    BY <1>1, <2>3, OwClientMoves DEF OwInv
  <2>5. j = c
    BY <1>1, <2>a, <2>t, <2>4 DEF OwSet
  <2>6. OwWorldMoves(c)
    BY <1>1, <2>3, <2>5, OwClientWorld DEF OwInv
  <2>7. owDaemon' = [owDaemon EXCEPT ![OwExpected(c)] = "dead"]
    BY <1>1, <2>6, <2>a, <2>t DEF OwWorldMoves, OwTo
  <2>8. d = OwExpected(c)
    BY <1>1, <2>7, <2>a, <2>t
  <2> QED BY <1>1, <2>8, <2>a DEF OwInv, OwExchOK, OwExchange
<1>2. ASSUME OwInv, [OwNext]_owVars, owLock' = OwNone, owLock \in OwDaemon,
             NEW d \in OwDaemon, owDaemon'[d] # owDaemon[d]
      PROVE  owDaemon[d] \in {"released", "failed"}
  <2>t. owDaemon \in [OwDaemon -> OwStates]
    BY <1>2, OwTypes DEF OwInv
  <2>1. ASSUME NEW j \in OwClient, OwClientStep(j) PROVE FALSE
    <3>1. OwWorldMoves(j)
      BY <1>2, <2>1, OwClientWorld DEF OwInv
    <3> QED BY <1>2, <3>1, OwNoneIsNobody DEF OwWorldMoves
  <2>2. UNCHANGED owVars => FALSE
    BY <1>2 DEF owVars
  <2>3. PICK e \in OwDaemon : OwDaemonStep(e)
    BY <1>2, <2>1, <2>2 DEF OwNext, OwRest
  <2>4. PICK pc \in OwStates : OwDaemonMoves(e, pc)
    BY <1>2, <2>3, OwDaemonWorld DEF OwInv
  <2>5. d = e
    BY <1>2, <2>4, <2>t DEF OwDaemonMoves, OwTo
  <2>6. owDaemon[e] \in {"unlink", "released", "failed"}
    BY <1>2, <2>4, OwNoneIsNobody DEF OwDaemonMoves
  <2>7. owDaemon[e] # "unlink"
    BY <1>2 DEF OwInv, OwRootOK
  <2> QED BY <2>5, <2>6, <2>7
<1>3. OwInv /\ [OwNext]_owVars => [OwVictimFailed /\ OwLoserSpares]_owVars
  <2> SUFFICES ASSUME OwInv, [OwNext]_owVars PROVE OwVictimFailed /\ OwLoserSpares
    OBVIOUS
  <2>1. OwVictimFailed
    BY <1>1 DEF OwVictimFailed
  <2>2. OwLoserSpares
    BY <1>2 DEF OwLoserSpares
  <2> QED BY <2>1, <2>2
<1> QED BY <1>3, OwInvHolds, PTL DEF OwSpec, OwOthersSpared

-----------------------------------------------------------------------------
(* The services together *)

\* Every behaviour of what runs beside the compiles (settle buffer, recovery task,
\* registration, daemons and clients) is type correct, whichever takes the steps.
THEOREM ServicesTypeCorrect ==
    ASSUME OwLoads # {}
    PROVE  MCSpec => []TypesOK
<1>1. MCInit => SeInit /\ RoInit /\ WrInit /\ OwInit
  BY DEF MCInit, AnyOf, OwInit
<1>2. [MCNext]_<<focus, seVars, roVars, wrVars, owVars>> =>
        [SeNext]_seVars /\ [RoNext]_roVars /\ [WrNext]_wrVars /\ [OwNext]_owVars
  BY Zenon DEF MCNext, Settle, Recovery, Watch, Ownership
<1>3. MCSpec => SeSpec /\ RoSpec /\ WrSpec /\ OwSpec
  BY <1>1, <1>2, PTL DEF MCSpec, SeSpec, RoSpec, WrSpec, OwSpec
<1> QED BY <1>3, SeTypeCorrect, RoTypeCorrect, WrTypeCorrect, OwTypeCorrect, PTL DEF TypesOK
=============================================================================
