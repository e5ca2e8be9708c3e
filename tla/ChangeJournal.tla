---------------------------- MODULE ChangeJournal ----------------------------
(***************************************************************************)
(* The change journal of zccache-fscache (clock.rs): a clock that ticks    *)
(* once per applied batch of changed paths, and, per path, the tick of its *)
(* last recorded change.  Requests ask changed_since(path, clock) and skip *)
(* stat and hash work when it answers FALSE.                               *)
(*                                                                         *)
(* The journal has no lock of its own: `current' and `last_overflow' are   *)
(* atomics and `last_change' is a sharded map, so each method is a         *)
(* sequence of atomic steps and the steps of concurrent calls interleave.  *)
(* Three kinds of caller exist in the daemon:                              *)
(*   Writer     advance, mark_overflow and clear: the watcher consumer,    *)
(*              every compile that stored outputs, the Clear request;      *)
(*   Registrar  register: requests that resolved their inputs;             *)
(*   Evictor    retain_paths: metadata eviction.                           *)
(***************************************************************************)
EXTENDS Naturals, FiniteSets

CONSTANTS
    Path,               \* the paths the journal is asked about
    Writer, Registrar, Evictor,     \* the threads of each kind of caller
    MaxJournalEntries,  \* capacity of the ordered journal (10_000 in new())
    MaxClock,           \* bound on the ticks a behaviour may take
    Untracked           \* last_change of a path the map does not hold

ASSUME JournalConstants ==
    /\ MaxJournalEntries \in Nat \ {0}
    /\ MaxClock \in Nat
    /\ Untracked \notin Nat
    /\ Writer \cap Registrar = {}
    /\ Writer \cap Evictor = {}
    /\ Registrar \cap Evictor = {}

Thread == Writer \cup Registrar \cup Evictor

VARIABLES
    current,        \* the clock
    lastChange,     \* path -> tick of its last recorded change
    lastOverflow,   \* tick of the last overflow; 0 when there was none
    journal,        \* the ordered journal: records [clock, paths]
    pc,             \* thread -> the step its call is at
    tick,           \* thread -> the tick its call obtained or read
    batch,          \* thread -> the paths its call was given
    todo,           \* thread -> the paths its call has still to visit
    applied,        \* path -> newest tick of a batch with it that returned
    overflowed,     \* newest tick of a mark_overflow that returned
    overtaken,      \* registrars whose path was evicted after they read the clock
    torn            \* paths whose tick comes from such a registrar

vars == <<current, lastChange, lastOverflow, journal,
          pc, tick, batch, todo, applied, overflowed, overtaken, torn>>
ghosts == <<applied, overflowed, overtaken, torn>>

Clearing == {"clear", "clear_mark", "clear_store"}
Steps == {"idle", "advance", "overflow", "register", "retain"} \cup Clearing

JournalEntry == [clock : Nat, paths : SUBSET Path]

TypeOK ==
    /\ current \in Nat
    /\ lastChange \in [Path -> Nat \cup {Untracked}]
    /\ lastOverflow \in Nat
    /\ journal \in SUBSET JournalEntry
    /\ pc \in [Thread -> Steps]
    /\ tick \in [Thread -> Nat]
    /\ batch \in [Thread -> SUBSET Path]
    /\ todo \in [Thread -> SUBSET Path]
    /\ applied \in [Path -> Nat]
    /\ overflowed \in Nat
    /\ overtaken \subseteq Registrar
    /\ torn \subseteq Path

Larger(a, b) == IF a > b THEN a ELSE b

Init ==
    /\ current = 0
    /\ lastChange = [p \in Path |-> Untracked]
    /\ lastOverflow = 0
    /\ journal = {}
    /\ pc = [t \in Thread |-> "idle"]
    /\ tick = [t \in Thread |-> 0]
    /\ batch = [t \in Thread |-> {}]
    /\ todo = [t \in Thread |-> {}]
    /\ applied = [p \in Path |-> 0]
    /\ overflowed = 0
    /\ overtaken = {}
    /\ torn = {}

-----------------------------------------------------------------------------
\* The query.  Its two loads are one step: ticks only grow between them.

\* Mutant: the overflow point is not consulted.
ChangedSinceNoOverflow(p, since) == lastChange[p] = Untracked \/ lastChange[p] > since

ChangedSince(p, since) ==
    \/ lastOverflow > 0 /\ since < lastOverflow
    \/ lastChange[p] = Untracked
    \/ lastChange[p] > since

\* What the ordered journal reports for a query from `since'.
ChangesSince(since) == UNION {e.paths : e \in {x \in journal : x.clock > since}}

-----------------------------------------------------------------------------
\* advance(changed_paths)

AdvanceTick(w, paths) ==
    /\ pc[w] = "idle"
    /\ current < MaxClock
    /\ current' = current + 1
    /\ tick' = [tick EXCEPT ![w] = current + 1]
    /\ batch' = [batch EXCEPT ![w] = paths]
    /\ todo' = [todo EXCEPT ![w] = paths]
    /\ pc' = [pc EXCEPT ![w] = "advance"]
    /\ UNCHANGED <<lastChange, lastOverflow, journal, ghosts>>

AdvanceRecord(w, p) ==
    /\ pc[w] = "advance"
    /\ p \in todo[w]
    /\ lastChange' = [lastChange EXCEPT ![p] = tick[w]]
    /\ todo' = [todo EXCEPT ![w] = @ \ {p}]
    /\ torn' = torn \ {p}
    /\ UNCHANGED <<current, lastOverflow, journal, pc, tick, batch,
                   applied, overflowed, overtaken>>

\* Mutant: the newest entries are popped instead of the oldest.
TrimmedNewest(entries) ==
    {e \in entries :
        Cardinality({x \in entries : x.clock < e.clock}) < MaxJournalEntries}

\* Keep the MaxJournalEntries newest entries: pop_first while over capacity.
Trimmed(entries) ==
    {e \in entries :
        Cardinality({x \in entries : x.clock > e.clock}) < MaxJournalEntries}

AdvanceJournal(w) ==
    /\ pc[w] = "advance"
    /\ todo[w] = {}
    /\ journal' = Trimmed(journal \cup {[clock |-> tick[w], paths |-> batch[w]]})
    /\ pc' = [pc EXCEPT ![w] = "idle"]
    /\ applied' = [p \in Path |-> IF p \in batch[w] THEN Larger(applied[p], tick[w])
                                                    ELSE applied[p]]
    /\ UNCHANGED <<current, lastChange, lastOverflow, tick, batch, todo,
                   overflowed, overtaken, torn>>

-----------------------------------------------------------------------------
\* mark_overflow(), and clear(), which ends in it

OverflowTick(w) ==
    /\ pc[w] \in {"idle", "clear_mark"}
    /\ current < MaxClock
    /\ current' = current + 1
    /\ tick' = [tick EXCEPT ![w] = current + 1]
    /\ pc' = [pc EXCEPT ![w] = IF @ = "idle" THEN "overflow" ELSE "clear_store"]
    /\ UNCHANGED <<lastChange, lastOverflow, journal, batch, todo, ghosts>>

OverflowStore(w) ==
    /\ pc[w] \in {"overflow", "clear_store"}
    /\ lastOverflow' = tick[w]
    /\ pc' = [pc EXCEPT ![w] = "idle"]
    /\ overflowed' = Larger(overflowed, tick[w])
    /\ UNCHANGED <<current, lastChange, journal, tick, batch, todo,
                   applied, overtaken, torn>>

ClearStart(w) ==
    /\ pc[w] = "idle"
    /\ todo' = [todo EXCEPT ![w] = Path]
    /\ pc' = [pc EXCEPT ![w] = "clear"]
    /\ UNCHANGED <<current, lastChange, lastOverflow, journal, tick, batch, ghosts>>

ClearPath(w, p) ==
    /\ pc[w] = "clear"
    /\ p \in todo[w]
    /\ lastChange' = [lastChange EXCEPT ![p] = Untracked]
    /\ todo' = [todo EXCEPT ![w] = @ \ {p}]
    /\ torn' = torn \ {p}
    /\ UNCHANGED <<current, lastOverflow, journal, pc, tick, batch,
                   applied, overflowed, overtaken>>

ClearJournal(w) ==
    /\ pc[w] = "clear"
    /\ todo[w] = {}
    /\ journal' = {}
    /\ pc' = [pc EXCEPT ![w] = "clear_mark"]
    /\ UNCHANGED <<current, lastChange, lastOverflow, tick, batch, todo, ghosts>>

-----------------------------------------------------------------------------
\* register(path): read the clock, then insert unless the path is tracked

RegisterRead(r, p) ==
    /\ pc[r] = "idle"
    /\ tick' = [tick EXCEPT ![r] = current]
    /\ todo' = [todo EXCEPT ![r] = {p}]
    /\ pc' = [pc EXCEPT ![r] = "register"]
    /\ overtaken' = overtaken \ {r}
    /\ UNCHANGED <<current, lastChange, lastOverflow, journal, batch,
                   applied, overflowed, torn>>

RegisterInsert(r, p) ==
    /\ pc[r] = "register"
    /\ p \in todo[r]
    /\ lastChange' = [lastChange EXCEPT ![p] = IF @ = Untracked THEN tick[r] ELSE @]
    /\ todo' = [todo EXCEPT ![r] = {}]
    /\ pc' = [pc EXCEPT ![r] = "idle"]
    /\ torn' = IF lastChange[p] = Untracked /\ r \in overtaken THEN torn \cup {p} ELSE torn
    /\ UNCHANGED <<current, lastOverflow, journal, tick, batch,
                   applied, overflowed, overtaken>>

-----------------------------------------------------------------------------
\* retain_paths(live): `live' is the key set of the metadata cache, read
\* before the sweep; any set of paths may have been evicted from it.

RetainStart(e, live) ==
    /\ pc[e] = "idle"
    /\ todo' = [todo EXCEPT ![e] = Path \ live]
    /\ pc' = [pc EXCEPT ![e] = "retain"]
    /\ UNCHANGED <<current, lastChange, lastOverflow, journal, tick, batch, ghosts>>

RetainPath(e, p) ==
    /\ pc[e] = "retain"
    /\ p \in todo[e]
    /\ lastChange' = [lastChange EXCEPT ![p] = Untracked]
    /\ todo' = [todo EXCEPT ![e] = @ \ {p}]
    /\ torn' = torn \ {p}
    /\ overtaken' = overtaken \cup
         {r \in Registrar : lastChange[p] # Untracked /\ pc[r] = "register" /\ p \in todo[r]}
    /\ UNCHANGED <<current, lastOverflow, journal, pc, tick, batch, applied, overflowed>>

RetainEnd(e) ==
    /\ pc[e] = "retain"
    /\ todo[e] = {}
    /\ pc' = [pc EXCEPT ![e] = "idle"]
    /\ UNCHANGED <<current, lastChange, lastOverflow, journal, tick, batch, todo, ghosts>>

-----------------------------------------------------------------------------
WriterStep(w) ==
    \/ \E paths \in SUBSET Path : AdvanceTick(w, paths)
    \/ \E p \in Path : AdvanceRecord(w, p) \/ ClearPath(w, p)
    \/ AdvanceJournal(w)
    \/ OverflowTick(w)
    \/ OverflowStore(w)
    \/ ClearStart(w)
    \/ ClearJournal(w)

RegistrarStep(r) == \E p \in Path : RegisterRead(r, p) \/ RegisterInsert(r, p)

EvictorStep(e) ==
    \/ \E live \in SUBSET Path : RetainStart(e, live)
    \/ \E p \in Path : RetainPath(e, p)
    \/ RetainEnd(e)

Next ==
    \/ \E w \in Writer : WriterStep(w)
    \/ \E r \in Registrar : RegistrarStep(r)
    \/ \E e \in Evictor : EvictorStep(e)

Spec == Init /\ [][Next]_vars

-----------------------------------------------------------------------------
(***************************************************************************)
(* changed_since "Returns `false` only when we have positive evidence that *)
(* the file has NOT changed since the given clock" (clock.rs:128): for     *)
(* every path and every clock a client can hold, the answer FALSE means    *)
(* that no advance with that path and no mark_overflow that has returned   *)
(* took a later tick.  (While a clear is between emptying last_change and  *)
(* marking its overflow the map may already hold a re-registered path at   *)
(* an older tick; the overflow repairs it, so those moments are left out.) *)
(* One race is left out: a register that read the clock before the path    *)
(* was evicted stores that clock after it, and hides a change in between;  *)
(* `torn' marks the path until its next change.                            *)
(***************************************************************************)
UnchangedIsEvidence ==
    (\A w \in Writer : pc[w] \notin Clearing) =>
    \A p \in Path \ torn : \A since \in 0..current :
        ~ChangedSince(p, since) => applied[p] <= since /\ overflowed <= since

(***************************************************************************)
(* The ordered journal never reports fewer changes than the per-path map:  *)
(* between calls of the writers, a path whose newest batch is still within *)
(* the capacity of the journal is reported by changes_since, unless a      *)
(* clear came after it.                                                    *)
(***************************************************************************)
JournalAgrees ==
    (\A w \in Writer : pc[w] = "idle") =>
        \A p \in Path :
            applied[p] > overflowed /\ applied[p] + MaxJournalEntries > current
                => p \in ChangesSince(applied[p] - 1)
=============================================================================
