------------------------------- MODULE DataSync -------------------------------
(***************************************************************************)
(* Synchronisation of one dataset scope, day by day                        *)
(* (services/data_sync.py).  A run plans from the checkpoint, locks the    *)
(* scope with a lock file, records a result per trading day in the         *)
(* checkpoint file, and ends.  Runs of several processes compete; any of   *)
(* them may crash between two of its file operations.                      *)
(***************************************************************************)
EXTENDS TradingCalendar

CONSTANTS
    Runs,       \* run ids
    Lookbacks,  \* values of lookback_window in use
    NoRun,      \* no run
    MaxCrashes  \* bound on crashes of runs

ASSUME SyncAssumption ==
    /\ NoRun \notin Runs
    /\ Lookbacks \subseteq Nat
    /\ MaxCrashes \in Nat

VARIABLES
    today,      \* the day callers pass as as_of
    checkpoint, \* checkpoint.json of the scope
    lock,       \* owner of lock.json of the scope
    run,        \* the DataSyncRun of each id
    results,    \* history: the best status reported for each day
    crashes     \* crashes so far

vars == <<today, checkpoint, lock, run, results, crashes>>

-----------------------------------------------------------------------------

\* A dataset version is named by the run and the day that published it.
Version == [run : Runs \union {NoRun}, day : Days \union {0}]

NoVersion == [run |-> NoRun, day |-> 0]

Checkpoint == [completed : SUBSET TradingDays,
               failed    : SUBSET TradingDays,
               last      : Days \union {0},
               version   : Version]

\* A file that does not exist is read as an empty checkpoint.
EmptyCheckpoint == [completed |-> {}, failed |-> {}, last |-> 0, version |-> NoVersion]

Run == [phase : {"idle", "planned", "running", "recording", "ended", "dead"},
        mode  : {"incremental", "missing", "replay"},
        plan  : SUBSET TradingDays,
        day   : Days \union {0},
        read  : Checkpoint]

IdleRun == [phase |-> "idle", mode |-> "incremental", plan |-> {}, day |-> 0,
            read |-> EmptyCheckpoint]

-----------------------------------------------------------------------------
(* Checkpoints                                                             *)

\* Mutant: every success moves the version.
RecordSuccessAlways(c, d, v) ==
    [completed |-> c.completed \union {d},
     failed    |-> c.failed \ {d},
     last      |-> Max(c.completed \union {d}),
     version   |-> v]

\* record_success(): the version follows the latest day.
RecordSuccess(c, d, v) ==
    [completed |-> c.completed \union {d},
     failed    |-> c.failed \ {d},
     last      |-> Max(c.completed \union {d}),
     version   |-> IF d >= c.last THEN v ELSE c.version]

\* Mutant: a failure takes back an earlier success.
RecordFailureUndoing(c, d) ==
    [c EXCEPT !.failed = @ \union {d}, !.completed = @ \ {d}]

\* record_failure()
RecordFailure(c, d) == [c EXCEPT !.failed = @ \union {d}]

-----------------------------------------------------------------------------
(* Planning                                                                *)

\* back(n) is n trading days before the last completed one, or the first one.
StepsBack(n) ==
    LET back[i \in 0 .. n] ==
            IF i = 0 THEN checkpoint.last
            ELSE IF PreviousDay(back[i - 1], FALSE) = 0 THEN back[i - 1]
            ELSE PreviousDay(back[i - 1], FALSE)
    IN  back[n]

\* _incremental_start_date()
IncrementalStart(latest, lookback) ==
    IF checkpoint.last = 0 THEN latest
    ELSE IF lookback > 0 THEN StepsBack(lookback - 1)
    ELSE IF NextDay(checkpoint.last) # 0 THEN NextDay(checkpoint.last)
    ELSE latest

Planned(r, mode, days) ==
    run' = [run EXCEPT ![r] = [IdleRun EXCEPT !.phase = "planned", !.mode = mode,
                                              !.plan = days]]

\* plan_incremental() raises if there is no trading day yet.
PlanIncremental(r, lookback) ==
    LET latest == PreviousDay(today, TRUE)
    IN  /\ run[r].phase = "idle"
        /\ latest # 0
        /\ Planned(r, "incremental", DaysBetween(IncrementalStart(latest, lookback), latest))
        /\ UNCHANGED <<today, checkpoint, lock, results, crashes>>

\* plan_backfill() without include_completed, and with it.
PlanBackfill(r, first, last) ==
    /\ run[r].phase = "idle"
    /\ first <= last
    /\ \/ Planned(r, "missing", DaysBetween(first, last) \ checkpoint.completed)
       \/ Planned(r, "replay", DaysBetween(first, last))
    /\ UNCHANGED <<today, checkpoint, lock, results, crashes>>

-----------------------------------------------------------------------------
(* The run                                                                 *)

\* DataSyncRun.start(), with acquire_lock().  While the file exists start()
\* raises, and the caller may start the same plan again later.
Start(r) ==
    /\ run[r].phase = "planned"
    /\ lock = NoRun
    /\ lock' = r
    /\ run' = [run EXCEPT ![r].phase = "running"]
    /\ UNCHANGED <<today, checkpoint, results, crashes>>

\* record_trade_date_result() loads the checkpoint,
LoadCheckpoint(r, d) ==
    /\ run[r].phase = "running"
    /\ d \in run[r].plan
    /\ run' = [run EXCEPT ![r].phase = "recording", ![r].day = d, ![r].read = checkpoint]
    /\ UNCHANGED <<today, checkpoint, lock, results, crashes>>

\* and saves it with the result.  A day may be recorded again.
SaveCheckpoint(r, c, status) ==
    /\ run[r].phase = "recording"
    /\ checkpoint' = c
    /\ run' = [run EXCEPT ![r].phase = "running", ![r].day = 0, ![r].read = EmptyCheckpoint]
    /\ results' = [results EXCEPT ![run[r].day] = status]
    /\ UNCHANGED <<today, lock, crashes>>

SaveSuccess(r) ==
    SaveCheckpoint(r, RecordSuccess(run[r].read, run[r].day, [run |-> r, day |-> run[r].day]),
                   "completed")

SaveFailure(r) ==
    SaveCheckpoint(r, RecordFailure(run[r].read, run[r].day),
                   IF results[run[r].day] = "completed" THEN "completed" ELSE "failed")

\* complete() or fail(), with release_lock().
End(r) ==
    /\ run[r].phase = "running"
    /\ run' = [run EXCEPT ![r] = [IdleRun EXCEPT !.phase = "ended"]]
    /\ lock' = IF lock = r THEN NoRun ELSE lock
    /\ UNCHANGED <<today, checkpoint, results, crashes>>

Crash(r) ==
    /\ run[r].phase \in {"running", "recording"}
    /\ crashes < MaxCrashes
    /\ crashes' = crashes + 1
    /\ run' = [run EXCEPT ![r] = [IdleRun EXCEPT !.phase = "dead"]]
    /\ UNCHANGED <<today, checkpoint, lock, results>>

NewDay ==
    /\ today < LastDay
    /\ today' = today + 1
    /\ UNCHANGED <<checkpoint, lock, run, results, crashes>>

-----------------------------------------------------------------------------

Init ==
    /\ today = 1
    /\ checkpoint = EmptyCheckpoint
    /\ lock = NoRun
    /\ run = [r \in Runs |-> IdleRun]
    /\ results = [d \in Days |-> "none"]
    /\ crashes = 0

Plan(r) ==
    \/ \E k \in Lookbacks : PlanIncremental(r, k)
    \/ \E first, last \in Days : PlanBackfill(r, first, last)

Goes(r) ==
    \/ Start(r)
    \/ \E d \in TradingDays : LoadCheckpoint(r, d)
    \/ SaveSuccess(r) \/ SaveFailure(r) \/ End(r)

Next ==
    \/ NewDay
    \/ \E r \in Runs : Plan(r) \/ Goes(r) \/ Crash(r)

Spec == Init /\ [][Next]_vars

-----------------------------------------------------------------------------
(* Properties                                                              *)

\* Files, plans and runs have the shape the code gives them.
TypeOK ==
    /\ today \in Days
    /\ checkpoint \in Checkpoint
    /\ lock \in Runs \union {NoRun}
    /\ run \in [Runs -> Run]
    /\ results \in [Days -> {"none", "failed", "completed"}]
    /\ crashes \in 0 .. MaxCrashes

\* docs/data-sync-scheduler.md:18: the lock stops concurrent syncs of a scope:
\* whoever is at work on the checkpoint owns the lock file.
WritersHoldTheLock ==
    \A r \in Runs : run[r].phase \in {"running", "recording"} => lock = r

\* What a run reported is in the checkpoint for good, whoever else plans,
\* records, replays or crashes: no update is lost, and a replay that fails
\* does not take a completed day back.
ResultsAreKept ==
    \A d \in Days :
        /\ results[d] = "completed" => d \in checkpoint.completed
        /\ results[d] = "failed" => d \in checkpoint.failed

\* The next version grows from one that was published for the last completed
\* day, also when an older day is filled in or replayed after it.
VersionIsOfLastDay ==
    /\ checkpoint.completed # {} => checkpoint.last = Max(checkpoint.completed)
    /\ checkpoint.version.day = checkpoint.last

\* Only the owner removes a lock file, and a crash leaves it for good.
OnlyOwnersUnlock ==
    [][lock # NoRun => lock' = lock \/ (lock' = NoRun /\ run'[lock].phase = "ended")]_vars

=============================================================================
