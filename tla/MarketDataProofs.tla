---------------------------- MODULE MarketDataProofs ----------------------------
(***************************************************************************)
(* Proofs about how market data gets in.                                   *)
(*                                                                         *)
(* DataSync, for any calendar and any number of runs: a run that records   *)
(* holds the lock, so what it read is still what the file holds when it    *)
(* saves; from this follow the other two invariants.                       *)
(*                                                                         *)
(* MarketStore, for any policy, answers, rows and advice: which provider's *)
(* bars are taken, what a question about the past is answered, what the    *)
(* factors of adjusted bars say of the events between them, and that an    *)
(* evaluation of advice stands, that the two engines which make one agree  *)
(* and that summaries of them add up.                                      *)
(***************************************************************************)
EXTENDS DataSync, MarketStore, FiniteSetTheorems, WellFoundedInduction, TLAPS


\* While a run records, nobody else has saved.
ReadIsFresh ==
    \A r \in Runs : run[r].phase = "recording" =>
        run[r].read = checkpoint /\ run[r].day \in TradingDays

\* last is the latest of the completed days, said without Max.
LastIsLatest(c) ==
    /\ c.completed = {} => c.last = 0
    /\ c.completed # {} => c.last \in c.completed
    /\ \A d \in c.completed : d <= c.last
    /\ c.version.day = c.last

IInv ==
    /\ TypeOK
    /\ WritersHoldTheLock
    /\ ReadIsFresh
    /\ ResultsAreKept
    /\ LastIsLatest(checkpoint)

-----------------------------------------------------------------------------
(* Sets of days                                                            *)

\* The latest element of a set is its Max.
LEMMA MaxIs ==
    ASSUME NEW S \in SUBSET Nat, NEW m \in S, \A d \in S : d <= m
    PROVE  Max(S) = m
<1>1. /\ m \in S
      /\ \A y \in S : m >= y
  OBVIOUS
<1>2. \A x \in S : (\A y \in S : x >= y) => x = m
  OBVIOUS
<1>. QED  BY <1>1, <1>2 DEF Max

LEMMA DaysAreNat == TradingDays \subseteq Days /\ Days \subseteq Nat /\ 0 \notin Days
  BY CalendarAssumption DEF Days

LEMMA BetweenIsTrading == \A a, b : DaysBetween(a, b) \subseteq TradingDays
  BY DEF DaysBetween

-----------------------------------------------------------------------------
(* Checkpoints                                                             *)

\* A success keeps the shape of a checkpoint, and last the latest day.
LEMMA SuccessKeeps ==
    ASSUME NEW c \in Checkpoint, LastIsLatest(c), NEW d \in TradingDays, NEW r \in Runs
    PROVE  LET s == RecordSuccess(c, d, [run |-> r, day |-> d])
           IN  s \in Checkpoint /\ LastIsLatest(s)
<1>. DEFINE v == [run |-> r, day |-> d]
            s == RecordSuccess(c, d, v)
            S == c.completed \union {d}
            m == IF d >= c.last THEN d ELSE c.last
<1>1. /\ c.completed \in SUBSET TradingDays /\ c.failed \in SUBSET TradingDays
      /\ c.last \in Days \union {0} /\ c.version \in Version /\ v \in Version
  BY DaysAreNat DEF Checkpoint, Version
<1>2. S \in SUBSET Nat /\ c.last \in Nat /\ d \in Nat
  <2>1. c.last \in Nat /\ d \in Nat
    <3>1. c.last \in Days \union {0} /\ Days \subseteq Nat /\ TradingDays \subseteq Days
      BY <1>1, DaysAreNat
    <3>2. \A x : x \in Days \union {0} => x \in Nat
      BY <3>1
    <3>. QED  BY <3>1, <3>2
  <2>2. TradingDays \subseteq Nat
    BY DaysAreNat
  <2>. QED  BY <1>1, <2>1, <2>2
<1>3. m \in S
  BY <1>1, <1>2, DaysAreNat DEF LastIsLatest
<1>4. \A x \in S : x <= m
  BY <1>1, <1>2 DEF LastIsLatest
<1>5. Max(S) = m
  <2>. HIDE DEF S, m
  <2>. QED  BY <1>2, <1>3, <1>4, MaxIs
<1>6. s = [completed |-> S, failed |-> c.failed \ {d}, last |-> m,
           version |-> IF d >= c.last THEN v ELSE c.version]
  BY <1>5 DEF RecordSuccess
<1>7. s \in Checkpoint
  BY <1>1, <1>3, <1>6, DaysAreNat DEF Checkpoint
<1>8. LastIsLatest(s)
  <2>1. s.completed = S /\ s.last = m /\ S # {}
    BY <1>6
  <2>2. s.version.day = m
    BY <1>6 DEF LastIsLatest
  <2>. QED  BY <2>1, <2>2, <1>3, <1>4 DEF LastIsLatest
<1>. QED  BY <1>7, <1>8

\* So does a failure, which touches neither completed nor last.
LEMMA FailureKeeps ==
    ASSUME NEW c \in Checkpoint, LastIsLatest(c), NEW d \in TradingDays
    PROVE  LET s == RecordFailure(c, d)
           IN  s \in Checkpoint /\ LastIsLatest(s)
  BY DEF RecordFailure, Checkpoint, LastIsLatest

LEMMA EmptyIsCheckpoint == EmptyCheckpoint \in Checkpoint /\ LastIsLatest(EmptyCheckpoint)
  BY DEF EmptyCheckpoint, NoVersion, Checkpoint, Version, LastIsLatest

LEMMA IdleIsRun == IdleRun \in Run
  BY EmptyIsCheckpoint DEF IdleRun, Run

-----------------------------------------------------------------------------
(* Steps                                                                   *)

LEMMA Initially == Init => IInv
  BY IdleIsRun, EmptyIsCheckpoint, SyncAssumption, CalendarAssumption
  DEF Init, IInv, TypeOK, WritersHoldTheLock, ReadIsFresh, ResultsAreKept, IdleRun, Days

\* A new plan puts a run that is not at work into another that is not.
LEMMA PlannedKeeps ==
    ASSUME IInv, NEW r \in Runs, run[r].phase = "idle",
           NEW mode \in {"incremental", "missing", "replay"}, NEW days \in SUBSET TradingDays,
           Planned(r, mode, days), UNCHANGED <<today, checkpoint, lock, results, crashes>>
    PROVE  IInv'
<1>1. run \in [Runs -> Run]
  BY DEF IInv, TypeOK
<1>2. [IdleRun EXCEPT !.phase = "planned", !.mode = mode, !.plan = days] \in Run
  BY IdleIsRun DEF Run, IdleRun
<1>3. /\ run' \in [Runs -> Run]
      /\ run'[r].phase = "planned"
      /\ \A o \in Runs : o # r => run'[o] = run[o]
  BY <1>1, <1>2, IdleIsRun DEF Planned, IdleRun
<1>. QED  BY <1>3 DEF IInv, TypeOK, WritersHoldTheLock, ReadIsFresh, ResultsAreKept, LastIsLatest

LEMMA PlanKeeps == ASSUME IInv, NEW r \in Runs, Plan(r) PROVE IInv'
<1>1. ASSUME NEW k \in Lookbacks, PlanIncremental(r, k) PROVE IInv'
  BY <1>1, PlannedKeeps, BetweenIsTrading DEF PlanIncremental
<1>2. ASSUME NEW a \in Days, NEW b \in Days, PlanBackfill(r, a, b) PROVE IInv'
  <2>1. CASE Planned(r, "missing", DaysBetween(a, b) \ checkpoint.completed)
    <3>1. DaysBetween(a, b) \ checkpoint.completed \in SUBSET TradingDays
      BY BetweenIsTrading
    <3>. QED  BY <1>2, <2>1, <3>1, PlannedKeeps DEF PlanBackfill
  <2>2. CASE Planned(r, "replay", DaysBetween(a, b))
    BY <1>2, <2>2, PlannedKeeps, BetweenIsTrading DEF PlanBackfill
  <2>. QED  BY <1>2, <2>1, <2>2 DEF PlanBackfill
<1>. QED  BY <1>1, <1>2 DEF Plan

LEMMA StartKeeps == ASSUME IInv, NEW r \in Runs, Start(r) PROVE IInv'
<1>1. run \in [Runs -> Run] /\ lock = NoRun /\ NoRun \notin Runs
  BY SyncAssumption DEF IInv, TypeOK, Start
<1>2. \A o \in Runs : run[o].phase \notin {"running", "recording"}
  BY <1>1 DEF IInv, WritersHoldTheLock
<1>3. run[r] \in Run
  BY <1>1
<1>4. [run[r] EXCEPT !.phase = "running"] \in Run
  BY <1>3 DEF Run
<1>5. /\ run' \in [Runs -> Run]
      /\ run'[r].phase = "running"
      /\ \A o \in Runs : o # r => run'[o] = run[o]
  BY <1>1, <1>3, <1>4 DEF Start, Run
<1>6. lock' = r /\ UNCHANGED <<today, checkpoint, results, crashes>>
  BY DEF Start
<1>. QED  BY <1>2, <1>5, <1>6
          DEF IInv, TypeOK, WritersHoldTheLock, ReadIsFresh, ResultsAreKept, LastIsLatest

LEMMA LoadKeeps == ASSUME IInv, NEW r \in Runs, NEW d \in TradingDays, LoadCheckpoint(r, d) PROVE IInv'
<1>1. run \in [Runs -> Run] /\ checkpoint \in Checkpoint /\ run[r].phase = "running"
  BY DEF IInv, TypeOK, LoadCheckpoint
<1>2. run[r] \in Run
  BY <1>1
<1>. DEFINE new == [run[r] EXCEPT !.phase = "recording", !.day = d, !.read = checkpoint]
<1>3. /\ new \in Run
      /\ new.phase = "recording" /\ new.day = d /\ new.read = checkpoint
  BY <1>1, <1>2, DaysAreNat DEF Run
<1>4. run' = [run EXCEPT ![r] = new]
  BY <1>1, <1>2 DEF LoadCheckpoint, Run
<1>. HIDE DEF new
<1>5. /\ run' \in [Runs -> Run] /\ run'[r] = new
      /\ \A o \in Runs : o # r => run'[o] = run[o]
  BY <1>1, <1>3, <1>4
<1>6. UNCHANGED <<today, checkpoint, lock, results, crashes>>
  BY DEF LoadCheckpoint
<1>. QED  BY <1>1, <1>3, <1>5, <1>6
          DEF IInv, TypeOK, WritersHoldTheLock, ReadIsFresh, ResultsAreKept, LastIsLatest

\* Saving a well-formed checkpoint that keeps what was reported.
LEMMA SaveKeeps ==
    ASSUME IInv, NEW r \in Runs, NEW c \in Checkpoint, LastIsLatest(c),
           NEW status \in {"failed", "completed"},
           SaveCheckpoint(r, c, status),
           checkpoint.completed \subseteq c.completed,
           checkpoint.failed \ {run[r].day} \subseteq c.failed,
           status = "completed" => run[r].day \in c.completed,
           status = "failed" => run[r].day \in c.failed
    PROVE  IInv'
<1>1. /\ run \in [Runs -> Run] /\ run[r].phase = "recording" /\ lock = r
      /\ results \in [Days -> {"none", "failed", "completed"}]
      /\ run[r].day \in Days
  BY DaysAreNat DEF IInv, TypeOK, WritersHoldTheLock, ReadIsFresh, SaveCheckpoint
<1>2. run[r] \in Run
  BY <1>1
<1>. DEFINE new == [run[r] EXCEPT !.phase = "running", !.day = 0, !.read = EmptyCheckpoint]
<1>3. new \in Run /\ new.phase = "running"
  BY <1>2, EmptyIsCheckpoint DEF Run
<1>4. run' = [run EXCEPT ![r] = new]
  BY <1>1, <1>2 DEF SaveCheckpoint, Run
<1>. HIDE DEF new
<1>5. /\ run' \in [Runs -> Run] /\ run'[r] = new
      /\ \A o \in Runs : o # r => run'[o] = run[o]
  BY <1>1, <1>3, <1>4
<1>6. /\ results' = [results EXCEPT ![run[r].day] = status]
      /\ checkpoint' = c
      /\ UNCHANGED <<today, lock, crashes>>
  BY DEF SaveCheckpoint
<1>7. \A o \in Runs : o # r => run[o].phase \notin {"running", "recording"}
  BY <1>1 DEF IInv, WritersHoldTheLock
<1>8. TypeOK' /\ WritersHoldTheLock' /\ ReadIsFresh'
  BY <1>1, <1>3, <1>5, <1>6, <1>7 DEF IInv, TypeOK, WritersHoldTheLock, ReadIsFresh
<1>9. ResultsAreKept'
  BY <1>1, <1>6 DEF IInv, ResultsAreKept
<1>10. LastIsLatest(checkpoint)'
  BY <1>6 DEF LastIsLatest
<1>. QED  BY <1>8, <1>9, <1>10 DEF IInv

LEMMA SaveSuccessKeeps == ASSUME IInv, NEW r \in Runs, SaveSuccess(r) PROVE IInv'
<1>1. /\ run[r].phase = "recording" /\ run[r].read = checkpoint
      /\ checkpoint \in Checkpoint /\ LastIsLatest(checkpoint) /\ run[r].day \in TradingDays
  BY DEF IInv, TypeOK, ReadIsFresh, SaveSuccess, SaveCheckpoint
<1>. DEFINE c == RecordSuccess(checkpoint, run[r].day, [run |-> r, day |-> run[r].day])
<1>2. c \in Checkpoint /\ LastIsLatest(c)
  BY <1>1, SuccessKeeps
<1>3. /\ checkpoint.completed \subseteq c.completed
      /\ checkpoint.failed \ {run[r].day} \subseteq c.failed
      /\ run[r].day \in c.completed
  BY DEF RecordSuccess
<1>4. SaveCheckpoint(r, c, "completed")
  BY <1>1 DEF SaveSuccess
<1>. HIDE DEF c
<1>. QED  BY <1>2, <1>3, <1>4, SaveKeeps

LEMMA SaveFailureKeeps == ASSUME IInv, NEW r \in Runs, SaveFailure(r) PROVE IInv'
<1>1. /\ run[r].phase = "recording" /\ run[r].read = checkpoint
      /\ checkpoint \in Checkpoint /\ LastIsLatest(checkpoint) /\ run[r].day \in TradingDays
  BY DEF IInv, TypeOK, ReadIsFresh, SaveFailure, SaveCheckpoint
<1>. DEFINE c == RecordFailure(checkpoint, run[r].day)
            status == IF results[run[r].day] = "completed" THEN "completed" ELSE "failed"
<1>2. c \in Checkpoint /\ LastIsLatest(c)
  BY <1>1, FailureKeeps
<1>3. /\ checkpoint.completed \subseteq c.completed
      /\ checkpoint.failed \subseteq c.failed
      /\ run[r].day \in c.failed
  BY <1>1 DEF RecordFailure, Checkpoint
<1>4. SaveCheckpoint(r, c, status) /\ status \in {"failed", "completed"}
  BY <1>1 DEF SaveFailure
<1>5. status = "completed" => run[r].day \in c.completed
  BY <1>1, <1>3, DaysAreNat DEF IInv, ResultsAreKept
<1>. HIDE DEF c, status
<1>. QED  BY <1>2, <1>3, <1>4, <1>5, SaveKeeps

\* A run that stops working: complete(), fail() or a crash.
LEMMA StopKeeps ==
    ASSUME IInv, NEW r \in Runs, NEW phase \in {"ended", "dead"}, NEW n \in 0 .. MaxCrashes,
           run' = [run EXCEPT ![r] = [IdleRun EXCEPT !.phase = phase]],
           lock' = lock \/ (lock = r /\ lock' = NoRun), crashes' = n,
           UNCHANGED <<today, checkpoint, results>>
    PROVE  IInv'
<1>1. run \in [Runs -> Run] /\ [IdleRun EXCEPT !.phase = phase] \in Run
      /\ [IdleRun EXCEPT !.phase = phase].phase = phase
  BY IdleIsRun DEF IInv, TypeOK, Run, IdleRun
<1>2. /\ run' \in [Runs -> Run] /\ run'[r].phase = phase
      /\ \A o \in Runs : o # r => run'[o] = run[o]
  BY <1>1
<1>. QED  BY <1>2
          DEF IInv, TypeOK, WritersHoldTheLock, ReadIsFresh, ResultsAreKept, LastIsLatest

LEMMA EndAndCrashKeep == ASSUME IInv, NEW r \in Runs, End(r) \/ Crash(r) PROVE IInv'
<1>1. crashes \in 0 .. MaxCrashes /\ MaxCrashes \in Nat
  BY SyncAssumption DEF IInv, TypeOK
<1>2. CASE End(r)
  BY <1>1, <1>2, StopKeeps DEF End
<1>3. CASE Crash(r)
  <2>1. crashes + 1 \in 0 .. MaxCrashes
    BY <1>1, <1>3 DEF Crash
  <2>. QED  BY <1>3, <2>1, StopKeeps DEF Crash
<1>. QED  BY <1>2, <1>3

LEMMA Inductive == IInv /\ [Next]_vars => IInv'
<1>. SUFFICES ASSUME IInv, [Next]_vars PROVE IInv'
  OBVIOUS
<1>1. CASE NewDay
  <2>1. today + 1 \in Days
    BY <1>1, CalendarAssumption DEF NewDay, IInv, TypeOK, Days
  <2>. QED  BY <1>1, <2>1
       DEF NewDay, IInv, TypeOK, WritersHoldTheLock, ReadIsFresh, ResultsAreKept, LastIsLatest
<1>2. ASSUME NEW r \in Runs, Plan(r) \/ Goes(r) \/ Crash(r) PROVE IInv'
  BY <1>2, PlanKeeps, StartKeeps, LoadKeeps, SaveSuccessKeeps, SaveFailureKeeps, EndAndCrashKeep
  DEF Goes
<1>3. CASE UNCHANGED vars
  BY <1>3 DEF vars, IInv, TypeOK, WritersHoldTheLock, ReadIsFresh, ResultsAreKept, LastIsLatest
<1>. QED  BY <1>1, <1>2, <1>3 DEF Next

\* The conjunction that is inductive for plans, locks and days (data_sync.py).
THEOREM Invariance == Spec => []IInv
  BY Initially, Inductive, PTL DEF Spec

-----------------------------------------------------------------------------
(* Theorems                                                                *)

\* Files, plans and runs keep their shape.
THEOREM TypeCorrect == Spec => []TypeOK
  BY Invariance, PTL DEF IInv

\* data_sync.py: only the owner of lock.json is between start() and its end.
THEOREM LockExcludes == Spec => []WritersHoldTheLock
  BY Invariance, PTL DEF IInv

\* record_trade_date_result(): no reported result is lost or taken back.
THEOREM NoResultIsLost == Spec => []ResultsAreKept
  BY Invariance, PTL DEF IInv

\* record_success(): the version belongs to the latest completed day.
THEOREM VersionFollowsLastDay == Spec => []VersionIsOfLastDay
<1>1. IInv => VersionIsOfLastDay
  <2>. SUFFICES ASSUME IInv PROVE VersionIsOfLastDay
    OBVIOUS
  <2>1. checkpoint.completed \in SUBSET Nat /\ LastIsLatest(checkpoint)
    BY DaysAreNat DEF IInv, TypeOK, Checkpoint
  <2>. QED  BY <2>1, MaxIs DEF VersionIsOfLastDay, LastIsLatest
<1>. QED  BY <1>1, Invariance, PTL

\* release_lock(): only the end of its owner takes a lock away.
THEOREM OwnersUnlock == Spec => OnlyOwnersUnlock
<1>. DEFINE A == lock # NoRun => lock' = lock \/ (lock' = NoRun /\ run'[lock].phase = "ended")
<1>1. IInv /\ [Next]_vars => [A]_vars
  <2>. SUFFICES ASSUME IInv, Next PROVE A
    BY DEF vars
  <2>1. CASE NewDay
    BY <2>1 DEF NewDay
  <2>2. ASSUME NEW r \in Runs, End(r) PROVE A
    <3>1. run \in [Runs -> Run] /\ [IdleRun EXCEPT !.phase = "ended"].phase = "ended"
      BY DEF IInv, TypeOK, IdleRun
    <3>. QED  BY <2>2, <3>1 DEF End
  <2>3. ASSUME NEW r \in Runs, Plan(r) \/ Goes(r) \/ Crash(r), ~End(r) PROVE A
    BY <2>3 DEF Plan, PlanIncremental, PlanBackfill, Goes, Start, LoadCheckpoint,
                SaveSuccess, SaveFailure, SaveCheckpoint, Crash
  <2>. QED  BY <2>1, <2>2, <2>3 DEF Next
<1>. QED  BY <1>1, Invariance, PTL DEF Spec, OnlyOwnersUnlock

(***************************************************************************)
(* The provider whose bars are taken                                       *)
(***************************************************************************)

(* A finite set that is not empty has a least element in a strict order,   *)
(* if the order is total, and a minimal one in any: the sets of what comes *)
(* before an element are finite, and one of them has none of the others in *)
(* it.                                                                     *)
LEMMA MinimumExists ==
  ASSUME NEW S, IsFiniteSet(S), S # {}, NEW Before,
         \A x \in S : <<x, x>> \notin Before,
         \A x, y, z \in S : <<x, y>> \in Before /\ <<y, z>> \in Before => <<x, z>> \in Before
  PROVE  \E x \in S : \A y \in S : <<y, x>> \notin Before
<1> DEFINE Below(x) == {y \in S : <<y, x>> \in Before}
           Family == {Below(x) : x \in S}
<1>1. \A x \in S : Below(x) \in FiniteSubsetsOf(S)
  BY FS_Subset DEF FiniteSubsetsOf
<1>2. IsWellFoundedOn(StrictSubsetOrdering(S), FiniteSubsetsOf(S))
  BY FS_StrictSubsetOrderingWellFounded
<1>3. PICK T \in Family : \A U \in Family : <<U, T>> \notin StrictSubsetOrdering(S)
  <2>1. Family \subseteq FiniteSubsetsOf(S) /\ Family # {}
    <3> HIDE DEF Below
    <3> QED BY <1>1
  <2> QED BY <1>2, <2>1, WFMin
<1>4. PICK x \in S : T = Below(x)
  OBVIOUS
<1>5. ASSUME NEW y \in S, <<y, x>> \in Before PROVE FALSE
  <2>1. Below(y) \subseteq Below(x) /\ y \in Below(x) /\ y \notin Below(y)
    BY <1>5
  <2>2. <<Below(y), Below(x)>> \in (SUBSET S) \X (SUBSET S)
    OBVIOUS
  <2>3. Below(y) \in Family
    OBVIOUS
  <2> HIDE DEF Below
  <2> QED BY <1>3, <1>4, <2>1, <2>2, <2>3 DEF StrictSubsetOrdering
<1> QED BY <1>5


(* So a finite set of numbers that is not empty has a least one.           *)
LEMMA MinIsLeast ==
    ASSUME NEW S, S \subseteq Nat, IsFiniteSet(S), S # {}
    PROVE  Min(S) \in S /\ \A n \in S : Min(S) <= n
<1> DEFINE Before == {p \in S \X S : p[1] < p[2]}
<1>1. \A x, y \in S : <<x, y>> \in Before <=> x < y
  OBVIOUS
<1> HIDE DEF Before
<1>2. PICK x \in S : \A y \in S : <<y, x>> \notin Before
  <2>1. \A a \in S : <<a, a>> \notin Before
    BY <1>1
  <2>2. \A a, b, c \in S : <<a, b>> \in Before /\ <<b, c>> \in Before => <<a, c>> \in Before
    BY <1>1
  <2> QED BY <2>1, <2>2, MinimumExists
<1>3. ASSUME NEW y \in S PROVE x <= y
  <2>1. ~(y < x) /\ x \in Nat /\ y \in Nat
    BY <1>1, <1>2
  <2> QED BY <2>1
<1> QED BY <1>3 DEF Min

\* What the selection takes is the batch of the first provider, in the order of
\* the policy, whose attempt is not rejected; its attempt selects it.
LEMMA SelectedIsFirst ==
    ASSUME NEW answers, NEW at, Select(answers, at).status = "selected"
    PROVE  LET p == Select(answers, at).selected
           IN  \E n \in DOMAIN OrderedProviders :
                  /\ OrderedProviders[n] = p /\ p \in DOMAIN answers
                  /\ Attempt(p, answers, at) = "selected"
                  /\ \A m \in 1..(n - 1) : OrderedProviders[m] \in DOMAIN answers =>
                        Attempt(OrderedProviders[m], answers, at) = "rejected"
<1> DEFINE attempted == {n \in DOMAIN OrderedProviders : OrderedProviders[n] \in DOMAIN answers}
           Status(n) == Attempt(OrderedProviders[n], answers, at)
           ending == {n \in attempted : Status(n) # "rejected"}
           last == Min(ending)
<1>1. ending # {} /\ Status(last) = "selected" /\ Select(answers, at).selected = OrderedProviders[last]
  BY DEF Select
<1>2. DOMAIN OrderedProviders = 1..Len(OrderedProviders) /\ Len(OrderedProviders) \in Nat
  BY DEF OrderedProviders
<1>3. IsFiniteSet(ending) /\ ending \subseteq Nat
  <2>1. ending \subseteq 1..Len(OrderedProviders)
    BY <1>2
  <2>2. IsFiniteSet(1..Len(OrderedProviders))
    BY <1>2, FS_Interval
  <2> QED BY <1>2, <2>1, <2>2, FS_Subset
<1>4. last \in ending /\ \A n \in ending : last <= n
  BY <1>1, <1>3, MinIsLeast
<1>5. \A m \in 1..(last - 1) : m \in DOMAIN OrderedProviders /\ ~(last <= m)
  BY <1>2, <1>4
<1> QED BY <1>1, <1>4, <1>5

\* A fresh, complete batch of fair quality is what the engine can use.
Sound(answers, at) ==
    {p \in DOMAIN answers :
        /\ ~answers[p].fails
        /\ at <= answers[p].freshUntil
        /\ answers[p].quality \in {"none", "passed", "warning"}
        /\ \A r \in Range(answers[p].records) : Missing \notin {r[f] : f \in Requested}}

\* What the code rejects is what is stale, of bad quality, or incomplete.
LEMMA SoundIsUsable ==
    ASSUME NEW answers \in Answers, NEW at \in Nat, NEW p \in DOMAIN answers
    PROVE  p \in Sound(answers, at) <=> IsUsable(answers[p], at)
<1>1. CASE answers[p].fails
  BY <1>1 DEF Sound, IsUsable
<1>2. CASE ~answers[p].fails
  <2>1. answers[p].freshUntil \in Nat /\ answers[p].quality \in Qualities
    BY <1>2, AnswersAreBatches
  <2>2. IsStale(answers[p], at) <=> ~(at <= answers[p].freshUntil)
    BY <2>1 DEF IsStale
  <2>3. answers[p].quality \in {"quarantine", "blocking"}
            <=> answers[p].quality \notin {"none", "passed", "warning"}
    BY <2>1 DEF Qualities
  <2>4. MissingFields(answers[p].records) # {}
            <=> \E r \in Range(answers[p].records) : Missing \in {r[f] : f \in Requested}
    BY DEF MissingFields
  <2>5. Rejection(answers[p], at) = "none" <=>
            /\ ~IsStale(answers[p], at)
            /\ answers[p].quality \notin {"quarantine", "blocking"}
            /\ MissingFields(answers[p].records) = {}
    BY DEF Rejection
  <2> QED BY <1>2, <2>2, <2>3, <2>4, <2>5 DEF Sound, IsUsable
<1> QED BY <1>1, <1>2, AnswersAreBatches

\* What is new after a merge is of the increment.
LEMMA MergedIsNew ==
    ASSUME NEW old, NEW incremental,
           NEW b \in Range(MergeIncremental(old, incremental)) \ Range(old)
    PROVE  b \in Range(incremental)
BY DEF MergeIncremental, Range

\* The bars of a batch by their key are bars of the batch.
LEMMA BarsAreOfBatch == \A batch : Range(BarsByKey(batch)) \subseteq Range(batch)
BY DEF BarsByKey, Keyed, Range

\* Two bars of a batch with the same instrument and day are the same bar, when
\* all have the same provider.
LEMMA OneBarADay ==
    ASSUME NEW batch, AcceptsBars(batch), NEW p, \A r \in Range(batch) : r.provider = p,
           NEW b \in Range(batch), NEW c \in Range(batch), RecordKey(b) = RecordKey(c)
    PROVE  b = c
<1>1. BarKey(b) = BarKey(c)
  BY DEF BarKey, RecordKey
<1>2. UniqueKeys(batch, BarKey)
  BY DEF AcceptsBars
<1> QED BY <1>1, <1>2 DEF UniqueKeys, Range

\* A selected batch does not differ from what the cross provider said last.
LEMMA SelectedAgrees ==
    ASSUME NEW answers \in Answers, NEW at \in Nat, NEW p \in DOMAIN answers,
           ~answers[p].fails, Attempt(p, answers, at) = "selected",
           AcceptsBars(answers[p].records), NEW b \in Range(answers[p].records),
           Policy.cross \in Sound(answers, at), Policy.maxDiff # Missing,
           NEW n \in DOMAIN answers[Policy.cross].records,
           RecordKey(answers[Policy.cross].records[n]) = RecordKey(b),
           \A m \in DOMAIN answers[Policy.cross].records :
               RecordKey(answers[Policy.cross].records[m]) = RecordKey(b) => m <= n
    PROVE  ~Differs(b.close, answers[Policy.cross].records[n].close)
<1> DEFINE said == answers[Policy.cross].records
<1>1. CASE Policy.cross = p
  <2>1. said[n] = b
    <3>1. said[n] \in Range(answers[p].records)
      BY <1>1 DEF Range
    <3>2. \A r \in Range(answers[p].records) : r.provider = p
      BY AnswersAreBatches
    <3>3. RecordKey(b) = RecordKey(said[n])
      OBVIOUS
    <3> HIDE DEF said
    <3> QED BY <3>1, <3>2, <3>3, OneBarADay
  <2>2. b.close \in Nat
    <3>1. b.low \in Nat \cup {-1} /\ b.close \in Nat \cup {-1}
      BY AnswersAreBatches DEF Missing
    <3>2. 0 <= b.low /\ b.low <= b.close
      BY DEF AcceptsBars, ValidBar, OrderedPrices
    <3> QED BY <3>1, <3>2
  <2>3. Policy.maxDiff \in Nat
    BY PolicyAssumption DEF IsPolicy
  <2>4. Policy.maxDiff * b.close >= 0
    BY <2>2, <2>3
  <2>5. Distance(b.close, b.close) = 0
    BY <2>2 DEF Distance
  <2>6. Policy.maxDiff * b.close \in Int
    BY <2>2, <2>3
  <2>7. ~Differs(b.close, b.close)
    BY <2>4, <2>5, <2>6 DEF Differs
  <2> QED BY <2>1, <2>7
<1>2. CASE Policy.cross # p
  <2>1. Policy.cross \in DOMAIN answers /\ IsUsable(answers[Policy.cross], at)
    BY SoundIsUsable DEF Sound
  <2>2. Policy.cross # NoProvider
    BY <2>1, PolicyAssumption, AnswersAreBatches
  <2>3. IsCompared(p, answers, at)
    BY <1>2, <2>1, <2>2 DEF IsCompared
  <2>4. RecordOf(said, RecordKey(b)) = said[n]
    <3>1. DOMAIN said \subseteq Nat
      BY <2>1, AnswersAreBatches DEF IsUsable
    <3>2. \A k \in DOMAIN said : RecordKey(said[k]) = RecordKey(b)
            /\ (\A m \in DOMAIN said : RecordKey(said[m]) = RecordKey(b) => m <= k) => k = n
      BY <3>1
    <3> HIDE DEF said
    <3>3. n = CHOOSE k \in DOMAIN said : /\ RecordKey(said[k]) = RecordKey(b)
                /\ \A m \in DOMAIN said : RecordKey(said[m]) = RecordKey(b) => m <= k
      BY <3>2 DEF said
    <3> QED BY <3>3 DEF RecordOf
  <2>5. <<b.close, said[n].close>> \in ComparedCloses(p, answers)
    BY <2>4 DEF ComparedCloses, Range
  <2>6. \A c \in ComparedCloses(p, answers) : ~Differs(c[1], c[2])
    BY <2>3 DEF Attempt
  <2> QED BY <2>5, <2>6
<1> QED BY <1>1, <1>2

\* The time is a number.
TimeOK == now \in 0..MaxTime

\* The clock keeps to its bound.
LEMMA TimeAlwaysOK == StoreSpec => []TimeOK
<1>1. StoreInit => TimeOK
  BY StoreConstants DEF StoreInit, TimeOK
<1>2. TimeOK /\ [StoreNext]_storeVars => TimeOK'
  <2> SUFFICES ASSUME TimeOK, [StoreNext]_storeVars PROVE TimeOK'
    OBVIOUS
  <2>1. now' = now \/ (now < MaxTime /\ now' = now + 1)
    BY DEF StoreNext, storeVars, Register, SyncBars, IngestBars, PublishBars, PublishActions,
           BuildFromAll, IngestFundamentals, Tick
  <2> QED BY <2>1, StoreConstants DEF TimeOK
<1> QED BY <1>1, <1>2, PTL DEF StoreSpec

\* What a step of the store takes from the answers of the providers.
Earned(answers) ==
    LET sound == Sound(answers, now)
    IN  \A b \in Range(raw') \ Range(raw) :
           /\ b.provider \in sound
           /\ \E n \in DOMAIN OrderedProviders :
                 /\ OrderedProviders[n] = b.provider
                 /\ \A m \in 1..(n - 1) : OrderedProviders[m] \notin sound
           /\ Policy.cross \in sound /\ Policy.maxDiff # Missing =>
                 LET said == answers[Policy.cross].records
                     about == {n \in DOMAIN said : RecordKey(said[n]) = RecordKey(b)}
                 IN  \A n \in about : (\A m \in about : m <= n) =>
                         ~Differs(b.close, said[n].close)

\* A selected batch is sound, its predecessors are not, and its bars are what
\* the merge adds.
LEMMA SyncIsEarned ==
    ASSUME TimeOK, NEW answers \in Answers, SyncBars(answers) PROVE Earned(answers)
<1> DEFINE p == Select(answers, now).selected
           sound == Sound(answers, now)
<1>1. now \in Nat
  BY StoreConstants DEF TimeOK
<1>2. Select(answers, now).status = "selected" /\ IngestBars(answers[p].records)
  BY DEF SyncBars
<1>3. PICK n \in DOMAIN OrderedProviders :
            /\ OrderedProviders[n] = p /\ p \in DOMAIN answers
            /\ Attempt(p, answers, now) = "selected"
            /\ \A m \in 1..(n - 1) : OrderedProviders[m] \in DOMAIN answers =>
                  Attempt(OrderedProviders[m], answers, now) = "rejected"
  BY <1>2, SelectedIsFirst
<1>4. p \in sound /\ ~answers[p].fails
  <2>1. IsUsable(answers[p], now)
    BY <1>3 DEF Attempt
  <2> QED BY <1>1, <1>3, <2>1, SoundIsUsable DEF IsUsable
<1>5. \A m \in 1..(n - 1) : OrderedProviders[m] \notin sound
  <2> SUFFICES ASSUME NEW m \in 1..(n - 1), OrderedProviders[m] \in sound PROVE FALSE
    OBVIOUS
  <2>1. OrderedProviders[m] \in DOMAIN answers /\ IsUsable(answers[OrderedProviders[m]], now)
    BY <1>1, SoundIsUsable DEF Sound
  <2>2. Attempt(OrderedProviders[m], answers, now) = "rejected"
    BY <1>3, <2>1
  <2> QED BY <2>1, <2>2 DEF Attempt
<1>6. AcceptsBars(answers[p].records)
  BY <1>2 DEF IngestBars
<1> HIDE DEF p, sound
<1>7. ASSUME NEW b \in Range(raw') \ Range(raw)
      PROVE  b \in Range(answers[p].records) /\ b.provider = p
  <2>1. raw' = MergeIncremental(raw, BarsByKey(answers[p].records))
    BY <1>2 DEF IngestBars
  <2>2. b \in Range(answers[p].records)
    BY <1>7, <2>1, MergedIsNew, BarsAreOfBatch
  <2> QED BY <1>3, <1>4, <2>2, AnswersAreBatches
<1>8. ASSUME NEW b \in Range(raw') \ Range(raw), Policy.cross \in sound, Policy.maxDiff # Missing,
             NEW k \in DOMAIN answers[Policy.cross].records,
             RecordKey(answers[Policy.cross].records[k]) = RecordKey(b),
             \A m \in DOMAIN answers[Policy.cross].records :
               RecordKey(answers[Policy.cross].records[m]) = RecordKey(b) => m <= k
      PROVE  ~Differs(b.close, answers[Policy.cross].records[k].close)
  BY <1>1, <1>3, <1>4, <1>6, <1>7, <1>8, SelectedAgrees DEF sound
<1> SUFFICES ASSUME NEW b \in Range(raw') \ Range(raw)
             PROVE  /\ b.provider \in sound
                    /\ \E m \in DOMAIN OrderedProviders :
                          /\ OrderedProviders[m] = b.provider
                          /\ \A o \in 1..(m - 1) : OrderedProviders[o] \notin sound
                    /\ Policy.cross \in sound /\ Policy.maxDiff # Missing =>
                          LET said == answers[Policy.cross].records
                              about == {m \in DOMAIN said : RecordKey(said[m]) = RecordKey(b)}
                          IN  \A k \in about : (\A m \in about : m <= k) =>
                                  ~Differs(b.close, said[k].close)
  BY DEF Earned, sound
<1> QED BY <1>3, <1>4, <1>5, <1>7, <1>8

\* Whoever the bars come from had a sound batch, nobody before them in the
\* policy's order had one, and the cross provider did not contradict it
\* (ProviderPolicyEngine.select and RawDailyBarsDataset.merge_incremental).
THEOREM SelectionsAreEarned == StoreSpec => SelectionIsEarned
<1>1. TimeOK /\ [StoreNext]_storeVars =>
      [\A answers \in Answers : raw' # raw /\ SyncBars(answers) =>
           LET sound == {p \in DOMAIN answers : ~answers[p].fails
                          /\ now <= answers[p].freshUntil
                          /\ answers[p].quality \in {"none", "passed", "warning"}
                          /\ \A r \in Range(answers[p].records) :
                                Missing \notin {r[f] : f \in Requested}}
           IN  \A b \in Range(raw') \ Range(raw) :
                  /\ b.provider \in sound
                  /\ \E n \in DOMAIN OrderedProviders :
                        /\ OrderedProviders[n] = b.provider
                        /\ \A m \in 1..(n - 1) : OrderedProviders[m] \notin sound
                  /\ Policy.cross \in sound /\ Policy.maxDiff # Missing =>
                        LET said == answers[Policy.cross].records
                            about == {n \in DOMAIN said : RecordKey(said[n]) = RecordKey(b)}
                        IN  \A n \in about : (\A m \in about : m <= n) =>
                                ~Differs(b.close, said[n].close)]_storeVars
  BY SyncIsEarned DEF Earned, Sound
<1> QED BY <1>1, TimeAlwaysOK, PTL DEF StoreSpec, SelectionIsEarned

(***************************************************************************)
(* Questions about the past                                                *)
(***************************************************************************)

\* _latest_sort_key orders all records.
LEMMA NewerIsAnOrder ==
    ASSUME NEW r \in FundamentalRow, NEW s \in FundamentalRow, NEW q \in FundamentalRow
    PROVE  /\ NotNewer(r, r)
           /\ NotNewer(r, s) \/ NotNewer(s, r)
           /\ NotNewer(r, s) /\ NotNewer(s, q) => NotNewer(r, q)
<1>1. \A x \in {r, s, q} : x.period \in Nat /\ x.available \in Nat /\ x.revision \in Int
  BY DEF FundamentalRow, Missing
<1> QED BY <1>1 DEF NotNewer

\* latest_as_of takes the newest of its candidates.
Newest(records) == {r \in records : \A s \in records : NotNewer(s, r)}

\* Of finitely many records some are the newest.
LEMMA NewestExists ==
    ASSUME NEW S, S \subseteq FundamentalRow, IsFiniteSet(S), S # {}
    PROVE  Newest(S) # {}
<1> DEFINE Before == {p \in S \X S : ~NotNewer(p[1], p[2])}
<1>1. \A x, y \in S : <<x, y>> \in Before <=> ~NotNewer(x, y)
  OBVIOUS
<1> HIDE DEF Before
<1>2. \A x \in S : <<x, x>> \notin Before
  BY <1>1, NewerIsAnOrder
<1>3. \A x, y, z \in S : <<x, y>> \in Before /\ <<y, z>> \in Before => <<x, z>> \in Before
  <2> SUFFICES ASSUME NEW x \in S, NEW y \in S, NEW z \in S,
                      ~NotNewer(x, y), ~NotNewer(y, z)
               PROVE  ~NotNewer(x, z)
    BY <1>1
  <2>1. x \in FundamentalRow /\ y \in FundamentalRow /\ z \in FundamentalRow
    OBVIOUS
  <2>2. NotNewer(z, y)
    BY <2>1, NewerIsAnOrder
  <2>3. NotNewer(x, z) => NotNewer(x, y)
    BY <2>1, <2>2, NewerIsAnOrder
  <2> QED BY <2>3
<1>4. PICK x \in S : \A y \in S : <<y, x>> \notin Before
  BY <1>2, <1>3, MinimumExists
<1> QED BY <1>1, <1>4 DEF Newest

\* Unless the newest of either is missing in the other, the newest are the same.
LEMMA NewestMoves ==
    ASSUME NEW A, A \subseteq FundamentalRow, IsFiniteSet(A),
           NEW B, B \subseteq FundamentalRow, IsFiniteSet(B),
           Newest(A) \subseteq B, Newest(B) \subseteq A
    PROVE  Newest(A) \subseteq Newest(B)
<1> SUFFICES ASSUME NEW r \in Newest(A), NEW s \in B PROVE NotNewer(s, r)
  BY DEF Newest
<1>1. PICK m \in Newest(B) : TRUE
  BY NewestExists
<1>2. NotNewer(s, m) /\ NotNewer(m, r)
  BY <1>1 DEF Newest
<1>3. s \in FundamentalRow /\ m \in FundamentalRow /\ r \in FundamentalRow
  BY <1>1 DEF Newest
<1> QED BY <1>2, <1>3, NewerIsAnOrder

\* There are finitely many records, each with numbers for its dates.
FundamentalsOK ==
    IsFiniteSet(DOMAIN fundamentals) /\ Range(fundamentals) \subseteq FundamentalRow

\* What a row leaves out is filled in with numbers.
LEMMA RecordIsFundamental ==
    ASSUME NEW row \in FundamentalRow, NEW at \in Nat
    PROVE  RecordFromRow(row, at) \in FundamentalRow
BY DEF RecordFromRow, FundamentalRow, Missing

\* A merge adds at most one record.
LEMMA IngestKeepsFundamentals ==
    ASSUME TimeOK, FundamentalsOK, NEW row \in FundamentalRows, IngestFundamentals(row)
    PROVE  FundamentalsOK'
<1> DEFINE record == RecordFromRow(row, now)
           new == FundamentalsByKey(<<record>>)
<1>1. record \in FundamentalRow
  BY StoreConstants, RowsAreFundamentals, RecordIsFundamental DEF TimeOK
<1>2. fundamentals' = MergeIncremental(fundamentals, new)
  BY DEF IngestFundamentals
<1> HIDE DEF record
<1>3. Range(<<record>>) = {record}
  BY DEF Range
<1>4. DOMAIN new = {FundamentalKey(record)} /\ Range(new) \subseteq {record}
  BY <1>3 DEF FundamentalsByKey, Keyed, Range
<1> HIDE DEF new
<1>5. DOMAIN fundamentals' = DOMAIN fundamentals \cup DOMAIN new
  BY <1>2 DEF MergeIncremental
<1>6. IsFiniteSet(DOMAIN fundamentals')
  <2>1. IsFiniteSet(DOMAIN fundamentals)
    BY DEF FundamentalsOK
  <2>2. IsFiniteSet(DOMAIN new)
    BY <1>4, FS_Singleton
  <2> QED BY <1>5, <2>1, <2>2, FS_Union
<1>7. Range(fundamentals') \subseteq Range(fundamentals) \cup Range(new)
  BY <1>2 DEF MergeIncremental, Range
<1> QED BY <1>1, <1>4, <1>6, <1>7 DEF FundamentalsOK

\* Time and records keep their types.
LEMMA FundamentalsAlwaysOK == StoreSpec => [](TimeOK /\ FundamentalsOK)
<1>1. StoreInit => FundamentalsOK
  <2> SUFFICES ASSUME StoreInit PROVE FundamentalsOK
    OBVIOUS
  <2>1. DOMAIN fundamentals = {} /\ Range(fundamentals) = {}
    BY DEF StoreInit, Nothing, Range
  <2> QED BY <2>1, FS_EmptySet DEF FundamentalsOK
<1>2. TimeOK /\ FundamentalsOK /\ [StoreNext]_storeVars => FundamentalsOK'
  <2> SUFFICES ASSUME TimeOK, FundamentalsOK, [StoreNext]_storeVars PROVE FundamentalsOK'
    OBVIOUS
  <2>1. ASSUME NEW row \in FundamentalRows, IngestFundamentals(row) PROVE FundamentalsOK'
    BY <2>1, IngestKeepsFundamentals
  <2>2. ASSUME UNCHANGED fundamentals PROVE FundamentalsOK'
    BY <2>2 DEF FundamentalsOK
  <2> QED
    BY <2>1, <2>2 DEF StoreNext, storeVars, Register, SyncBars, IngestBars, PublishBars,
       PublishActions, BuildFromAll, Tick
<1> QED BY <1>1, <1>2, TimeAlwaysOK, PTL DEF StoreSpec

\* The records a question may be answered with.
LEMMA CandidatesAreFundamentals ==
    ASSUME NEW dataset, IsFiniteSet(DOMAIN dataset), Range(dataset) \subseteq FundamentalRow,
           NEW inst, NEW t
    PROVE  LET candidates == QueryCandidates(dataset, inst, "eps", t)
           IN  candidates \subseteq FundamentalRow /\ IsFiniteSet(candidates)
<1> DEFINE f == [k \in DOMAIN dataset |-> dataset[k]]
<1>1. f \in Surjection(DOMAIN dataset, Range(dataset))
  BY DEF Surjection, Range
<1>2. IsFiniteSet(Range(dataset))
  BY <1>1, FS_Surjection
<1>3. QueryCandidates(dataset, inst, "eps", t) \subseteq Range(dataset)
  BY DEF QueryCandidates
<1> QED BY <1>2, <1>3, FS_Subset

\* If neither who answers now is new nor who answered is gone, both answered
\* before and answer now.
LEMMA AnswersMove ==
    ASSUME FundamentalsOK, FundamentalsOK', NEW inst \in Instruments, NEW t \in 0..MaxTime,
           LatestAsOf(fundamentals', inst, "eps", t) # LatestAsOf(fundamentals, inst, "eps", t)
    PROVE  \/ \E r \in Range(fundamentals') \ Range(fundamentals) :
                r.available <= t /\ r \in LatestAsOf(fundamentals', inst, "eps", t)
           \/ \E r \in Range(fundamentals) \ Range(fundamentals') :
                r.available <= t /\ r \in LatestAsOf(fundamentals, inst, "eps", t)
<1> DEFINE A == QueryCandidates(fundamentals, inst, "eps", t)
           B == QueryCandidates(fundamentals', inst, "eps", t)
<1>1. /\ LatestAsOf(fundamentals, inst, "eps", t) = Newest(A)
      /\ LatestAsOf(fundamentals', inst, "eps", t) = Newest(B)
  BY DEF LatestAsOf, Newest
<1>2. /\ \A r \in A : r \in Range(fundamentals) /\ r.available <= t
      /\ \A r \in B : r \in Range(fundamentals') /\ r.available <= t
      /\ \A r \in A : r \in Range(fundamentals') => r \in B
      /\ \A r \in B : r \in Range(fundamentals) => r \in A
  BY DEF QueryCandidates
<1>3. /\ A \subseteq FundamentalRow /\ IsFiniteSet(A)
      /\ B \subseteq FundamentalRow /\ IsFiniteSet(B)
  BY CandidatesAreFundamentals DEF FundamentalsOK
<1>4. Newest(A) \subseteq A /\ Newest(B) \subseteq B
  BY DEF Newest
<1> HIDE DEF A, B
<1>5. CASE Newest(A) \subseteq B /\ Newest(B) \subseteq A
  <2>1. Newest(A) \subseteq Newest(B)
    BY <1>3, <1>5, NewestMoves
  <2>2. Newest(B) \subseteq Newest(A)
    BY <1>3, <1>5, NewestMoves
  <2> QED BY <1>1, <2>1, <2>2
<1>6. ASSUME NEW r \in Newest(A), r \notin B
      PROVE  r \in Range(fundamentals) \ Range(fundamentals') /\ r.available <= t
  BY <1>2, <1>4, <1>6
<1>7. ASSUME NEW r \in Newest(B), r \notin A
      PROVE  r \in Range(fundamentals') \ Range(fundamentals) /\ r.available <= t
  BY <1>2, <1>4, <1>7
<1> QED BY <1>1, <1>5, <1>6, <1>7

\* What latest_as_of answers about a past decision moves only with a record
\* that by its own dates was available then: the one that answers now came in,
\* or the one that answered is gone under its key
\* (FundamentalsDataset.merge_incremental).
THEOREM PastAnswersAlwaysStand == StoreSpec => PastAnswersStand
<1>1. FundamentalsOK /\ FundamentalsOK' /\ [StoreNext]_storeVars =>
      [\A inst \in Instruments, t \in 0..MaxTime :
          LatestAsOf(fundamentals', inst, "eps", t)
            # LatestAsOf(fundamentals, inst, "eps", t)
          => \/ \E r \in Range(fundamentals') \ Range(fundamentals) :
                   r.available <= t /\ r \in LatestAsOf(fundamentals', inst, "eps", t)
             \/ \E r \in Range(fundamentals) \ Range(fundamentals') :
                   r.available <= t /\ r \in LatestAsOf(fundamentals, inst, "eps", t)]_storeVars
  BY AnswersMove
<1> QED BY <1>1, FundamentalsAlwaysOK, PTL DEF StoreSpec, PastAnswersStand

(***************************************************************************)
(* Signals                                                                 *)
(***************************************************************************)

\* Who is recommended to be long is expected not to lose.
LEMMA LongExpectsNoFall ==
    \A advice : PositionRecommended(advice) = "long"
                    <=> DirectionExpected(advice) \in {"up", "not_down"}
BY DEF PositionRecommended, DirectionExpected

\* Both engines draw the lines between outcomes at the same returns.
LEMMA WinIsHit ==
    ASSUME NEW return, NEW direction \in {"up", "not_down"}
    PROVE  <<Outcome(return, direction), SignalOutcome(return, direction)>> \in
              {<<"win", "hit">>, <<"loss", "miss">>, <<"neutral", "neutral">>}
BY DEF Outcome, SignalOutcome

\* On any bars whose closes are known, evaluate_single and
\* evaluate_decision_signal come to the same outcome of advice to be long, and
\* a stop reached no later than the profit target is what it is closed at.
THEOREM EnginesAlwaysAgree ==
    ASSUME NEW s, s.days \in Nat \ {0}, s.start \in Int, NEW Bars, NEW forward \in Seq(Bars),
           \A b \in Bars : b.close # Missing
    PROVE  EnginesAgree(s, forward)
<1> DEFINE result == EvaluateSingle(s, forward)
           direction == DirectionExpected(s.advice)
           decided == EvaluateDecision(direction, s.start, s.days, forward)
           bars == WindowBars(forward, s.days)
           targets == Targets("long", s.stop, s.take, bars)
<1>1. result.position = PositionRecommended(s.advice)
  BY DEF EvaluateSingle, Unevaluated
<1>2. result.position = "long" <=> direction \in {"up", "not_down"}
  BY <1>1, LongExpectsNoFall
<1> SUFFICES ASSUME result.status = "completed", result.position = "long"
             PROVE  /\ <<result.outcome, decided.outcome>> \in
                         {<<"win", "hit">>, <<"loss", "miss">>, <<"neutral", "neutral">>}
                    /\ \A d \in 1..s.days :
                         /\ HitsStop(forward[d], s.stop)
                         /\ \A c \in 1..(d - 1) : ~HitsTake(forward[c], s.take)
                         => result.simulated = {Return(s.start, s.stop)}
  BY <1>2 DEF EnginesAgree
<1>3. s.start > 0 /\ ~(s.start <= 0) /\ ~(Len(forward) < s.days)
  BY DEF EvaluateSingle, Unevaluated
<1>4. /\ Len(bars) = s.days
      /\ \A n \in 1..s.days : bars[n] = forward[n] /\ forward[n] \in Bars
      /\ DOMAIN bars = 1..s.days
  BY <1>3 DEF WindowBars
<1> HIDE DEF bars
<1>5. EndReturn(bars, s.start) = {Return(s.start, bars[s.days].close)}
  BY <1>4 DEF EndReturn
<1>6. /\ result.outcome = Outcome(Return(s.start, bars[s.days].close), direction)
      /\ decided.outcome = SignalOutcome(Return(s.start, bars[s.days].close), direction)
  BY <1>3, <1>5 DEF EvaluateSingle, EvaluateDecision, bars
<1>7. <<result.outcome, decided.outcome>> \in
          {<<"win", "hit">>, <<"loss", "miss">>, <<"neutral", "neutral">>}
  BY <1>2, <1>6, WinIsHit
<1>8. ASSUME NEW d \in 1..s.days, HitsStop(forward[d], s.stop),
             \A c \in 1..(d - 1) : ~HitsTake(forward[c], s.take)
      PROVE  result.simulated = {Return(s.start, s.stop)}
  <2> DEFINE hits == {n \in DOMAIN bars : HitsStop(bars[n], s.stop) \/ HitsTake(bars[n], s.take)}
             n == Min(hits)
  <2>1. hits \subseteq Nat /\ hits \subseteq 1..s.days /\ d \in hits
    BY <1>4, <1>8
  <2>2. IsFiniteSet(hits)
    <3>1. IsFiniteSet(1..s.days)
      BY FS_Interval
    <3> HIDE DEF hits
    <3> QED BY <2>1, <3>1, FS_Subset
  <2>3. n \in hits /\ n <= d
    BY <2>1, <2>2, MinIsLeast
  <2>4. HitsStop(bars[n], s.stop)
    <3>1. CASE n = d
      BY <1>4, <1>8, <3>1
    <3>2. CASE n # d
      <4>1. n \in 1..(d - 1) /\ n \in 1..s.days
        BY <2>1, <2>3, <3>2
      <4>2. ~HitsTake(bars[n], s.take)
        BY <1>4, <1>8, <4>1
      <4> QED BY <2>3, <4>2
    <3> QED BY <3>1, <3>2
  <2>5. s.stop # Missing
    BY <1>8 DEF HitsStop
  <2>6. targets.exit = s.stop
    BY <2>1, <2>4 DEF Targets
  <2> HIDE DEF hits, n, targets
  <2>7. PositionRecommended(s.advice) = "long"
    BY <1>1
  <2>8. targets = Targets(PositionRecommended(s.advice), s.stop, s.take, WindowBars(forward, s.days))
    BY <2>7 DEF targets, bars
  <2> QED BY <1>3, <2>5, <2>6, <2>7, <2>8 DEF EvaluateSingle
<1> QED BY <1>7, <1>8

(***************************************************************************)
(* Adjusted bars                                                           *)
(***************************************************************************)

-----------------------------------------------------------------------------
(* Sums and products over finite sets                                      *)

\* What holds of 0, and of k when it holds of k - 1, holds up to n.
LEMMA Climb ==
    ASSUME NEW n \in Nat, NEW T, 0 \in T, \A k \in 1..n : k - 1 \in T => k \in T
    PROVE  0..n \subseteq T
  <1> SUFFICES ASSUME NEW b \in 0..n, b \notin T PROVE FALSE
    OBVIOUS
  <1> DEFINE Bad == {k \in 0..n : k \notin T}
             Below(k) == 0..k
             Family == {Below(k) : k \in Bad}
  <1>1. \A k \in 0..n : Below(k) \subseteq 0..n /\ \A j \in 0..n : j < k => Below(j) # Below(k) /\ Below(j) \subseteq Below(k)
    <2>1. ASSUME NEW k \in 0..n, NEW j \in 0..n, j < k PROVE k \in Below(k) /\ k \notin Below(j) /\ Below(j) \subseteq Below(k)
      BY <2>1
    <2>2. \A k \in 0..n : Below(k) \subseteq 0..n
      OBVIOUS
    <2> HIDE DEF Below
    <2> QED
      BY <2>1, <2>2
  <1>2. IsFiniteSet(0..n)
    BY FS_Interval
  <1> HIDE DEF Below
  <1>3. IsWellFoundedOn(StrictSubsetOrdering(0..n), FiniteSubsetsOf(0..n))
    BY FS_StrictSubsetOrderingWellFounded
  <1>4. Family \subseteq FiniteSubsetsOf(0..n) /\ Family # {}
    BY <1>1, <1>2, FS_Subset DEF FiniteSubsetsOf
  <1>5. PICK S \in Family : \A U \in Family : <<U, S>> \notin StrictSubsetOrdering(0..n)
    BY <1>3, <1>4, WFMin
  <1>6. PICK k \in Bad : S = Below(k)
    OBVIOUS
  <1>7. k # 0 /\ k - 1 \in 0..n /\ k \in 1..n /\ k - 1 < k
    OBVIOUS
  <1>8. k - 1 \in Bad
    BY <1>7
  <1>9. <<Below(k - 1), Below(k)>> \in StrictSubsetOrdering(0..n)
    BY <1>1, <1>7 DEF StrictSubsetOrdering
  <1> QED
    BY <1>5, <1>6, <1>8, <1>9

\* f goes from base to element n of a sequence by a step from each to the next.
IsClimb(f, n, A, base, step) ==
    /\ f \in [0..n -> A]
    /\ f[0] = base
    /\ \A k \in 1..n : f[k] = step[k][f[k - 1]]

\* What is defined by such steps exists.
LEMMA RecursionExists ==
    ASSUME NEW n \in Nat, NEW A, NEW base \in A, NEW step \in [1..n -> [A -> A]]
    PROVE  \E f : IsClimb(f, n, A, base, step)
  <1> DEFINE Upto(m, f) == IsClimb(f, m, A, base, step)
             T == {m \in 0..n : \E f : Upto(m, f)}
  <1> USE DEF IsClimb
  <1>1. 0 \in T
    <2>1. Upto(0, [k \in 0..0 |-> base])
      OBVIOUS
    <2> HIDE DEF Upto
    <2> QED
      BY <2>1
  <1>2. ASSUME NEW m \in 1..n, m - 1 \in T PROVE m \in T
    <2>1. PICK f : Upto(m - 1, f)
      BY <1>2
    <2> DEFINE next == step[m][f[m - 1]]
               g == [k \in 0..m |-> IF k = m THEN next ELSE f[k]]
    <2>2. m - 1 \in 0..(m - 1) /\ 0 \in 0..(m - 1) /\ m \in 0..m
      OBVIOUS
    <2>3. next \in A
      BY <2>1, <2>2
    <2> HIDE DEF next
    <2>4. g \in [0..m -> A]
      <3>1. \A k \in 0..m : k # m => k \in 0..(m - 1)
        OBVIOUS
      <3> QED
        BY <2>1, <2>3, <3>1
    <2>5. g[0] = base /\ g[m] = next /\ \A k \in 0..(m - 1) : g[k] = f[k]
      <3>1. \A k \in 0..(m - 1) : k \in 0..m /\ k # m
        OBVIOUS
      <3> QED
        BY <2>1, <2>2, <3>1
    <2> HIDE DEF g
    <2>6. ASSUME NEW k \in 1..m PROVE g[k] = step[k][g[k - 1]]
      <3>1. CASE k = m
        BY <2>2, <2>5, <3>1 DEF next
      <3>2. CASE k # m
        <4>1. k \in 1..(m - 1) /\ k \in 0..(m - 1) /\ k - 1 \in 0..(m - 1)
          BY <3>2
        <4> QED
          BY <2>1, <2>5, <4>1
      <3> QED
        BY <3>1, <3>2
    <2>7. Upto(m, g)
      BY <2>4, <2>5, <2>6
    <2> HIDE DEF Upto
    <2> QED
      BY <2>7
  <1>3. n \in T
    <2> HIDE DEF T
    <2>1. 0..n \subseteq T
      BY <1>1, <1>2, Climb
    <2>2. n \in 0..n
      OBVIOUS
    <2> QED
      BY <2>1, <2>2
  <1>4. PICK f : Upto(n, f)
    BY <1>3
  <1> QED
    BY <1>4


\* f folds every set of D, from base, element by element.
IsFold(f, D, X, base, step, pick) ==
    /\ f \in [D -> X]
    /\ \A s \in D : f[s] = IF s = {} THEN base ELSE step[<<pick[s], f[s \ {pick[s]}]>>]

UpToSize(A, m) == {s \in SUBSET A : Cardinality(s) <= m}

\* A fold over a finite set exists.
LEMMA FoldExists ==
    ASSUME NEW A, IsFiniteSet(A), NEW X, NEW base \in X, NEW step \in [A \X X -> X],
           NEW pick, \A s \in SUBSET A : s # {} => pick[s] \in s
    PROVE  \E f : IsFold(f, SUBSET A, X, base, step, pick)
  <1> DEFINE n == Cardinality(A)
             Folds(m, f) == IsFold(f, UpToSize(A, m), X, base, step, pick)
             T == {m \in 0..n : \E f : Folds(m, f)}
  <1>1. \A s \in SUBSET A : IsFiniteSet(s) /\ Cardinality(s) \in 0..n /\ (Cardinality(s) = 0 <=> s = {})
    BY FS_Subset, FS_CardinalityType, FS_EmptySet
  <1>2. \A s \in SUBSET A : s # {} => s \ {pick[s]} \in SUBSET A /\ Cardinality(s \ {pick[s]}) = Cardinality(s) - 1
    BY <1>1, FS_RemoveElement
  <1>3. n \in Nat
    BY FS_CardinalityType
  <1> HIDE DEF n
  <1>4. 0 \in T
    <2>1. \A s \in UpToSize(A, 0) : s = {}
      BY <1>1 DEF UpToSize
    <2>2. Folds(0, [s \in UpToSize(A, 0) |-> base])
      BY <2>1 DEF IsFold
    <2> HIDE DEF Folds
    <2> QED
      BY <1>3, <2>2
  <1>5. ASSUME NEW m \in 1..n, m - 1 \in T PROVE m \in T
    <2>1. PICK f : Folds(m - 1, f)
      BY <1>5
    <2> DEFINE D == UpToSize(A, m)
               E == UpToSize(A, m - 1)
               Added(s) == step[<<pick[s], f[s \ {pick[s]}]>>]
               g == [s \in D |-> IF s \in E THEN f[s] ELSE Added(s)]
    <2>2. \A s \in D : s # {} => pick[s] \in A /\ s \ {pick[s]} \in E
      BY <1>1, <1>2, <1>3 DEF UpToSize
    <2>3. \A s \in D : s \notin E => s # {}
      BY <1>1, <1>3 DEF UpToSize
    <2>4. f \in [E -> X] /\ \A s \in E : f[s] = IF s = {} THEN base ELSE Added(s)
      BY <2>1 DEF IsFold
    <2>5. E \subseteq D
      BY <1>1, <1>3 DEF UpToSize
    <2> HIDE DEF D, E
    <2>6. \A s \in D : s # {} => Added(s) \in X
      BY <2>2, <2>4
    <2>7. g \in [D -> X] /\ \A s \in E : g[s] = f[s]
      <3> HIDE DEF Added
      <3> QED
        BY <2>3, <2>4, <2>5, <2>6
    <2>8. ASSUME NEW s \in D PROVE g[s] = IF s = {} THEN base ELSE step[<<pick[s], g[s \ {pick[s]}]>>]
      <3>1. s # {} => g[s \ {pick[s]}] = f[s \ {pick[s]}]
        BY <2>2, <2>7
      <3>2. g[s] = IF s = {} THEN base ELSE Added(s)
        <4> HIDE DEF Added
        <4> QED
          BY <2>3, <2>4
      <3> HIDE DEF g
      <3> QED
        BY <3>1, <3>2
    <2> HIDE DEF g
    <2>9. Folds(m, g)
      BY <2>7, <2>8 DEF IsFold, D
    <2> HIDE DEF Folds
    <2> QED
      BY <2>9
  <1>6. PICK f : Folds(n, f)
    <2> HIDE DEF T
    <2>1. 0..n \subseteq T
      BY <1>3, <1>4, <1>5, Climb
    <2> QED
      BY <1>3, <2>1 DEF T
  <1>7. UpToSize(A, n) = SUBSET A
    BY <1>1 DEF UpToSize
  <1> QED
    BY <1>6, <1>7

\* What holds of base, and of a set when it holds without one of its elements,
\* holds of all: here, to be in X.
LEMMA FoldIsTyped ==
    ASSUME NEW A, IsFiniteSet(A), NEW X, NEW f, f[{}] \in X,
           \A s \in SUBSET A : s # {} => \E x \in s : f[s \ {x}] \in X => f[s] \in X
    PROVE  \A s \in SUBSET A : f[s] \in X
  <1> SUFFICES ASSUME NEW b \in SUBSET A, f[b] \notin X PROVE FALSE
    OBVIOUS
  <1> DEFINE Bad == {s \in SUBSET A : f[s] \notin X}
  <1>1. Bad \subseteq FiniteSubsetsOf(A) /\ Bad # {}
    BY FS_Subset DEF FiniteSubsetsOf
  <1>2. IsWellFoundedOn(StrictSubsetOrdering(A), FiniteSubsetsOf(A))
    BY FS_StrictSubsetOrderingWellFounded
  <1>3. PICK s \in Bad : \A t \in Bad : <<t, s>> \notin StrictSubsetOrdering(A)
    BY <1>1, <1>2, WFMin
  <1>4. s # {}
    OBVIOUS
  <1>5. PICK x \in s : f[s \ {x}] \in X => f[s] \in X
    BY <1>4
  <1>6. s \ {x} \in Bad
    BY <1>5
  <1>7. <<s \ {x}, s>> \in StrictSubsetOrdering(A)
    BY DEF StrictSubsetOrdering
  <1> QED
    BY <1>3, <1>6, <1>7

IsSum(f, e) ==
    f = [s \in SUBSET (DOMAIN e) |->
            IF s = {} THEN 0
            ELSE LET x == CHOOSE y \in s : TRUE IN e[x] + f[s \ {x}]]

IsProduct(f, e) ==
    f = [s \in SUBSET (DOMAIN e) |->
            IF s = {} THEN 1
            ELSE LET x == CHOOSE y \in s : TRUE IN e[x] * f[s \ {x}]]

LEMMA SumExists ==
    ASSUME NEW e, IsFiniteSet(DOMAIN e), \A x \in DOMAIN e : e[x] \in Nat
    PROVE  \E f : IsSum(f, e)
  <1> DEFINE A == DOMAIN e
             pick == [s \in SUBSET A |-> CHOOSE y \in s : TRUE]
             step == [p \in A \X Nat |-> e[p[1]] + p[2]]
  <1>1. \A s \in SUBSET A : s # {} => pick[s] \in s
    OBVIOUS
  <1>2. step \in [A \X Nat -> Nat] /\ \A x \in A, n \in Nat : step[<<x, n>>] = e[x] + n
    OBVIOUS
  <1>3. \A s \in SUBSET A : pick[s] = CHOOSE y \in s : TRUE
    OBVIOUS
  <1> HIDE DEF pick, step
  <1>4. PICK f : IsFold(f, SUBSET A, Nat, 0, step, pick)
    BY <1>1, <1>2, FoldExists
  <1>5. ASSUME NEW s \in SUBSET A, s # {} PROVE f[s] = e[pick[s]] + f[s \ {pick[s]}]
    <2>1. f[s] = step[<<pick[s], f[s \ {pick[s]}]>>] /\ f[s \ {pick[s]}] \in Nat
      BY <1>4, <1>5 DEF IsFold
    <2>2. pick[s] \in A
      BY <1>1, <1>5
    <2> QED
      BY <1>2, <2>1, <2>2
  <1>6. f[{}] = 0 /\ f \in [SUBSET A -> Nat]
    BY <1>4 DEF IsFold
  <1>7. \A s \in SUBSET A : f[s] = IF s = {} THEN 0 ELSE LET x == CHOOSE y \in s : TRUE IN e[x] + f[s \ {x}]
    BY <1>3, <1>5, <1>6
  <1>8. IsSum(f, e)
    BY <1>6, <1>7 DEF IsSum
  <1> QED
    BY <1>8

\* The sum of natural numbers is one.
LEMMA SumIsNatural ==
    ASSUME NEW e, IsFiniteSet(DOMAIN e), \A x \in DOMAIN e : e[x] \in Nat
    PROVE  SumFunction(e) \in Nat
  <1> DEFINE A == DOMAIN e
             f == CHOOSE f : IsSum(f, e)
             P == Nat
  <1>1. SumFunction(e) = f[A]
    BY DEF SumFunction, SumFunctionOnSet, FoldFunctionOnSet, MapThenFoldSet, IsSum
  <1>2. IsSum(f, e)
    BY SumExists
  <1> HIDE DEF f
  <1>3. f[{}] \in P
    BY <1>2 DEF IsSum
  <1>4. ASSUME NEW s \in SUBSET A, s # {} PROVE \E x \in s : f[s \ {x}] \in P => f[s] \in P
    <2> DEFINE x == CHOOSE y \in s : TRUE
    <2>1. x \in s /\ x \in A
      BY <1>4
    <2>2. f[s] = e[x] + f[s \ {x}]
      BY <1>2, <1>4 DEF IsSum
    <2> HIDE DEF x
    <2>3. f[s \ {x}] \in P => f[s] \in P
      BY <2>1, <2>2
    <2> QED
      BY <2>1, <2>3
  <1>5. \A s \in SUBSET A : f[s] \in P
    <2> HIDE DEF P
    <2> QED
      BY <1>3, <1>4, FoldIsTyped
  <1> QED
    BY <1>1, <1>5

\* The product of positive numbers is one.
LEMMA ProductExists ==
    ASSUME NEW e, IsFiniteSet(DOMAIN e), \A x \in DOMAIN e : e[x] \in Nat
    PROVE  \E f : IsProduct(f, e)
  <1> DEFINE A == DOMAIN e
             pick == [s \in SUBSET A |-> CHOOSE y \in s : TRUE]
             step == [p \in A \X Nat |-> e[p[1]] * p[2]]
  <1>1. \A s \in SUBSET A : s # {} => pick[s] \in s
    OBVIOUS
  <1>2. step \in [A \X Nat -> Nat] /\ \A x \in A, n \in Nat : step[<<x, n>>] = e[x] * n
    <2>1. \A m, n \in Nat : m * n \in Nat
      OBVIOUS
    <2> QED
      BY <2>1
  <1>3. \A s \in SUBSET A : pick[s] = CHOOSE y \in s : TRUE
    OBVIOUS
  <1> HIDE DEF pick, step
  <1>4. PICK f : IsFold(f, SUBSET A, Nat, 1, step, pick)
    BY <1>1, <1>2, FoldExists
  <1>5. ASSUME NEW s \in SUBSET A, s # {} PROVE f[s] = e[pick[s]] * f[s \ {pick[s]}]
    <2>1. f[s] = step[<<pick[s], f[s \ {pick[s]}]>>] /\ f[s \ {pick[s]}] \in Nat
      BY <1>4, <1>5 DEF IsFold
    <2>2. pick[s] \in A
      BY <1>1, <1>5
    <2> QED
      BY <1>2, <2>1, <2>2
  <1>6. f[{}] = 1 /\ f \in [SUBSET A -> Nat]
    BY <1>4 DEF IsFold
  <1>7. \A s \in SUBSET A : f[s] = IF s = {} THEN 1 ELSE LET x == CHOOSE y \in s : TRUE IN e[x] * f[s \ {x}]
    BY <1>3, <1>5, <1>6
  <1>8. IsProduct(f, e)
    BY <1>6, <1>7 DEF IsProduct
  <1> QED
    BY <1>8

LEMMA ProductIsPositive ==
    ASSUME NEW e, IsFiniteSet(DOMAIN e), \A x \in DOMAIN e : e[x] \in Nat \ {0}
    PROVE  ProductOf(e) \in Nat \ {0}
  <1> DEFINE A == DOMAIN e
             f == CHOOSE f : IsProduct(f, e)
             P == Nat \ {0}
  <1>1. ProductOf(e) = f[A]
    BY DEF ProductOf, FoldFunction, FoldFunctionOnSet, MapThenFoldSet, IsProduct
  <1>2. IsProduct(f, e)
    BY ProductExists
  <1> HIDE DEF f
  <1>3. f[{}] \in P
    BY <1>2 DEF IsProduct
  <1>4. ASSUME NEW s \in SUBSET A, s # {} PROVE \E x \in s : f[s \ {x}] \in P => f[s] \in P
    <2> DEFINE x == CHOOSE y \in s : TRUE
    <2>1. x \in s /\ x \in A
      BY <1>4
    <2>2. f[s] = e[x] * f[s \ {x}]
      BY <1>2, <1>4 DEF IsProduct
    <2> HIDE DEF x
    <2>3. f[s \ {x}] \in P => f[s] \in P
      <3>1. \A m, n \in P : m * n \in P
        OBVIOUS
      <3> QED
        BY <2>1, <2>2, <3>1
    <2> QED
      BY <2>1, <2>3
  <1>5. \A s \in SUBSET A : f[s] \in P
    <2> HIDE DEF P
    <2> QED
      BY <1>3, <1>4, FoldIsTyped
  <1> QED
    BY <1>1, <1>5

-----------------------------------------------------------------------------
(* Factors                                                                 *)

Fractions == [num : Nat \ {0}, den : Nat \ {0}]

ActionsOK(acts) ==
    /\ acts \subseteq CorporateAction /\ IsFiniteSet(acts)
    /\ \A a \in acts : a.exDate \in TradingDays

BarsOK(bars) == \A b \in bars : b.close \in Nat /\ b.day \in TradingDays

\* The latest of some days.
LEMMA LatestExists ==
    ASSUME NEW S, S \subseteq Days, S # {} PROVE \E m \in S : \A d \in S : d <= m
  <1> DEFINE Before == {p \in S \X S : p[1] > p[2]}
  <1>1. S \subseteq Nat /\ IsFiniteSet(S)
    <2>1. IsFiniteSet(1..LastDay)
      BY CalendarAssumption, FS_Interval
    <2> QED
      BY <2>1, DaysAreNat, FS_Subset DEF Days
  <1>2. \A x, y \in S : <<x, y>> \in Before <=> x > y
    OBVIOUS
  <1> HIDE DEF Before
  <1>3. \A x \in S : <<x, x>> \notin Before
    BY <1>1, <1>2
  <1>4. \A x, y, z \in S : <<x, y>> \in Before /\ <<y, z>> \in Before => <<x, z>> \in Before
    BY <1>1, <1>2
  <1>5. PICK m \in S : \A d \in S : <<d, m>> \notin Before
    BY <1>1, <1>3, <1>4, MinimumExists
  <1>6. ASSUME NEW d \in S PROVE d <= m
    <2>1. ~(d > m) /\ d \in Nat /\ m \in Nat
      BY <1>1, <1>2, <1>5
    <2> QED
      BY <2>1
  <1> QED
    BY <1>6

\* The bar before a day, if there is one, is of the bars.
LEMMA PreviousIsThere ==
    ASSUME NEW bars, BarsOK(bars), NEW day, BarsBefore(bars, day) # {}
    PROVE  PreviousBar(bars, day) \in bars
  <1> DEFINE S == {b.day : b \in BarsBefore(bars, day)}
  <1>1. S \subseteq Days /\ S # {}
    BY DaysAreNat DEF BarsOK, BarsBefore
  <1>2. PICK m \in S : \A d \in S : d <= m
    BY <1>1, LatestExists
  <1>3. PICK b \in BarsBefore(bars, day) : b.day = m
    OBVIOUS
  <1>4. \A c \in BarsBefore(bars, day) : c.day <= b.day
    BY <1>2, <1>3
  <1>5. PreviousBar(bars, day) \in BarsBefore(bars, day)
    BY <1>4 DEF PreviousBar
  <1> QED
    BY <1>5 DEF BarsBefore

\* The actions within the bars are actions, with dates of trading days.
LEMMA WithinAreActions ==
    ASSUME NEW acts, ActionsOK(acts), NEW bars
    PROVE  /\ ActionsWithin(bars, acts) \subseteq acts /\ ExDates(ActionsWithin(bars, acts)) \subseteq TradingDays
           /\ \A d : OnDay(ActionsWithin(bars, acts), d) \subseteq acts
  BY DEF ActionsOK, ActionsWithin, ActionsBetween, ExDates, OnDay

\* What a day's actions do to the price is a positive fraction.
LEMMA CoefficientIsFraction ==
    ASSUME NEW acts, ActionsOK(acts), NEW bars, BarsOK(bars), MayAdjustBars(bars, acts),
           NEW d \in ExDates(ActionsWithin(bars, acts))
    PROVE  CoefficientOn(bars, ActionsWithin(bars, acts), d) \in Fractions
  <1> DEFINE day == OnDay(ActionsWithin(bars, acts), d)
             close == PreviousBar(bars, d).close
             priced == {a \in day : a.price # Missing}
             cash == SumFunction([a \in day |-> a.cash])
             paid == SumFunction([a \in priced |-> a.rights * a.price])
             splits == ProductOf([a \in day |-> a.split])
             bonus == SumFunction([a \in day |-> a.bonus])
             rights == SumFunction([a \in day |-> a.rights])
  <1>1. BarsBefore(bars, d) # {} /\ MayAdjustFrom(day, close)
    BY DEF MayAdjustBars
  <1>2. close \in Nat
    BY <1>1, PreviousIsThere DEF BarsOK
  <1>3. day \subseteq CorporateAction /\ IsFiniteSet(day)
    BY WithinAreActions, FS_Subset DEF ActionsOK
  <1>4. \A a \in day : a.cash \in Nat /\ a.bonus \in Nat /\ a.rights \in Nat /\ a.split \in Nat \ {0}
    BY <1>3 DEF CorporateAction
  <1>5. \A a \in priced : a.rights * a.price \in Nat
    <2>1. \A a \in priced : a.rights \in Nat /\ a.price \in Nat
      BY <1>3 DEF CorporateAction
    <2>2. \A m, n \in Nat : m * n \in Nat
      OBVIOUS
    <2> QED
      BY <2>1, <2>2
  <1>6. IsFiniteSet(priced)
    BY <1>3, FS_Subset
  <1> HIDE DEF day, close
  <1>7. cash \in Nat /\ bonus \in Nat /\ rights \in Nat
    BY <1>3, <1>4, SumIsNatural
  <1>8. splits \in Nat \ {0}
    BY <1>3, <1>4, ProductIsPositive
  <1>9. paid \in Nat
    <2> HIDE DEF priced
    <2> QED
      BY <1>5, <1>6, SumIsNatural
  <1>10. close > 0 /\ TheoreticalValue(day, close) > 0 /\ TheoreticalValue(day, close) = close - cash + paid
    BY <1>1 DEF MayAdjustFrom, TheoreticalValue
  <1>11. ShareMultiple(day) = splits * (1 + bonus) + rights
    BY DEF ShareMultiple
  <1> HIDE DEF cash, paid, splits, bonus, rights
  <1>12. TheoreticalValue(day, close) \in Nat \ {0}
    BY <1>2, <1>7, <1>9, <1>10
  <1>13. ShareMultiple(day) \in Nat \ {0}
    <2>1. splits * (1 + bonus) \in Nat \ {0}
      <3>1. \A m, n \in Nat \ {0} : m * n \in Nat \ {0}
        OBVIOUS
      <3>2. 1 + bonus \in Nat \ {0}
        BY <1>7
      <3> QED
        BY <1>8, <3>1, <3>2
    <2> QED
      BY <1>7, <1>11, <2>1
  <1>14. ShareMultiple(day) * close \in Nat \ {0}
    <2>1. \A m, n \in Nat \ {0} : m * n \in Nat \ {0}
      OBVIOUS
    <2> QED
      BY <1>2, <1>10, <1>13, <2>1
  <1> QED
    BY <1>12, <1>14 DEF CoefficientOn, EventCoefficient, Fractions, day, close

Coefficient(bars, acts, d) == CoefficientOn(bars, ActionsWithin(bars, acts), d)

Events(bars, acts) == ExDates(ActionsWithin(bars, acts))

EventOn(bars, acts, mode, d) ==
    IF mode = "forward" THEN Coefficient(bars, acts, d) ELSE Inverted(Coefficient(bars, acts, d))

NextFactor(bars, acts, mode, day, d, f) ==
    IF d \in EventDates(Events(bars, acts), mode, day) THEN Times(EventOn(bars, acts, mode, d), f) ELSE f

\* f[d] is the factor of the events up to day d.
AreFactors(f, bars, acts, mode, day) ==
    f = [d \in 0..LastDay |-> IF d = 0 THEN Whole ELSE NextFactor(bars, acts, mode, day, d, f[d - 1])]

IsFactor(f, bars, acts, mode, day) ==
    /\ f \in [0..LastDay -> Fractions] /\ f[0] = Whole
    /\ \A d \in 1..LastDay : f[d] = NextFactor(bars, acts, mode, day, d, f[d - 1])

\* Fractions are closed under product and inverse.
LEMMA FractionsMultiply ==
    ASSUME NEW x \in Fractions, NEW y \in Fractions PROVE Times(x, y) \in Fractions /\ Inverted(x) \in Fractions
  <1>1. \A m, n \in Nat \ {0} : m * n \in Nat \ {0}
    OBVIOUS
  <1> QED
    BY <1>1 DEF Times, Inverted, Fractions

\* The factor of a bar is where a pass over the days, in order, ends.
LEMMA FactorPass ==
    ASSUME NEW acts, ActionsOK(acts), NEW bars, BarsOK(bars), MayAdjustBars(bars, acts),
           NEW mode, NEW day
    PROVE  \E f : IsFactor(f, bars, acts, mode, day) /\ FactorForBar(bars, acts, mode, day) = f[LastDay]
  <1> DEFINE step == [d \in 1..LastDay |-> [x \in Fractions |-> NextFactor(bars, acts, mode, day, d, x)]]
             pass == CHOOSE f : AreFactors(f, bars, acts, mode, day)
  <1>1. LastDay \in Nat /\ \A d \in 0..LastDay : d # 0 => d \in 1..LastDay /\ d - 1 \in 0..LastDay
    BY CalendarAssumption
  <1>2. Whole \in Fractions
    BY DEF Whole, Fractions
  <1>3. \A d \in 1..LastDay, x \in Fractions : NextFactor(bars, acts, mode, day, d, x) \in Fractions
    <2> SUFFICES ASSUME NEW d \in 1..LastDay, NEW x \in Fractions, d \in EventDates(Events(bars, acts), mode, day)
                 PROVE  Times(EventOn(bars, acts, mode, d), x) \in Fractions
      BY DEF NextFactor
    <2>1. d \in ExDates(ActionsWithin(bars, acts))
      BY DEF EventDates, Events
    <2>2. Coefficient(bars, acts, d) \in Fractions
      BY <2>1, CoefficientIsFraction DEF Coefficient
    <2>3. EventOn(bars, acts, mode, d) \in Fractions
      BY <2>2, FractionsMultiply DEF EventOn
    <2> QED
      BY <2>3, FractionsMultiply
  <1>4. step \in [1..LastDay -> [Fractions -> Fractions]]
        /\ \A d \in 1..LastDay, x \in Fractions : step[d][x] = NextFactor(bars, acts, mode, day, d, x)
    BY <1>3
  <1> HIDE DEF step
  <1>5. PICK f : IsClimb(f, LastDay, Fractions, Whole, step)
    BY <1>1, <1>2, <1>4, RecursionExists
  <1>6. IsFactor(f, bars, acts, mode, day)
    BY <1>1, <1>4, <1>5 DEF IsClimb, IsFactor
  <1>7. AreFactors(f, bars, acts, mode, day)
    <2>1. \A d \in 0..LastDay : f[d] = IF d = 0 THEN Whole ELSE NextFactor(bars, acts, mode, day, d, f[d - 1])
      BY <1>1, <1>6 DEF IsFactor
    <2> QED
      BY <1>6, <2>1 DEF IsFactor, AreFactors
  <1>8. AreFactors(pass, bars, acts, mode, day)
    BY <1>7
  <1>9. FactorForBar(bars, acts, mode, day) = pass[LastDay]
    BY DEF FactorForBar, AreFactors, NextFactor, EventOn, Coefficient, Events
  <1> HIDE DEF pass
  <1>10. /\ DOMAIN pass = 0..LastDay
         /\ \A d \in 0..LastDay : pass[d] = IF d = 0 THEN Whole ELSE NextFactor(bars, acts, mode, day, d, pass[d - 1])
    BY <1>8 DEF AreFactors
  <1> DEFINE T == {d \in 0..LastDay : pass[d] = f[d]}
  <1>11. 0..LastDay \subseteq T
    <2>1. 0 \in T
      BY <1>1, <1>6, <1>10 DEF IsFactor
    <2>2. \A d \in 1..LastDay : d - 1 \in T => d \in T
      <3> SUFFICES ASSUME NEW d \in 1..LastDay, d - 1 \in T PROVE d \in T
        OBVIOUS
      <3>1. d \in 0..LastDay /\ d # 0
        BY <1>1
      <3> QED
        BY <1>6, <1>10, <3>1 DEF IsFactor
    <2> HIDE DEF T
    <2> QED
      BY <1>1, <2>1, <2>2, Climb
  <1>12. LastDay \in T
    BY <1>1, <1>11
  <1> QED
    BY <1>6, <1>9, <1>12

-----------------------------------------------------------------------------
(* The two modes                                                           *)

\* What two bars' factors in the two modes have in common.
ShowSameReturn(f, w, g, v) == SameFraction(Times(f, v), Times(g, w))

\* An event in both forward factors, in both backward ones, or in one of each,
\* leaves that as it is.
LEMMA EventsCancel ==
    ASSUME NEW f \in Fractions, NEW w \in Fractions, NEW g \in Fractions, NEW v \in Fractions,
           NEW k \in Fractions, ShowSameReturn(f, w, g, v)
    PROVE  /\ ShowSameReturn(Times(k, f), w, Times(k, g), v)
           /\ ShowSameReturn(f, Times(Inverted(k), w), g, Times(Inverted(k), v))
           /\ ShowSameReturn(Times(k, f), w, g, Times(Inverted(k), v))
           /\ ShowSameReturn(f, Times(Inverted(k), w), Times(k, g), v)
  <1> DEFINE L == (f.num * v.num) * (g.den * w.den)
             R == (g.num * w.num) * (f.den * v.den)
             q == k.num * k.den
  <1>1. L = R
    BY DEF ShowSameReturn, SameFraction, Times
  <1>2. ASSUME NEW a \in Nat, NEW b \in Nat, NEW c \in Nat, NEW d \in Nat, NEW m \in Nat, NEW n \in Nat
        PROVE  /\ ((m * a) * b) * ((n * c) * d) = (m * n) * ((a * b) * (c * d))
               /\ (a * (n * b)) * (c * (m * d)) = (m * n) * ((a * b) * (c * d))
               /\ ((m * a) * (n * b)) * (c * d) = (m * n) * ((a * b) * (c * d))
               /\ (a * b) * ((n * c) * (m * d)) = (m * n) * ((a * b) * (c * d))
    OBVIOUS
  <1>3. /\ f.num \in Nat /\ f.den \in Nat /\ w.num \in Nat /\ w.den \in Nat
        /\ g.num \in Nat /\ g.den \in Nat /\ v.num \in Nat /\ v.den \in Nat
        /\ k.num \in Nat /\ k.den \in Nat
    BY DEF Fractions
  <1>4. ShowSameReturn(Times(k, f), w, Times(k, g), v)
    <2>1. ((k.num * f.num) * v.num) * ((k.den * g.den) * w.den) = q * L
      BY ONLY <1>2, <1>3
    <2>2. ((k.num * g.num) * w.num) * ((k.den * f.den) * v.den) = q * R
      BY ONLY <1>2, <1>3
    <2> QED
      BY <1>1, <2>1, <2>2 DEF ShowSameReturn, SameFraction, Times
  <1>5. ShowSameReturn(f, Times(Inverted(k), w), g, Times(Inverted(k), v))
    <2>1. (f.num * (k.den * v.num)) * (g.den * (k.num * w.den)) = q * L
      BY ONLY <1>2, <1>3
    <2>2. (g.num * (k.den * w.num)) * (f.den * (k.num * v.den)) = q * R
      BY ONLY <1>2, <1>3
    <2> QED
      BY <1>1, <2>1, <2>2 DEF ShowSameReturn, SameFraction, Times, Inverted
  <1>6. ShowSameReturn(Times(k, f), w, g, Times(Inverted(k), v))
    <2>1. ((k.num * f.num) * (k.den * v.num)) * (g.den * w.den) = q * L
      BY ONLY <1>2, <1>3
    <2>2. (g.num * w.num) * ((k.den * f.den) * (k.num * v.den)) = q * R
      BY ONLY <1>2, <1>3
    <2> QED
      BY <1>1, <2>1, <2>2 DEF ShowSameReturn, SameFraction, Times, Inverted
  <1>7. ShowSameReturn(f, Times(Inverted(k), w), Times(k, g), v)
    <2>1. (f.num * v.num) * ((k.den * g.den) * (k.num * w.den)) = q * L
      BY ONLY <1>2, <1>3
    <2>2. ((k.num * g.num) * (k.den * w.num)) * (f.den * v.den) = q * R
      BY ONLY <1>2, <1>3
    <2> QED
      BY <1>1, <2>1, <2>2 DEF ShowSameReturn, SameFraction, Times, Inverted
  <1> QED
    BY <1>4, <1>5, <1>6, <1>7

\* The factors of any two days show the same return in both modes: a pass over
\* the days for all four factors, each event cancelling out.
LEMMA ModesAgreeOnDays ==
    ASSUME NEW acts, ActionsOK(acts), NEW bars, BarsOK(bars), MayAdjustBars(bars, acts),
           NEW x \in Nat, NEW y \in Nat
    PROVE  ShowSameReturn(FactorForBar(bars, acts, "forward", x), FactorForBar(bars, acts, "backward", x),
                          FactorForBar(bars, acts, "forward", y), FactorForBar(bars, acts, "backward", y))
  <1>1. PICK f : IsFactor(f, bars, acts, "forward", x) /\ FactorForBar(bars, acts, "forward", x) = f[LastDay]
    BY FactorPass
  <1>2. PICK w : IsFactor(w, bars, acts, "backward", x) /\ FactorForBar(bars, acts, "backward", x) = w[LastDay]
    BY FactorPass
  <1>3. PICK g : IsFactor(g, bars, acts, "forward", y) /\ FactorForBar(bars, acts, "forward", y) = g[LastDay]
    BY FactorPass
  <1>4. PICK v : IsFactor(v, bars, acts, "backward", y) /\ FactorForBar(bars, acts, "backward", y) = v[LastDay]
    BY FactorPass
  <1> DEFINE T == {d \in 0..LastDay : ShowSameReturn(f[d], w[d], g[d], v[d])}
  <1>5. LastDay \in Nat /\ LastDay \in 0..LastDay /\ 0 \in 0..LastDay
        /\ \A d \in 1..LastDay : d \in Nat /\ d \in 0..LastDay /\ d - 1 \in 0..LastDay
    BY CalendarAssumption
  <1>6. 0 \in T
    <2>1. ShowSameReturn(Whole, Whole, Whole, Whole)
      BY DEF ShowSameReturn, SameFraction
    <2> QED
      BY <1>1, <1>2, <1>3, <1>4, <1>5, <2>1 DEF IsFactor
  <1>7. ASSUME NEW d \in 1..LastDay, d - 1 \in T PROVE d \in T
    <2> DEFINE k == Coefficient(bars, acts, d)
               F == f[d - 1]
               W == w[d - 1]
               G == g[d - 1]
               V == v[d - 1]
               E == Events(bars, acts)
    <2>1. F \in Fractions /\ W \in Fractions /\ G \in Fractions /\ V \in Fractions
      BY <1>1, <1>2, <1>3, <1>4, <1>5 DEF IsFactor
    <2>2. ShowSameReturn(F, W, G, V)
      BY <1>7
    <2>3. /\ f[d] = IF d \in E /\ d > x THEN Times(k, F) ELSE F
          /\ w[d] = IF d \in E /\ d <= x THEN Times(Inverted(k), W) ELSE W
          /\ g[d] = IF d \in E /\ d > y THEN Times(k, G) ELSE G
          /\ v[d] = IF d \in E /\ d <= y THEN Times(Inverted(k), V) ELSE V
      BY <1>1, <1>2, <1>3, <1>4 DEF IsFactor, NextFactor, EventDates, EventOn
    <2>4. d \in E => k \in Fractions
      BY CoefficientIsFraction DEF Events, Coefficient
    <2>5. d > x <=> ~(d <= x)
      BY <1>5
    <2>6. d > y <=> ~(d <= y)
      BY <1>5
    <2> HIDE DEF k, F, W, G, V, E
    <2>7. ShowSameReturn(f[d], w[d], g[d], v[d])
      <3>1. CASE d \notin E
        BY <2>2, <2>3, <3>1
      <3>2. CASE d \in E /\ d > x /\ d > y
        BY <2>1, <2>2, <2>3, <2>4, <2>5, <2>6, <3>2, EventsCancel
      <3>3. CASE d \in E /\ d <= x /\ d <= y
        BY <2>1, <2>2, <2>3, <2>4, <2>5, <2>6, <3>3, EventsCancel
      <3>4. CASE d \in E /\ d > x /\ d <= y
        BY <2>1, <2>2, <2>3, <2>4, <2>5, <2>6, <3>4, EventsCancel
      <3>5. CASE d \in E /\ d <= x /\ d > y
        BY <2>1, <2>2, <2>3, <2>4, <2>5, <2>6, <3>5, EventsCancel
      <3> QED
        BY <2>5, <2>6, <3>1, <3>2, <3>3, <3>4, <3>5
    <2> QED
      BY <1>5, <2>7
  <1>8. 0..LastDay \subseteq T
    <2> HIDE DEF T
    <2> QED
      BY <1>5, <1>6, <1>7, Climb
  <1> QED
    BY <1>1, <1>2, <1>3, <1>4, <1>5, <1>8

-----------------------------------------------------------------------------
(* Where factors move                                                      *)

\* f[d] is the factor of the events up to day d, of those on the dates.
FactorOfDates(bars, acts, mode, dates) ==
    CHOOSE f : f = [d \in 0..LastDay |->
        IF d = 0 THEN Whole
        ELSE IF d \in dates THEN Times(EventOn(bars, acts, mode, d), f[d - 1]) ELSE f[d - 1]]

\* The same events make the same factor.
LEMMA SameEventsSameFactor ==
    ASSUME NEW acts, NEW bars, NEW mode, NEW x, NEW y,
           EventDates(Events(bars, acts), mode, x) = EventDates(Events(bars, acts), mode, y)
    PROVE  FactorForBar(bars, acts, mode, x) = FactorForBar(bars, acts, mode, y)
  <1>1. \A z : FactorForBar(bars, acts, mode, z)
                 = FactorOfDates(bars, acts, mode, EventDates(Events(bars, acts), mode, z))[LastDay]
    BY DEF FactorForBar, FactorOfDates, EventOn, Coefficient, Events
  <1> QED
    BY <1>1

\* So it is a positive fraction.
LEMMA FactorIsFraction ==
    ASSUME NEW acts, ActionsOK(acts), NEW bars, BarsOK(bars), MayAdjustBars(bars, acts), NEW mode, NEW day
    PROVE  FactorForBar(bars, acts, mode, day) \in Fractions
  <1>1. PICK f : IsFactor(f, bars, acts, mode, day) /\ FactorForBar(bars, acts, mode, day) = f[LastDay]
    BY FactorPass
  <1>2. LastDay \in 0..LastDay
    BY CalendarAssumption
  <1> QED
    BY <1>1, <1>2 DEF IsFactor

\* A fraction is the same as itself.
LEMMA FactorsAreSame == \A x : x \in Fractions => SameFraction(x, x)
  BY DEF SameFraction, Fractions

\* The bars of a dataset, each under its key, may be adjusted.
Adjustable(dataset, acts) ==
    /\ \A k \in DOMAIN dataset : /\ BarKey(dataset[k]) = k
                                 /\ dataset[k].close \in Nat /\ dataset[k].day \in TradingDays
    /\ ActionsOK(acts) /\ MayBuildAdjusted(dataset, acts)

\* What holds of the dataset holds of each of its series.
LEMMA SeriesIsAdjustable ==
    ASSUME NEW dataset, NEW acts, Adjustable(dataset, acts), NEW b \in Range(dataset)
    PROVE  LET bars == BarsOf(dataset, b.inst, b.provider)
           IN  BarsOK(bars) /\ MayAdjustBars(bars, acts) /\ ActionsOK(acts)
  <1> DEFINE bars == BarsOf(dataset, b.inst, b.provider)
             id == <<b.inst, b.provider>>
  <1>1. MayAdjustBars(bars, acts)
    <2>1. id \in Identities(dataset) /\ bars = BarsOf(dataset, id[1], id[2])
      BY DEF Identities
    <2> HIDE DEF id, bars
    <2> QED
      BY <2>1 DEF Adjustable, MayBuildAdjusted
  <1>2. BarsOK(bars)
    BY DEF BarsOK, BarsOf, Adjustable, Range
  <1> QED
    BY <1>1, <1>2 DEF Adjustable

\* Equal factors are no jump.
LEMMA SameIsNoJump ==
    ASSUME NEW x \in Fractions, NEW y \in Fractions, FactorJumps(x, y) PROVE ~SameFraction(x, y)
  <1> SUFFICES ASSUME SameFraction(x, y) PROVE FALSE
    OBVIOUS
  <1> DEFINE p == y.num * x.den
             q == x.num * y.den
             limit == MaxFactorJump * x.num * y.den
  <1>1. \A m, n \in Nat : m * n \in Nat
    OBVIOUS
  <1>2. p \in Nat /\ q \in Nat /\ limit \in Nat
    <2>1. x.num \in Nat /\ x.den \in Nat /\ y.num \in Nat /\ y.den \in Nat
      BY DEF Fractions
    <2>2. MaxFactorJump * x.num \in Nat
      BY <1>1, <2>1, RulesAssumption
    <2> HIDE DEF FactorJumps
    <2> QED
      BY <1>1, <2>1, <2>2
  <1>3. p = q /\ Distance(p, q) * 100 > limit
    BY DEF SameFraction, FactorJumps
  <1> HIDE DEF p, q, limit
  <1> QED
    BY <1>2, <1>3 DEF Distance

\* Where the factor moves from a bar to the next, an action is in between.
LEMMA MovesAreBetween ==
    ASSUME NEW dataset, NEW acts, Adjustable(dataset, acts), NEW b \in Range(dataset), NEW c \in Range(dataset),
           SameSeries(b, c), b.day < c.day, NEW mode,
           ~SameFraction(FactorForBar(BarsOf(dataset, b.inst, b.provider), acts, mode, b.day),
                         FactorForBar(BarsOf(dataset, c.inst, c.provider), acts, mode, c.day))
    PROVE  \E a \in acts : /\ a.inst = c.inst /\ a.provider = c.provider
                           /\ a.exDate \in TradingDays /\ b.day < a.exDate /\ a.exDate <= c.day
  <1> DEFINE bars == BarsOf(dataset, b.inst, b.provider)
             E == Events(bars, acts)
  <1>1. b.inst = c.inst /\ b.provider = c.provider
    BY DEF SameSeries
  <1>2. BarsOK(bars) /\ MayAdjustBars(bars, acts) /\ ActionsOK(acts)
    BY SeriesIsAdjustable
  <1>3. b.day \in Nat /\ c.day \in Nat
    BY DaysAreNat DEF Adjustable, Range
  <1>4. EventDates(E, mode, b.day) # EventDates(E, mode, c.day)
    <2> SUFFICES ASSUME EventDates(E, mode, b.day) = EventDates(E, mode, c.day) PROVE FALSE
      OBVIOUS
    <2>1. FactorForBar(bars, acts, mode, b.day) = FactorForBar(bars, acts, mode, c.day)
      BY SameEventsSameFactor
    <2>2. FactorForBar(bars, acts, mode, b.day) \in Fractions
      BY <1>2, FactorIsFraction
    <2> QED
      BY <1>1, <2>1, <2>2, FactorsAreSame
  <1>5. \A d \in E : d \in TradingDays /\ d \in Nat
    BY <1>2, WithinAreActions, DaysAreNat DEF Events
  <1>6. PICK d \in E : b.day < d /\ d <= c.day
    <2>1. PICK d \in E : ~(d \in EventDates(E, mode, b.day) <=> d \in EventDates(E, mode, c.day))
      BY <1>4 DEF EventDates
    <2>2. d \in Nat
      BY <1>5
    <2>3. b.day < d /\ d <= c.day
      BY <1>3, <2>1, <2>2 DEF EventDates
    <2> QED
      BY <2>3
  <1>7. PICK a \in ActionsWithin(bars, acts) : a.exDate = d
    BY DEF Events, ExDates
  <1>8. a \in acts /\ a.inst = c.inst /\ a.provider = c.provider
    <2>1. b \in bars
      BY DEF BarsOf
    <2>2. (CHOOSE z \in bars : TRUE) \in bars
      BY <2>1
    <2> QED
      BY <1>1, <2>2 DEF ActionsWithin, ActionsBetween, BarsOf
  <1> QED
    BY <1>5, <1>6, <1>7, <1>8

\* In a series without a gap it is on the day of the second bar.
LEMMA MovesAreOnTheDay ==
    ASSUME NEW dataset, NEW acts, Adjustable(dataset, acts), ~HasGap(Range(dataset)),
           NEW b \in Range(dataset), NEW c \in Range(dataset), <<b, c>> \in Neighbours(Range(dataset)), NEW mode,
           ~SameFraction(FactorForBar(BarsOf(dataset, b.inst, b.provider), acts, mode, b.day),
                         FactorForBar(BarsOf(dataset, c.inst, c.provider), acts, mode, c.day))
    PROVE  \E a \in acts : a.inst = c.inst /\ a.provider = c.provider /\ a.exDate = c.day
  <1>1. /\ SameSeries(b, c) /\ b.day < c.day
        /\ \A z \in Range(dataset) : SameSeries(b, z) => z.day <= b.day \/ c.day <= z.day
    BY DEF Neighbours
  <1>2. PICK a \in acts : /\ a.inst = c.inst /\ a.provider = c.provider
                          /\ a.exDate \in TradingDays /\ b.day < a.exDate /\ a.exDate <= c.day
    BY <1>1, MovesAreBetween
  <1>3. \A z \in Range(dataset) : z.day \in Nat
    BY DaysAreNat DEF Adjustable, Range
  <1>4. a.exDate \in Nat
    BY <1>2, DaysAreNat
  <1>5. ASSUME a.exDate < c.day PROVE FALSE
    <2>1. PICK z \in Range(dataset) : SameSeries(b, z) /\ z.day = a.exDate
      BY <1>1, <1>2, <1>5 DEF HasGap
    <2> QED
      BY <1>1, <1>2, <1>3, <1>4, <1>5, <2>1
  <1> QED
    BY <1>2, <1>3, <1>4, <1>5

\* What is built of a bar.
LEMMA BuiltOfBar ==
    ASSUME NEW dataset, NEW acts, Adjustable(dataset, acts), NEW b \in Range(dataset), NEW mode \in Modes
    PROVE  /\ AdjustedKey(b, mode) \in DOMAIN BuildAdjusted(dataset, acts)
           /\ BuildAdjusted(dataset, acts)[AdjustedKey(b, mode)].raw = b
           /\ BuildAdjusted(dataset, acts)[AdjustedKey(b, mode)].factor
                = FactorForBar(BarsOf(dataset, b.inst, b.provider), acts, mode, b.day)
  <1>1. dataset[BarKey(b)] = b
    BY DEF Adjustable, Range
  <1> QED
    BY <1>1 DEF BuildAdjusted, AdjustedKey, BarKey

\* The bars of a build are those of the dataset, in each mode.
LEMMA BuiltBars ==
    ASSUME NEW dataset, NEW acts, Adjustable(dataset, acts)
    PROVE  LET built == BuildAdjusted(dataset, acts) IN
           /\ {built[k].raw : k \in DOMAIN built} = Range(dataset)
           /\ \A mode \in Modes : {built[k].raw : k \in {key \in DOMAIN built : key[4] = mode}} = Range(dataset)
  <1> DEFINE built == BuildAdjusted(dataset, acts)
  <1>1. \A k \in DOMAIN built : \E b \in Range(dataset), m \in Modes : k = AdjustedKey(b, m)
    BY DEF BuildAdjusted
  <1>2. \A b \in Range(dataset), m \in Modes :
           AdjustedKey(b, m) \in DOMAIN built /\ built[AdjustedKey(b, m)].raw = b /\ AdjustedKey(b, m)[4] = m
    <2> TAKE b \in Range(dataset), m \in Modes
    <2>1. AdjustedKey(b, m)[4] = m
      BY DEF AdjustedKey
    <2>2. built[AdjustedKey(b, m)].raw = b
      BY BuiltOfBar
    <2>3. AdjustedKey(b, m) \in DOMAIN built
      BY BuiltOfBar
    <2> HIDE DEF built
    <2> QED
      BY <2>1, <2>2, <2>3
  <1>3. "forward" \in Modes
    BY DEF Modes
  <1> HIDE DEF built
  <1>4. {built[k].raw : k \in DOMAIN built} = Range(dataset)
    BY <1>1, <1>2, <1>3
  <1>5. ASSUME NEW mode \in Modes
        PROVE  {built[k].raw : k \in {key \in DOMAIN built : key[4] = mode}} = Range(dataset)
    BY <1>1, <1>2
  <1> QED
    BY <1>4, <1>5 DEF built

-----------------------------------------------------------------------------
(* What the store holds                                                    *)

BarsKeyed(dataset) ==
    \A k \in DOMAIN dataset : /\ BarKey(dataset[k]) = k
                              /\ dataset[k].close \in Nat /\ dataset[k].day \in TradingDays

PublishedOK ==
    /\ BarsKeyed(published) /\ DOMAIN published \subseteq DOMAIN raw
    /\ published # Nothing => ~HasGap(Range(published))

\* However often they were built, the adjusted bars are those of one build.
AdjustedOK ==
    adjusted # Nothing =>
        \E dataset, acts : /\ Adjustable(dataset, acts) /\ DOMAIN dataset \subseteq DOMAIN published
                           /\ adjusted = BuildAdjusted(dataset, acts)

StoreOK ==
    /\ BarsKeyed(raw) /\ PublishedOK /\ ActionsOK(actions) /\ AdjustedOK

\* Bars that are let in are kept under their keys.
LEMMA IngestedAreKeyed ==
    ASSUME TimeOK, BarsKeyed(raw), NEW answers \in Answers, SyncBars(answers)
    PROVE  BarsKeyed(raw') /\ DOMAIN raw \subseteq DOMAIN raw'
  <1> DEFINE p == Select(answers, now).selected
             batch == answers[p].records
             new == BarsByKey(batch)
  <1>1. Select(answers, now).status = "selected" /\ IngestBars(batch)
    BY DEF SyncBars
  <1>2. p \in DOMAIN answers /\ Attempt(p, answers, now) = "selected"
    BY <1>1, SelectedIsFirst
  <1>3. ~answers[p].fails
    <2>1. IsUsable(answers[p], now)
      BY <1>2 DEF Attempt
    <2> QED
      BY <2>1 DEF IsUsable
  <1>4. \A r \in Range(batch) : {r.low, r.close} \subseteq Nat \cup {Missing}
    BY <1>2, <1>3, AnswersAreBatches
  <1> HIDE DEF p
  <1>5. AcceptsBars(batch) /\ raw' = MergeIncremental(raw, new)
    BY <1>1 DEF IngestBars
  <1> HIDE DEF batch
  <1>6. ASSUME NEW r \in Range(batch) PROVE r.close \in Nat /\ r.day \in TradingDays
    <2>1. r.low \in Nat \cup {-1} /\ r.close \in Nat \cup {-1}
      BY <1>4 DEF Missing
    <2>2. 0 <= r.low /\ r.low <= r.close
      BY <1>5 DEF AcceptsBars, ValidBar, OrderedPrices
    <2>3. r.day \in TradingDays
      BY <1>5 DEF AcceptsBars
    <2> QED
      BY <2>1, <2>2, <2>3
  <1>7. \A k \in DOMAIN new : new[k] \in Range(batch) /\ BarKey(new[k]) = k
    BY DEF BarsByKey, Keyed
  <1> HIDE DEF new
  <1>8. DOMAIN raw' = DOMAIN raw \cup DOMAIN new
        /\ \A k \in DOMAIN raw' : raw'[k] = IF k \in DOMAIN new THEN new[k] ELSE raw[k]
    BY <1>5 DEF MergeIncremental
  <1> QED
    BY <1>6, <1>7, <1>8 DEF BarsKeyed

\* Bars that pass the gate have no gap.
LEMMA PassedHasNoGap ==
    ASSUME NEW bars, PublicationStatus(BarsStatus(bars)) = "published" PROVE ~HasGap(bars)
  <1>1. BarsStatus(bars) = "passed"
    <2>1. BarsStatus(bars) \in {"passed", "warning", "quarantine", "blocking"}
      BY DEF BarsStatus, QualityStatus
    <2> QED
      BY <2>1 DEF PublicationStatus
  <1>2. QuarantineIssues(bars) = {}
    BY <1>1 DEF BarsStatus, QualityStatus
  <1> QED
    BY <1>2 DEF QuarantineIssues

\* A published list is a finite set of actions on trading days.
LEMMA PublishedListIsOK ==
    ASSUME NEW list \in ActionLists, AcceptsActions(list) PROVE ActionsOK(Range(list))
  <1>1. list \in Seq(CorporateAction)
    BY ListsAreActions
  <1>2. Range(list) \subseteq CorporateAction
    BY <1>1 DEF Range
  <1>3. IsFiniteSet(Range(list))
    <2>1. DOMAIN list = 1..Len(list) /\ Len(list) \in Nat
      BY <1>1
    <2>2. IsFiniteSet(DOMAIN list)
      BY <2>1, FS_Interval
    <2>3. list \in Surjection(DOMAIN list, Range(list))
      BY <1>1 DEF Surjection, Range
    <2> QED
      BY <2>2, <2>3, FS_Surjection
  <1>4. \A a \in Range(list) : a.exDate \in TradingDays
    BY DEF AcceptsActions
  <1> QED
    BY <1>2, <1>3, <1>4 DEF ActionsOK

\* A build takes the place of the one before.
LEMMA BuildReplaces ==
    ASSUME StoreOK, BuildFromAll PROVE adjusted' = BuildAdjusted(published, actions)
  <1> DEFINE built == BuildAdjusted(published, actions)
  <1>1. adjusted' = MergeIncremental(adjusted, built)
    BY DEF BuildFromAll
  <1>2. DOMAIN adjusted \subseteq DOMAIN built
    <2>1. CASE adjusted = Nothing
      BY <2>1 DEF Nothing
    <2>2. CASE adjusted # Nothing
      <3>1. PICK dataset, acts : /\ Adjustable(dataset, acts) /\ DOMAIN dataset \subseteq DOMAIN published
                                 /\ adjusted = BuildAdjusted(dataset, acts)
        BY <2>2 DEF StoreOK, AdjustedOK
      <3>2. ASSUME NEW k \in DOMAIN adjusted PROVE k \in DOMAIN built
        <4>1. PICK b \in Range(dataset), m \in Modes : k = AdjustedKey(b, m)
          BY <3>1 DEF BuildAdjusted
        <4>2. BarKey(b) \in DOMAIN published
          BY <3>1 DEF Adjustable, Range
        <4>3. published[BarKey(b)] \in Range(published) /\ BarKey(published[BarKey(b)]) = BarKey(b)
          BY <4>2 DEF StoreOK, PublishedOK, BarsKeyed, Range
        <4> DEFINE c == published[BarKey(b)]
        <4>4. AdjustedKey(c, m) = k
          <5> HIDE DEF c
          <5>1. BarKey(c) = BarKey(b)
            BY <4>3 DEF c
          <5> QED
            BY <4>1, <5>1 DEF AdjustedKey, BarKey
        <4> HIDE DEF c
        <4>5. c \in Range(published)
          BY <4>3 DEF c
        <4> QED
          BY <4>4, <4>5 DEF BuildAdjusted
      <3> QED
        BY <3>2
    <2> QED
      BY <2>1, <2>2
  <1>3. built = [k \in DOMAIN built |-> built[k]]
    BY DEF BuildAdjusted
  <1> HIDE DEF built
  <1>4. adjusted' = [k \in DOMAIN built |-> built[k]]
    BY <1>1, <1>2 DEF MergeIncremental
  <1> QED
    BY <1>3, <1>4 DEF built

\* Every step keeps what the store holds.
LEMMA StoreInductive == TimeOK /\ StoreOK /\ [StoreNext]_storeVars => StoreOK'
  <1> SUFFICES ASSUME TimeOK, StoreOK, [StoreNext]_storeVars PROVE StoreOK'
    OBVIOUS
  <1> USE DEF StoreOK
  <1>1. ASSUME UNCHANGED <<raw, published, actions, adjusted>> PROVE StoreOK'
    BY <1>1 DEF BarsKeyed, PublishedOK, ActionsOK, AdjustedOK
  <1>2. ASSUME NEW a \in Answers, SyncBars(a) PROVE StoreOK'
    <2>1. BarsKeyed(raw') /\ DOMAIN raw \subseteq DOMAIN raw'
      BY <1>2, IngestedAreKeyed
    <2>2. UNCHANGED <<published, actions, adjusted>>
      BY <1>2 DEF SyncBars, IngestBars
    <2>3. PublishedOK'
      BY <2>1, <2>2 DEF PublishedOK, BarsKeyed
    <2>4. AdjustedOK'
      BY <2>2 DEF AdjustedOK
    <2>5. ActionsOK(actions')
      BY <2>2
    <2>6. BarsKeyed(raw)'
      BY <2>1 DEF BarsKeyed
    <2> QED
      BY <2>3, <2>4, <2>5, <2>6
  <1>3. ASSUME PublishBars PROVE StoreOK'
    <2>1. published' = raw /\ UNCHANGED <<raw, actions, adjusted>>
          /\ PublicationStatus(BarsStatus(Range(raw))) = "published"
      BY <1>3 DEF PublishBars
    <2>2. ~HasGap(Range(raw))
      BY <2>1, PassedHasNoGap
    <2>3. PublishedOK'
      BY <2>1, <2>2 DEF PublishedOK, BarsKeyed
    <2>4. AdjustedOK'
      BY <2>1 DEF AdjustedOK, PublishedOK
    <2>5. ActionsOK(actions') /\ BarsKeyed(raw)'
      BY <2>1 DEF BarsKeyed
    <2> QED
      BY <2>3, <2>4, <2>5
  <1>4. ASSUME NEW l \in ActionLists, PublishActions(l) PROVE StoreOK'
    <2>1. actions' = Range(l) /\ AcceptsActions(l) /\ UNCHANGED <<raw, published, adjusted>>
      BY <1>4 DEF PublishActions
    <2>2. ActionsOK(actions')
      BY <2>1, PublishedListIsOK
    <2>3. PublishedOK' /\ AdjustedOK' /\ BarsKeyed(raw)'
      BY <2>1 DEF PublishedOK, AdjustedOK, BarsKeyed
    <2> QED
      BY <2>2, <2>3
  <1>5. ASSUME BuildFromAll PROVE StoreOK'
    <2>1. adjusted' = BuildAdjusted(published, actions)
      BY <1>5, BuildReplaces
    <2>2. UNCHANGED <<raw, published, actions>> /\ MayBuildAdjusted(published, actions)
      BY <1>5 DEF BuildFromAll
    <2>3. Adjustable(published, actions)
      BY <2>2 DEF PublishedOK, BarsKeyed, Adjustable
    <2>4. AdjustedOK'
      BY <2>1, <2>2, <2>3 DEF AdjustedOK
    <2>5. PublishedOK' /\ ActionsOK(actions') /\ BarsKeyed(raw)'
      BY <2>2 DEF PublishedOK, BarsKeyed
    <2> QED
      BY <2>4, <2>5
  <1>6. CASE UNCHANGED storeVars
    BY <1>1, <1>6 DEF storeVars
  <1>7. ASSUME NEW d \in Declarations, Register(d) PROVE StoreOK'
    BY <1>1, <1>7 DEF Register
  <1>8. ASSUME NEW row \in FundamentalRows, IngestFundamentals(row) PROVE StoreOK'
    BY <1>1, <1>8 DEF IngestFundamentals
  <1>9. ASSUME Tick PROVE StoreOK'
    BY <1>1, <1>9 DEF Tick
  <1> HIDE DEF StoreOK
  <1> QED
    BY <1>2, <1>3, <1>4, <1>5, <1>6, <1>7, <1>8, <1>9 DEF StoreNext

\* What the store holds, in every state.
LEMMA StoreAlwaysOK == StoreSpec => []StoreOK
  <1>1. StoreInit => StoreOK
    <2> SUFFICES ASSUME StoreInit PROVE StoreOK
      OBVIOUS
    <2>1. raw = <<>> /\ published = <<>> /\ actions = {} /\ adjusted = <<>>
      BY DEF StoreInit, Nothing
    <2>2. DOMAIN <<>> = {}
      OBVIOUS
    <2>3. IsFiniteSet({})
      BY FS_EmptySet
    <2> QED
      BY <2>1, <2>2, <2>3 DEF StoreOK, BarsKeyed, PublishedOK, ActionsOK, AdjustedOK, Nothing
  <1> QED
    BY <1>1, StoreInductive, TimeAlwaysOK, PTL DEF StoreSpec

\* From each bar to the next, forward and backward adjusted prices show the
\* same return: all adjusted bars are of one build, and in a build every event
\* is in the forward factor or in the inverse of the backward one, never in
\* both (AdjustedDailyBarsDataset.from_raw_bars and _factor_for_bar).
THEOREM ModesAlwaysAgree == StoreSpec => []ModesAgree
  <1>1. StoreOK => ModesAgree
    <2> SUFFICES ASSUME StoreOK, NEW pair \in Neighbours(AdjustedBars)
                 PROVE  SameFraction(
                            Times(Factor(pair[1], "forward"), Factor(pair[2], "backward")),
                            Times(Factor(pair[2], "forward"), Factor(pair[1], "backward")))
      BY DEF ModesAgree
    <2>1. pair[1] \in AdjustedBars /\ pair[2] \in AdjustedBars /\ SameSeries(pair[1], pair[2])
      BY DEF Neighbours
    <2>2. adjusted # Nothing
      BY <2>1 DEF AdjustedBars, Nothing
    <2>3. PICK dataset, acts : Adjustable(dataset, acts) /\ adjusted = BuildAdjusted(dataset, acts)
      BY <2>2 DEF StoreOK, AdjustedOK
    <2>4. AdjustedBars = Range(dataset)
      BY <2>3, BuiltBars DEF AdjustedBars
    <2> DEFINE b == pair[1]
               c == pair[2]
               bars == BarsOf(dataset, b.inst, b.provider)
    <2>5. b \in Range(dataset) /\ c \in Range(dataset)
      BY <2>1, <2>4
    <2>6. bars = BarsOf(dataset, c.inst, c.provider)
      BY <2>1 DEF SameSeries
    <2>7. b.day \in Nat /\ c.day \in Nat
      BY <2>3, <2>5, DaysAreNat DEF Adjustable, Range
    <2>8. BarsOK(bars) /\ MayAdjustBars(bars, acts) /\ ActionsOK(acts)
      BY <2>3, <2>5, SeriesIsAdjustable
    <2>9. \A m \in Modes : /\ Factor(b, m) = FactorForBar(bars, acts, m, b.day)
                           /\ Factor(c, m) = FactorForBar(bars, acts, m, c.day)
      <3> TAKE m \in Modes
      <3>1. Factor(b, m) = FactorForBar(BarsOf(dataset, b.inst, b.provider), acts, m, b.day)
        BY <2>3, <2>5, BuiltOfBar DEF Factor
      <3>2. Factor(c, m) = FactorForBar(BarsOf(dataset, c.inst, c.provider), acts, m, c.day)
        BY <2>3, <2>5, BuiltOfBar DEF Factor
      <3> HIDE DEF b, c
      <3> QED
        BY <2>6, <3>1, <3>2
    <2>10. "forward" \in Modes /\ "backward" \in Modes
      BY DEF Modes
    <2> HIDE DEF b, c, bars
    <2>11. ShowSameReturn(Factor(b, "forward"), Factor(b, "backward"), Factor(c, "forward"), Factor(c, "backward"))
      BY <2>7, <2>8, <2>9, <2>10, ModesAgreeOnDays
    <2> QED
      BY <2>11 DEF ShowSameReturn, b, c
  <1> QED
    BY <1>1, StoreAlwaysOK, PTL

\* Built from what has passed the gate, factors move only on a day of an event
\* of the series' own provider, since the gate lets no gap through, and the
\* gate of the adjusted bars never takes equal factors for a jump
\* (AdjustedDailyBarsDataset.from_raw_bars and AdjustmentFactorJumpRule).
THEOREM FactorsAlwaysMoveOnExDates == StoreSpec => []FactorsMoveOnExDates
  <1> DEFINE built == BuildAdjusted(published, actions)
             Move(b, c, m) == ~SameFraction(built[AdjustedKey(b, m)].factor, built[AdjustedKey(c, m)].factor)
             moves == {pair \in Neighbours(Range(published)) : \E m \in Modes : Move(pair[1], pair[2], m)}
  <1>1. ASSUME StoreOK, published # Nothing, MayBuildAdjusted(published, actions)
        PROVE  /\ \A pair \in moves : \E a \in actions :
                     a.inst = pair[2].inst /\ a.provider = pair[2].provider /\ a.exDate = pair[2].day
               /\ AdjustedStatus(built) # "passed" => moves # {}
    <2>1. Adjustable(published, actions) /\ ~HasGap(Range(published))
      BY <1>1 DEF StoreOK, PublishedOK, BarsKeyed, Adjustable
    <2>2. ASSUME NEW b \in Range(published), NEW m \in Modes
          PROVE  /\ built[AdjustedKey(b, m)].factor
                      = FactorForBar(BarsOf(published, b.inst, b.provider), actions, m, b.day)
                 /\ built[AdjustedKey(b, m)].factor \in Fractions
      <3> DEFINE bars == BarsOf(published, b.inst, b.provider)
      <3>1. BarsOK(bars) /\ MayAdjustBars(bars, actions) /\ ActionsOK(actions)
        BY <2>1, SeriesIsAdjustable
      <3>2. FactorForBar(bars, actions, m, b.day) \in Fractions
        BY <3>1, FactorIsFraction
      <3>3. built[AdjustedKey(b, m)].factor = FactorForBar(bars, actions, m, b.day)
        BY <2>1, BuiltOfBar
      <3> HIDE DEF built, bars
      <3> QED
        BY <3>2, <3>3 DEF bars
    <2>3. \A pair \in Neighbours(Range(published)) :
            /\ pair[1] \in Range(published) /\ pair[2] \in Range(published)
            /\ pair = <<pair[1], pair[2]>>
      BY DEF Neighbours
    <2>4. ASSUME NEW pair \in moves
          PROVE  \E a \in actions : a.inst = pair[2].inst /\ a.provider = pair[2].provider /\ a.exDate = pair[2].day
      <3>1. pair[1] \in Range(published) /\ pair[2] \in Range(published)
            /\ <<pair[1], pair[2]>> \in Neighbours(Range(published))
        BY <2>3
      <3>2. PICK m \in Modes : Move(pair[1], pair[2], m)
        OBVIOUS
      <3>3. /\ built[AdjustedKey(pair[1], m)].factor
                  = FactorForBar(BarsOf(published, pair[1].inst, pair[1].provider), actions, m, pair[1].day)
            /\ built[AdjustedKey(pair[2], m)].factor
                  = FactorForBar(BarsOf(published, pair[2].inst, pair[2].provider), actions, m, pair[2].day)
        BY <2>2, <3>1
      <3> HIDE DEF moves, built
      <3> QED
        BY <2>1, <3>1, <3>2, <3>3, MovesAreOnTheDay
    <2>5. ASSUME AdjustedStatus(built) # "passed" PROVE moves # {}
      <3>1. PICK m \in Modes : HasFactorJump(built, m)
        <4>1. {m \in Modes : HasFactorJump(built, m)} # {}
          BY <2>5 DEF AdjustedStatus, QualityStatus
        <4> QED
          BY <4>1
      <3>2. {built[k].raw : k \in {key \in DOMAIN built : key[4] = m}} = Range(published)
        BY <2>1, BuiltBars
      <3> HIDE DEF built
      <3>3. PICK pair \in Neighbours(Range(published)) :
                FactorJumps(built[AdjustedKey(pair[1], m)].factor, built[AdjustedKey(pair[2], m)].factor)
        BY <3>1, <3>2 DEF HasFactorJump
      <3>4. Move(pair[1], pair[2], m)
        BY <2>2, <2>3, <3>3, SameIsNoJump
      <3> QED
        BY <3>3, <3>4
    <2> QED
      BY <2>4, <2>5
  <1>2. StoreOK => FactorsMoveOnExDates
    BY <1>1 DEF FactorsMoveOnExDates
  <1> QED
    BY <1>2, StoreAlwaysOK, PTL

(***************************************************************************)
(* Signals                                                                 *)
(***************************************************************************)

\* The bars a signal is evaluated on, as a set.
Later(dataset, s) == {b \in BarsOf(dataset, s.inst, s.provider) : b.day > s.day}

EarlierIn(bars, b) == {c \in bars : c.day < b.day}

\* Finitely many bars of known closes, one a day.
IsForward(bars) ==
    /\ IsFiniteSet(bars)
    /\ \A b \in bars : b.day \in Int /\ b.close \in Nat
    /\ \A b, c \in bars : b.day = c.day => b = c

\* As many bars as there are come before none, one, two and so on.
LEMMA RanksAreTaken ==
    ASSUME NEW F, IsForward(F)
    PROVE  /\ Cardinality(F) \in Nat
           /\ \A b \in F : Cardinality(EarlierIn(F, b)) \in 0..(Cardinality(F) - 1)
           /\ \A b, c \in F : b.day < c.day
                 => Cardinality(EarlierIn(F, b)) < Cardinality(EarlierIn(F, c))
           /\ \A b, c \in F : Cardinality(EarlierIn(F, b)) = Cardinality(EarlierIn(F, c)) => b = c
           /\ \A k \in 0..(Cardinality(F) - 1) : \E b \in F : Cardinality(EarlierIn(F, b)) = k
  <1> DEFINE n == Cardinality(F)
             Rank(b) == Cardinality(EarlierIn(F, b))
  <1>1. n \in Nat /\ IsFiniteSet(F)
    BY FS_CardinalityType DEF IsForward
  <1>2. \A b \in F : b.day \in Int
    BY DEF IsForward
  <1>3. ASSUME NEW b \in F PROVE IsFiniteSet(EarlierIn(F, b)) /\ Rank(b) \in Nat /\ Rank(b) < n
    <2> DEFINE E == EarlierIn(F, b)
    <2>1. E \in SUBSET F /\ b \notin E
      BY <1>2 DEF EarlierIn
    <2>2. E # F
      BY <2>1
    <2> HIDE DEF E
    <2>3. IsFiniteSet(E) /\ Cardinality(E) <= n /\ Cardinality(E) # n
      BY <1>1, <2>1, <2>2, FS_Subset
    <2>4. Cardinality(E) \in Nat
      BY <2>3, FS_CardinalityType
    <2> QED
      BY <1>1, <2>3, <2>4 DEF E
  <1>4. ASSUME NEW b \in F, NEW c \in F, b.day < c.day PROVE Rank(b) < Rank(c)
    <2> DEFINE E == EarlierIn(F, b)
               G == EarlierIn(F, c)
    <2>1. E \in SUBSET G /\ b \in G /\ b \notin E
      BY <1>2, <1>4 DEF EarlierIn
    <2>2. IsFiniteSet(G) /\ Cardinality(G) \in Nat /\ Cardinality(E) \in Nat
      BY <1>3
    <2> HIDE DEF E, G
    <2>3. Cardinality(E) <= Cardinality(G) /\ Cardinality(E) # Cardinality(G)
      BY <2>1, <2>2, FS_Subset
    <2> QED
      BY <2>2, <2>3 DEF E, G
  <1> HIDE DEF Rank, n
  <1>5. \A b, c \in F : Rank(b) = Rank(c) => b = c
    <2> SUFFICES ASSUME NEW b \in F, NEW c \in F, b # c PROVE Rank(b) # Rank(c)
      OBVIOUS
    <2>1. b.day < c.day \/ c.day < b.day
      BY <1>2 DEF IsForward
    <2>2. Rank(b) \in Nat /\ Rank(c) \in Nat
      BY <1>3
    <2> QED
      BY <1>4, <2>1, <2>2
  <1>6. \A b \in F : Rank(b) \in 0..(n - 1)
    BY <1>1, <1>3
  <1>7. \A k \in 0..(n - 1) : \E b \in F : Rank(b) = k
    <2> DEFINE f == [b \in F |-> Rank(b)]
               T == 0..(n - 1)
    <2>1. f \in Injection(F, T)
      BY <1>5, <1>6 DEF Injection, IsInjective
    <2>2. IsFiniteSet(T) /\ Cardinality(T) = n
      BY <1>1, FS_Interval
    <2> HIDE DEF T, f
    <2>3. f \in Surjection(F, T)
      BY <2>1, <2>2, FS_Injection DEF n
    <2> QED
      BY <2>3 DEF Surjection, f, T
  <1> QED
    BY <1>1, <1>4, <1>5, <1>6, <1>7 DEF Rank, n

\* The bars of a dataset, each under its key, are one a day.
LEMMA LaterIsForward ==
    ASSUME NEW dataset, BarsKeyed(dataset), NEW s PROVE IsForward(Later(dataset, s))
  <1> DEFINE F == Later(dataset, s)
  <1>1. ASSUME NEW b \in F
        PROVE  /\ b.inst = s.inst /\ b.provider = s.provider /\ b.close \in Nat /\ b.day \in TradingDays
               /\ <<s.inst, b.day, s.provider>> \in DOMAIN dataset
               /\ b = dataset[<<s.inst, b.day, s.provider>>]
    <2>1. PICK k \in DOMAIN dataset : b = dataset[k]
      BY DEF Later, BarsOf, Range
    <2>2. b.inst = s.inst /\ b.provider = s.provider
      BY DEF Later, BarsOf
    <2> QED
      BY <2>1, <2>2 DEF BarsKeyed, BarKey
  <1>2. TradingDays \subseteq 1..LastDay /\ LastDay \in Nat
    BY CalendarAssumption DEF Days
  <1>3. IsFiniteSet(F)
    <2> DEFINE T == {b.day : b \in F}
               f == [d \in T |-> dataset[<<s.inst, d, s.provider>>]]
    <2>1. T \in SUBSET (1..LastDay)
      BY <1>1, <1>2
    <2>2. IsFiniteSet(1..LastDay)
      BY <1>2, FS_Interval
    <2>3. f \in Surjection(T, F)
      BY <1>1 DEF Surjection
    <2> HIDE DEF T, f, F
    <2>4. IsFiniteSet(T)
      BY <2>1, <2>2, FS_Subset
    <2> QED
      BY <2>3, <2>4, FS_Surjection
  <1> HIDE DEF F
  <1>4. \A b \in F : b.day \in Int
    <2>1. TradingDays \subseteq Int
      BY <1>2
    <2> QED
      BY <1>1, <2>1
  <1> QED
    BY <1>1, <1>3, <1>4 DEF IsForward, F

\* In ForwardBars each of these bars is where its day puts it.
LEMMA ForwardIsInOrder ==
    ASSUME NEW dataset, NEW s, IsForward(Later(dataset, s))
    PROVE  LET F == Later(dataset, s)
               f == ForwardBars(dataset, s)
           IN  /\ f \in Seq(F) /\ Len(f) = Cardinality(F)
               /\ \A n \in 1..Len(f) : f[n] \in F /\ Cardinality(EarlierIn(F, f[n])) = n - 1
               /\ \A b \in F, n \in 1..Len(f) : Cardinality(EarlierIn(F, b)) = n - 1 => f[n] = b
  <1> DEFINE F == Later(dataset, s)
             f == ForwardBars(dataset, s)
             size == Cardinality(F)
  <1>1. f = [n \in 1..size |-> CHOOSE b \in F : Cardinality(EarlierIn(F, b)) = n - 1]
    BY DEF ForwardBars, Later, EarlierIn
  <1> HIDE DEF F, f
  <1>2. size \in Nat
    BY RanksAreTaken DEF F
  <1>3. ASSUME NEW n \in 1..size PROVE f[n] \in F /\ Cardinality(EarlierIn(F, f[n])) = n - 1
    <2>1. n - 1 \in 0..(size - 1)
      BY <1>2
    <2>2. \E b \in F : Cardinality(EarlierIn(F, b)) = n - 1
      BY <2>1, RanksAreTaken DEF F
    <2>3. f[n] = CHOOSE b \in F : Cardinality(EarlierIn(F, b)) = n - 1
      BY <1>1
    <2> QED
      BY <2>2, <2>3
  <1>4. f \in Seq(F) /\ Len(f) = size
    <2> HIDE DEF size
    <2>1. f \in [1..size -> F]
      BY <1>1, <1>3
    <2> QED
      BY <1>2, <2>1
  <1>5. \A b, c \in F : Cardinality(EarlierIn(F, b)) = Cardinality(EarlierIn(F, c)) => b = c
    BY RanksAreTaken DEF F
  <1>6. \A b \in F, n \in 1..Len(f) : Cardinality(EarlierIn(F, b)) = n - 1 => f[n] = b
    BY <1>3, <1>4, <1>5
  <1> QED
    BY <1>3, <1>4, <1>6 DEF F, f

\* The two engines agree on all advice.
LEMMA StoreEnginesAgree == ASSUME StoreOK PROVE EvaluationsAgree
  <1> SUFFICES ASSUME NEW n \in DOMAIN Signals PROVE EnginesAgree(Signals[n], ForwardBars(raw, Signals[n]))
    BY DEF EvaluationsAgree
  <1> DEFINE s == Signals[n]
             F == Later(raw, s)
             f == ForwardBars(raw, s)
  <1>1. s.days \in Nat \ {0} /\ s.start \in Int
    BY SignalsAreDated DEF Range
  <1>2. IsForward(F)
    BY LaterIsForward DEF StoreOK
  <1>3. f \in Seq(F)
    BY <1>2, ForwardIsInOrder
  <1>4. \A b \in F : b.close # Missing
    BY <1>2 DEF IsForward, Missing
  <1> HIDE DEF s, F, f
  <1>5. EnginesAgree(s, f)
    BY <1>1, <1>3, <1>4, EnginesAlwaysAgree
  <1> QED
    BY <1>5 DEF s, f

-----------------------------------------------------------------------------
(* Evaluations stand                                                       *)

\* Bars that stay under their keys, and new ones: the first bars are the same
\* if none of the new ones is among them.
LEMMA WindowStands ==
    ASSUME NEW old, NEW new, BarsKeyed(old), BarsKeyed(new), DOMAIN old \subseteq DOMAIN new,
           NEW s, NEW days \in Nat, days <= Cardinality(Later(old, s)),
           \A b \in Later(new, s) : Cardinality(EarlierIn(Later(new, s), b)) < days => b \in Range(old)
    PROVE  /\ days <= Len(ForwardBars(new, s))
           /\ WindowBars(ForwardBars(new, s), days) = WindowBars(ForwardBars(old, s), days)
  <1> DEFINE F == Later(old, s)
             G == Later(new, s)
             f == ForwardBars(old, s)
             g == ForwardBars(new, s)
  <1>1. IsForward(F) /\ IsForward(G)
    BY LaterIsForward
  <1>2. ASSUME NEW b \in F PROVE \E c \in G : c.day = b.day
    <2>1. PICK k \in DOMAIN old : b = old[k]
      BY DEF Later, BarsOf, Range
    <2>2. BarKey(old[k]) = k /\ BarKey(new[k]) = k
      BY <2>1 DEF BarsKeyed
    <2>3. new[k].inst = b.inst /\ new[k].day = b.day /\ new[k].provider = b.provider
      BY <2>1, <2>2 DEF BarKey
    <2>4. new[k] \in Range(new)
      BY <2>1 DEF Range
    <2>5. b.inst = s.inst /\ b.provider = s.provider /\ b.day > s.day
      BY DEF Later, BarsOf
    <2>6. new[k] \in G
      BY <2>3, <2>4, <2>5 DEF Later, BarsOf
    <2> QED
      BY <2>3, <2>6
  <1>3. \A b \in G : b \in Range(old) => b \in F
    BY DEF Later, BarsOf
  <1>4. /\ f \in Seq(F) /\ Len(f) = Cardinality(F)
        /\ \A b \in F, n \in 1..Len(f) : Cardinality(EarlierIn(F, b)) = n - 1 => f[n] = b
    BY <1>1, ForwardIsInOrder
  <1>5. /\ g \in Seq(G) /\ Len(g) = Cardinality(G)
        /\ \A n \in 1..Len(g) : g[n] \in G /\ Cardinality(EarlierIn(G, g[n])) = n - 1
    BY <1>1, ForwardIsInOrder
  <1>6. /\ \A b, c \in G : b.day < c.day
              => Cardinality(EarlierIn(G, b)) < Cardinality(EarlierIn(G, c))
        /\ \A b \in G : Cardinality(EarlierIn(G, b)) \in 0..(Cardinality(G) - 1)
        /\ Cardinality(G) \in Nat /\ Cardinality(F) \in Nat
    BY <1>1, RanksAreTaken
  <1>7. \A b \in G : Cardinality(EarlierIn(G, b)) < days => b \in F
    BY <1>3
  <1>8. days <= Cardinality(F)
    OBVIOUS
  <1> HIDE DEF F, G, f, g
  <1>9. Cardinality(F) <= Cardinality(G)
    <2> DEFINE h == [b \in F |-> CHOOSE c \in G : c.day = b.day]
    <2>1. \A b \in F : h[b] \in G /\ h[b].day = b.day
      BY <1>2
    <2>2. \A b, c \in F : b.day = c.day => b = c
      BY <1>1 DEF IsForward
    <2>3. h \in Injection(F, G)
      <3>1. h \in [F -> G]
        BY <2>1
      <3>2. \A b, c \in F : h[b] = h[c] => b = c
        BY <2>1, <2>2
      <3> HIDE DEF h
      <3> QED
        BY <3>1, <3>2 DEF Injection, IsInjective
    <2> HIDE DEF h
    <2>4. IsFiniteSet(G)
      BY <1>1 DEF IsForward
    <2> QED
      BY <2>3, <2>4, FS_Injection
  <1>10. ASSUME NEW n \in 1..days PROVE f[n] = g[n]
    <2> DEFINE c == g[n]
    <2>1. n \in 1..Len(g) /\ n \in 1..Len(f)
      BY <1>4, <1>5, <1>6, <1>8, <1>9
    <2>2. c \in G /\ Cardinality(EarlierIn(G, c)) = n - 1
      BY <1>5, <2>1
    <2> HIDE DEF c
    <2>3. c \in F
      BY <1>7, <2>2
    <2>4. EarlierIn(G, c) = EarlierIn(F, c)
      <3>1. ASSUME NEW b \in G, b.day < c.day PROVE b \in F
        <4>1. Cardinality(EarlierIn(G, b)) < Cardinality(EarlierIn(G, c))
          BY <1>6, <2>2, <3>1
        <4>2. Cardinality(EarlierIn(G, b)) \in Nat
          BY <1>6
        <4>3. Cardinality(EarlierIn(G, b)) < days
          BY <2>2, <4>1, <4>2
        <4> QED
          BY <1>7, <4>3
      <3>2. ASSUME NEW b \in F, b.day < c.day PROVE b \in G
        <4>1. PICK d \in G : d.day = b.day
          BY <1>2
        <4>2. d \in F
          BY <3>1, <3>2, <4>1
        <4>3. d = b
          BY <1>1, <4>1, <4>2 DEF IsForward
        <4> QED
          BY <4>3
      <3> QED
        BY <3>1, <3>2 DEF EarlierIn
    <2>5. f[n] = c
      BY <1>4, <2>1, <2>2, <2>3, <2>4
    <2> QED
      BY <2>5 DEF c
  <1>11. days <= Len(g) /\ days <= Len(f)
    BY <1>4, <1>5, <1>6, <1>8, <1>9
  <1>12. SubSeq(g, 1, days) = SubSeq(f, 1, days)
    <2>1. \A n \in 1..days : n \in 1..Len(g) /\ n \in 1..Len(f)
      BY <1>4, <1>5, <1>6, <1>11
    <2>2. SubSeq(g, 1, days) = [n \in 1..days |-> g[n]]
      BY <1>5, <1>11
    <2>3. SubSeq(f, 1, days) = [n \in 1..days |-> f[n]]
      BY <1>4, <1>11
    <2> QED
      BY <1>10, <2>2, <2>3
  <1> QED
    BY <1>11, <1>12 DEF WindowBars, f, g

\* An evaluation depends on the window only, once there is one.
LEMMA EvaluationIsOfWindow ==
    ASSUME NEW s, NEW f, NEW g, s.start \in Int, s.days \in Nat, Len(f) \in Nat, Len(g) \in Nat,
           EvaluateSingle(s, f).status = "completed", s.days <= Len(g),
           WindowBars(f, s.days) = WindowBars(g, s.days)
    PROVE  EvaluateSingle(s, g) = EvaluateSingle(s, f)
  <1>1. ~(s.start <= 0) /\ s.start > 0 /\ ~(Len(f) < s.days)
    BY DEF EvaluateSingle, Unevaluated
  <1>2. ~(Len(g) < s.days)
    OBVIOUS
  <1> QED
    BY <1>1, <1>2 DEF EvaluateSingle

\* A batch that brings no bar of the days of an evaluation leaves it as it is.
LEMMA SyncStands ==
    ASSUME TimeOK, StoreOK, NEW answers \in Answers, SyncBars(answers) PROVE EvaluationsStand
  <1> SUFFICES ASSUME NEW n \in DOMAIN Signals,
                      Evaluations(raw)[n].status = "completed",
                      Evaluations(raw')[n] # Evaluations(raw)[n]
               PROVE  LET s == Signals[n]
                          bars == BarsOf(raw', s.inst, s.provider)
                          Between(b) == {c \in bars : s.day < c.day /\ c.day < b.day}
                      IN  \E b \in bars \ Range(raw) : s.day < b.day /\ Cardinality(Between(b)) < s.days
    BY DEF EvaluationsStand
  <1> DEFINE s == Signals[n]
             F == Later(raw, s)
             G == Later(raw', s)
             f == ForwardBars(raw, s)
             g == ForwardBars(raw', s)
  <1>1. BarsKeyed(raw) /\ BarsKeyed(raw') /\ DOMAIN raw \subseteq DOMAIN raw'
    BY IngestedAreKeyed DEF StoreOK
  <1>2. s.days \in Nat /\ s.start \in Int /\ s.day \in Int
    BY SignalsAreDated DEF Range
  <1>3. IsForward(F) /\ IsForward(G)
    BY <1>1, LaterIsForward
  <1>4. f \in Seq(F) /\ Len(f) = Cardinality(F) /\ g \in Seq(G)
    BY <1>3, ForwardIsInOrder
  <1>5. Evaluations(raw)[n] = EvaluateSingle(s, f) /\ Evaluations(raw')[n] = EvaluateSingle(s, g)
    BY DEF Evaluations
  <1>6. EvaluateSingle(s, f).status = "completed" /\ EvaluateSingle(s, g) # EvaluateSingle(s, f)
    BY <1>5
  <1> HIDE DEF F, G, f, g, s
  <1>7. s.days <= Cardinality(F)
    <2>1. ~(Len(f) < s.days)
      BY <1>2, <1>6 DEF EvaluateSingle, Unevaluated
    <2> QED
      BY <1>2, <1>4, <2>1
  <1>8. PICK b \in G : Cardinality(EarlierIn(G, b)) < s.days /\ b \notin Range(raw)
    <2> SUFFICES ASSUME \A b \in G : Cardinality(EarlierIn(G, b)) < s.days => b \in Range(raw)
                 PROVE  FALSE
      OBVIOUS
    <2>1. s.days <= Len(g) /\ WindowBars(g, s.days) = WindowBars(f, s.days)
      BY <1>1, <1>2, <1>7, WindowStands DEF F, G, f, g
    <2> QED
      BY <1>2, <1>4, <1>6, <2>1, EvaluationIsOfWindow
  <1>9. b \in BarsOf(raw', s.inst, s.provider) /\ s.day < b.day
    <2>1. b \in BarsOf(raw', s.inst, s.provider) /\ b.day > s.day
      BY DEF G, Later
    <2>2. b.day \in Int
      BY <1>3 DEF IsForward
    <2> QED
      BY <1>2, <2>1, <2>2
  <1>10. EarlierIn(G, b) = {c \in BarsOf(raw', s.inst, s.provider) : s.day < c.day /\ c.day < b.day}
    BY DEF EarlierIn, G, Later
  <1> QED
    BY <1>8, <1>9, <1>10 DEF s

-----------------------------------------------------------------------------
(* Summaries add up                                                        *)

\* The sizes of two parts of a finite set.
LEMMA PartsAdd ==
    ASSUME NEW S, IsFiniteSet(S), NEW A \in SUBSET S, NEW B \in SUBSET S, A \cap B = {}
    PROVE  /\ Cardinality(A \cup B) = Cardinality(A) + Cardinality(B)
           /\ Cardinality(A) \in Nat /\ Cardinality(B) \in Nat
           /\ IsFiniteSet(A) /\ IsFiniteSet(B) /\ IsFiniteSet(A \cup B)
  <1>1. IsFiniteSet(A) /\ IsFiniteSet(B)
    BY FS_Subset
  <1>2. Cardinality(A) \in Nat /\ Cardinality(B) \in Nat
    BY <1>1, FS_CardinalityType
  <1>3. Cardinality({}) = 0
    BY FS_EmptySet
  <1>4. IsFiniteSet(A \cup B) /\ Cardinality(A \cup B) = Cardinality(A) + Cardinality(B) - Cardinality(A \cap B)
    BY <1>1, FS_Union
  <1>5. Cardinality(A \cap B) = 0
    BY <1>3
  <1> QED
    BY <1>1, <1>2, <1>4, <1>5

\* How many of W a function maps to each of A, summed, is how many it maps into A.
LEMMA GroupsAddUp ==
    ASSUME NEW W, IsFiniteSet(W), NEW A, IsFiniteSet(A), NEW key
    PROVE  SumFunction([a \in A |-> Cardinality({n \in W : key[n] = a})])
              = Cardinality({n \in W : key[n] \in A})
  <1> DEFINE e == [a \in A |-> Cardinality({n \in W : key[n] = a})]
             f == CHOOSE f : IsSum(f, e)
             Into(s) == Cardinality({n \in W : key[n] \in s})
             Zero == {0}
             g == [s \in SUBSET A |-> IF f[s] = Into(s) THEN 0 ELSE 1]
  <1>1. SumFunction(e) = f[A]
    BY DEF SumFunction, SumFunctionOnSet, FoldFunctionOnSet, MapThenFoldSet, IsSum
  <1>2. \A a \in A : e[a] \in Nat
    <2> SUFFICES ASSUME NEW a \in A PROVE Cardinality({n \in W : key[n] = a}) \in Nat
      OBVIOUS
    <2> DEFINE V == {n \in W : key[n] = a}
    <2>1. V \in SUBSET W
      OBVIOUS
    <2> HIDE DEF V
    <2>2. Cardinality(V) \in Nat
      BY <2>1, FS_Subset, FS_CardinalityType
    <2> QED
      BY <2>2 DEF V
  <1>3. DOMAIN e = A /\ \A a \in A : e[a] = Cardinality({n \in W : key[n] = a})
    OBVIOUS
  <1> HIDE DEF e
  <1>4. IsSum(f, e)
    BY <1>2, <1>3, SumExists
  <1> HIDE DEF f
  <1>5. g[{}] \in Zero
    <2>1. f[{}] = 0
      BY <1>3, <1>4 DEF IsSum
    <2>2. {n \in W : key[n] \in {}} = {} /\ Cardinality({}) = 0
      BY FS_EmptySet
    <2> QED
      BY <2>1, <2>2
  <1>6. ASSUME NEW s \in SUBSET A, s # {} PROVE \E x \in s : g[s \ {x}] \in Zero => g[s] \in Zero
    <2> DEFINE x == CHOOSE y \in s : TRUE
               r == s \ {x}
               U == {n \in W : key[n] = x}
               V == {n \in W : key[n] \in r}
    <2>1. x \in s
      BY <1>6
    <2>2. f[s] = e[x] + f[r]
      BY <1>3, <1>4, <1>6 DEF IsSum
    <2>3. e[x] = Cardinality(U)
      BY <1>3, <2>1
    <2> HIDE DEF x
    <2>4. {n \in W : key[n] \in s} = U \cup V
      BY <2>1
    <2>5. U \in SUBSET W /\ V \in SUBSET W /\ U \cap V = {}
      OBVIOUS
    <2>6. Into(s) = Cardinality(U \cup V) /\ Into(r) = Cardinality(V)
      BY <2>4
    <2> HIDE DEF U, V, Into
    <2>7. Cardinality(U \cup V) = Cardinality(U) + Cardinality(V)
      BY <2>5, PartsAdd
    <2>8. f[r] = Into(r) => f[s] = Into(s)
      BY <2>2, <2>3, <2>6, <2>7
    <2>9. g[r] \in Zero => g[s] \in Zero
      BY <2>8
    <2> QED
      BY <2>1, <2>9
  <1> HIDE DEF g, Into, Zero
  <1>7. \A s \in SUBSET A : s # {} => \E x \in s : g[s \ {x}] \in Zero => g[s] \in Zero
    BY <1>6
  <1>8. \A s \in SUBSET A : g[s] \in Zero
    BY <1>5, <1>7, FoldIsTyped
  <1>9. g[A] \in Zero
    BY <1>8
  <1> QED
    BY <1>1, <1>9 DEF g, Into, e, Zero

\* What a completed evaluation of known closes says.
Decided(result) ==
    /\ result.position \in {"long", "cash"}
    /\ result.outcome \in {"win", "loss", "neutral"}

LEMMA CompletedIsDecided ==
    ASSUME NEW s, s.days \in Nat \ {0}, s.start \in Int, NEW Bars, NEW forward \in Seq(Bars),
           \A b \in Bars : b.close # Missing, EvaluateSingle(s, forward).status = "completed"
    PROVE  Decided(EvaluateSingle(s, forward))
  <1> DEFINE bars == WindowBars(forward, s.days)
             result == EvaluateSingle(s, forward)
             direction == DirectionExpected(s.advice)
  <1>1. s.start > 0 /\ ~(s.start <= 0) /\ ~(Len(forward) < s.days)
    BY DEF EvaluateSingle, Unevaluated
  <1>2. /\ Len(bars) = s.days
        /\ \A n \in 1..s.days : bars[n] = forward[n] /\ forward[n] \in Bars
    BY <1>1 DEF WindowBars
  <1> HIDE DEF bars
  <1>3. EndReturn(bars, s.start) = {Return(s.start, bars[s.days].close)}
    BY <1>2 DEF EndReturn
  <1>4. result.outcome = Outcome(Return(s.start, bars[s.days].close), direction)
    BY <1>1, <1>3 DEF EvaluateSingle, bars
  <1>5. result.position = PositionRecommended(s.advice)
    BY DEF EvaluateSingle, Unevaluated
  <1>6. direction \in {"up", "down", "not_down", "flat"}
    BY DEF DirectionExpected
  <1> HIDE DEF result, direction
  <1>7. \A return : Outcome(return, direction) \in {"win", "loss", "neutral"}
    BY <1>6 DEF Outcome
  <1>8. PositionRecommended(s.advice) \in {"long", "cash"}
    BY DEF PositionRecommended
  <1> QED
    BY <1>4, <1>5, <1>7, <1>8 DEF Decided, result

\* The summary of results that are decided when completed.
LEMMA SummariesAdd ==
    ASSUME NEW evaluated, IsFiniteSet(DOMAIN evaluated),
           \A n \in Completed(evaluated) : Decided(evaluated[n])
    PROVE  LET sum == Summary(evaluated)
           IN  /\ sum.long + sum.cash = sum.completed
               /\ sum.win + sum.loss + sum.neutral = sum.completed
               /\ \A o \in {"win", "loss", "neutral"} :
                     sum[o] = SumFunction([a \in DOMAIN sum.advice |-> sum.advice[a][o]])
  <1> DEFINE sum == Summary(evaluated)
             rows == Completed(evaluated)
             Of(o) == {n \in rows : evaluated[n].outcome = o}
             Is(p) == {n \in rows : evaluated[n].position = p}
  <1>1. IsFiniteSet(rows)
    <2>1. rows \in SUBSET DOMAIN evaluated
      BY DEF Completed
    <2> HIDE DEF rows
    <2> QED
      BY <2>1, FS_Subset
  <1>2. /\ sum.completed = Cardinality(rows)
        /\ sum.long = Cardinality(Is("long")) /\ sum.cash = Cardinality(Is("cash"))
        /\ sum["win"] = Cardinality(Of("win")) /\ sum["loss"] = Cardinality(Of("loss"))
        /\ sum["neutral"] = Cardinality(Of("neutral"))
        /\ sum.advice = AdviceBreakdown(evaluated, rows)
    BY DEF Summary, CountIf
  <1> HIDE DEF sum
  <1>3. sum.long + sum.cash = sum.completed
    <2> DEFINE A == Is("long")
               B == Is("cash")
    <2>1. A \in SUBSET rows /\ B \in SUBSET rows /\ A \cap B = {} /\ A \cup B = rows
      BY DEF Decided
    <2> HIDE DEF A, B, rows, Is
    <2>2. Cardinality(A \cup B) = Cardinality(A) + Cardinality(B)
      BY <1>1, <2>1, PartsAdd
    <2> QED
      BY <1>2, <2>1, <2>2 DEF A, B
  <1>4. sum.win + sum.loss + sum.neutral = sum.completed
    <2> DEFINE A == Of("win")
               B == Of("loss")
               C == Of("neutral")
    <2>1. /\ A \in SUBSET rows /\ B \in SUBSET rows /\ C \in SUBSET rows /\ A \cap B = {}
          /\ A \cup B \in SUBSET rows /\ (A \cup B) \cap C = {} /\ (A \cup B) \cup C = rows
      BY DEF Decided
    <2> DEFINE AB == A \cup B
    <2> HIDE DEF A, B, C, rows, Of
    <2>2. Cardinality(AB) = Cardinality(A) + Cardinality(B)
      BY <1>1, <2>1, PartsAdd
    <2>3. AB \in SUBSET rows /\ AB \cap C = {} /\ AB \cup C = rows
      BY <2>1
    <2> HIDE DEF AB
    <2>4. Cardinality(AB \cup C) = Cardinality(AB) + Cardinality(C)
      BY <1>1, <2>1, <2>3, PartsAdd
    <2> QED
      BY <1>2, <2>2, <2>3, <2>4 DEF A, B, C
  <1>5. ASSUME NEW o \in {"win", "loss", "neutral"}
        PROVE  sum[o] = SumFunction([a \in DOMAIN sum.advice |-> sum.advice[a][o]])
    <2> DEFINE D == Advised(evaluated, rows)
               key == [n \in rows |-> evaluated[n].advice]
               W == Of(o)
    <2>1. DOMAIN sum.advice = D
      BY <1>2 DEF AdviceBreakdown
    <2>2. ASSUME NEW a \in D PROVE sum.advice[a][o] = Cardinality({n \in W : key[n] = a})
      <3> DEFINE advised == {n \in rows : evaluated[n].advice = a}
      <3>1. /\ sum.advice[a]["win"] = Cardinality({n \in advised : evaluated[n].outcome = "win"})
            /\ sum.advice[a]["loss"] = Cardinality({n \in advised : evaluated[n].outcome = "loss"})
            /\ sum.advice[a]["neutral"] = Cardinality({n \in advised : evaluated[n].outcome = "neutral"})
        <4> HIDE DEF rows
        <4> QED
          BY <1>2, <2>2 DEF AdviceBreakdown, CountIf
      <3>2. {n \in advised : evaluated[n].outcome = o} = {n \in W : key[n] = a}
        OBVIOUS
      <3> QED
        BY <3>1, <3>2
    <2>3. sum[o] = Cardinality(W)
      BY <1>2
    <2>4. W \in SUBSET rows /\ {n \in W : key[n] \in D} = W
      BY DEF Advised
    <2>5. key \in Surjection(rows, D)
      BY DEF Surjection, Advised
    <2> HIDE DEF W, rows, D, key
    <2>6. IsFiniteSet(W) /\ IsFiniteSet(D)
      BY <1>1, <2>4, <2>5, FS_Subset, FS_Surjection
    <2>7. SumFunction([a \in D |-> Cardinality({n \in W : key[n] = a})]) = Cardinality({n \in W : key[n] \in D})
      BY <2>6, GroupsAddUp
    <2>8. [a \in DOMAIN sum.advice |-> sum.advice[a][o]] = [a \in D |-> Cardinality({n \in W : key[n] = a})]
      BY <2>1, <2>2
    <2> QED
      BY <2>3, <2>4, <2>7, <2>8
  <1> QED
    BY <1>3, <1>4, <1>5 DEF sum

LEMMA StoreSummaryAdds == ASSUME StoreOK PROVE SummaryAddsUp
  <1> DEFINE evaluated == Evaluations(raw)
  <1>1. DOMAIN evaluated = 1..Len(Signals) /\ Len(Signals) \in Nat
    BY SignalsAreDated DEF Evaluations
  <1>2. IsFiniteSet(DOMAIN evaluated)
    BY <1>1, FS_Interval
  <1>3. ASSUME NEW n \in Completed(evaluated) PROVE Decided(evaluated[n])
    <2> DEFINE s == Signals[n]
               F == Later(raw, s)
               f == ForwardBars(raw, s)
    <2>1. n \in DOMAIN Signals /\ evaluated[n] = EvaluateSingle(s, f) /\ evaluated[n].status = "completed"
      BY DEF Completed, Evaluations
    <2>2. s.days \in Nat \ {0} /\ s.start \in Int
      BY <2>1, SignalsAreDated DEF Range
    <2>3. IsForward(F)
      BY LaterIsForward DEF StoreOK
    <2>4. f \in Seq(F)
      BY <2>3, ForwardIsInOrder
    <2>5. \A b \in F : b.close # Missing
      BY <2>3 DEF IsForward, Missing
    <2> HIDE DEF s, F, f, evaluated
    <2> QED
      BY <2>1, <2>2, <2>4, <2>5, CompletedIsDecided
  <1> HIDE DEF evaluated
  <1> QED
    BY <1>2, <1>3, SummariesAdd DEF SummaryAddsUp, evaluated

\* A completed evaluation is of the days right after the advice and stands until
\* a bar of these days comes in; the engines agree and summaries add up
\* (evaluate_single, evaluate_decision_signal and compute_summary).
THEOREM SignalsAlwaysStand == StoreSpec => SignalsStand
  <1>1. StoreOK => EvaluationsAgree /\ SummaryAddsUp
    BY StoreEnginesAgree, StoreSummaryAdds
  <1>2. TimeOK /\ StoreOK /\ [StoreNext]_storeVars => [raw' # raw => EvaluationsStand]_storeVars
    <2> SUFFICES ASSUME TimeOK, StoreOK, [StoreNext]_storeVars, raw' # raw PROVE EvaluationsStand
      OBVIOUS
    <2>1. \E a \in Answers : SyncBars(a)
      BY DEF StoreNext, storeVars, Register, PublishBars, PublishActions, BuildFromAll,
             IngestFundamentals, Tick
    <2> QED
      BY <2>1, SyncStands
  <1> QED
    BY <1>1, <1>2, StoreAlwaysOK, TimeAlwaysOK, PTL DEF StoreSpec, SignalsStand
=============================================================================
