-------------------------- MODULE FormalBacktestProofs --------------------------
(***************************************************************************)
(* The safety properties of FormalBacktest for any requests, run ids and   *)
(* keys, whatever the reports say and however many checkpoints fail; and   *)
(* that of BacktestEvidence for any samples, scenarios, bundles and stages *)
(* the reports are made of.                                                *)
(***************************************************************************)
EXTENDS BacktestEvidence, FiniteSetTheorems, WellFoundedInduction, TLAPS

\* The API shows the executions the supervisor decides by.
ApiIsCurrent == api = execution

\* A key stands for one accepted request.
KeysAreUnique == \A p, q \in index : KeyOf[p] = KeyOf[q] => p = q

\* Every run executes an accepted request that named it.
RunsAreAccepted ==
    \A r \in Runs : execution[r].status # "absent" =>
        execution[r].request \in index /\ RunOf[execution[r].request] = r

\* Tasks, processes and final records are those of accepted requests.
TasksAreAccepted == \A k \in Keys : task[k] # <<>> => \E q \in index : KeyOf[q] = k
ChildrenAreAccepted == \A q \in Requests : child[q] # "none" => q \in index
FinalsAreAccepted == \A f \in final : f.request \in index

ResultsAreFinal == \A r \in Runs : execution[r].result \subseteq final

FinalsAreEarned == \A f \in final : Earned(f)

\* Before an execution succeeds there is no record under its key but one whose
\* checkpoint could not be published.
NoEarlyRecord ==
    \A r \in Runs :
        execution[r].status \notin {"absent", "succeeded"} =>
            \A f \in ByKey(KeyOf[execution[r].request]) : f.request \in unpublished

\* Who may act on what.
Ownership ==
    /\ ApiIsCurrent
    /\ KeysAreUnique
    /\ RunsAreAccepted
    /\ TasksAreAccepted
    /\ ChildrenAreAccepted

\* What is final.
Finals == FinalsAreAccepted /\ ResultsAreFinal /\ FinalsAreEarned /\ NoEarlyRecord

\* The inductive invariant.  The task of a run is written through the run
\* alone, because keys and run ids name one accepted request; so the task
\* follows the execution, and an ended execution never changes.
IInv == TypeOK /\ Ownership /\ TaskFollowsExecution /\ Finals

LEMMA Initially == Init => IInv
  <1> SUFFICES ASSUME Init PROVE IInv
    OBVIOUS
  <1>1. NoExecution \in Execution /\ NoExecution.status = "absent" /\ NoExecution.result = {}
    BY DEF NoExecution, Execution, Status
  <1>2. TypeOK
    BY <1>1, BacktestAssumption DEF Init, TypeOK
  <1>3. Ownership
    BY <1>1 DEF Init, Ownership, ApiIsCurrent, KeysAreUnique, RunsAreAccepted,
                TasksAreAccepted, ChildrenAreAccepted
  <1>4. TaskFollowsExecution /\ Finals
    BY <1>1 DEF Init, TaskFollowsExecution, Finals, FinalsAreAccepted, ResultsAreFinal,
                FinalsAreEarned, NoEarlyRecord
  <1> QED
    BY <1>2, <1>3, <1>4 DEF IInv

-----------------------------------------------------------------------------
(* Tasks                                                                   *)

\* What a step of the task backend does to the task of a key.
Becomes(k, status) ==
    /\ task' \in [Keys -> Seq(TaskStatus)]
    /\ task'[k] # <<>>
    /\ task'[k][Len(task'[k])] = status
    /\ \A j \in Keys \ {k} : task'[j] = task[j]

LEMMA LogAppends ==
    ASSUME TypeOK, NEW k \in Keys, NEW status \in TaskStatus, Log(k, status)
    PROVE  Becomes(k, status)
  <1>1. task \in [Keys -> Seq(TaskStatus)] /\ task[k] \in Seq(TaskStatus)
    BY DEF TypeOK
  <1>2. task' = [task EXCEPT ![k] = Append(task[k], status)]
    BY DEF Log
  <1>3. /\ Append(task[k], status) \in Seq(TaskStatus)
        /\ Append(task[k], status) # <<>>
        /\ Len(Append(task[k], status)) = Len(task[k]) + 1
        /\ Append(task[k], status)[Len(task[k]) + 1] = status
    BY <1>1
  <1> QED
    BY <1>1, <1>2, <1>3 DEF Becomes

LEMMA StaysAsIs ==
    ASSUME TypeOK, NEW k \in Keys, task[k] # <<>>, UNCHANGED task
    PROVE  Becomes(k, Current(k))
  BY DEF TypeOK, Becomes, Current

LEMMA Submitted ==
    ASSUME TypeOK, NEW k \in Keys, task[k] = <<>>, Submits(k)
    PROVE  Becomes(k, "queued")
  BY LogAppends DEF Submits, TaskStatus

LEMMA Cancelled ==
    ASSUME TypeOK, NEW k \in Keys, task[k] # <<>>, CancelsTask(k)
    PROVE  Becomes(k, IF Current(k) \in TaskEnd THEN Current(k) ELSE "cancelled")
  BY LogAppends, StaysAsIs DEF CancelsTask, TaskStatus

LEMMA Reported ==
    ASSUME TypeOK, NEW k \in Keys, task[k] # <<>>, NEW status, Reports(k, status),
           status = "cancelled" => Current(k) = "cancelled"
    PROVE  Becomes(k, Announced(status))
  <1>1. CASE status = "succeeded" /\ Log(k, "succeeded")
    BY <1>1, LogAppends DEF Announced, TaskStatus, Failures
  <1>2. CASE status \in Failures /\ Log(k, "failed")
    BY <1>2, LogAppends DEF Announced, TaskStatus, Failures
  <1>3. CASE status = "cancelled" /\ UNCHANGED task
    BY <1>3, StaysAsIs DEF Announced, Failures
  <1> QED
    BY <1>1, <1>2, <1>3 DEF Reports

-----------------------------------------------------------------------------
(* Runs                                                                    *)

\* A run that was created has a task of its own.
LEMMA RunHasTask ==
    ASSUME IInv, NEW r \in Runs, execution[r].status # "absent"
    PROVE  /\ TaskOf(r) = KeyOf[execution[r].request]
           /\ execution[r].request \in index /\ execution[r].request \in Requests
           /\ RunOf[execution[r].request] = r
           /\ TaskOf(r) \in Keys
           /\ task[TaskOf(r)] # <<>>
           /\ Current(TaskOf(r)) = Announced(execution[r].status)
  BY BacktestAssumption
     DEF IInv, TypeOK, Ownership, ApiIsCurrent, RunsAreAccepted, TaskFollowsExecution, TaskOf

LEMMA TasksAreApart ==
    ASSUME IInv, NEW r \in Runs, NEW s \in Runs, r # s,
           execution[r].status # "absent", execution[s].status # "absent"
    PROVE  KeyOf[execution[r].request] # KeyOf[execution[s].request]
  BY RunHasTask DEF IInv, Ownership, KeysAreUnique

\* The run moved to status with result; all other runs and the index stand.
Moved(r, status, result) ==
    /\ execution[r].status # "absent"
    /\ execution[r].status # "running" => Announced(status) = Announced(execution[r].status)
    /\ status \in Status \ {"absent"}
    /\ result \subseteq Record
    /\ Saves(r, [request |-> execution[r].request, status |-> status, result |-> result])
    /\ Becomes(TaskOf(r), Announced(status))
    /\ UNCHANGED <<index, child>>

LEMMA MovedExecution ==
    ASSUME IInv, NEW r \in Runs, NEW status, NEW result, Moved(r, status, result)
    PROVE  /\ execution' \in [Runs -> Execution]
           /\ api' = execution'
           /\ execution'[r].request = execution[r].request
           /\ execution'[r].status = status
           /\ execution'[r].result = result
           /\ \A s \in Runs \ {r} : execution'[s] = execution[s]
  <1>1. /\ execution \in [Runs -> Execution]
        /\ api = execution
    BY DEF IInv, TypeOK, Ownership, ApiIsCurrent
  <1> DEFINE e == [request |-> execution[r].request, status |-> status, result |-> result]
  <1>2. e \in Execution
    BY <1>1 DEF Moved, Execution
  <1>3. execution' = [execution EXCEPT ![r] = e] /\ api' = [api EXCEPT ![r] = e]
    BY DEF Moved, Saves
  <1>4. e.request = execution[r].request /\ e.status = status /\ e.result = result
    OBVIOUS
  <1> HIDE DEF e
  <1> QED
    BY <1>1, <1>2, <1>3, <1>4

LEMMA MovedKeepsOwnership ==
    ASSUME IInv, NEW r \in Runs, NEW status, NEW result, Moved(r, status, result)
    PROVE  Ownership' /\ TaskFollowsExecution'
  <1>1. /\ api' = execution'
        /\ execution'[r].request = execution[r].request
        /\ execution'[r].status = status
        /\ \A s \in Runs \ {r} : execution'[s] = execution[s]
    BY MovedExecution
  <1>2. /\ execution[r].status # "absent"
        /\ Becomes(TaskOf(r), Announced(status))
        /\ index' = index /\ child' = child
    BY DEF Moved
  <1>3. /\ TaskOf(r) = KeyOf[execution[r].request]
        /\ execution[r].request \in index
        /\ RunOf[execution[r].request] = r
    BY <1>2, RunHasTask
  <1>4. Ownership'
    <2>1. KeysAreUnique' /\ ChildrenAreAccepted'
      BY <1>2 DEF IInv, Ownership, KeysAreUnique, ChildrenAreAccepted
    <2>2. RunsAreAccepted'
      BY <1>1, <1>2, <1>3 DEF IInv, Ownership, RunsAreAccepted
    <2>3. TasksAreAccepted'
      BY <1>2, <1>3 DEF IInv, Ownership, TasksAreAccepted, Becomes
    <2> QED
      BY <1>1, <2>1, <2>2, <2>3 DEF Ownership, ApiIsCurrent
  <1>5. TaskFollowsExecution'
    <2> SUFFICES ASSUME NEW s \in Runs, execution'[s].status # "absent"
                 PROVE  LET k == KeyOf[execution'[s].request]
                        IN  /\ task'[k] # <<>>
                            /\ task'[k][Len(task'[k])] = Announced(execution'[s].status)
      BY <1>1 DEF TaskFollowsExecution, TaskOf, Current
    <2>1. CASE s = r
      BY <2>1, <1>1, <1>2, <1>3 DEF Becomes
    <2>2. CASE s # r
      <3>1. execution'[s] = execution[s] /\ execution[s].status # "absent"
        BY <2>2, <1>1
      <3>2. /\ TaskOf(s) = KeyOf[execution[s].request]
            /\ TaskOf(s) \in Keys
            /\ task[TaskOf(s)] # <<>>
            /\ Current(TaskOf(s)) = Announced(execution[s].status)
        BY <3>1, RunHasTask
      <3>3. TaskOf(s) # TaskOf(r)
        BY <2>2, <3>1, <3>2, <1>2, <1>3, TasksAreApart
      <3>4. task'[TaskOf(s)] = task[TaskOf(s)]
        BY <3>2, <3>3, <1>2 DEF Becomes
      <3> QED
        BY <3>1, <3>2, <3>4 DEF Current
    <2> QED
      BY <2>1, <2>2
  <1> QED
    BY <1>4, <1>5

\* A move of a run that finalizes nothing.
LEMMA MovedKeepsIInv ==
    ASSUME IInv, NEW r \in Runs, NEW status, Moved(r, status, execution[r].result),
           execution[r].status = "succeeded" => status = "succeeded",
           status = "succeeded" => execution[r].status = "succeeded",
           UNCHANGED <<final, unpublished, faults>>
    PROVE  IInv'
  <1>1. /\ execution' \in [Runs -> Execution]
        /\ api' = execution'
        /\ execution'[r].request = execution[r].request
        /\ execution'[r].status = status
        /\ execution'[r].result = execution[r].result
        /\ \A s \in Runs \ {r} : execution'[s] = execution[s]
    BY MovedExecution
  <1>2. /\ execution[r].status # "absent"
        /\ task' \in [Keys -> Seq(TaskStatus)]
        /\ index' = index /\ child' = child
    BY DEF Moved, Becomes
  <1>3. TypeOK'
    BY <1>1, <1>2 DEF IInv, TypeOK
  <1>4. FinalsAreAccepted' /\ FinalsAreEarned'
    BY <1>2 DEF IInv, Finals, FinalsAreAccepted, FinalsAreEarned
  <1>5. ResultsAreFinal'
    BY <1>1 DEF IInv, Finals, ResultsAreFinal
  <1>6. NoEarlyRecord'
    BY <1>1, <1>2 DEF IInv, Finals, NoEarlyRecord, ByKey
  <1> QED
    BY <1>3, <1>4, <1>5, <1>6, MovedKeepsOwnership DEF IInv, Finals

-----------------------------------------------------------------------------
(* Calls                                                                   *)

LEMMA EndsMoves ==
    ASSUME IInv, NEW r \in Runs, execution[r].status # "absent",
           NEW status \in Failures \union {"succeeded", "cancelled"},
           NEW result \in SUBSET Record,
           Ends(r, status, result), UNCHANGED <<index, child>>,
           status = "cancelled" => execution[r].status = "cancelling",
           status # "cancelled" => execution[r].status = "running"
    PROVE  Moved(r, status, result)
  <1>1. /\ TaskOf(r) \in Keys /\ task[TaskOf(r)] # <<>>
        /\ Current(TaskOf(r)) = Announced(execution[r].status)
    BY RunHasTask
  <1>2. Announced("cancelling") = "cancelled" /\ Announced("cancelled") = "cancelled"
    BY DEF Announced, Failures
  <1>3. Becomes(TaskOf(r), Announced(status))
    <2>1. Reports(TaskOf(r), status)
      BY DEF Ends
    <2>2. status = "cancelled" => Current(TaskOf(r)) = "cancelled"
      BY <1>1, <1>2
    <2> QED
      BY <1>1, <2>1, <2>2, Reported DEF IInv
  <1>6. Saves(r, [request |-> execution[r].request, status |-> status, result |-> result])
    BY DEF Ends
  <1>7. status \in Status \ {"absent"}
    BY DEF Status, Failures
  <1>8. status = "cancelled" => Announced(status) = Announced(execution[r].status)
    BY <1>2
  <1> QED
    BY <1>3, <1>6, <1>7, <1>8 DEF Moved

LEMMA CancelMoves ==
    ASSUME IInv, NEW r \in Runs, Cancel(r)
    PROVE  Moved(r, IF execution[r].status = "running" THEN "cancelling" ELSE execution[r].status,
                 execution[r].result)
  <1> DEFINE status == IF execution[r].status = "running" THEN "cancelling" ELSE execution[r].status
  <1>1. execution[r].status # "absent" /\ execution[r] \in Execution
    BY DEF Cancel, IInv, TypeOK, Ownership, ApiIsCurrent
  <1>2. /\ TaskOf(r) \in Keys /\ task[TaskOf(r)] # <<>>
        /\ Current(TaskOf(r)) = Announced(execution[r].status)
    BY <1>1, RunHasTask
  <1>3. Becomes(TaskOf(r), IF Current(TaskOf(r)) \in TaskEnd THEN Current(TaskOf(r)) ELSE "cancelled")
    BY <1>2, Cancelled DEF Cancel, IInv
  <1>4. Announced(status) = IF Current(TaskOf(r)) \in TaskEnd THEN Current(TaskOf(r)) ELSE "cancelled"
    BY <1>2 DEF Announced, Failures, TaskEnd
  <1>5. /\ status \in Status \ {"absent"} /\ execution[r].result \subseteq Record
        /\ execution[r].status # "running" => Announced(status) = Announced(execution[r].status)
    BY <1>1 DEF Execution, Status, Active
  <1>6. Saves(r, [request |-> execution[r].request, status |-> status, result |-> execution[r].result])
    <2>1. CASE execution[r].status = "running"
      <3>1. [execution[r] EXCEPT !.status = "cancelling"]
                = [request |-> execution[r].request, status |-> status, result |-> execution[r].result]
        BY <1>1, <2>1 DEF Execution
      <3> QED
        BY <2>1, <3>1 DEF Cancel
    <2>2. CASE execution[r].status # "running"
      <3>1. execution[r]
                = [request |-> execution[r].request, status |-> status, result |-> execution[r].result]
        BY <1>1, <2>2 DEF Execution
      <3> QED
        BY <2>2, <3>1 DEF Cancel
    <2> QED
      BY <2>1, <2>2
  <1> QED
    BY <1>1, <1>3, <1>4, <1>5, <1>6 DEF Moved, Cancel

LEMMA CancelKeeps == ASSUME IInv, NEW r \in Runs, Cancel(r) PROVE IInv'
  BY CancelMoves, MovedKeepsIInv DEF Cancel

LEMMA ObserveEndedMoves ==
    ASSUME IInv, NEW r \in Runs, NEW q \in Requests, ObserveEnded(r, q)
    PROVE  Moved(r, execution[r].status, execution[r].result)
  <1>1. /\ execution[r].status # "absent" /\ execution[r] \in Execution
        /\ execution[r].status \notin Active
    BY DEF ObserveEnded, Snapshot, IInv, TypeOK, Ownership, ApiIsCurrent
  <1>2. /\ TaskOf(r) \in Keys /\ task[TaskOf(r)] # <<>>
        /\ Current(TaskOf(r)) = Announced(execution[r].status)
    BY <1>1, RunHasTask
  <1>3. execution[r].status = "cancelled" => Current(TaskOf(r)) = "cancelled"
    BY <1>2 DEF Announced, Failures
  <1>4. Becomes(TaskOf(r), Announced(execution[r].status))
    BY <1>2, <1>3, Reported DEF ObserveEnded, IInv
  <1>5. execution[r] = [request |-> execution[r].request, status |-> execution[r].status,
                        result |-> execution[r].result]
    BY <1>1 DEF Execution
  <1> QED
    BY <1>1, <1>4, <1>5 DEF Moved, ObserveEnded, Execution

LEMMA ObserveEndedKeeps ==
    ASSUME IInv, NEW r \in Runs, NEW q \in Requests, ObserveEnded(r, q) PROVE IInv'
  BY ObserveEndedMoves, MovedKeepsIInv DEF ObserveEnded

\* The three ways to end without a final record.
EndsUnfinished(r, status) ==
    /\ execution[r].status # "absent"
    /\ status = "cancelled" => execution[r].status = "cancelling"
    /\ status # "cancelled" => execution[r].status = "running"
    /\ Ends(r, status, execution[r].result)
    /\ UNCHANGED <<index, child, final, unpublished, faults>>

LEMMA UnfinishedMoves ==
    ASSUME IInv, NEW r \in Runs, NEW status \in Failures \union {"cancelled"},
           EndsUnfinished(r, status)
    PROVE  Moved(r, status, execution[r].result)
  <1>1. execution[r].result \in SUBSET Record
    BY DEF IInv, TypeOK, Execution
  <1> QED
    BY <1>1, EndsMoves DEF EndsUnfinished, Failures

LEMMA UnfinishedKeeps ==
    ASSUME IInv, NEW r \in Runs, NEW status \in Failures \union {"cancelled"},
           EndsUnfinished(r, status)
    PROVE  IInv'
  BY UnfinishedMoves, MovedKeepsIInv DEF EndsUnfinished, Failures

LEMMA ObservesUnfinished ==
    ASSUME IInv, NEW r \in Runs, NEW q \in Requests,
           ObserveCancelled(r, q) \/ ObserveTimeout(r, q) \/ ObserveCrashed(r, q)
    PROVE  \E status \in Failures \union {"cancelled"} : EndsUnfinished(r, status)
  <1>1. ObserveCancelled(r, q) => EndsUnfinished(r, "cancelled")
    BY DEF ObserveCancelled, EndsUnfinished
  <1>2. ObserveTimeout(r, q) => EndsUnfinished(r, "timed_out")
    BY DEF ObserveTimeout, EndsUnfinished
  <1>3. ObserveCrashed(r, q) => child[q] \in Failures /\ EndsUnfinished(r, child[q])
    BY DEF ObserveCrashed, EndsUnfinished, Failures
  <1> QED
    BY <1>1, <1>2, <1>3 DEF Failures

-----------------------------------------------------------------------------
(* Final records                                                           *)

LEMMA BuiltIsEarned ==
    ASSUME NEW p \in Requests, NEW f, Startable(p), Built(p, f)
    PROVE  f \in Record /\ f.request = p /\ Earned(f)
  <1>1. f = [request |-> p, origin |-> p, ranked |-> Ranked(p)]
    BY DEF Built
  <1>2. Ranked(p) \in BOOLEAN
    BY DEF Ranked
  <1>3. f \in Record /\ f.request = p /\ f.origin = p /\ f.ranked = Ranked(p)
    BY <1>1, <1>2 DEF Record
  <1>4. Code[p] \in CodeStates /\ Mode[p] \in Modes
    BY BacktestAssumption
  <1>5. Ranked(p) => /\ Mode[p] = "formal" /\ Code[p] = "clean"
                    /\ Verdict[p].formal /\ Verdict[p].ranking
    BY <1>4 DEF Ranked, Effective, Startable, CodeStates
  <1>6. Verdict[p].fails = {}
    BY DEF Built, Passes
  <1> QED
    BY <1>3, <1>5, <1>6 DEF Earned, Startable

LEMMA ReusedIsEarned ==
    ASSUME IInv, NEW p \in Requests, NEW f, Startable(p), Reused(p, f)
    PROVE  f \in Record /\ f.request = p /\ Earned(f)
  <1>1. PICK g \in final : /\ g.origin = g.request
                           /\ ReuseKey(g.request) = ReuseKey(p)
                           /\ f = [g EXCEPT !.request = p]
    BY DEF Reused, ByReuseKey
  <1>2. g \in Record /\ Earned(g)
    BY DEF IInv, TypeOK, Finals, FinalsAreEarned
  <1>3. f \in Record /\ f.request = p /\ f.origin = g.origin /\ f.ranked = g.ranked
    BY <1>1, <1>2 DEF Record
  <1>4. /\ InputOf[p] = InputOf[g.request]
        /\ Effective(p) = Effective(g.request)
        /\ Code[p] = Code[g.request]
    BY <1>1 DEF ReuseKey
  <1>5. f.ranked => Mode[p] = "formal" /\ Code[p] = "clean"
    BY <1>2, <1>3, <1>4 DEF Earned, Effective
  <1> QED
    BY <1>1, <1>2, <1>3, <1>4, <1>5 DEF Earned, Startable

LEMMA FinalizedIsEarned ==
    ASSUME IInv, NEW p \in Requests, NEW f, Finalizes(p, f)
    PROVE  /\ f \in Record /\ f.request = p /\ Earned(f)
           /\ f \in final' /\ final' \subseteq final \union {f} /\ final \subseteq final'
  <1>1. CASE Known(p, f) /\ UNCHANGED final
    BY <1>1 DEF Known, IInv, TypeOK, Finals, FinalsAreEarned
  <1>2. CASE (Reused(p, f) \/ Built(p, f)) /\ final' = final \union {f}
    BY <1>2, ReusedIsEarned, BuiltIsEarned DEF Finalizes
  <1> QED
    BY <1>1, <1>2 DEF Finalizes

\* A child that succeeded finalizes an accepted request of its run.
LEMMA SucceedsFor ==
    ASSUME IInv, NEW r \in Runs, NEW q \in Requests, NEW f, Succeeds(r, q, f)
    PROVE  /\ execution[r].status = "running"
           /\ f \in Record /\ f.request \in index /\ RunOf[f.request] = r /\ Earned(f)
           /\ f \in final' /\ final' \subseteq final \union {f} /\ final \subseteq final'
  <1>1. execution[r].status = "running" /\ child[q] = "succeeded" /\ RunOf[q] = r
    BY DEF Succeeds, Snapshot
  <1>2. PICK p \in {q, execution[r].request} : Finalizes(p, f)
    BY DEF Succeeds, Finalized
  <1>3. q \in index
    BY <1>1 DEF IInv, Ownership, ChildrenAreAccepted
  <1>4. /\ execution[r].request \in index /\ execution[r].request \in Requests
        /\ RunOf[execution[r].request] = r
    BY <1>1, RunHasTask
  <1>5. p \in index /\ p \in Requests /\ RunOf[p] = r
    BY <1>1, <1>3, <1>4
  <1> QED
    BY <1>1, <1>2, <1>5, FinalizedIsEarned

LEMMA ObserveSucceededMoves ==
    ASSUME IInv, NEW r \in Runs, NEW q \in Requests, NEW f \in Record,
           Succeeds(r, q, f), Ends(r, "succeeded", {f}), UNCHANGED <<index, child>>
    PROVE  Moved(r, "succeeded", {f})
  <1>1. execution[r].status = "running"
    BY SucceedsFor
  <1> QED
    BY <1>1, EndsMoves

LEMMA ObserveSucceededKeeps ==
    ASSUME IInv, NEW r \in Runs, NEW q \in Requests, ObserveSucceeded(r, q)
    PROVE  IInv'
  <1>1. PICK f \in Record : Succeeds(r, q, f) /\ Ends(r, "succeeded", {f})
    BY DEF ObserveSucceeded
  <1>2. UNCHANGED <<index, child, unpublished, faults>>
    BY DEF ObserveSucceeded
  <1>3. Moved(r, "succeeded", {f})
    BY <1>1, <1>2, ObserveSucceededMoves
  <1>4. /\ execution' \in [Runs -> Execution]
        /\ api' = execution'
        /\ execution'[r].status = "succeeded"
        /\ execution'[r].result = {f}
        /\ \A s \in Runs \ {r} : execution'[s] = execution[s]
    BY <1>3, MovedExecution
  <1>5. /\ f.request \in index /\ RunOf[f.request] = r /\ Earned(f)
        /\ f \in final' /\ final' \subseteq final \union {f} /\ final \subseteq final'
    BY <1>1, SucceedsFor
  <1>6. TypeOK'
    BY <1>2, <1>3, <1>4, <1>5 DEF Moved, Becomes, IInv, TypeOK
  <1>7. FinalsAreAccepted' /\ FinalsAreEarned'
    BY <1>2, <1>5 DEF IInv, Finals, FinalsAreAccepted, FinalsAreEarned
  <1>8. ResultsAreFinal'
    BY <1>4, <1>5 DEF IInv, Finals, ResultsAreFinal
  <1>9. NoEarlyRecord'
    <2> SUFFICES ASSUME NEW s \in Runs,
                        execution'[s].status \notin {"absent", "succeeded"},
                        NEW g \in final', KeyOf[g.request] = KeyOf[execution'[s].request]
                 PROVE  g.request \in unpublished
      BY <1>2 DEF NoEarlyRecord, ByKey
    <2>1. s # r /\ execution'[s] = execution[s]
      BY <1>4
    <2>2. execution[s].request \in index /\ RunOf[execution[s].request] = s
      BY <2>1, RunHasTask
    <2>3. CASE g \in final
      BY <2>1, <2>3 DEF IInv, Finals, NoEarlyRecord, ByKey
    <2>4. CASE g = f
      BY <1>5, <2>1, <2>2, <2>4 DEF IInv, Ownership, KeysAreUnique
    <2> QED
      BY <1>5, <2>3, <2>4
  <1> QED
    BY <1>3, <1>6, <1>7, <1>8, <1>9, MovedKeepsOwnership DEF IInv, Finals

LEMMA CheckpointFailsKeeps ==
    ASSUME IInv, NEW r \in Runs, NEW q \in Requests, CheckpointFails(r, q)
    PROVE  IInv'
  <1>1. PICK f \in Record : Succeeds(r, q, f) /\ unpublished' = unpublished \union {f.request}
    BY DEF CheckpointFails
  <1>2. /\ faults < MaxFaults /\ faults' = faults + 1
        /\ UNCHANGED <<task, execution, api, index, child>>
    BY DEF CheckpointFails
  <1>3. /\ f.request \in index /\ Earned(f)
        /\ final' \subseteq final \union {f} /\ final \subseteq final'
    BY <1>1, SucceedsFor
  <1>4. faults' \in 0 .. MaxFaults
    BY <1>2, BacktestAssumption DEF IInv, TypeOK
  <1>8. f.request \in Requests
    BY DEF Record
  <1>5. TypeOK'
    BY <1>1, <1>2, <1>3, <1>4, <1>8 DEF IInv, TypeOK
  <1>6. Ownership' /\ TaskFollowsExecution'
    BY <1>2 DEF IInv, Ownership, ApiIsCurrent, KeysAreUnique, RunsAreAccepted, TasksAreAccepted,
                ChildrenAreAccepted, TaskFollowsExecution, TaskOf, Current
  <1>7. Finals'
    <2>1. FinalsAreAccepted' /\ ResultsAreFinal' /\ FinalsAreEarned'
      BY <1>2, <1>3 DEF IInv, Finals, FinalsAreAccepted, ResultsAreFinal, FinalsAreEarned
    <2>2. NoEarlyRecord'
      BY <1>1, <1>2, <1>3 DEF IInv, Finals, NoEarlyRecord, ByKey
    <2> QED
      BY <2>1, <2>2 DEF Finals
  <1> QED
    BY <1>5, <1>6, <1>7 DEF IInv

LEMMA CreateKeeps == ASSUME IInv, NEW q \in Requests, Create(q) PROVE IInv'
  <1> DEFINE r == RunOf[q]
             k == KeyOf[q]
             e == [request |-> q, status |-> "running", result |-> {}]
  <1>1. r \in Runs /\ k \in Keys
    BY BacktestAssumption
  <1>2. \A p \in index : KeyOf[p] # k
    BY DEF Create, Accepted
  <1>3. task[k] = <<>>
    BY <1>1, <1>2 DEF IInv, Ownership, TasksAreAccepted
  <1>4. Becomes(k, "queued")
    BY <1>1, <1>3, Submitted DEF Create, IInv
  <1>5. /\ index' = index \union {q}
        /\ child' = [child EXCEPT ![q] = "running"]
        /\ final' = final /\ unpublished' = unpublished /\ faults' = faults
    BY DEF Create
  <1>6. e \in Execution /\ e.request = q /\ e.status = "running" /\ e.result = {}
    BY DEF Execution, Status, Active
  <1>7. execution' = [execution EXCEPT ![r] = e] /\ api' = [api EXCEPT ![r] = e]
    BY DEF Create, Saves
  <1>8. Announced("running") = "queued"
    BY DEF Announced, Failures
  <1> HIDE DEF r, k, e
  <1>9. /\ execution' \in [Runs -> Execution]
        /\ api' = execution'
        /\ execution'[r] = e
        /\ \A s \in Runs \ {r} : execution'[s] = execution[s]
    BY <1>1, <1>6, <1>7 DEF IInv, TypeOK, Ownership, ApiIsCurrent
  <1>10. TypeOK'
    BY <1>4, <1>5, <1>9 DEF Becomes, IInv, TypeOK
  <1>11. \A s \in Runs \ {r} : execution[s].status # "absent" =>
            /\ TaskOf(s) = KeyOf[execution[s].request] /\ TaskOf(s) \in Keys
            /\ TaskOf(s) # k
            /\ task[TaskOf(s)] # <<>>
            /\ Current(TaskOf(s)) = Announced(execution[s].status)
    BY <1>2, RunHasTask
  <1>12. KeyOf[q] = k /\ RunOf[q] = r
    BY DEF k, r
  <1>13. Ownership'
    <2>1. KeysAreUnique'
      BY <1>2, <1>5, <1>12 DEF IInv, Ownership, KeysAreUnique
    <2>2. RunsAreAccepted'
      BY <1>5, <1>6, <1>9, <1>12 DEF IInv, Ownership, RunsAreAccepted
    <2>3. TasksAreAccepted'
      BY <1>4, <1>5, <1>12 DEF IInv, Ownership, TasksAreAccepted, Becomes
    <2>4. ChildrenAreAccepted'
      BY <1>5 DEF IInv, TypeOK, Ownership, ChildrenAreAccepted
    <2> QED
      BY <1>9, <2>1, <2>2, <2>3, <2>4 DEF Ownership, ApiIsCurrent
  <1>14. TaskFollowsExecution'
    <2> SUFFICES ASSUME NEW s \in Runs, execution'[s].status # "absent"
                 PROVE  /\ task'[KeyOf[execution'[s].request]] # <<>>
                        /\ task'[KeyOf[execution'[s].request]][Len(task'[KeyOf[execution'[s].request]])]
                               = Announced(execution'[s].status)
      BY <1>9 DEF TaskFollowsExecution, TaskOf, Current
    <2>1. CASE s = r
      BY <2>1, <1>4, <1>6, <1>8, <1>9, <1>12 DEF Becomes
    <2>2. CASE s # r
      <3>1. execution'[s] = execution[s] /\ execution[s].status # "absent"
        BY <2>2, <1>9
      <3>2. task'[TaskOf(s)] = task[TaskOf(s)]
        BY <2>2, <3>1, <1>4, <1>11 DEF Becomes
      <3> QED
        BY <2>2, <3>1, <3>2, <1>11 DEF Current
    <2> QED
      BY <2>1, <2>2
  <1>15. FinalsAreAccepted' /\ FinalsAreEarned'
    BY <1>5 DEF IInv, Finals, FinalsAreAccepted, FinalsAreEarned
  <1>16. ResultsAreFinal'
    BY <1>5, <1>6, <1>9 DEF IInv, Finals, ResultsAreFinal
  <1>17. NoEarlyRecord'
    <2>1. ByKey(k) = {}
      BY <1>2 DEF IInv, Finals, FinalsAreAccepted, ByKey
    <2> QED
      BY <2>1, <1>5, <1>6, <1>9, <1>12 DEF IInv, Finals, NoEarlyRecord, ByKey
  <1> QED
    BY <1>10, <1>13, <1>14, <1>15, <1>16, <1>17 DEF IInv, Finals

LEMMA ChildEndsKeeps == ASSUME IInv, NEW q \in Requests, ChildEnds(q) PROVE IInv'
  <1>1. PICK end \in {"succeeded", "failed", "oom_killed"} : child' = [child EXCEPT ![q] = end]
    BY DEF ChildEnds
  <1>2. child[q] = "running" /\ UNCHANGED <<task, execution, api, index, final, unpublished, faults>>
    BY DEF ChildEnds
  <1>3. TypeOK'
    BY <1>1, <1>2 DEF IInv, TypeOK
  <1>4. ChildrenAreAccepted'
    BY <1>1, <1>2 DEF IInv, TypeOK, Ownership, ChildrenAreAccepted
  <1>5. Ownership' /\ TaskFollowsExecution'
    BY <1>2, <1>4 DEF IInv, Ownership, ApiIsCurrent, KeysAreUnique, RunsAreAccepted,
                TasksAreAccepted, TaskFollowsExecution, TaskOf, Current
  <1>6. Finals'
    BY <1>2 DEF IInv, Finals, FinalsAreAccepted, ResultsAreFinal, FinalsAreEarned,
                NoEarlyRecord, ByKey
  <1> QED
    BY <1>3, <1>5, <1>6 DEF IInv

LEMMA StutterKeeps == ASSUME IInv, UNCHANGED vars PROVE IInv'
  BY DEF vars, IInv, TypeOK, Ownership, ApiIsCurrent, KeysAreUnique, RunsAreAccepted,
         TasksAreAccepted, ChildrenAreAccepted, TaskFollowsExecution, TaskOf, Current, Finals,
         FinalsAreAccepted, ResultsAreFinal, FinalsAreEarned, NoEarlyRecord, ByKey

-----------------------------------------------------------------------------
(* The audit                                                               *)

\* A finite order has a minimal element: by induction over the strict subsets
\* of a finite set, applied to what is below each element.
LEMMA MinimumExists ==
  ASSUME NEW S, IsFiniteSet(S), S # {}, NEW Before,
         \A x \in S : <<x, x>> \notin Before,
         \A x, y, z \in S : <<x, y>> \in Before /\ <<y, z>> \in Before => <<x, z>> \in Before
  PROVE  \E x \in S : \A y \in S : <<y, x>> \notin Before
<1> DEFINE Below(x) == {y \in S : <<y, x>> \in Before}
           Family == {Below(x) : x \in S}
<1>1. \A x \in S : Below(x) \in FiniteSubsetsOf(S)
  BY FS_Subset DEF FiniteSubsetsOf
<1>2. IsWellFoundedOn(StrictSubsetOrdering(S), FiniteSubsetsOf(S))
  BY FS_StrictSubsetOrderingWellFounded
<1>3. PICK T \in Family : \A U \in Family : <<U, T>> \notin StrictSubsetOrdering(S)
  <2>1. Family \subseteq FiniteSubsetsOf(S) /\ Family # {}
    <3> HIDE DEF Below
    <3> QED BY <1>1
  <2> QED BY <1>2, <2>1, WFMin
<1>4. PICK x \in S : T = Below(x)
  OBVIOUS
<1>5. ASSUME NEW y \in S, <<y, x>> \in Before PROVE FALSE
  <2>1. Below(y) \subseteq Below(x) /\ y \in Below(x) /\ y \notin Below(y)
    BY <1>5
  <2>2. <<Below(y), Below(x)>> \in (SUBSET S) \X (SUBSET S)
    OBVIOUS
  <2>3. Below(y) \in Family
    OBVIOUS
  <2> HIDE DEF Below
  <2> QED BY <1>3, <1>4, <2>1, <2>2, <2>3 DEF StrictSubsetOrdering
<1> QED BY <1>5

\* What is finite and not empty has a greatest number, its Max.
LEMMA MaxIsGreatest ==
    ASSUME NEW S, S \subseteq Int, IsFiniteSet(S), S # {}
    PROVE  Max(S) \in S /\ \A n \in S : Max(S) >= n
  <1> DEFINE Before == {p \in S \X S : p[1] > p[2]}
  <1>1. \A x, y \in S : <<x, y>> \in Before <=> x > y
    OBVIOUS
  <1> HIDE DEF Before
  <1>2. /\ \A x \in S : <<x, x>> \notin Before
        /\ \A x, y, z \in S : <<x, y>> \in Before /\ <<y, z>> \in Before => <<x, z>> \in Before
    BY <1>1
  <1>3. PICK x \in S : \A y \in S : <<y, x>> \notin Before
    BY <1>2, MinimumExists
  <1>4. ASSUME NEW y \in S PROVE x >= y
    <2>1. ~(y > x) /\ x \in Int /\ y \in Int
      BY <1>1, <1>3
    <2> QED
      BY <2>1
  <1> QED
    BY <1>4 DEF Max

\* No scenario loses more than the worst of them.
LEMMA DegradationIsWorst ==
    ASSUME NEW scenarios, IsFiniteSet(scenarios), \A s \in scenarios : s.total \in Int,
           Cardinality(Baselines(scenarios)) = 1,
           NEW base \in Baselines(scenarios), NEW s \in scenarios
    PROVE  Degradation(scenarios) \in Int /\ base.total - s.total <= Degradation(scenarios)
  <1> DEFINE losses == {base.total - t.total : t \in scenarios}
             lossOf == [t \in scenarios |-> base.total - t.total]
  <1>1. IsFiniteSet(Baselines(scenarios))
    BY FS_Subset DEF Baselines
  <1>2. PICK b : Baselines(scenarios) = {b}
    BY <1>1, FS_Singleton
  <1>3. (CHOOSE b1 \in Baselines(scenarios) : TRUE) = base
    BY <1>2
  <1>4. lossOf \in Surjection(scenarios, losses)
    BY DEF Surjection
  <1>5. IsFiniteSet(losses)
    BY <1>4, FS_Surjection
  <1>6. base.total \in Int
    BY DEF Baselines
  <1>7. {0} \union losses \subseteq Int
    BY <1>6
  <1>8. IsFiniteSet({0} \union losses)
    BY <1>5, FS_Singleton, FS_Union
  <1>9. Degradation(scenarios) = Max({0} \union losses)
    BY <1>3 DEF Degradation
  <1>10. base.total - s.total \in losses
    OBVIOUS
  <1> HIDE DEF losses
  <1>11. /\ Max({0} \union losses) >= base.total - s.total
         /\ Max({0} \union losses) \in Int /\ base.total - s.total \in Int
    BY <1>7, <1>8, <1>10, MaxIsGreatest
  <1> QED
    BY <1>9, <1>11

\* What the audit promotes passed every rule.
LEMMA PromotedPasses ==
    ASSUME NEW e, Promotable(e)
    PROVE  /\ LookaheadBias(e.observations) = "pass"
           /\ SurvivorshipBias(e.observations) = "pass"
           /\ PitDataAvailability(e.observations) = "pass"
           /\ SampleOverlap(e.observations) # "not_evaluable"
           /\ CostSensitivity(e.scenarios) # "block"
  <1>1. \A rule \in DOMAIN Outcomes(e) : Outcomes(e)[rule] \notin {"block", "not_evaluable"}
    BY DEF Promotable, AuditStatus, RulesWith
  <1>2. /\ LookaheadBias(e.observations) \notin {"block", "not_evaluable"}
        /\ SurvivorshipBias(e.observations) \notin {"block", "not_evaluable"}
        /\ PitDataAvailability(e.observations) \notin {"block", "not_evaluable"}
        /\ SampleOverlap(e.observations) \notin {"block", "not_evaluable"}
        /\ CostSensitivity(e.scenarios) \notin {"block", "not_evaluable"}
    BY <1>1 DEF Outcomes
  <1> QED
    BY <1>2 DEF LookaheadBias, SurvivorshipBias, PitDataAvailability, BlockIf

\* A request that the audit promotes saw nothing of the future.
LEMMA PromotedSawNoFuture ==
    ASSUME NEW q \in Requests, Promotable(Evidence[q])
    PROVE  SawNoFuture(Evidence[q])
  <1> DEFINE e == Evidence[q]
  <1>1. /\ LookaheadBias(e.observations) = "pass"
        /\ SurvivorshipBias(e.observations) = "pass"
        /\ PitDataAvailability(e.observations) = "pass"
        /\ SampleOverlap(e.observations) # "not_evaluable"
        /\ CostSensitivity(e.scenarios) # "block"
    BY PromotedPasses
  <1>2. ASSUME NEW o \in e.observations
        PROVE  /\ o.available <= o.decided
               /\ o.pit \in 1..o.decided
               /\ o.historical /\ o.universe <= o.trade
    <2>1. /\ ~(o.available > o.decided)
          /\ ~(~o.historical \/ o.universe > o.trade)
          /\ ~(o.pit = Never \/ o.pit > o.decided \/ ~o.known)
      BY <1>1 DEF LookaheadBias, SurvivorshipBias, PitDataAvailability, BlockIf
    <2>2. {o.decided, o.available, o.pit, o.trade, o.universe} \subseteq Nat
      BY EvidenceIsTyped
    <2> QED
      BY <2>1, <2>2 DEF Never
  <1>3. \E o \in e.observations : o.inStrategy \/ o.inReturn
    <2> DEFINE keys(named) == {SampleKey(o) : o \in named}
    <2>1. keys({p \in e.observations : p.inStrategy}) \union keys({p \in e.observations : p.inReturn})
            # {}
      BY <1>1 DEF SampleOverlap
    <2> QED
      BY <2>1
  <1>4. ASSUME NEW base \in e.scenarios, NEW s \in e.scenarios, base.baseline
        PROVE  base.total - s.total <= AuditPolicy.costBlock
    <2>1. /\ IsFiniteSet(e.scenarios) /\ \A t \in e.scenarios : t.total \in Int
          /\ Cardinality(Baselines(e.scenarios)) = 1
      BY EvidenceIsTyped, VerdictsFollow DEF MayAudit
    <2>2. base \in Baselines(e.scenarios)
      BY <1>4 DEF Baselines
    <2>3. base.total - s.total <= Degradation(e.scenarios)
      BY <2>1, <2>2, DegradationIsWorst
    <2>4. CASE e.scenarios = Baselines(e.scenarios)
      <3>1. IsFiniteSet(Baselines(e.scenarios))
        BY <2>1, <2>4
      <3>2. base = s
        BY <2>1, <2>2, <2>4, <3>1, FS_Singleton
      <3> QED
        BY <2>1, <3>2, PolicyIsSound DEF IsAuditPolicy
    <2>5. CASE e.scenarios # Baselines(e.scenarios)
      <3>1. ~(Degradation(e.scenarios) > AuditPolicy.costBlock)
        BY <1>1, <2>5 DEF CostSensitivity
      <3>2. AuditPolicy.costBlock \in Int /\ base.total - s.total \in Int
        BY <2>1, PolicyIsSound DEF IsAuditPolicy
      <3>3. Degradation(e.scenarios) \in Int
        BY <2>1, <2>2, DegradationIsWorst
      <3> QED
        BY <2>3, <3>1, <3>2, <3>3
    <2> QED
      BY <2>4, <2>5
  <1> QED
    BY <1>2, <1>3, <1>4 DEF SawNoFuture

-----------------------------------------------------------------------------
(* The Run                                                                 *)

\* A set of numbers that is not empty has a least one.
LEMMA LeastExists ==
    ASSUME NEW T, T \subseteq Nat, T # {}
    PROVE  \E m \in T : \A k \in T : m <= k
  <1>1. PICK n \in T : TRUE
    OBVIOUS
  <1> DEFINE S == T \cap (0..n)
             Before == {p \in S \X S : p[1] < p[2]}
  <1>2. IsFiniteSet(S) /\ n \in S
    <2>1. IsFiniteSet(0..n) /\ S \subseteq 0..n
      BY FS_Interval
    <2> QED
      BY <2>1, FS_Subset
  <1>3. S \subseteq Nat
    OBVIOUS
  <1>4. \A k \in T : k \in S \/ k > n
    OBVIOUS
  <1> HIDE DEF S
  <1>5. \A x, y \in S : <<x, y>> \in Before <=> x < y
    OBVIOUS
  <1> HIDE DEF Before
  <1>6. /\ \A x \in S : <<x, x>> \notin Before
        /\ \A x, y, z \in S : <<x, y>> \in Before /\ <<y, z>> \in Before => <<x, z>> \in Before
    BY <1>3, <1>5
  <1>7. PICK m \in S : \A k \in S : <<k, m>> \notin Before
    BY <1>2, <1>6, MinimumExists
  <1>8. ASSUME NEW k \in S PROVE m <= k
    <2>1. ~(k < m) /\ k \in Nat /\ m \in Nat
      BY <1>3, <1>5, <1>7
    <2> QED
      BY <2>1
  <1>9. m \in T
    BY DEF S
  <1>10. m <= n
    BY <1>2, <1>8
  <1>11. \A k \in T : m <= k
    BY <1>3, <1>4, <1>8, <1>10
  <1> QED
    BY <1>9, <1>11

\* g holds the Run after each number of stages up to m.
IsHistory(g, ids, m) ==
    g = [n \in 0..m |-> IF n = 0 THEN StartRun ELSE RecordStage(g[n - 1], ids[n])]

\* There is such a Run for every number: the definition of Recorded is one.
LEMMA HistoryExists ==
    ASSUME NEW ids, NEW m \in Nat
    PROVE  \E g : IsHistory(g, ids, m)
  <1> DEFINE Bad == {k \in Nat : ~\E g : IsHistory(g, ids, k)}
  <1>1. SUFFICES ASSUME Bad # {} PROVE FALSE
    OBVIOUS
  <1>2. Bad \subseteq Nat
    OBVIOUS
  <1>3. PICK k \in Bad : \A j \in Bad : k <= j
    <2> HIDE DEF Bad
    <2> QED
      BY <1>1, <1>2, LeastExists
  <1>4. k \in Nat /\ ~\E g : IsHistory(g, ids, k)
    OBVIOUS
  <1>5. CASE k = 0
    <2> DEFINE h == [n \in 0..0 |-> StartRun]
    <2>1. IsHistory(h, ids, 0)
      BY DEF IsHistory
    <2> QED
      BY <1>4, <1>5, <2>1
  <1>6. CASE k # 0
    <2>1. k - 1 \in Nat /\ k - 1 \notin Bad
      BY <1>3, <1>4, <1>6
    <2>2. PICK g : IsHistory(g, ids, k - 1)
      BY <2>1
    <2> DEFINE h == [n \in 0..k |-> IF n = 0 THEN StartRun ELSE RecordStage(g[n - 1], ids[n])]
    <2>3. g = [n \in 0..(k - 1) |-> IF n = 0 THEN StartRun ELSE RecordStage(g[n - 1], ids[n])]
      BY <2>2 DEF IsHistory
    <2>4. \A n \in 0..(k - 1) : h[n] = g[n]
      <3>1. \A n \in 0..(k - 1) : n \in 0..k
        BY <1>4
      <3>2. \A n \in 0..(k - 1) : g[n] = IF n = 0 THEN StartRun ELSE RecordStage(g[n - 1], ids[n])
        BY <2>3
      <3> QED
        BY <3>1, <3>2
    <2>5. \A n \in 0..k : n # 0 => n - 1 \in 0..(k - 1)
      BY <1>4
    <2>6. h = [n \in 0..k |-> IF n = 0 THEN StartRun ELSE RecordStage(h[n - 1], ids[n])]
      <3>1. \A n \in 0..k : n # 0 => g[n - 1] = h[n - 1]
        BY <2>4, <2>5
      <3> HIDE DEF h
      <3>2. h = [n \in 0..k |-> IF n = 0 THEN StartRun ELSE RecordStage(g[n - 1], ids[n])]
        BY DEF h
      <3> QED
        BY <3>1, <3>2
    <2>7. IsHistory(h, ids, k)
      BY <2>6 DEF IsHistory
    <2> QED
      BY <1>4, <2>7
  <1> QED
    BY <1>5, <1>6

\* Recorded is the end of such a history.
LEMMA RecordedIsHistory ==
    ASSUME NEW Ids, NEW ids \in Seq(Ids)
    PROVE  \E g : /\ g[0] = StartRun
                  /\ \A n \in 1..Len(ids) : g[n] = RecordStage(g[n - 1], ids[n])
                  /\ Recorded(ids) = g[Len(ids)]
  <1> DEFINE after == CHOOSE g : IsHistory(g, ids, Len(ids))
  <1>1. Len(ids) \in Nat
    OBVIOUS
  <1>2. IsHistory(after, ids, Len(ids))
    BY <1>1, HistoryExists
  <1>3. Recorded(ids) = after[Len(ids)]
    BY DEF Recorded, IsHistory
  <1> HIDE DEF after
  <1>4. \A n \in 0..Len(ids) :
            after[n] = IF n = 0 THEN StartRun ELSE RecordStage(after[n - 1], ids[n])
    BY <1>2 DEF IsHistory
  <1>5. /\ after[0] = StartRun
        /\ \A n \in 1..Len(ids) : after[n] = RecordStage(after[n - 1], ids[n])
    BY <1>1, <1>4
  <1> QED
    BY <1>3, <1>5

Completions(events) == {n \in DOMAIN events : events[n] = "stage.completed"}

Events == {"run.started", "stage.started", "info", "stage.completed"}

\* The Runs with stages of these ids.
RunOver(Ids) ==
    [status : {"running", "raised"}, stages : Seq([id : Ids, status : {"running", "completed"}]),
     events : Seq(Events)]

\* The Run after n stages: raised, or with n stages of their own, completed all.
IsFollowed(run, Ids, n) ==
    /\ run \in RunOver(Ids)
    /\ run.status = "running" =>
          /\ Len(run.stages) = n
          /\ \A k \in DOMAIN run.stages : run.stages[k].status = "completed"
          /\ IsFiniteSet(StageIds(run)) /\ Cardinality(StageIds(run)) = n
          /\ IsFiniteSet(Completions(run.events)) /\ Cardinality(Completions(run.events)) = n

RunWith(status, stages, events) == [status |-> status, stages |-> stages, events |-> events]

Ended(stages, id) ==
    [n \in DOMAIN stages |->
        IF stages[n].id = id THEN [id |-> id, status |-> "completed"] ELSE stages[n]]

LEMMA RunFields ==
    \A a, b, c : /\ RunWith(a, b, c).status = a
                 /\ RunWith(a, b, c).stages = b
                 /\ RunWith(a, b, c).events = c
  BY DEF RunWith

\* What the operations on a Run make of its fields.
LEMMA LoggedRun ==
    ASSUME NEW a, NEW b, NEW c, NEW kind
    PROVE  Logged(RunWith(a, b, c), kind) = RunWith(a, b, Append(c, kind))
  BY DEF Logged, RunWith

LEMMA StartedStage ==
    ASSUME NEW a, NEW b, NEW c, NEW id
    PROVE  StartStage(RunWith(a, b, c), id) =
             RunWith(a, Append(b, [id |-> id, status |-> "running"]), Append(c, "stage.started"))
  <1> DEFINE logged == Logged(RunWith(a, b, c), "stage.started")
  <1>1. logged = RunWith(a, b, Append(c, "stage.started"))
    BY LoggedRun
  <1>2. StartStage(RunWith(a, b, c), id) =
          [logged EXCEPT !.stages = Append(logged.stages, [id |-> id, status |-> "running"])]
    BY DEF StartStage
  <1> HIDE DEF logged
  <1>3. logged.stages = b
    BY <1>1, RunFields
  <1> DEFINE stages == Append(b, [id |-> id, status |-> "running"])
  <1> HIDE DEF stages
  <1>4. [RunWith(a, b, Append(c, "stage.started")) EXCEPT !.stages = stages]
          = RunWith(a, stages, Append(c, "stage.started"))
    BY DEF RunWith
  <1>5. StartStage(RunWith(a, b, c), id) = [logged EXCEPT !.stages = stages]
    BY <1>2, <1>3 DEF stages
  <1>6. StartStage(RunWith(a, b, c), id) = RunWith(a, stages, Append(c, "stage.started"))
    BY <1>1, <1>4, <1>5
  <1> QED
    BY <1>6 DEF stages

LEMMA CompletedStage ==
    ASSUME NEW a, NEW b, NEW c, NEW id
    PROVE  CompleteStage(RunWith(a, b, c), id) =
             RunWith(a, Ended(b, id), Append(c, "stage.completed"))
  <1> DEFINE logged == Logged(RunWith(a, b, c), "stage.completed")
  <1>1. logged = RunWith(a, b, Append(c, "stage.completed"))
    BY LoggedRun
  <1>2. CompleteStage(RunWith(a, b, c), id) = [logged EXCEPT !.stages = Ended(logged.stages, id)]
    BY DEF CompleteStage, Ended
  <1> HIDE DEF logged
  <1>3. logged.stages = b
    BY <1>1, RunFields
  <1> DEFINE stages == Ended(b, id)
  <1> HIDE DEF stages
  <1>4. [RunWith(a, b, Append(c, "stage.completed")) EXCEPT !.stages = stages]
          = RunWith(a, stages, Append(c, "stage.completed"))
    BY DEF RunWith
  <1>5. CompleteStage(RunWith(a, b, c), id) = [logged EXCEPT !.stages = stages]
    BY <1>2, <1>3 DEF stages
  <1>6. CompleteStage(RunWith(a, b, c), id) = RunWith(a, stages, Append(c, "stage.completed"))
    BY <1>1, <1>4, <1>5
  <1> QED
    BY <1>6 DEF stages

LEMMA CompletedRun ==
    ASSUME NEW a, NEW b, NEW c
    PROVE  CompleteRun(RunWith(a, b, c)) = RunWith("completed", b, Append(c, "run.completed"))
  <1>1. CompleteRun(RunWith(a, b, c))
          = [RunWith(a, b, Append(c, "run.completed")) EXCEPT !.status = "completed"]
    BY LoggedRun DEF CompleteRun
  <1> QED
    BY <1>1 DEF RunWith

LEMMA RaisedRun ==
    ASSUME NEW a, NEW b, NEW c
    PROVE  Raised(RunWith(a, b, c)) = RunWith("raised", b, c)
  BY DEF Raised, RunWith

LEMMA RunIsOfFields ==
    ASSUME NEW Ids, NEW run \in RunOver(Ids)
    PROVE  \E a \in {"running", "raised"} :
           \E b \in Seq([id : Ids, status : {"running", "completed"}]), c \in Seq(Events) :
             run = RunWith(a, b, c)
  BY DEF RunOver, RunWith

LEMMA StartIsFollowed == ASSUME NEW Ids PROVE IsFollowed(StartRun, Ids, 0)
  <1>1. StartRun \in RunOver(Ids)
    <2>1. <<"run.started">> \in Seq(Events)
      BY DEF Events
    <2>2. <<>> \in Seq([id : Ids, status : {"running", "completed"}])
      OBVIOUS
    <2> QED
      BY <2>1, <2>2 DEF StartRun, RunOver
  <1>2. StartRun.stages = <<>> /\ StartRun.events = <<"run.started">>
    BY DEF StartRun
  <1>3. Completions(StartRun.events) = {}
    <2>1. Completions(<<"run.started">>) = {}
      BY DEF Completions
    <2> QED
      BY <1>2, <2>1
  <1>4. StageIds(StartRun) = {}
    BY <1>2 DEF StageIds
  <1>5. Len(StartRun.stages) = 0 /\ DOMAIN StartRun.stages = {}
    BY <1>2
  <1> QED
    BY <1>1, <1>3, <1>4, <1>5, FS_EmptySet DEF IsFollowed

\* A stage that is recorded is a stage of its own, completed at once; otherwise
\* the Run has raised.
LEMMA StageIsRecorded ==
    ASSUME NEW Ids, NEW b \in Seq([id : Ids, status : {"running", "completed"}]),
           NEW c \in Seq(Events), NEW a, NEW id \in Ids
    PROVE  LET run == RunWith(a, b, c)
           IN  \/ RecordStage(run, id) = RunWith("raised", b, c)
               \/ /\ a = "running"
                  /\ id \notin StageIds(run)
                  /\ RecordStage(run, id) =
                       RunWith(a, Append(b, [id |-> id, status |-> "completed"]),
                               Append(Append(Append(c, "stage.started"), "info"), "stage.completed"))
  <1> DEFINE run == RunWith(a, b, c)
             Stage == [id : Ids, status : {"running", "completed"}]
             done == [id |-> id, status |-> "completed"]
             begun == [id |-> id, status |-> "running"]
             started == Append(b, begun)
             noted == NoteStage(StartStage(run, id))
  <1>1. CASE ~(MayStartStage(run, id) /\ MayCompleteStage(noted, id))
    BY <1>1, RaisedRun DEF RecordStage
  <1>2. CASE MayStartStage(run, id) /\ MayCompleteStage(noted, id)
    <2>1. RecordStage(run, id) = CompleteStage(noted, id)
      BY <1>2 DEF RecordStage
    <2>2. a = "running" /\ id \notin StageIds(run)
      BY <1>2, RunFields DEF MayStartStage, IsActive
    <2>3. StartStage(run, id) = RunWith(a, started, Append(c, "stage.started"))
      BY StartedStage
    <2>4. noted = RunWith(a, started, Append(Append(c, "stage.started"), "info"))
      BY <2>3, LoggedRun DEF NoteStage
    <2> HIDE DEF noted
    <2>5. CompleteStage(noted, id) =
            RunWith(a, Ended(started, id),
                    Append(Append(Append(c, "stage.started"), "info"), "stage.completed"))
      BY <2>4, CompletedStage
    <2>6. Ended(started, id) = Append(b, done)
      <3> DEFINE N == Len(b)
      <3> HIDE DEF run
      <3>1. \A n \in DOMAIN b : b[n].id # id
        <4>1. run.stages = b
          BY RunFields DEF run
        <4> QED
          BY <2>2, <4>1 DEF StageIds
      <3>2. done \in Stage /\ begun \in Stage /\ begun.id = id
        OBVIOUS
      <3>3. Ended(started, id) = [n \in DOMAIN started |-> IF started[n].id = id THEN done ELSE started[n]]
        BY DEF Ended
      <3> HIDE DEF done, begun, Stage
      <3>4. b \in Seq(Stage)
        BY DEF Stage
      <3>5. N \in Nat /\ DOMAIN b = 1..N
        BY <3>4
      <3>6. /\ DOMAIN started = 1..(N + 1)
            /\ started[N + 1] = begun
            /\ \A n \in 1..N : started[n] = b[n]
        BY <3>2, <3>4
      <3>7. /\ Append(b, done) \in Seq(Stage) /\ Len(Append(b, done)) = N + 1
            /\ Append(b, done)[N + 1] = done
            /\ \A n \in 1..N : Append(b, done)[n] = b[n]
        BY <3>2, <3>4
      <3> HIDE DEF started, N
      <3>8. \A n \in 1..(N + 1) : n = N + 1 \/ n \in 1..N
        BY <3>5
      <3>9. \A n \in 1..(N + 1) :
              (IF started[n].id = id THEN done ELSE started[n]) = Append(b, done)[n]
        BY <3>1, <3>2, <3>5, <3>6, <3>7, <3>8
      <3>10. Append(b, done) = [n \in 1..(N + 1) |-> Append(b, done)[n]]
        <4> DEFINE all == Append(b, done)
        <4> HIDE DEF all
        <4>1. all \in Seq(Stage) /\ Len(all) = N + 1
          BY <3>7 DEF all
        <4>2. all = [n \in 1..(N + 1) |-> all[n]]
          BY <4>1
        <4> QED
          BY <4>2 DEF all
      <3> QED
        BY <3>3, <3>6, <3>9, <3>10
    <2> QED
      BY <2>1, <2>2, <2>5, <2>6
  <1> QED
    BY <1>1, <1>2

LEMMA RecordStageKeeps ==
    ASSUME NEW Ids, NEW run, NEW n \in Nat, IsFollowed(run, Ids, n), NEW id \in Ids
    PROVE  IsFollowed(RecordStage(run, id), Ids, n + 1)
  <1> DEFINE Stage == [id : Ids, status : {"running", "completed"}]
             next == RecordStage(run, id)
             done == [id |-> id, status |-> "completed"]
             ThreeMore(events) ==
                 Append(Append(Append(events, "stage.started"), "info"), "stage.completed")
  <1>1. PICK a \in {"running", "raised"}, b \in Seq(Stage), c \in Seq(Events) : run = RunWith(a, b, c)
    <2>1. run \in RunOver(Ids)
      BY DEF IsFollowed
    <2>2. /\ run = RunWith(run.status, run.stages, run.events)
          /\ run.status \in {"running", "raised"} /\ run.stages \in Seq(Stage) /\ run.events \in Seq(Events)
      BY ONLY <2>1 DEF RunOver, RunWith
    <2> HIDE DEF Stage
    <2> QED
      BY ONLY <2>2
  <1>2. run.status = a /\ run.stages = b /\ run.events = c
    BY <1>1, RunFields
  <1>3. \/ next = RunWith("raised", b, c)
        \/ /\ a = "running" /\ id \notin StageIds(run)
           /\ next = RunWith(a, Append(b, done), ThreeMore(c))
    BY <1>1, StageIsRecorded
  <1>4. CASE next = RunWith("raised", b, c)
    <2>1. next.status = "raised"
      BY <1>4, RunFields
    <2>2. next \in RunOver(Ids)
      BY <1>4 DEF RunWith, RunOver
    <2> QED
      BY <2>1, <2>2 DEF IsFollowed
  <1>5. CASE /\ a = "running" /\ id \notin StageIds(run)
             /\ next = RunWith(a, Append(b, done), ThreeMore(c))
    <2> DEFINE stages == Append(b, done)
               events == ThreeMore(c)
               M == Len(c)
    <2>1. /\ Len(b) = n
          /\ \A k \in DOMAIN b : b[k].status = "completed"
          /\ IsFiniteSet(StageIds(run)) /\ Cardinality(StageIds(run)) = n
          /\ IsFiniteSet(Completions(c)) /\ Cardinality(Completions(c)) = n
      BY <1>2, <1>5 DEF IsFollowed
    <2>2. next.status = "running" /\ next.stages = stages /\ next.events = events
      <3> HIDE DEF next, stages, events
      <3>1. next = RunWith("running", stages, events)
        BY <1>5 DEF stages, events
      <3> QED
        BY <3>1, RunFields
    <2>3. done \in Stage /\ done.id = id /\ done.status = "completed"
      OBVIOUS
    <2> HIDE DEF next, done, Stage
    <2>4. /\ stages \in Seq(Stage) /\ DOMAIN stages = 1..(n + 1) /\ Len(stages) = n + 1
          /\ stages[n + 1] = done
          /\ \A k \in 1..n : stages[k] = b[k]
      BY <2>1, <2>3
    <2>5. /\ events \in Seq(Events) /\ DOMAIN events = 1..(M + 3)
          /\ M \in Nat /\ DOMAIN c = 1..M
          /\ events[M + 1] # "stage.completed" /\ events[M + 2] # "stage.completed"
          /\ events[M + 3] = "stage.completed"
          /\ \A k \in 1..M : events[k] = c[k]
      <3>1. "stage.started" \in Events /\ "info" \in Events /\ "stage.completed" \in Events
        BY DEF Events
      <3> QED
        BY <3>1
    <2>6. next \in RunOver(Ids)
      BY <1>5, <2>4, <2>5 DEF RunWith, RunOver, Stage
    <2>7. DOMAIN b = 1..n
      BY <2>1
    <2> HIDE DEF stages, events, M
    <2>8. \A k \in DOMAIN stages : stages[k].status = "completed"
      BY <2>1, <2>3, <2>4, <2>7
    <2>9. StageIds(next) = StageIds(run) \union {id}
      BY <1>2, <2>2, <2>3, <2>4, <2>7 DEF StageIds
    <2>10. Completions(events) = Completions(c) \union {M + 3} /\ M + 3 \notin Completions(c)
      BY <2>5 DEF Completions
    <2>11. IsFiniteSet(StageIds(next)) /\ Cardinality(StageIds(next)) = n + 1
      <3> DEFINE before == StageIds(run)
      <3>1. IsFiniteSet(before) /\ Cardinality(before) = n /\ id \notin before
        BY <1>5, <2>1
      <3> HIDE DEF before
      <3>2. IsFiniteSet(before \union {id}) /\ Cardinality(before \union {id}) = n + 1
        BY <3>1, FS_AddElement
      <3> QED
        BY <2>9, <3>2 DEF before
    <2>12. IsFiniteSet(Completions(events)) /\ Cardinality(Completions(events)) = n + 1
      BY <2>1, <2>10, FS_AddElement
    <2>13. IsFollowed(next, Ids, n + 1)
      BY <2>2, <2>4, <2>6, <2>8, <2>11, <2>12 DEF IsFollowed
    <2> QED
      BY <2>13 DEF next
  <1> QED
    BY <1>3, <1>4, <1>5

\* Every number of stages is followed; the least that is not would follow one
\* that is.
LEMMA RecordedIsFollowed ==
    ASSUME NEW Ids, NEW ids \in Seq(Ids)
    PROVE  IsFollowed(Recorded(ids), Ids, Len(ids))
  <1>1. PICK g : /\ g[0] = StartRun
                 /\ \A n \in 1..Len(ids) : g[n] = RecordStage(g[n - 1], ids[n])
                 /\ Recorded(ids) = g[Len(ids)]
    BY RecordedIsHistory
  <1>2. Len(ids) \in Nat /\ \A n \in 1..Len(ids) : ids[n] \in Ids
    OBVIOUS
  <1> DEFINE Bad == {n \in 0..Len(ids) : ~IsFollowed(g[n], Ids, n)}
  <1>3. Bad = {}
    <2>1. SUFFICES ASSUME Bad # {} PROVE FALSE
      OBVIOUS
    <2>2. Bad \subseteq Nat
      BY <1>2
    <2>3. PICK n \in Bad : \A m \in Bad : n <= m
      <3> HIDE DEF Bad
      <3> QED
        BY <2>1, <2>2, LeastExists
    <2>4. n \in 0..Len(ids) /\ ~IsFollowed(g[n], Ids, n)
      OBVIOUS
    <2>5. n # 0
      BY <1>1, <2>4, StartIsFollowed
    <2>6. n \in 1..Len(ids) /\ n - 1 \in 0..Len(ids) /\ n - 1 \in Nat /\ (n - 1) + 1 = n
      BY <1>2, <2>4, <2>5
    <2>7. n - 1 \notin Bad
      BY <2>2, <2>3, <2>6
    <2>8. IsFollowed(g[n - 1], Ids, n - 1)
      BY <2>6, <2>7
    <2>9. IsFollowed(RecordStage(g[n - 1], ids[n]), Ids, (n - 1) + 1)
      BY <1>2, <2>6, <2>8, RecordStageKeeps
    <2> QED
      BY <1>1, <2>4, <2>6, <2>9
  <1>4. Len(ids) \in 0..Len(ids)
    BY <1>2
  <1> QED
    BY <1>1, <1>3, <1>4

\* A Run that completed was recorded in full.
LEMMA CompletedIsRecordedInFull ==
    ASSUME NEW q \in Requests, BuildLifecycle(Evidence[q]).status = "completed"
    PROVE  IsRecordedInFull(Evidence[q])
  <1> DEFINE e == Evidence[q]
             Ids == {"stage-spec", "stage-summary"} \union Range(e.stages)
             ids == <<"stage-spec">> \o e.stages \o <<"stage-summary">>
             run == Recorded(ids)
             N == Len(e.stages) + 2
  <1>1. e.stages \in Seq(Ids)
    <2>1. e.stages \in Seq(Range(e.stages)) /\ Range(e.stages) \subseteq Ids
      BY EvidenceIsTyped
    <2> HIDE DEF e, Ids
    <2> QED
      BY <2>1
  <1>2. ids \in Seq(Ids) /\ Len(ids) = N
    <2>1. "stage-spec" \in Ids /\ "stage-summary" \in Ids
      OBVIOUS
    <2> HIDE DEF e, Ids
    <2> QED
      BY <1>1, <2>1
  <1>3. BuildLifecycle(e) = IF MayCompleteRun(run) THEN CompleteRun(run) ELSE Raised(run)
    BY DEF BuildLifecycle
  <1> HIDE DEF ids, Ids, N
  <1>4. IsFollowed(run, Ids, N)
    BY <1>2, RecordedIsFollowed
  <1> HIDE DEF run
  <1>5. PICK a \in {"running", "raised"}, b \in Seq([id : Ids, status : {"running", "completed"}]),
             c \in Seq(Events) : run = RunWith(a, b, c)
    BY <1>4, RunIsOfFields DEF IsFollowed
  <1>6. Raised(run).status = "raised"
    <2>1. Raised(run) = RunWith("raised", b, c)
      BY <1>5, RaisedRun
    <2> QED
      BY <2>1, RunFields
  <1>7. MayCompleteRun(run) /\ BuildLifecycle(e) = CompleteRun(run)
    BY <1>3, <1>6
  <1>8. run.status = "running" /\ run.stages = b /\ run.events = c
    BY <1>5, <1>7, RunFields DEF MayCompleteRun, IsActive
  <1>9. /\ Len(b) = N
        /\ Cardinality(StageIds(run)) = N
        /\ IsFiniteSet(Completions(c)) /\ Cardinality(Completions(c)) = N
    BY <1>4, <1>8 DEF IsFollowed
  <1> DEFINE whole == BuildLifecycle(e)
             events == Append(c, "run.completed")
  <1>10. /\ whole.status = "completed" /\ whole.stages = b /\ whole.events = events
    <2>1. CompleteRun(run) = RunWith("completed", b, events)
      BY <1>5, CompletedRun
    <2> HIDE DEF whole, events
    <2>2. whole = RunWith("completed", b, events)
      BY <1>7, <2>1 DEF whole
    <2> QED
      BY <2>2, RunFields
  <1>11. StageIds(whole) = StageIds(run)
    BY <1>8, <1>10 DEF StageIds
  <1>12. /\ events \in Seq(Events \union {"run.completed"}) /\ Len(events) = Len(c) + 1
         /\ DOMAIN events = 1..(Len(c) + 1) /\ Len(c) \in Nat /\ DOMAIN c = 1..Len(c)
         /\ events[Len(c) + 1] = "run.completed"
         /\ \A n \in 1..Len(c) : events[n] = c[n]
    <2>1. c \in Seq(Events \union {"run.completed"}) /\ "run.completed" \in Events \union {"run.completed"}
      OBVIOUS
    <2> DEFINE All == Events \union {"run.completed"}
    <2> HIDE DEF All
    <2>2. c \in Seq(All) /\ "run.completed" \in All
      BY <2>1 DEF All
    <2> QED
      BY <2>2 DEF All
  <1>13. Last(events) = "run.completed"
    BY <1>12 DEF Last
  <1>14. Completions(events) = Completions(c)
    <2> HIDE DEF events
    <2> QED
      BY <1>12 DEF Completions
  <1> HIDE DEF whole, events
  <1>15. /\ Last(whole.events) = "run.completed"
         /\ Cardinality(StageIds(whole)) = Len(whole.stages)
         /\ Cardinality(Completions(whole.events)) = N
    BY <1>9, <1>10, <1>11, <1>13, <1>14
  <1> QED
    BY <1>15 DEF IsRecordedInFull, Completions, whole, N

\* Verdicts without a failure are those of sound evidence.
LEMMA EarnedIsSound ==
    ASSUME NEW q \in Requests, Verdict[q].fails = {}
    PROVE  q \in SoundRequests
  <1>1. VerdictOf(Evidence[q]).fails = {}
    BY VerdictsFollow
  <1>2. BuildLifecycle(Evidence[q]).status = "completed" /\ Promotable(Evidence[q])
    BY <1>1 DEF VerdictOf
  <1> QED
    BY <1>2, PromotedSawNoFuture, CompletedIsRecordedInFull DEF SoundRequests

-----------------------------------------------------------------------------
(* Theorems                                                                *)

\* The invariant above is kept by every call of the facade, in any order.
THEOREM Invariance == Spec => []IInv
  <1>1. IInv /\ [Next]_vars => IInv'
    <2> SUFFICES ASSUME IInv, [Next]_vars PROVE IInv'
      OBVIOUS
    <2>1. ASSUME NEW q \in Requests, Create(q) \/ ChildEnds(q) PROVE IInv'
      BY <2>1, CreateKeeps, ChildEndsKeeps
    <2>2. ASSUME NEW r \in Runs, Cancel(r) PROVE IInv'
      BY <2>2, CancelKeeps
    <2>3. ASSUME NEW r \in Runs, NEW q \in Requests,
                 ObserveCancelled(r, q) \/ ObserveTimeout(r, q) \/ ObserveCrashed(r, q)
          PROVE  IInv'
      BY <2>3, ObservesUnfinished, UnfinishedKeeps
    <2>4. ASSUME NEW r \in Runs, NEW q \in Requests,
                 ObserveEnded(r, q) \/ ObserveSucceeded(r, q) \/ CheckpointFails(r, q)
          PROVE  IInv'
      BY <2>4, ObserveEndedKeeps, ObserveSucceededKeeps, CheckpointFailsKeeps
    <2> QED
      BY <2>1, <2>2, <2>3, <2>4, StutterKeeps DEF Next, Observe
  <1> QED
    BY <1>1, Initially, PTL DEF Spec

\* Repositories hold records of their classes only.
THEOREM TypeCorrect == Spec => []TypeOK
  BY Invariance, PTL DEF IInv

\* The task of a run tells what became of its execution.
THEOREM TasksFollow == Spec => []TaskFollowsExecution
  BY Invariance, PTL DEF IInv

\* Nothing is final that did not pass the guards of the orchestrator, or beside
\* an execution that did not succeed unless its checkpoint was not published.
THEOREM OnlyEarnedRecords == Spec => []RecordsAreEarned
  <1>1. IInv => RecordsAreEarned
    BY DEF IInv, Finals, ResultsAreFinal, FinalsAreEarned, NoEarlyRecord, RecordsAreEarned,
           EndedOtherwiseHasNoRecord, Failures
  <1> QED
    BY <1>1, Invariance, PTL

\* Whatever is final, directly or by reuse, was computed from samples that saw
\* nothing of the future, and its Run has every stage once.
THEOREM FinalRunsAreAlwaysSound == Spec => []FinalRunsAreSound
  <1>1. IInv => FinalRunsAreSound
    <2> SUFFICES ASSUME IInv, NEW f \in final
                 PROVE  /\ f.origin \in SoundRequests
                        /\ f.ranked => ~Evidence[f.origin].bundle.erred
      BY DEF FinalRunsAreSound
    <2>1. f \in Record /\ Earned(f)
      BY DEF IInv, TypeOK, Finals, FinalsAreEarned
    <2>2. f.origin \in Requests /\ Verdict[f.origin].fails = {}
      BY <2>1 DEF Record, Earned
    <2>3. f.origin \in SoundRequests
      BY <2>2, EarnedIsSound
    <2>4. ASSUME f.ranked PROVE ~Evidence[f.origin].bundle.erred
      <3>1. Verdict[f.origin].formal
        BY <2>1, <2>4 DEF Earned
      <3>2. VerdictOf(Evidence[f.origin]).formal
        BY <2>2, <3>1, VerdictsFollow
      <3>3. Evidence[f.origin].bundle.state = "formal"
        BY <3>2 DEF VerdictOf
      <3> QED
        BY <2>2, <3>3, VerdictsFollow DEF MakesBundle
    <2> QED
      BY <2>3, <2>4
  <1> QED
    BY <1>1, Invariance, PTL

\* An execution that ended without success left no succeeded record behind but
\* one saved before a checkpoint that could not be published.
THEOREM NoRecordWithoutSuccess == Spec => []EndedOtherwiseHasNoRecord
  <1>1. IInv => EndedOtherwiseHasNoRecord
    BY DEF IInv, Finals, NoEarlyRecord, EndedOtherwiseHasNoRecord, Failures
  <1> QED
    BY <1>1, Invariance, PTL

\* The tasks that ended keep their status in this step.
EndsKept ==
    \A k \in Keys :
        task[k] # <<>> /\ Current(k) \in TaskEnd =>
            task'[k] # <<>> /\ task'[k][Len(task'[k])] = Current(k)

LEMMA MovedKeepsEnds ==
    ASSUME IInv, NEW r \in Runs, NEW status, NEW result, Moved(r, status, result)
    PROVE  EndsKept
  <1>1. /\ execution[r].status # "absent"
        /\ execution[r].status # "running" => Announced(status) = Announced(execution[r].status)
        /\ Becomes(TaskOf(r), Announced(status))
    BY DEF Moved
  <1>2. Current(TaskOf(r)) = Announced(execution[r].status)
    BY <1>1, RunHasTask
  <1>3. Announced("running") \notin TaskEnd
    BY DEF Announced, TaskEnd, Failures
  <1>4. Current(TaskOf(r)) \in TaskEnd => Announced(status) = Current(TaskOf(r))
    BY <1>1, <1>2, <1>3
  <1> QED
    BY <1>1, <1>4 DEF Becomes, EndsKept, Current

LEMMA CreateKeepsEnds == ASSUME IInv, NEW q \in Requests, Create(q) PROVE EndsKept
  <1>1. KeyOf[q] \in Keys /\ task[KeyOf[q]] = <<>>
    BY BacktestAssumption DEF Create, Accepted, IInv, Ownership, TasksAreAccepted
  <1>2. Becomes(KeyOf[q], "queued")
    BY <1>1, Submitted DEF Create, IInv
  <1> QED
    BY <1>1, <1>2 DEF Becomes, EndsKept, Current

\* No call, in whatever order, changes the status of a task that ended.
THEOREM EndedTasksStayEnded == Spec => TaskEndIsFinal
  <1>1. IInv /\ [Next]_vars => [EndsKept]_vars
    <2> SUFFICES ASSUME IInv, Next PROVE EndsKept
      OBVIOUS
    <2>1. UNCHANGED task => EndsKept
      BY DEF EndsKept, Current
    <2>2. ASSUME NEW q \in Requests, Create(q) \/ ChildEnds(q) PROVE EndsKept
      BY <2>1, <2>2, CreateKeepsEnds DEF ChildEnds
    <2>3. ASSUME NEW r \in Runs, Cancel(r) PROVE EndsKept
      BY <2>3, CancelMoves, MovedKeepsEnds
    <2>4. ASSUME NEW r \in Runs, NEW q \in Requests,
                 ObserveCancelled(r, q) \/ ObserveTimeout(r, q) \/ ObserveCrashed(r, q)
          PROVE  EndsKept
      BY <2>4, ObservesUnfinished, UnfinishedMoves, MovedKeepsEnds
    <2>5. ASSUME NEW r \in Runs, NEW q \in Requests, ObserveSucceeded(r, q) PROVE EndsKept
      BY <2>5, ObserveSucceededMoves, MovedKeepsEnds DEF ObserveSucceeded
    <2>6. ASSUME NEW r \in Runs, NEW q \in Requests, ObserveEnded(r, q) \/ CheckpointFails(r, q)
          PROVE  EndsKept
      BY <2>1, <2>6, ObserveEndedMoves, MovedKeepsEnds DEF CheckpointFails
    <2> QED
      BY <2>2, <2>3, <2>4, <2>5, <2>6 DEF Next, Observe
  <1> QED
    BY <1>1, Invariance, PTL DEF Spec, TaskEndIsFinal, EndsKept
=============================================================================
