----------------------------- MODULE FormalBacktest -----------------------------
(***************************************************************************)
(* Formal backtest runs: the API facade (application/backtest_api.py), the *)
(* supervisor of the child process (application/                           *)
(* backtest_resource_control.py), the orchestrator that turns a successful *)
(* child into a final record (application/backtest_run.py) and the         *)
(* in-memory task backend (application/task_backend.py).  A call of the    *)
(* facade is one step; snapshots of child processes reach it in any order, *)
(* late and repeatedly.                                                    *)
(*                                                                         *)
(* A request stands for its request hash: everything it says but the       *)
(* reports of its layers, of which only the verdict counts.                *)
(***************************************************************************)
EXTENDS Naturals, Sequences, FiniteSets

CONSTANTS
    Requests,
    Runs, RunOf,     \* the run_id of each request
    Keys, KeyOf,     \* the Idempotency-Key of each request
    Inputs, InputOf, \* spec, dataset and patch hashes and engine version of each request
    Mode,            \* its requested_mode
    Code,            \* its code_state; "patched" is dirty code with a patch_hash
    Verdict,         \* what the reports of its layers say
    None,            \* no request
    MaxEvents,       \* bound on events of a task
    MaxFaults        \* bound on checkpoints that cannot be published

Modes == {"formal", "preview"}
CodeStates == {"clean", "patched", "dirty"}

\* fails: the checks of the orchestrator the reports do not pass.
\* formal: the state of the artifact bundle.  ranking: eligible_for_ranking.
Verdicts == [fails : SUBSET {"bindings", "risk", "audit"}, formal : BOOLEAN, ranking : BOOLEAN]

ASSUME BacktestAssumption ==
    /\ RunOf \in [Requests -> Runs]
    /\ KeyOf \in [Requests -> Keys]
    /\ InputOf \in [Requests -> Inputs]
    /\ Mode \in [Requests -> Modes]
    /\ Code \in [Requests -> CodeStates]
    /\ Verdict \in [Requests -> Verdicts]
    /\ None \notin Requests
    /\ MaxEvents \in Nat
    /\ MaxFaults \in Nat

VARIABLES
    task,      \* InMemoryTaskBackend: the events of the task of each key
    execution, \* InMemoryBacktestRunExecutionRepository
    api,       \* execution_record of the API record of each run
    index,     \* requests the API accepted: their keys are known
    final,     \* InMemoryBacktestRunRepository
    child,     \* the process a worker runs for each accepted request
    unpublished, \* history: requests with a record whose checkpoint was not published
    faults     \* checkpoints that could not be published

vars == <<task, execution, api, index, final, child, unpublished, faults>>

-----------------------------------------------------------------------------

TaskStatus == {"queued", "succeeded", "failed", "cancelled"}
TaskEnd == {"succeeded", "failed", "cancelled"}

\* A final record answers a request with the outputs of its origin, which is
\* another request when the record is reused.
Record == [request : Requests, origin : Requests, ranked : BOOLEAN]

\* "cancelling" is running with a cancel_requested_at.
Active == {"running", "cancelling"}
Failures == {"failed", "oom_killed", "timed_out"}
Status == Active \union Failures \union {"absent", "cancelled", "succeeded"}

Execution == [request : Requests \union {None}, status : Status, result : SUBSET Record]

NoExecution == [request |-> None, status |-> "absent", result |-> {}]

TaskOf(r) == KeyOf[api[r].request]

Current(k) == task[k][Len(task[k])]

Accepted(k) == {q \in index : KeyOf[q] = k}

-----------------------------------------------------------------------------
(* The task backend                                                        *)

\* _append_event_locked() with the new status of the snapshot.
Log(k, status) ==
    /\ Len(task[k]) < MaxEvents
    /\ task' = [task EXCEPT ![k] = Append(@, status)]

\* submit() is idempotent in the key.
Submits(k) == IF task[k] = <<>> THEN Log(k, "queued") ELSE UNCHANGED task

\* request_cancel(): only a task that did not end is cancelled.
CancelsTask(k) == IF Current(k) \in TaskEnd THEN UNCHANGED task ELSE Log(k, "cancelled")

\* complete() and fail(), which look at no status.
Reports(k, status) ==
    \/ status = "succeeded" /\ Log(k, "succeeded")
    \/ status \in Failures /\ Log(k, "failed")
    \/ status = "cancelled" /\ UNCHANGED task

-----------------------------------------------------------------------------
(* The orchestrator                                                        *)

\* Formal runs of dirty code need a patch, and become previews with it.
Startable(q) == Mode[q] = "formal" => Code[q] # "dirty"

Effective(q) == IF Code[q] = "patched" THEN "preview" ELSE Mode[q]

ReuseKey(q) == [inputs |-> InputOf[q], mode |-> Effective(q), code |-> Code[q]]

\* Mutant: only the bindings are validated.
PassesBindings(q) == "bindings" \notin Verdict[q].fails

\* _validate_cross_layer_bindings() and _validate_promotion_guards().
Passes(q) ==
    /\ Verdict[q].fails = {}
    /\ Effective(q) = "formal" => Verdict[q].formal

Ranked(q) == Effective(q) = "formal" /\ Verdict[q].ranking /\ Verdict[q].formal

ByKey(k) == {f \in final : KeyOf[f.request] = k}
ByReuseKey(key) == {f \in final : f.origin = f.request /\ ReuseKey(f.request) = key}

\* The answer to a request whose key is known, if it is the same request.
Known(q, f) == f \in final /\ f.request = q

\* for_reuse() of the record of an equivalent request.
Reused(q, f) == \E g \in ByReuseKey(ReuseKey(q)) : f = [g EXCEPT !.request = q]

Built(q, f) ==
    /\ ByReuseKey(ReuseKey(q)) = {}
    /\ Passes(q)
    /\ f = [request |-> q, origin |-> q, ranked |-> Ranked(q)]

\* finalize() returns f for q.  Otherwise it raises and changes nothing.
Finalizes(q, f) ==
    /\ Startable(q)
    /\ \/ Known(q, f) /\ UNCHANGED final
       \/ /\ ByKey(KeyOf[q]) = {}
          /\ Reused(q, f) \/ Built(q, f)
          /\ final' = final \union {f}

-----------------------------------------------------------------------------
(* Calls of the facade                                                     *)

\* The supervisor's new record, and the API's copy of it.
Saves(r, e) ==
    /\ execution' = [execution EXCEPT ![r] = e]
    /\ api' = [api EXCEPT ![r] = e]

\* create_backtest_run() with a new key; with a known key it replies or
\* refuses and changes nothing.  start() overwrites what the run id had.
Create(q) ==
    /\ Accepted(KeyOf[q]) = {}
    /\ Submits(KeyOf[q])
    /\ Saves(RunOf[q], [request |-> q, status |-> "running", result |-> {}])
    /\ index' = index \union {q}
    /\ child' = [child EXCEPT ![q] = "running"]
    /\ UNCHANGED <<final, unpublished, faults>>

\* Mutant: only the task is told.
CancelTaskOnly(r) ==
    /\ api[r].status # "absent"
    /\ CancelsTask(TaskOf(r))
    /\ UNCHANGED <<execution, api, index, final, child, unpublished, faults>>

\* cancel_backtest_run(): the task ends now, the execution when the child is
\* observed next.
Cancel(r) ==
    /\ api[r].status # "absent"
    /\ CancelsTask(TaskOf(r))
    /\ Saves(r, IF execution[r].status = "running"
                THEN [execution[r] EXCEPT !.status = "cancelling"]
                ELSE execution[r])
    /\ UNCHANGED <<index, final, child, unpublished, faults>>

\* The process of a worker ends; the facade learns of it from snapshots.
ChildEnds(q) ==
    /\ child[q] = "running"
    /\ \E end \in {"succeeded", "failed", "oom_killed"} : child' = [child EXCEPT ![q] = end]
    /\ UNCHANGED <<task, execution, api, index, final, unpublished, faults>>

\* observe_backtest_run() is given a snapshot of a process of this run id,
\* perhaps one of an earlier request.
Snapshot(r, q) == api[r].status # "absent" /\ RunOf[q] = r /\ child[q] # "none"

\* The execution ends with its checkpoint, and the task is told.
Ends(r, status, result) ==
    /\ Saves(r, [request |-> execution[r].request, status |-> status, result |-> result])
    /\ Reports(TaskOf(r), status)

\* observe() returns the record of an ended execution as it is, and the task
\* is completed or failed once more.
ObserveEnded(r, q) ==
    /\ Snapshot(r, q)
    /\ execution[r].status \notin Active
    /\ Saves(r, execution[r])
    /\ Reports(TaskOf(r), execution[r].status)
    /\ UNCHANGED <<index, final, child, unpublished, faults>>

\* Whatever the snapshot says, also when the child has succeeded.
ObserveCancelled(r, q) ==
    /\ Snapshot(r, q)
    /\ execution[r].status = "cancelling"
    /\ Ends(r, "cancelled", execution[r].result)
    /\ UNCHANGED <<index, final, child, unpublished, faults>>

\* A snapshot of a running child is older or later than the time limit.
ObserveTimeout(r, q) ==
    /\ Snapshot(r, q)
    /\ execution[r].status = "running"
    /\ Ends(r, "timed_out", execution[r].result)
    /\ UNCHANGED <<index, final, child, unpublished, faults>>

\* The request that is finalized: the result_request of the snapshot, or the
\* one of the execution.
Finalized(r, q) == {q, execution[r].request}

Succeeds(r, q, f) ==
    /\ Snapshot(r, q)
    /\ execution[r].status = "running"
    /\ child[q] = "succeeded"
    /\ \E p \in Finalized(r, q) : Finalizes(p, f)

ObserveSucceeded(r, q) ==
    /\ \E f \in Record : Succeeds(r, q, f) /\ Ends(r, "succeeded", {f})
    /\ UNCHANGED <<index, child, unpublished, faults>>

\* put_bytes() of the checkpoint raises: the final record is saved by then,
\* the execution goes on.  Without a final record nothing would change.
CheckpointFails(r, q) ==
    /\ \E f \in Record :
          Succeeds(r, q, f) /\ unpublished' = unpublished \union {f.request}
    /\ faults < MaxFaults
    /\ faults' = faults + 1
    /\ UNCHANGED <<task, execution, api, index, child>>

ObserveCrashed(r, q) ==
    /\ Snapshot(r, q)
    /\ execution[r].status = "running"
    /\ child[q] \in {"failed", "oom_killed"}
    /\ Ends(r, child[q], execution[r].result)
    /\ UNCHANGED <<index, final, child, unpublished, faults>>

-----------------------------------------------------------------------------

Init ==
    /\ task = [k \in Keys |-> <<>>]
    /\ execution = [r \in Runs |-> NoExecution]
    /\ api = [r \in Runs |-> NoExecution]
    /\ index = {}
    /\ final = {}
    /\ child = [q \in Requests |-> "none"]
    /\ unpublished = {}
    /\ faults = 0

Observe(r, q) ==
    \/ ObserveEnded(r, q) \/ ObserveCancelled(r, q) \/ ObserveTimeout(r, q)
    \/ ObserveSucceeded(r, q) \/ ObserveCrashed(r, q) \/ CheckpointFails(r, q)

Next ==
    \/ \E q \in Requests : Create(q) \/ ChildEnds(q)
    \/ \E r \in Runs : Cancel(r) \/ \E q \in Requests : Observe(r, q)

Spec == Init /\ [][Next]_vars

-----------------------------------------------------------------------------
(* Properties                                                              *)

\* Repositories hold records of the shape their classes validate.
TypeOK ==
    /\ task \in [Keys -> Seq(TaskStatus)]
    /\ execution \in [Runs -> Execution]
    /\ api \in [Runs -> Execution]
    /\ index \subseteq Requests
    /\ final \subseteq Record
    /\ child \in [Requests -> {"none", "running", "succeeded", "failed", "oom_killed"}]
    /\ unpublished \subseteq Requests
    /\ faults \in 0 .. MaxFaults

Announced(status) ==
    CASE status = "running" -> "queued"
      [] status = "succeeded" -> "succeeded"
      [] status \in Failures -> "failed"
      [] OTHER -> "cancelled"

\* What the task of a run says of its execution, at any time: queued while it
\* runs, ended as it did, and cancelled from the request on.
TaskFollowsExecution ==
    \A r \in Runs : execution[r].status # "absent" =>
        /\ task[TaskOf(r)] # <<>>
        /\ Current(TaskOf(r)) = Announced(execution[r].status)

\* A task that ended keeps its status, although complete() and fail() overwrite
\* any: no snapshot, however late, turns a cancelled run into a succeeded one.
TaskEndIsFinal ==
    [][\A k \in Keys :
          task[k] # <<>> /\ Current(k) \in TaskEnd =>
              task'[k] # <<>> /\ task'[k][Len(task'[k])] = Current(k)]_vars

Earned(f) ==
    /\ Mode[f.request] = "formal" => Code[f.request] # "dirty"
    /\ Verdict[f.origin].fails = {}
    /\ InputOf[f.request] = InputOf[f.origin]
    /\ Code[f.request] = Code[f.origin]
    /\ f.ranked => /\ Mode[f.request] = "formal" /\ Code[f.request] = "clean"
                   /\ Verdict[f.origin].formal /\ Verdict[f.origin].ranking

\* docs/backtest-resource-control.md:24 says that an execution that timed out,
\* was cancelled or failed has created no succeeded record; observe() saves the
\* record before it publishes the checkpoint, so that one whose checkpoint could
\* not be published may stand beside it, and no other.
EndedOtherwiseHasNoRecord ==
    \A r \in Runs :
        execution[r].status \in Failures \union {"cancelled"} =>
            \A f \in ByKey(KeyOf[execution[r].request]) : f.request \in unpublished

\* docs/backtest-run-orchestration.md: nothing is final, or reused, that was not
\* validated: the outputs come from a request that passed every guard and was
\* made of the same inputs and code, only clean formal runs are ranked, and an
\* execution that did not succeed left a record only by an unpublished checkpoint.
RecordsAreEarned ==
    /\ \A f \in final \union UNION {execution[r].result : r \in Runs} : Earned(f)
    /\ EndedOtherwiseHasNoRecord
=============================================================================
