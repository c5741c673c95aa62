---------------------------- MODULE AgentStageStore ----------------------------
(***************************************************************************)
(* Checkpoints of the stages of one agent run                              *)
(* (repositories/agent_stage_store.py) and the workers that resume it: a   *)
(* worker asks for a resume plan, starts the next stage, calls the model,  *)
(* records the receipt and completes the stage.  Another worker does the   *)
(* same at the same time, or after a crash; the user cancels the run.      *)
(*                                                                         *)
(* A transaction of the store is one step; resume_plan, which reads the    *)
(* stages in one connection and the receipts in another, is two.           *)
(***************************************************************************)
EXTENDS Naturals

CONSTANTS
    Last,       \* sequence number of the last stage of the run
    Workers,    \* processes that resume the run
    MaxRetries, \* max_retries of every stage
    MaxCrashes  \* bound on crashes of workers

ASSUME StageAssumption ==
    /\ Last \in Nat \ {0}
    /\ MaxRetries \in Nat
    /\ MaxCrashes \in Nat

VARIABLES
    stage,    \* serenity_agent_stage_checkpoints, by sequence
    receipts, \* serenity_agent_model_call_receipts
    calls,    \* how often the model was called, and paid, for each stage
    work,     \* what each worker is doing
    crashes,  \* crashes so far
    reached   \* history: request_cancel has found a stage to cancel

vars == <<stage, receipts, calls, work, crashes, reached>>

-----------------------------------------------------------------------------

Stages == 1 .. Last

Policies == {"degrade", "skip", "fail_run"}

Done == {"succeeded", "degraded", "skipped"}
Open == {"pending", "running"}
Stopped == {"failed", "cancelled"}
Status == Done \union Open \union Stopped \union {"absent"}

\* The model's response stands for the output made from it; 0 is no output.
Checkpoint == [status  : Status,
               policy  : Policies,
               attempt : 0 .. MaxRetries + 1,
               output  : Nat]

NoCheckpoint == [status |-> "absent", policy |-> "degrade", attempt |-> 0, output |-> 0]

\* The idempotency key of a model call is made of the stage and its attempt.
Receipt == [stage : Stages, attempt : 1 .. MaxRetries + 1, response : Nat]

HasReceipt(s) == \E r \in receipts : r.stage = s

\* What list_stages returned, row by row.
Snapshot == [Stages -> [status : Status, attempt : 0 .. MaxRetries + 1]]

Seen == [s \in Stages |-> [status |-> stage[s].status, attempt |-> stage[s].attempt]]
Nothing == [s \in Stages |-> [status |-> "absent", attempt |-> 0]]

\* paid is what the database held when the worker listed the stages.
Work == [phase    : {"idle", "listed", "planned", "started", "answered", "recorded", "failing"},
         stage    : Stages \union {0},
         attempt  : 0 .. MaxRetries + 2,
         response : Nat,
         listed   : Snapshot,
         paid     : SUBSET Stages]

Idle == [phase |-> "idle", stage |-> 0, attempt |-> 0, response |-> 0,
         listed |-> Nothing, paid |-> {}]

Becomes(s, c) == stage' = [stage EXCEPT ![s] = c]

-----------------------------------------------------------------------------
(* The run's owner                                                         *)

\* register_stage(): the orchestrator registers the stages in their order.  A
\* second registration of the same definition finds the row.
RegisterStage(s) ==
    /\ stage[s].status = "absent"
    /\ s > 1 => stage[s - 1].status # "absent"
    /\ \E p \in Policies :
          Becomes(s, [NoCheckpoint EXCEPT !.status = "pending", !.policy = p])
    /\ UNCHANGED <<receipts, calls, work, crashes, reached>>

Cancellable == {s \in Stages : stage[s].status \in Open}

\* request_cancel() of the run: its answer is the number of rows it changed.  A
\* call that finds no open stage answers 0 and leaves no trace in the table.
RequestCancel ==
    /\ stage' = [s \in Stages |->
                  IF s \in Cancellable THEN [stage[s] EXCEPT !.status = "cancelled"]
                  ELSE stage[s]]
    /\ reached' = (reached \/ Cancellable # {})
    /\ UNCHANGED <<receipts, calls, work, crashes>>

-----------------------------------------------------------------------------
(* resume_plan                                                             *)

\* list_stages(), in a connection of its own.
ListStages(w) ==
    /\ work[w].phase = "idle"
    /\ work' = [work EXCEPT ![w] =
                  [Idle EXCEPT !.phase = "listed", !.listed = Seen,
                               !.paid = {s \in Stages : HasReceipt(s)}]]
    /\ UNCHANGED <<stage, receipts, calls, crashes, reached>>

\* Mutant: a stop does not end the loop.
NextStageWithoutStop(listed, s) ==
    /\ listed[s].status \in Open
    /\ \A k \in 1 .. s - 1 : listed[k].status \notin Open

\* The first stage whose action is run or reuse_model_call, unless the loop
\* broke at a failed or cancelled stage before.
NextStage(listed, s) ==
    /\ listed[s].status \in Open
    /\ \A k \in 1 .. s - 1 : listed[k].status \in Done \union {"absent"}

\* Mutant: receipts are not looked at.
ReusesNever(listed, s) == FALSE

\* _resume_action() of that stage: reuse_model_call or run.
Reuses(listed, s) == listed[s].status = "running" /\ HasReceipt(s)

\* The receipt of the latest call: completed_at_utc DESC.
Latest(s, r) ==
    /\ r \in receipts
    /\ r.stage = s
    /\ \A q \in receipts : q.stage = s => q.response <= r.response

\* The plan says reuse_model_call: the worker takes over the response.
PlanReuse(w, s) ==
    /\ Reuses(work[w].listed, s)
    /\ \E r \in receipts :
          /\ Latest(s, r)
          /\ work' = [work EXCEPT ![w] = [@ EXCEPT
                        !.phase = "recorded", !.stage = s, !.attempt = r.attempt,
                        !.response = r.response, !.listed = Nothing]]

\* The plan says run: the worker will start the next attempt.
PlanRun(w, s) ==
    /\ ~Reuses(work[w].listed, s)
    /\ work' = [work EXCEPT ![w] = [@ EXCEPT
                  !.phase = "planned", !.stage = s,
                  !.attempt = work[w].listed[s].attempt + 1, !.listed = Nothing]]

Plan(w) ==
    /\ work[w].phase = "listed"
    /\ \E s \in Stages : NextStage(work[w].listed, s) /\ (PlanReuse(w, s) \/ PlanRun(w, s))
    /\ UNCHANGED <<stage, receipts, calls, crashes, reached>>

\* Nothing to run: every stage is done, or the run has stopped.
PlanNothing(w) ==
    /\ work[w].phase = "listed"
    /\ \A s \in Stages : ~NextStage(work[w].listed, s)
    /\ work' = [work EXCEPT ![w] = Idle]
    /\ UNCHANGED <<stage, receipts, calls, crashes, reached>>

-----------------------------------------------------------------------------
(* Running a stage                                                         *)

Rest(w) == work' = [work EXCEPT ![w] = Idle]

Advance(w, phase) == work' = [work EXCEPT ![w].phase = phase]

\* Mutant: a cancelled stage can be started.
StartableUnlessDone(s) == stage[s].status \notin Done \union {"failed"}

\* Mutant: a stage that was left running is not started again.
StartableOnce(s) == stage[s].status = "pending"

\* start_stage() returns the checkpoint as it is if the stage has ended.
Startable(s) == stage[s].status \in Open

WithinRetries(attempt) == attempt <= MaxRetries + 1

\* start_stage(): the attempt is the caller's.
StartStage(w) ==
    /\ work[w].phase = "planned"
    /\ LET s == work[w].stage
       IN  /\ Startable(s)
           /\ WithinRetries(work[w].attempt)
           /\ Becomes(s, [stage[s] EXCEPT !.status = "running", !.attempt = work[w].attempt])
    /\ Advance(w, "started")
    /\ UNCHANGED <<receipts, calls, crashes, reached>>

\* start_stage() returned a checkpoint that is not running.
StartEnded(w) ==
    /\ work[w].phase = "planned"
    /\ ~Startable(work[w].stage)
    /\ Rest(w)
    /\ UNCHANGED <<stage, receipts, calls, crashes, reached>>

\* start_stage() raised: the attempt exceeds max_retries.
StartExhausted(w) ==
    /\ work[w].phase = "planned"
    /\ Startable(work[w].stage)
    /\ ~WithinRetries(work[w].attempt)
    /\ Advance(w, "failing")
    /\ UNCHANGED <<stage, receipts, calls, crashes, reached>>

\* The model answers: the call is paid, and its response is a new one.
CallModel(w) ==
    /\ work[w].phase = "started"
    /\ calls' = [calls EXCEPT ![work[w].stage] = @ + 1]
    /\ work' = [work EXCEPT ![w] = [@ EXCEPT
                  !.phase = "answered", !.response = calls[work[w].stage] + 1]]
    /\ UNCHANGED <<stage, receipts, crashes, reached>>

\* The model, a tool or a limit of the stage made it fail.
StageFails(w) ==
    /\ work[w].phase = "started"
    /\ Advance(w, "failing")
    /\ UNCHANGED <<stage, receipts, calls, crashes, reached>>

Keyed(w) == {r \in receipts : r.stage = work[w].stage /\ r.attempt = work[w].attempt}

\* record_model_call_success(), whatever the status of the stage.
RecordReceipt(w) ==
    /\ work[w].phase = "answered"
    /\ Keyed(w) = {}
    /\ receipts' = receipts \union
                     {[stage |-> work[w].stage, attempt |-> work[w].attempt,
                       response |-> work[w].response]}
    /\ Advance(w, "recorded")
    /\ UNCHANGED <<stage, calls, crashes, reached>>

\* AgentStageStoreConflict: another worker used the key for its response.
ReceiptConflict(w) ==
    /\ work[w].phase = "answered"
    /\ Keyed(w) # {}
    /\ Rest(w)
    /\ UNCHANGED <<stage, receipts, calls, crashes, reached>>

\* complete_stage() writes unless the stage has succeeded, failed or been
\* cancelled: a degraded or skipped stage can still succeed.
Completable(s) == stage[s].status \notin Stopped \union {"succeeded"}

CompleteStage(w) ==
    /\ work[w].phase = "recorded"
    /\ LET s == work[w].stage
       IN  /\ Completable(s)
           /\ Becomes(s, [stage[s] EXCEPT !.status = "succeeded", !.output = work[w].response])
    /\ Rest(w)
    /\ UNCHANGED <<receipts, calls, crashes, reached>>

\* complete_stage() raised, or found the same output there.
CompleteRefused(w) ==
    /\ work[w].phase = "recorded"
    /\ ~Completable(work[w].stage)
    /\ Rest(w)
    /\ UNCHANGED <<stage, receipts, calls, crashes, reached>>

\* _status_for_failure_policy
FailureStatus(policy) ==
    [degrade |-> "degraded", skip |-> "skipped", fail_run |-> "failed"][policy]

Failable(s) == stage[s].status \in Open \union {"failed"}

\* record_stage_failure(): returns what is there if the stage has ended.
RecordStageFailure(w) ==
    /\ work[w].phase = "failing"
    /\ LET s == work[w].stage
       IN  IF Failable(s)
           THEN Becomes(s, [stage[s] EXCEPT !.status = FailureStatus(stage[s].policy)])
           ELSE UNCHANGED stage
    /\ Rest(w)
    /\ UNCHANGED <<receipts, calls, crashes, reached>>

Crash(w) ==
    /\ work[w].phase # "idle"
    /\ crashes < MaxCrashes
    /\ crashes' = crashes + 1
    /\ Rest(w)
    /\ UNCHANGED <<stage, receipts, calls, reached>>

-----------------------------------------------------------------------------

Init ==
    /\ stage = [s \in Stages |-> NoCheckpoint]
    /\ receipts = {}
    /\ calls = [s \in Stages |-> 0]
    /\ work = [w \in Workers |-> Idle]
    /\ crashes = 0
    /\ reached = FALSE

Runs(w) ==
    \/ ListStages(w) \/ Plan(w) \/ PlanNothing(w)
    \/ StartStage(w) \/ StartEnded(w) \/ StartExhausted(w)
    \/ CallModel(w) \/ StageFails(w)
    \/ RecordReceipt(w) \/ ReceiptConflict(w)
    \/ CompleteStage(w) \/ CompleteRefused(w) \/ RecordStageFailure(w)

Next ==
    \/ \E s \in Stages : RegisterStage(s)
    \/ RequestCancel
    \/ \E w \in Workers : Runs(w) \/ Crash(w)

Spec == Init /\ [][Next]_vars

\* A worker that is alive goes on and asks again for what is left to do.
FairSpec == Spec /\ \A w \in Workers : WF_vars(Runs(w))

-----------------------------------------------------------------------------
(* Properties                                                              *)

\* Rows, receipts and workers have the shape the code gives them; the attempt
\* of a stage stays within max_retries.
TypeOK ==
    /\ stage \in [Stages -> Checkpoint]
    /\ receipts \subseteq Receipt
    /\ calls \in [Stages -> Nat]
    /\ work \in [Workers -> Work]
    /\ crashes \in 0 .. MaxCrashes
    /\ reached \in BOOLEAN

\* docs/agent-stage-persistence.md:49: actions follow the sequence.  However
\* old the plan a worker acts on, no stage runs or ends before all earlier
\* stages are done, so nothing runs behind a failed stage.
StagesRunInOrder ==
    \A s \in Stages :
        stage[s].status \in Done \union {"running", "failed"} =>
            \A k \in 1 .. s - 1 : stage[k].status \in Done

\* docs/agent-stage-persistence.md:16: a model that was paid and has its
\* receipt is not paid again by a worker whose plan was made after that.
NoDuplicateCharge ==
    \A w \in Workers :
        work[w].phase \in {"planned", "started"} => work[w].stage \notin work[w].paid

\* The output of a stage that succeeded is the response of a receipt: the
\* audit trail has the call behind every output, whichever worker completed.
OutputHasReceipt ==
    \A s \in Stages :
        stage[s].status = "succeeded" =>
            \E r \in receipts : r.stage = s /\ r.response = stage[s].output

\* docs/agent-stage-persistence.md:73: one response per idempotency key.
ReceiptsAreUnique ==
    \A q, r \in receipts : q.stage = r.stage /\ q.attempt = r.attempt => q = r

\* docs/agent-stage-persistence.md:83: request_cancel marks the pending and
\* running stages.  If it found one, the run has stopped for good: no late start,
\* completion or failure of a worker, however old its plan, wipes the mark out,
\* and nothing runs again, not even a stage that is registered later.  A call
\* that found no open stage marks nothing and stops nothing: the run shows no
\* cancelled stage, and what is registered later runs.
CancelStopsWhatItFinds ==
    /\ reached <=> \E s \in Stages : stage[s].status = "cancelled"
    /\ reached => \A s \in Stages : stage[s].status # "running"

\* A receipt is never lost or replaced.
ReceiptsAreKept == [][receipts \subseteq receipts']_vars

\* Failed, cancelled and succeeded stages stay as they are, output included; a
\* degraded or skipped one can only be improved by a late completion.
EndsAreKept ==
    [][\A s \in Stages :
          /\ stage[s].status \in Stopped \union {"succeeded"} => stage'[s] = stage[s]
          /\ stage[s].status \in {"degraded", "skipped"} =>
                stage'[s] = stage[s] \/ stage'[s].status = "succeeded"]_vars

\* Every registered stage is brought to an end, unless an earlier one stopped
\* the run.
Concludes ==
    \A s \in Stages :
        stage[s].status = "pending" ~>
            \/ stage[s].status \in Done \union Stopped
            \/ \E k \in 1 .. s - 1 : stage[k].status \in Stopped
=============================================================================
