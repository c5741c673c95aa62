------------------------ MODULE PersistentTaskBackend ------------------------
(***************************************************************************)
(* The database-authoritative task backend                                 *)
(* (repositories/persistent_task_backend.py), the clients that submit and  *)
(* cancel tasks, the workers that lease them, the broker that wakes the    *)
(* workers up and the reconciler of services/task_event_stream.py.         *)
(*                                                                         *)
(* Every database transaction is one step here.  Calls that span several   *)
(* transactions (submit, then dispatch; the reconciler's loop) are several *)
(* steps, so that other actors may run in between.  The module             *)
(* TaskBackendReadCommitted splits each transaction into its SELECT and    *)
(* its UPDATE.                                                             *)
(*                                                                         *)
(* Time is abstracted to the one comparison the code makes with it: a      *)
(* lease is "live" until Lapse makes it "lapsed".                          *)
(***************************************************************************)
EXTENDS Naturals, Sequences

CONSTANTS
    Tasks,      \* the task commands clients submit, one idempotency key each
    Workers,    \* worker_id values
    Clients,    \* callers of submit() and request_cancel()
    NoTask,     \* a worker or a client that is not busy with a task
    NoWorker,   \* lease_owner IS NULL
    MaxFaults   \* bound on crashes, lapses of held leases, lost and refused messages

ASSUME TaskAssumption ==
    /\ NoTask \notin Tasks
    /\ NoWorker \notin Workers
    /\ MaxFaults \in Nat

VARIABLES
    row,     \* serenity_task_backend_runs: the row of each task
    last,    \* status carried by the latest row of serenity_task_backend_events
    starts,  \* how many task.started events were appended
    arrival, \* ORDER BY submitted_at_utc, task_id
    broker,  \* tasks with an undelivered wake-up message
    call,    \* what each client is in the middle of
    held,    \* the TaskLease each worker is working under
    recon,   \* progress of TaskEventReconciler.reconcile()
    faults   \* faults injected so far

vars == <<row, last, starts, arrival, broker, call, held, recon, faults>>

-----------------------------------------------------------------------------
(* Rows                                                                    *)

Terminal == {"succeeded", "failed", "cancelled"}
TaskStatus == {"queued", "running", "cancel_requested"} \union Terminal

\* "absent" stands for a task whose row was not inserted yet.
Row == [status  : TaskStatus \union {"absent"},
        owner   : Workers \union {NoWorker},
        lease   : {"none", "live", "lapsed"},
        attempt : Nat]

NoRow == [status |-> "absent", owner |-> NoWorker, lease |-> "none", attempt |-> 0]

Lease == [task : Tasks \union {NoTask}, attempt : Nat]
NoLease == [task |-> NoTask, attempt |-> 0]

InStatus(s) == {t \in Tasks : row[t].status = s}

\* The first of a set of rows in the ORDER BY of every SELECT over tasks.
Earliest(S, t) ==
    \E i \in DOMAIN arrival :
        /\ arrival[i] = t
        /\ t \in S
        /\ \A j \in 1 .. i - 1 : arrival[j] \notin S

\* Mutant: the owner of the lease is not compared.
LeasedByAnyone(w, t) == row[t].status = "running"

\* _require_leased_row: the lease's expiry is not looked at.
Leased(w, t) == row[t].status = "running" /\ row[t].owner = w

\* An UPDATE of one row together with the event of the same transaction.
Save(t, r) ==
    /\ row' = [row EXCEPT ![t] = r]
    /\ last' = [last EXCEPT ![t] = r.status]

Fault == faults < MaxFaults /\ faults' = faults + 1

-----------------------------------------------------------------------------
(* Clients                                                                 *)

\* submit(): the first transaction.  A second submit of the same key finds
\* the row and returns its reference without writing or dispatching.
Submit(c, t) ==
    /\ call[c].op = "idle"
    /\ row[t].status = "absent"
    /\ Save(t, [NoRow EXCEPT !.status = "queued"])
    /\ arrival' = Append(arrival, t)
    /\ call' = [call EXCEPT ![c] = [op |-> "dispatch", task |-> t]]
    /\ UNCHANGED <<starts, broker, held, recon, faults>>

\* queue_router.enqueue() returned, after the commit and outside of it.
Dispatch(c) ==
    /\ call[c].op = "dispatch"
    /\ broker' = broker \union {call[c].task}
    /\ call' = [call EXCEPT ![c] = [op |-> "idle", task |-> NoTask]]
    /\ UNCHANGED <<row, last, starts, arrival, held, recon, faults>>

\* enqueue() raised: the broker may or may not have taken the message.
DispatchRaises(c) ==
    /\ call[c].op = "dispatch"
    /\ \E taken \in SUBSET {call[c].task} : broker' = broker \union taken
    /\ call' = [call EXCEPT ![c].op = "failing"]
    /\ Fault
    /\ UNCHANGED <<row, last, starts, arrival, held, recon>>

\* _record_dispatch_failure: whatever the row says by now, it becomes failed,
\* and the lease columns stay as they are.
RecordDispatchFailure(c) ==
    /\ call[c].op = "failing"
    /\ Save(call[c].task, [row[call[c].task] EXCEPT !.status = "failed"])
    /\ call' = [call EXCEPT ![c] = [op |-> "idle", task |-> NoTask]]
    /\ UNCHANGED <<starts, arrival, broker, held, recon, faults>>

ClientCrash(c) ==
    /\ call[c].op # "idle"
    /\ call' = [call EXCEPT ![c] = [op |-> "idle", task |-> NoTask]]
    /\ Fault
    /\ UNCHANGED <<row, last, starts, arrival, broker, held, recon>>

\* Mutant: request_cancel() forgets that terminal tasks cannot be cancelled.
CancellableUnlessAsked(t) == row[t].status \notin {"absent", "cancel_requested"}

\* request_cancel() of a task that is neither terminal nor already asked to stop.
Cancellable(t) == row[t].status \in {"queued", "running"}

Cancelled(t) == [row[t] EXCEPT !.status = "cancel_requested"]

RequestCancel(c, t) ==
    /\ call[c].op = "idle"
    /\ Cancellable(t)
    /\ Save(t, Cancelled(t))
    /\ UNCHANGED <<starts, arrival, broker, call, held, recon, faults>>

-----------------------------------------------------------------------------
(* Workers                                                                 *)

\* What acquire_next writes, given the attempt its SELECT saw.
AcquireWrite(w, t, seen) ==
    /\ Save(t, [status |-> "running", owner |-> w, lease |-> "live",
                attempt |-> seen + 1])
    /\ starts' = [starts EXCEPT ![t] = @ + 1]
    /\ held' = [held EXCEPT ![w] = [task |-> t, attempt |-> seen + 1]]

\* A wake-up is delivered and maybe acknowledged: the broker delivers at
\* least once, and a message does not say which queued row will be leased.
Wake ==
    \E m \in broker : \E acked \in SUBSET {m} : broker' = broker \ acked

\* acquire_next() by a worker that received a message.
Acquire(w) ==
    /\ held[w] = NoLease
    /\ Wake
    /\ \E t \in Tasks :
          /\ Earliest(InStatus("queued"), t)
          /\ AcquireWrite(w, t, row[t].attempt)
    /\ UNCHANGED <<arrival, call, recon, faults>>

\* acquire_next() returned None: nothing is queued.
AcquireNothing(w) ==
    /\ held[w] = NoLease
    /\ InStatus("queued") = {}
    /\ Wake
    /\ UNCHANGED <<row, last, starts, arrival, call, held, recon, faults>>

HeartbeatWrite(t) ==
    /\ row' = [row EXCEPT ![t].lease = "live"]
    /\ last' = [last EXCEPT ![t] = "running"]

Heartbeat(w) ==
    /\ held[w] # NoLease
    /\ Leased(w, held[w].task)
    /\ HeartbeatWrite(held[w].task)
    /\ UNCHANGED <<starts, arrival, broker, call, held, recon, faults>>

\* What complete() and fail() write: a terminal status and no lease.
FinishWrite(t, outcome) ==
    Save(t, [row[t] EXCEPT !.status = outcome, !.owner = NoWorker, !.lease = "none"])

Outcomes == {"succeeded", "failed"}

Finish(w) ==
    /\ held[w] # NoLease
    /\ Leased(w, held[w].task)
    /\ \E outcome \in Outcomes : FinishWrite(held[w].task, outcome)
    /\ held' = [held EXCEPT ![w] = NoLease]
    /\ UNCHANGED <<starts, arrival, broker, call, recon, faults>>

\* heartbeat(), complete() or fail() raised: the lease is lost, the worker
\* drops the task.
LeaseLost(w) ==
    /\ held[w] # NoLease
    /\ ~Leased(w, held[w].task)
    /\ held' = [held EXCEPT ![w] = NoLease]
    /\ UNCHANGED <<row, last, starts, arrival, broker, call, recon, faults>>

\* The process dies and comes back under the same worker_id.
WorkerCrash(w) ==
    /\ held[w] # NoLease
    /\ held' = [held EXCEPT ![w] = NoLease]
    /\ Fault
    /\ UNCHANGED <<row, last, starts, arrival, broker, call, recon>>

-----------------------------------------------------------------------------
(* Time and the broker                                                     *)

\* lease_expires_at_utc passes.  The lease of a worker that still works
\* lapses only if the worker is late with its heartbeat, which is a fault.
Abandoned(t) == row[t].owner \in Workers => held[row[t].owner].task # t

LeaseExpires(t) ==
    /\ row[t].status = "running"
    /\ row[t].lease = "live"
    /\ row' = [row EXCEPT ![t].lease = "lapsed"]
    /\ UNCHANGED <<last, starts, arrival, broker, call, held, recon>>

Lapse(t) == Abandoned(t) /\ LeaseExpires(t) /\ UNCHANGED faults

LapseLate(t) == ~Abandoned(t) /\ LeaseExpires(t) /\ Fault

LoseMessage ==
    /\ \E m \in broker : broker' = broker \ {m}
    /\ Fault
    /\ UNCHANGED <<row, last, starts, arrival, call, held, recon>>

-----------------------------------------------------------------------------
(* The reconciler: redispatch_queued_orphans, then requeue_expired_leases  *)

Idle == [phase |-> "idle", todo |-> {}, at |-> NoTask]

\* Mutant: only tasks that never started are looked for.
RedispatchSelectNew ==
    /\ recon = Idle
    /\ recon' = [Idle EXCEPT !.phase = "redispatch",
                             !.todo = {t \in InStatus("queued") : row[t].attempt = 0}]
    /\ UNCHANGED <<row, last, starts, arrival, broker, call, held, faults>>

\* The SELECT of redispatch_queued_orphans, with orphan_age_seconds = 0.
RedispatchSelect ==
    /\ recon = Idle
    /\ recon' = [Idle EXCEPT !.phase = "redispatch", !.todo = InStatus("queued")]
    /\ UNCHANGED <<row, last, starts, arrival, broker, call, held, faults>>

\* enqueue() of the next selected row, outside of any transaction.  When it
\* raises, the loop goes on in the same way.
RedispatchEnqueue ==
    /\ recon.phase = "redispatch"
    /\ recon.at = NoTask
    /\ \E t \in recon.todo :
          /\ Earliest(recon.todo, t)
          /\ recon' = [recon EXCEPT !.at = t, !.todo = @ \ {t}]
          /\ \/ broker' = broker \union {t} /\ UNCHANGED faults
             \/ UNCHANGED broker /\ Fault
    /\ UNCHANGED <<row, last, starts, arrival, call, held>>

\* task.redispatched or task.redispatch_failed, only if still queued.
RedispatchRecord ==
    /\ recon.at # NoTask
    /\ last' = IF row[recon.at].status = "queued"
               THEN [last EXCEPT ![recon.at] = "queued"] ELSE last
    /\ recon' = [recon EXCEPT !.at = NoTask]
    /\ UNCHANGED <<row, starts, arrival, broker, call, held, faults>>

Expired == {t \in InStatus("running") : row[t].lease = "lapsed"}

RequeueWrite(S) ==
    /\ row' = [t \in Tasks |->
                IF t \in S
                THEN [row[t] EXCEPT !.status = "queued", !.owner = NoWorker, !.lease = "none"]
                ELSE row[t]]
    /\ last' = [t \in Tasks |-> IF t \in S THEN "queued" ELSE last[t]]

Requeue ==
    /\ recon = [Idle EXCEPT !.phase = "redispatch"]
    /\ RequeueWrite(Expired)
    /\ recon' = Idle
    /\ UNCHANGED <<starts, arrival, broker, call, held, faults>>

ReconcilerCrash ==
    /\ recon # Idle
    /\ recon' = Idle
    /\ Fault
    /\ UNCHANGED <<row, last, starts, arrival, broker, call, held>>

-----------------------------------------------------------------------------

Init ==
    /\ row = [t \in Tasks |-> NoRow]
    /\ last = [t \in Tasks |-> "absent"]
    /\ starts = [t \in Tasks |-> 0]
    /\ arrival = <<>>
    /\ broker = {}
    /\ call = [c \in Clients |-> [op |-> "idle", task |-> NoTask]]
    /\ held = [w \in Workers |-> NoLease]
    /\ recon = Idle
    /\ faults = 0

ClientStep(c) ==
    \/ \E t \in Tasks : Submit(c, t) \/ RequestCancel(c, t)
    \/ Dispatch(c) \/ DispatchRaises(c) \/ RecordDispatchFailure(c) \/ ClientCrash(c)

WorkerStep(w) ==
    \/ Acquire(w) \/ AcquireNothing(w) \/ Heartbeat(w) \/ Finish(w)
    \/ LeaseLost(w) \/ WorkerCrash(w)

ReconcilerStep ==
    \/ RedispatchSelect \/ RedispatchEnqueue \/ RedispatchRecord
    \/ Requeue \/ ReconcilerCrash

Next ==
    \/ \E c \in Clients : ClientStep(c)
    \/ \E w \in Workers : WorkerStep(w)
    \/ \E t \in Tasks : Lapse(t) \/ LapseLate(t)
    \/ LoseMessage
    \/ ReconcilerStep

\* A started call goes on, a handler ends, time passes, a delivered message is
\* taken up and reconcile() is called again and again.  Nobody has to submit.
Fairness ==
    /\ \A c \in Clients : WF_vars(Dispatch(c)) /\ WF_vars(RecordDispatchFailure(c))
    /\ \A w \in Workers :
          /\ WF_vars(Acquire(w)) /\ WF_vars(AcquireNothing(w))
          /\ WF_vars(Finish(w)) /\ WF_vars(LeaseLost(w))
    /\ \A t \in Tasks : WF_vars(Lapse(t))
    /\ WF_vars(RedispatchSelect) /\ WF_vars(RedispatchEnqueue)
    /\ WF_vars(RedispatchRecord) /\ WF_vars(Requeue)

Spec == Init /\ [][Next]_vars

FairSpec == Spec /\ Fairness

-----------------------------------------------------------------------------
(* Properties                                                              *)

\* Every column has a value the schema and the code allow.
TypeOK ==
    /\ row \in [Tasks -> Row]
    /\ last \in [Tasks -> TaskStatus \union {"absent"}]
    /\ starts \in [Tasks -> Nat]
    /\ arrival \in Seq(Tasks)
    /\ broker \subseteq Tasks
    /\ call \in [Clients -> [op : {"idle", "dispatch", "failing"},
                             task : Tasks \union {NoTask}]]
    /\ held \in [Workers -> Lease]
    /\ recon \in [phase : {"idle", "redispatch"}, todo : SUBSET Tasks,
                  at : Tasks \union {NoTask}]
    /\ faults \in 0 .. MaxFaults

\* docs/persistent-task-backend.md:33: every change of state is also an
\* event, so a subscriber that replays the log ends with the status of the row.
LogAgreesWithRow == \A t \in Tasks : last[t] = row[t].status

\* The attempt column counts the task.started events: no hand-over of the task
\* to a worker goes uncounted and none is counted twice.
AttemptCountsStarts == \A t \in Tasks : row[t].attempt = starts[t]

\* requeue_expired_leases only looks at rows with a lease_expires_at_utc and
\* heartbeat/complete/fail compare lease_owner: a running row has both, or
\* nobody could finish it or take it back.  A queued or succeeded row has no
\* owner left over from an earlier attempt.
LeaseColumns ==
    \A t \in Tasks :
        /\ row[t].status = "running" => row[t].owner \in Workers /\ row[t].lease # "none"
        /\ row[t].status \in {"absent", "queued", "succeeded"} => row[t].owner = NoWorker

\* Two workers never hold a lease on the same attempt of a task: the attempt
\* of a TaskLease identifies its holder, however often leases lapse.
LeasesAreUnique ==
    \A v, w \in Workers : v # w /\ held[v] # NoLease => held[v] # held[w]

\* The lease a worker works under was granted by the row: its attempt is one
\* the row went through, and the current one while the row still names the
\* worker as its running owner.
LeasesComeFromRows ==
    \A w \in Workers :
        \/ held[w] = NoLease
        \/ LET t == held[w].task
           IN  /\ t \in Tasks
               /\ held[w].attempt \in 1 .. row[t].attempt
               /\ Leased(w, t) => held[w].attempt = row[t].attempt

\* A task succeeds only through the worker that holds its current attempt: a
\* worker whose lease lapsed and was given away cannot complete the task.
SucceedsUnderCurrentLease ==
    [][\A t \in Tasks :
          row'[t].status = "succeeded" /\ row[t].status # "succeeded" =>
              \E w \in Workers :
                  /\ held[w] = [task |-> t, attempt |-> row[t].attempt]
                  /\ held'[w] = NoLease]_vars

\* Once a task ended or was asked to stop, it is never queued or run again.
NeverRevived ==
    [][\A t \in Tasks :
          row[t].status \in Terminal \union {"cancel_requested"} =>
              row'[t].status \notin {"absent", "queued", "running"}]_vars

\* A queued task is handed out, and again after every lapse, until it has
\* ended or was asked to stop: despite the crash of the client between commit
\* and dispatch, lost messages and dead workers.
Settles ==
    \A t \in Tasks :
        row[t].status = "queued" ~> row[t].status \in Terminal \union {"cancel_requested"}

\* The tasks whose submit() has neither returned nor died.
Submitting == {call[c].task : c \in {d \in Clients : call[d].op # "idle"}}

Lifecycle == INSTANCE TaskLifecycle WITH
    status <- [t \in Tasks |-> row[t].status],
    attempt <- [t \in Tasks |-> row[t].attempt],
    submitting <- Submitting

\* The backend implements the lifecycle its port promises.  A submission whose
\* dispatch raises after the broker took the message fails a task that may have
\* run, even one that succeeded, but none whose own submit() has returned.
ImplementsLifecycle == Lifecycle!Spec
=============================================================================
