--------------------- MODULE PersistentTaskBackendProofs ---------------------
(***************************************************************************)
(* The safety properties of PersistentTaskBackend for any set of tasks,    *)
(* workers and clients and any number of faults.                           *)
(***************************************************************************)
EXTENDS PersistentTaskBackend, TLAPS

\* A client that is busy is busy with a submitted task, no two with one task,
\* and an idle reconciler has nothing left to do.
Busy ==
    /\ \A c \in Clients : call[c].op # "idle" =>
          call[c].task \in Tasks /\ row[call[c].task].status # "absent"
    /\ \A c, d \in Clients :
          call[c].op # "idle" /\ call[d].op # "idle" /\ call[c].task = call[d].task => c = d
    /\ recon.phase = "idle" => recon = Idle

\* A task without a row has no history either.
Fresh == \A t \in Tasks : row[t].status = "absent" => row[t] = NoRow

\* The inductive invariant.  The parts need each other: leases stay unique
\* because they come from rows, completion is current because of both, and the
\* log agrees with the row because a heartbeat is only written to a running row.
IInv ==
    /\ TypeOK
    /\ Busy
    /\ Fresh
    /\ LogAgreesWithRow
    /\ AttemptCountsStarts
    /\ LeaseColumns
    /\ LeasesComeFromRows
    /\ LeasesAreUnique

LEMMA InitIInv == Init => IInv
  <1> USE TaskAssumption
  <1> SUFFICES ASSUME Init PROVE IInv
    OBVIOUS
  <1>1. TypeOK
    BY DEF Init, TypeOK, Row, NoRow, TaskStatus, Terminal, Lease, NoLease, Idle
  <1>2. Busy /\ Fresh
    BY DEF Init, Busy, Fresh
  <1>3. LogAgreesWithRow /\ AttemptCountsStarts /\ LeaseColumns
    BY DEF Init, LogAgreesWithRow, AttemptCountsStarts, LeaseColumns, NoRow
  <1>4. LeasesComeFromRows /\ LeasesAreUnique
    BY DEF Init, LeasesComeFromRows, LeasesAreUnique
  <1> QED
    BY <1>1, <1>2, <1>3, <1>4 DEF IInv

LEMMA FaultIsBounded ==
    ASSUME TypeOK, Fault
    PROVE  faults' \in 0 .. MaxFaults
  BY TaskAssumption DEF TypeOK, Fault

\* Steps that only move a message, a call, the reconciler or the clock.
LEMMA Frame ==
    ASSUME IInv, UNCHANGED <<row, last, starts, held>>, TypeOK', Busy'
    PROVE  IInv'
  BY DEF IInv, Fresh, LogAgreesWithRow, AttemptCountsStarts, LeaseColumns,
         LeasesComeFromRows, LeasesAreUnique, Leased, NoLease

\* Steps that save one row with its event, start nothing and grant no lease.
LEMMA SaveKeepsIInv ==
    ASSUME IInv, TypeOK', Busy',
           NEW t \in Tasks, NEW r \in Row, Save(t, r),
           UNCHANGED starts,
           \A w \in Workers : held'[w] \in {held[w], NoLease},
           r.attempt = row[t].attempt,
           r.status \notin {"absent", "running"},
           r.status \in {"queued", "succeeded"} => r.owner = NoWorker
    PROVE  IInv'
  <1> USE DEF IInv
  <1>1. row' = [row EXCEPT ![t] = r] /\ last' = [last EXCEPT ![t] = r.status]
    BY DEF Save
  <1>2. Fresh' /\ LogAgreesWithRow' /\ AttemptCountsStarts' /\ LeaseColumns'
    BY <1>1 DEF Fresh, LogAgreesWithRow, AttemptCountsStarts, LeaseColumns, TypeOK
  <1>3. LeasesComeFromRows'
    BY <1>1 DEF LeasesComeFromRows, Leased, TypeOK
  <1>4. LeasesAreUnique'
    BY DEF LeasesAreUnique
  <1> QED
    BY <1>2, <1>3, <1>4

LEMMA SubmitStep ==
    ASSUME IInv, NEW c \in Clients, NEW t \in Tasks, Submit(c, t)
    PROVE  IInv'
  <1> USE TaskAssumption DEF Submit
  <1> DEFINE r == [NoRow EXCEPT !.status = "queued"]
  <1>1. /\ r \in Row /\ r.status = "queued" /\ r.owner = NoWorker
        /\ r.attempt = row[t].attempt
    BY DEF Row, NoRow, TaskStatus, IInv, Fresh
  <1>2. Save(t, r)
    OBVIOUS
  <1>3. TypeOK'
    BY <1>1 DEF IInv, TypeOK, Save, TaskStatus
  <1>4. Busy'
    BY <1>1, <1>2 DEF IInv, Busy, TypeOK, Save
  <1> HIDE DEF r
  <1> QED
    BY <1>1, <1>2, <1>3, <1>4, SaveKeepsIInv

LEMMA RecordDispatchFailureStep ==
    ASSUME IInv, NEW c \in Clients, RecordDispatchFailure(c)
    PROVE  IInv'
  <1> USE TaskAssumption DEF RecordDispatchFailure
  <1> DEFINE t == call[c].task
             r == [row[t] EXCEPT !.status = "failed"]
  <1>1. t \in Tasks
    BY DEF IInv, Busy
  <1>2. row[t] \in Row
    BY <1>1 DEF IInv, TypeOK
  <1>3. r \in Row /\ r.status = "failed" /\ r.attempt = row[t].attempt
    BY <1>2 DEF Row, TaskStatus, Terminal
  <1>4. Save(t, r)
    OBVIOUS
  <1>5. TypeOK'
    BY <1>1, <1>3 DEF IInv, TypeOK, Save, TaskStatus, Terminal
  <1>6. Busy'
    BY <1>1, <1>3, <1>4 DEF IInv, Busy, TypeOK, Save
  <1> HIDE DEF r, t
  <1> QED
    BY <1>1, <1>3, <1>4, <1>5, <1>6, SaveKeepsIInv

LEMMA CancelledIsRow ==
    ASSUME NEW t \in Tasks, row[t] \in Row
    PROVE  /\ Cancelled(t) \in Row
           /\ Cancelled(t).status = "cancel_requested"
           /\ Cancelled(t).attempt = row[t].attempt
  BY DEF Row, TaskStatus, Cancelled

LEMMA RequestCancelStep ==
    ASSUME IInv, NEW c \in Clients, NEW t \in Tasks, RequestCancel(c, t)
    PROVE  IInv'
  <1> USE TaskAssumption DEF RequestCancel
  <1> DEFINE r == Cancelled(t)
  <1>1. r \in Row /\ r.status = "cancel_requested" /\ r.attempt = row[t].attempt
    <2> row[t] \in Row
      BY DEF IInv, TypeOK
    <2> QED
      BY CancelledIsRow
  <1>2. Save(t, r)
    OBVIOUS
  <1>3. TypeOK'
    BY <1>1 DEF IInv, TypeOK, Save, TaskStatus
  <1>4. Busy'
    BY <1>1, <1>2 DEF IInv, Busy, TypeOK, Save
  <1> HIDE DEF r
  <1> QED
    BY <1>1, <1>2, <1>3, <1>4, SaveKeepsIInv

LEMMA FinishStep ==
    ASSUME IInv, NEW w \in Workers, Finish(w)
    PROVE  IInv'
  <1> USE TaskAssumption
  <1> DEFINE t == held[w].task
  <1>1. PICK outcome \in Outcomes : FinishWrite(t, outcome)
    BY DEF Finish
  <1> DEFINE r == [row[t] EXCEPT !.status = outcome, !.owner = NoWorker, !.lease = "none"]
  <1>2. t \in Tasks
    BY DEF Finish, IInv, LeasesComeFromRows
  <1>3. /\ r \in Row /\ r.attempt = row[t].attempt /\ r.owner = NoWorker
        /\ r.status \in {"succeeded", "failed"}
    <2>1. row[t] \in Row
      BY <1>2 DEF IInv, TypeOK
    <2> QED
      BY <2>1 DEF Row, TaskStatus, Terminal, Outcomes
  <1>4. Save(t, r)
    BY <1>1 DEF FinishWrite
  <1>5. TypeOK'
    BY <1>2, <1>3, <1>4 DEF Finish, IInv, TypeOK, Save, TaskStatus, Terminal, Lease, NoLease
  <1>6. Busy'
    BY <1>2, <1>3, <1>4 DEF Finish, IInv, Busy, TypeOK, Save
  <1>7. (\A v \in Workers : held'[v] \in {held[v], NoLease}) /\ UNCHANGED starts
    BY DEF Finish, IInv, TypeOK
  <1> HIDE DEF r, t
  <1> QED
    BY <1>2, <1>3, <1>4, <1>5, <1>6, <1>7, SaveKeepsIInv

LEMMA AcquireStep ==
    ASSUME IInv, NEW w \in Workers, Acquire(w)
    PROVE  IInv'
  <1> USE TaskAssumption DEF IInv
  <1>1. PICK t \in Tasks :
            /\ Earliest(InStatus("queued"), t)
            /\ AcquireWrite(w, t, row[t].attempt)
    BY DEF Acquire
  <1> DEFINE r == [status |-> "running", owner |-> w, lease |-> "live",
                   attempt |-> row[t].attempt + 1]
  <1>2. row[t] \in Row /\ r \in Row /\ row[t].status = "queued"
    BY <1>1 DEF TypeOK, Row, TaskStatus, Earliest, InStatus
  <1>3. /\ row' = [row EXCEPT ![t] = r]
        /\ last' = [last EXCEPT ![t] = "running"]
        /\ starts' = [starts EXCEPT ![t] = @ + 1]
        /\ held' = [held EXCEPT ![w] = [task |-> t, attempt |-> row[t].attempt + 1]]
    BY <1>1 DEF AcquireWrite, Save
  <1>4. TypeOK'
    <2>1. broker' \subseteq Tasks
      BY DEF Acquire, Wake, TypeOK
    <2> QED
      BY <1>2, <1>3, <2>1 DEF Acquire, TypeOK, TaskStatus, Lease, Row
  <1>5. Busy' /\ Fresh' /\ LogAgreesWithRow' /\ LeaseColumns'
    BY <1>2, <1>3 DEF Acquire, Busy, Fresh, LogAgreesWithRow, LeaseColumns, TypeOK
  <1>6. AttemptCountsStarts'
    BY <1>2, <1>3 DEF AttemptCountsStarts, TypeOK, Row
  <1>7. /\ held[w] = NoLease
        /\ row[t].attempt \in Nat
        /\ \A v \in Workers \ {w} : held'[v] = held[v]
        /\ held'[w] = [task |-> t, attempt |-> row[t].attempt + 1]
        /\ row'[t] = r
        /\ \A u \in Tasks \ {t} : row'[u] = row[u]
    BY <1>2, <1>3 DEF Acquire, TypeOK, Row
  <1>8. LeasesComeFromRows'
    <2>1. ASSUME NEW v \in Workers, v # w, held[v] # NoLease
          PROVE  LET u == held[v].task
                 IN  /\ u \in Tasks
                     /\ held[v].attempt \in 1 .. row'[u].attempt
                     /\ row'[u].status = "running" /\ row'[u].owner = v
                           => held[v].attempt = row'[u].attempt
      <3> DEFINE u == held[v].task
      <3>1. /\ u \in Tasks
            /\ held[v].attempt \in 1 .. row[u].attempt
            /\ Leased(v, u) => held[v].attempt = row[u].attempt
        BY <2>1 DEF LeasesComeFromRows
      <3>2. CASE u = t
        BY <1>7, <2>1, <3>1, <3>2
      <3>3. CASE u # t
        BY <1>7, <3>1, <3>3 DEF Leased
      <3> QED
        BY <3>1, <3>2, <3>3
    <2>2. /\ t \in Tasks
          /\ held'[w].task = t
          /\ held'[w].attempt \in 1 .. row'[t].attempt
          /\ held'[w].attempt = row'[t].attempt
      BY <1>7
    <2> QED
      BY <1>7, <2>1, <2>2 DEF LeasesComeFromRows, Leased
  <1>9. LeasesAreUnique'
    <2>1. \A v \in Workers : held[v] # held'[w]
      <3> SUFFICES ASSUME NEW v \in Workers, held[v] = held'[w]
                   PROVE  FALSE
        OBVIOUS
      <3>1. held[v] # NoLease
        BY <1>7 DEF NoLease
      <3>2. held[v].attempt \in 1 .. row[t].attempt
        BY <1>7, <3>1 DEF LeasesComeFromRows
      <3> QED
        BY <1>7, <3>2
    <2> QED
      BY <1>7, <2>1 DEF LeasesAreUnique
  <1> QED
    BY <1>4, <1>5, <1>6, <1>8, <1>9

\* A heartbeat and the passing of a lease's expiry only touch the lease of a
\* running row.
LEMMA LeaseOnlyStep ==
    ASSUME IInv, NEW t \in Tasks, NEW l \in {"live", "lapsed"},
           row[t].status = "running",
           row' = [row EXCEPT ![t].lease = l],
           last' = [last EXCEPT ![t] = "running"] \/ UNCHANGED last,
           UNCHANGED <<starts, arrival, broker, call, held, recon>>,
           faults' \in 0 .. MaxFaults
    PROVE  IInv'
  <1> USE TaskAssumption DEF IInv
  <1>1. row[t] \in Row
    BY DEF TypeOK
  <1>2. [row[t] EXCEPT !.lease = l] \in Row
    BY <1>1 DEF Row
  <1>3. TypeOK'
    BY <1>2 DEF TypeOK, TaskStatus
  <1>4. Busy' /\ Fresh' /\ LogAgreesWithRow' /\ AttemptCountsStarts'
    BY <1>1 DEF Busy, Fresh, LogAgreesWithRow, AttemptCountsStarts, TypeOK, Row
  <1>5. LeaseColumns'
    BY <1>1 DEF LeaseColumns, TypeOK, Row
  <1>6. LeasesComeFromRows' /\ LeasesAreUnique'
    BY <1>1 DEF LeasesComeFromRows, LeasesAreUnique, Leased, TypeOK, Row
  <1> QED
    BY <1>3, <1>4, <1>5, <1>6

\* A worker that drops its lease, or dies.
LEMMA DropStep ==
    ASSUME IInv, NEW w \in Workers, held' = [held EXCEPT ![w] = NoLease],
           UNCHANGED <<row, last, starts, arrival, broker, call, recon>>,
           faults' \in 0 .. MaxFaults
    PROVE  IInv'
  <1> USE TaskAssumption DEF IInv
  <1>1. TypeOK'
    BY DEF TypeOK, Lease, NoLease
  <1>2. Busy' /\ Fresh' /\ LogAgreesWithRow' /\ AttemptCountsStarts' /\ LeaseColumns'
    BY DEF Busy, Fresh, LogAgreesWithRow, AttemptCountsStarts, LeaseColumns
  <1>3. LeasesComeFromRows' /\ LeasesAreUnique'
    BY DEF LeasesComeFromRows, LeasesAreUnique, Leased, TypeOK
  <1> QED
    BY <1>1, <1>2, <1>3

LEMMA RequeueStep ==
    ASSUME IInv, Requeue
    PROVE  IInv'
  <1> USE TaskAssumption DEF IInv
  <1>1. \A t \in Tasks : row[t] \in Row
    BY DEF TypeOK
  <1>2. \A t \in Tasks : t \in Expired => row[t].status = "running"
    BY DEF Expired, InStatus
  <1>3. row' = [t \in Tasks |->
                 IF t \in Expired
                 THEN [row[t] EXCEPT !.status = "queued", !.owner = NoWorker, !.lease = "none"]
                 ELSE row[t]]
    BY DEF Requeue, RequeueWrite
  <1>4. last' = [t \in Tasks |-> IF t \in Expired THEN "queued" ELSE last[t]]
    BY DEF Requeue, RequeueWrite
  <1>5. \A t \in Tasks :
            /\ row'[t] \in Row
            /\ row'[t].attempt = row[t].attempt
            /\ t \in Expired => row'[t].status = "queued" /\ row'[t].owner = NoWorker
            /\ t \notin Expired => row'[t] = row[t]
    BY <1>1, <1>3 DEF Row, TaskStatus
  <1>6. TypeOK'
    <2>1. row' \in [Tasks -> Row]
      BY <1>3, <1>5
    <2> QED
      BY <2>1, <1>4 DEF Requeue, TypeOK, TaskStatus, Idle
  <1>7. Busy' /\ Fresh' /\ LogAgreesWithRow' /\ AttemptCountsStarts' /\ LeaseColumns'
    BY <1>4, <1>5 DEF Requeue, Busy, Fresh, LogAgreesWithRow, AttemptCountsStarts,
                      LeaseColumns
  <1>8. LeasesComeFromRows' /\ LeasesAreUnique'
    BY <1>5 DEF Requeue, LeasesComeFromRows, LeasesAreUnique, Leased
  <1> QED
    BY <1>6, <1>7, <1>8

LEMMA NextIInv == IInv /\ [Next]_vars => IInv'
  <1> USE TaskAssumption
  <1> SUFFICES ASSUME IInv, [Next]_vars PROVE IInv'
    OBVIOUS
  <1>1. ASSUME NEW c \in Clients, ClientStep(c) PROVE IInv'
    <2>1. CASE \E t \in Tasks : Submit(c, t) \/ RequestCancel(c, t)
      BY <2>1, SubmitStep, RequestCancelStep
    <2>2. CASE RecordDispatchFailure(c)
      BY <2>2, RecordDispatchFailureStep
    <2>3. CASE Dispatch(c) \/ DispatchRaises(c) \/ ClientCrash(c)
      <3> USE DEF IInv, TypeOK, Busy
      <3>1. TypeOK'
        <4>1. CASE Dispatch(c)
          BY <4>1 DEF Dispatch
        <4>2. CASE DispatchRaises(c)
          <5>1. faults' \in 0 .. MaxFaults
            BY <4>2, FaultIsBounded DEF DispatchRaises
          <5>2. broker' \subseteq Tasks
            BY <4>2 DEF DispatchRaises
          <5>3. call' \in [Clients -> [op : {"idle", "dispatch", "failing"},
                                       task : Tasks \union {NoTask}]]
            <6>1. [call[c] EXCEPT !.op = "failing"] \in
                      [op : {"idle", "dispatch", "failing"}, task : Tasks \union {NoTask}]
              <7>1. call[c] \in [op : {"idle", "dispatch", "failing"},
                                 task : Tasks \union {NoTask}]
                OBVIOUS
              <7> HIDE DEF IInv, TypeOK
              <7> QED
                BY <7>1
            <6> QED
              BY <4>2, <6>1 DEF DispatchRaises
          <5> QED
            BY <4>2, <5>1, <5>2, <5>3 DEF DispatchRaises
        <4>3. CASE ClientCrash(c)
          BY <4>3 DEF ClientCrash, Fault
        <4> QED
          BY <2>3, <4>1, <4>2, <4>3
      <3>2. Busy'
        <4>1. CASE Dispatch(c)
          BY <4>1 DEF Dispatch
        <4>2. CASE DispatchRaises(c)
          BY <4>2 DEF DispatchRaises
        <4>3. CASE ClientCrash(c)
          BY <4>3 DEF ClientCrash
        <4> QED
          BY <2>3, <4>1, <4>2, <4>3
      <3> QED
        BY <2>3, <3>1, <3>2, Frame DEF Dispatch, DispatchRaises, ClientCrash
    <2> QED
      BY <1>1, <2>1, <2>2, <2>3 DEF ClientStep
  <1>2. ASSUME NEW w \in Workers, WorkerStep(w) PROVE IInv'
    <2>1. CASE Acquire(w)
      BY <2>1, AcquireStep
    <2>2. CASE AcquireNothing(w)
      <3>1. TypeOK' /\ Busy'
        BY <2>2 DEF IInv, TypeOK, Busy, AcquireNothing, Wake
      <3> QED
        BY <2>2, <3>1, Frame DEF AcquireNothing
    <2>3. CASE Heartbeat(w)
      <3>1. held[w].task \in Tasks /\ faults \in 0 .. MaxFaults
        BY <2>3 DEF Heartbeat, IInv, LeasesComeFromRows, TypeOK
      <3> QED
        BY <2>3, <3>1, LeaseOnlyStep DEF Heartbeat, HeartbeatWrite, Leased
    <2>4. CASE Finish(w)
      BY <2>4, FinishStep
    <2>5. CASE LeaseLost(w) \/ WorkerCrash(w)
      <3>1. faults' \in 0 .. MaxFaults
        BY <2>5 DEF LeaseLost, WorkerCrash, Fault, IInv, TypeOK
      <3> QED
        BY <2>5, <3>1, DropStep DEF LeaseLost, WorkerCrash
    <2> QED
      BY <1>2, <2>1, <2>2, <2>3, <2>4, <2>5 DEF WorkerStep
  <1>3. ASSUME NEW t \in Tasks, Lapse(t) \/ LapseLate(t) PROVE IInv'
    <2>1. faults' \in 0 .. MaxFaults
      BY <1>3 DEF Lapse, LapseLate, Fault, IInv, TypeOK
    <2> QED
      BY <1>3, <2>1, LeaseOnlyStep DEF Lapse, LapseLate, LeaseExpires
  <1>4. CASE LoseMessage
    <2>1. TypeOK' /\ Busy'
      BY <1>4 DEF IInv, TypeOK, Busy, LoseMessage, Fault
    <2> QED
      BY <1>4, <2>1, Frame DEF LoseMessage
  <1>5. CASE ReconcilerStep
    <2>1. CASE Requeue
      BY <2>1, RequeueStep
    <2>2. CASE RedispatchSelect \/ RedispatchEnqueue \/ RedispatchRecord \/ ReconcilerCrash
      <3>1. UNCHANGED <<row, last, starts, held>>
        <4>1. CASE RedispatchRecord
          BY <4>1 DEF RedispatchRecord, IInv, LogAgreesWithRow, TypeOK
        <4> QED
          BY <2>2, <4>1 DEF RedispatchSelect, RedispatchEnqueue, ReconcilerCrash
      <3>2. TypeOK'
        <4> USE <3>1 DEF IInv, TypeOK
        <4>1. CASE RedispatchSelect
          BY <4>1 DEF RedispatchSelect, Idle, InStatus
        <4>2. CASE RedispatchEnqueue
          <5>1. faults' \in 0 .. MaxFaults /\ broker' \subseteq Tasks
            BY <4>2, FaultIsBounded DEF RedispatchEnqueue
          <5>2. recon' \in [phase : {"idle", "redispatch"}, todo : SUBSET Tasks,
                            at : Tasks \union {NoTask}]
            <6>1. PICK t \in recon.todo :
                      recon' = [recon EXCEPT !.at = t, !.todo = @ \ {t}]
              BY <4>2 DEF RedispatchEnqueue
            <6>2. t \in Tasks /\ recon.todo \ {t} \in SUBSET Tasks
              OBVIOUS
            <6> QED
              BY <6>1, <6>2
          <5> QED
            BY <4>2, <5>1, <5>2 DEF RedispatchEnqueue
        <4>3. CASE RedispatchRecord
          BY <4>3 DEF RedispatchRecord
        <4>4. CASE ReconcilerCrash
          BY <4>4 DEF ReconcilerCrash, Idle, Fault
        <4> QED
          BY <2>2, <4>1, <4>2, <4>3, <4>4
      <3>3. Busy'
        <4> USE DEF IInv, TypeOK, Busy
        <4>1. CASE RedispatchSelect
          BY <4>1 DEF RedispatchSelect, Idle
        <4>2. CASE RedispatchEnqueue
          BY <4>2 DEF RedispatchEnqueue
        <4>3. CASE RedispatchRecord
          <5>1. recon.phase # "idle"
            BY <4>3 DEF RedispatchRecord, Idle
          <5>2. recon'.phase # "idle"
            BY <4>3, <5>1 DEF RedispatchRecord
          <5> QED
            BY <4>3, <5>2 DEF RedispatchRecord
        <4>4. CASE ReconcilerCrash
          BY <4>4 DEF ReconcilerCrash
        <4> QED
          BY <2>2, <4>1, <4>2, <4>3, <4>4
      <3> QED
        BY <3>1, <3>2, <3>3, Frame
    <2> QED
      BY <1>5, <2>1, <2>2 DEF ReconcilerStep
  <1>6. CASE UNCHANGED vars
    <2>1. TypeOK' /\ Busy'
      BY <1>6 DEF vars, IInv, TypeOK, Busy
    <2> QED
      BY <1>6, <2>1, Frame DEF vars
  <1> QED
    BY <1>1, <1>2, <1>3, <1>4, <1>5, <1>6 DEF Next

\* The columns and the bookkeeping of every reachable state have their types.
THEOREM TypeCorrect == Spec => []TypeOK
  <1>1. IInv => TypeOK
    BY DEF IInv
  <1> QED
    BY <1>1, InitIInv, NextIInv, PTL DEF Spec

\* Replaying the events of a task gives its status, and its attempt column
\* counts its task.started events.
THEOREM LogIsAuthoritative == Spec => [](LogAgreesWithRow /\ AttemptCountsStarts)
  <1>1. IInv => LogAgreesWithRow /\ AttemptCountsStarts
    BY DEF IInv
  <1> QED
    BY <1>1, InitIInv, NextIInv, PTL DEF Spec

\* Every running row can be finished by its owner and taken back by the
\* reconciler; no queued or succeeded row has an owner.
THEOREM RunningIsRecoverable == Spec => []LeaseColumns
  <1>1. IInv => LeaseColumns
    BY DEF IInv
  <1> QED
    BY <1>1, InitIInv, NextIInv, PTL DEF Spec

\* The attempt number of a lease identifies its holder.
THEOREM LeasesIdentifyHolders == Spec => [](LeasesAreUnique /\ LeasesComeFromRows)
  <1>1. IInv => LeasesAreUnique /\ LeasesComeFromRows
    BY DEF IInv
  <1> QED
    BY <1>1, InitIInv, NextIInv, PTL DEF Spec

-----------------------------------------------------------------------------
(* The refinement of TaskLifecycle                                         *)

\* What the lifecycle sees of the rows.
StatusOf == [t \in Tasks |-> row[t].status]
AttemptOf == [t \in Tasks |-> row[t].attempt]

\* A step that keeps every status and attempt and whose submission is under
\* way is a stuttering step.
LEMMA Stutters ==
    ASSUME \A t \in Tasks : /\ row'[t].status = row[t].status
                            /\ row'[t].attempt = row[t].attempt,
           UNCHANGED Submitting
    PROVE  UNCHANGED Lifecycle!lifecycleVars
  BY DEF Lifecycle!lifecycleVars

\* A save of one row changes the lifecycle's variables at that task only.
LEMMA SaveMoves ==
    ASSUME IInv, NEW t \in Tasks, NEW r \in Row, Save(t, r)
    PROVE  /\ StatusOf' = [StatusOf EXCEPT ![t] = r.status]
           /\ AttemptOf' = [AttemptOf EXCEPT ![t] = r.attempt]
           /\ r.attempt = row[t].attempt => AttemptOf' = AttemptOf
  BY DEF Save, StatusOf, AttemptOf, IInv, TypeOK

LEMMA StepRefines == IInv /\ [Next]_vars => [Lifecycle!Next]_(Lifecycle!lifecycleVars)
  <1> USE TaskAssumption
  <1> SUFFICES ASSUME IInv, [Next]_vars
               PROVE  Lifecycle!Next \/ UNCHANGED Lifecycle!lifecycleVars
    OBVIOUS
  <1>0. \A t \in Tasks : row[t] \in Row
    BY DEF IInv, TypeOK
  <1>a. UNCHANGED call => UNCHANGED Submitting
    BY DEF Submitting
  <1>b. ASSUME NEW c \in Clients, call[c].op # "idle",
               call' = [call EXCEPT ![c] = [op |-> "idle", task |-> NoTask]]
        PROVE  /\ call[c].task \in Tasks /\ call[c].task \in Submitting
               /\ Submitting' = Submitting \ {call[c].task}
    <2>1. /\ call[c].task \in Tasks
          /\ \A d \in Clients : d # c /\ call[d].op # "idle" => call[d].task # call[c].task
      BY <1>b DEF IInv, Busy
    <2>2. /\ call'[c].op = "idle"
          /\ \A d \in Clients : d # c => call'[d] = call[d]
      BY <1>b DEF IInv, TypeOK
    <2> QED
      BY <1>b, <2>1, <2>2 DEF Submitting
  <1>1. ASSUME NEW c \in Clients, NEW t \in Tasks, Submit(c, t)
        PROVE  Lifecycle!Next
    <2> DEFINE r == [NoRow EXCEPT !.status = "queued"]
    <2>1. r \in Row /\ r.status = "queued" /\ r.attempt = row[t].attempt /\ Save(t, r)
      BY <1>1 DEF Row, NoRow, TaskStatus, IInv, Fresh, Submit
    <2> HIDE DEF r
    <2>a. Submitting' = Submitting \union {t}
      <3>1. /\ call'[c].op = "dispatch" /\ call'[c].task = t /\ call[c].op = "idle"
            /\ \A d \in Clients : d # c => call'[d] = call[d]
        BY <1>1 DEF Submit, IInv, TypeOK
      <3> QED
        BY <3>1 DEF Submitting
    <2>2. Lifecycle!Queue(t)
      BY <1>1, <2>1, <2>a, SaveMoves DEF Lifecycle!Queue, Lifecycle!Move, StatusOf, AttemptOf, Submit
    <2> QED
      BY <2>2 DEF Lifecycle!Next
  <1>2. ASSUME NEW c \in Clients, NEW t \in Tasks, RequestCancel(c, t)
        PROVE  Lifecycle!Next
    <2> DEFINE r == Cancelled(t)
    <2>1. /\ r \in Row /\ r.status = "cancel_requested" /\ r.attempt = row[t].attempt
          /\ Save(t, r)
      BY <1>0, <1>2, CancelledIsRow DEF RequestCancel
    <2> HIDE DEF r
    <2>2. row[t].status \in {"queued", "running"}
      BY <1>2 DEF RequestCancel, Cancellable
    <2>3. /\ StatusOf' = [StatusOf EXCEPT ![t] = "cancel_requested"]
          /\ AttemptOf' = AttemptOf
      BY <2>1, SaveMoves
    <2>4. StatusOf[t] \in {"queued", "running"}
      BY <2>2 DEF StatusOf
    <2>5. Lifecycle!Cancel(t)
      BY <1>2, <1>a, <2>3, <2>4 DEF RequestCancel, Lifecycle!Cancel, Lifecycle!Move, StatusOf, AttemptOf
    <2> QED
      BY <2>5 DEF Lifecycle!Next
  <1>3. ASSUME NEW c \in Clients, RecordDispatchFailure(c)
        PROVE  Lifecycle!Next
    <2>0. PICK t \in Tasks : t = call[c].task
      BY <1>3 DEF IInv, Busy, RecordDispatchFailure
    <2> DEFINE r == [row[t] EXCEPT !.status = "failed"]
    <2>1. row[t].status # "absent"
      BY <1>3, <2>0 DEF IInv, Busy, RecordDispatchFailure
    <2>2. row[t] \in Row
      BY <1>0
    <2>3. r \in Row /\ r.status = "failed" /\ r.attempt = row[t].attempt /\ Save(t, r)
      BY <1>3, <2>0, <2>2 DEF Row, TaskStatus, Terminal, RecordDispatchFailure
    <2> HIDE DEF r
    <2>4. StatusOf[t] # "absent" /\ StatusOf' = [StatusOf EXCEPT ![t] = "failed"]
      BY <2>1, <2>3, SaveMoves DEF StatusOf
    <2>a. t \in Submitting /\ Submitting' = Submitting \ {t}
      BY <1>3, <1>b, <2>0 DEF RecordDispatchFailure
    <2>5. Lifecycle!Refuse(t)
      BY <2>a, <2>3, <2>4, SaveMoves DEF Lifecycle!Refuse, StatusOf, AttemptOf
    <2> QED
      BY <2>5 DEF Lifecycle!Next
  <1>4. ASSUME NEW w \in Workers, Acquire(w)
        PROVE  Lifecycle!Next
    <2>1. PICK t \in Tasks :
              /\ Earliest(InStatus("queued"), t)
              /\ AcquireWrite(w, t, row[t].attempt)
      BY <1>4 DEF Acquire
    <2> DEFINE r == [status |-> "running", owner |-> w, lease |-> "live",
                     attempt |-> row[t].attempt + 1]
    <2>2. /\ r \in Row /\ r.status = "running" /\ r.attempt = row[t].attempt + 1
          /\ Save(t, r) /\ row[t].status = "queued"
      BY <1>0, <2>1 DEF Row, TaskStatus, AcquireWrite, Earliest, InStatus
    <2> HIDE DEF r
    <2>3. /\ StatusOf' = [StatusOf EXCEPT ![t] = "running"]
          /\ AttemptOf' = [AttemptOf EXCEPT ![t] = row[t].attempt + 1]
      BY <2>2, SaveMoves
    <2>4. StatusOf[t] = "queued" /\ AttemptOf[t] = row[t].attempt
      BY <2>2 DEF StatusOf, AttemptOf
    <2>5. Lifecycle!Start(t)
      BY <1>4, <1>a, <2>3, <2>4 DEF Acquire, Lifecycle!Start, Lifecycle!Move, StatusOf, AttemptOf
    <2> QED
      BY <2>5 DEF Lifecycle!Next
  <1>5. ASSUME NEW w \in Workers, Finish(w)
        PROVE  Lifecycle!Next
    <2> DEFINE t == held[w].task
    <2>1. PICK outcome \in Outcomes : FinishWrite(t, outcome)
      BY <1>5 DEF Finish
    <2> DEFINE r == [row[t] EXCEPT !.status = outcome, !.owner = NoWorker, !.lease = "none"]
    <2>2. t \in Tasks /\ row[t].status = "running"
      BY <1>5 DEF Finish, Leased, IInv, LeasesComeFromRows
    <2>3. row[t] \in Row
      BY <1>0, <2>2
    <2>4. r \in Row /\ r.status = outcome /\ r.attempt = row[t].attempt /\ Save(t, r)
      BY <2>1, <2>3 DEF Row, TaskStatus, Terminal, Outcomes, FinishWrite
    <2> HIDE DEF r, t
    <2>a. UNCHANGED Submitting
      BY <1>5, <1>a DEF Finish
    <2>5. Lifecycle!Finish(t)
      BY <2>2, <2>4, <2>a, SaveMoves
      DEF Lifecycle!Finish, Lifecycle!Move, StatusOf, AttemptOf, Outcomes
    <2> QED
      BY <2>2, <2>5 DEF Lifecycle!Next
  <1>6. CASE Requeue
    <2>1. \A t \in Expired : t \in Tasks /\ row[t].status = "running"
      BY DEF Expired, InStatus
    <2>2. row' = [t \in Tasks |->
                   IF t \in Expired
                   THEN [row[t] EXCEPT !.status = "queued", !.owner = NoWorker, !.lease = "none"]
                   ELSE row[t]]
      BY <1>6 DEF Requeue, RequeueWrite
    <2>3. \A t \in Tasks :
              /\ row'[t].attempt = row[t].attempt
              /\ row'[t].status = IF t \in Expired THEN "queued" ELSE row[t].status
      BY <1>0, <2>2 DEF Row
    <2>4. PICK S \in SUBSET Tasks : S = Expired
      BY <2>1
    <2>5. Lifecycle!Stall(S)
      BY <1>6, <1>a, <2>1, <2>3, <2>4 DEF Requeue, Lifecycle!Stall
    <2> QED
      BY <2>5 DEF Lifecycle!Next
  <1>7. ASSUME NEW t \in Tasks, NEW l \in {"live", "lapsed"},
               row' = [row EXCEPT ![t].lease = l], UNCHANGED call
        PROVE  UNCHANGED Lifecycle!lifecycleVars
    BY <1>0, <1>7, <1>a, Stutters DEF Row, IInv, TypeOK
  <1>8. ASSUME UNCHANGED row, UNCHANGED Submitting
        PROVE  UNCHANGED Lifecycle!lifecycleVars
    BY <1>8, Stutters
  <1>9. ASSUME NEW w \in Workers, Heartbeat(w)
        PROVE  UNCHANGED Lifecycle!lifecycleVars
    <2>1. held[w].task \in Tasks
      BY <1>9 DEF Heartbeat, IInv, LeasesComeFromRows
    <2> QED
      BY <1>7, <1>9, <2>1 DEF Heartbeat, HeartbeatWrite
  <1>10. ASSUME NEW t \in Tasks, Lapse(t) \/ LapseLate(t)
         PROVE  UNCHANGED Lifecycle!lifecycleVars
    BY <1>7, <1>10 DEF Lapse, LapseLate, LeaseExpires
  <1>11. ASSUME NEW c \in Clients, Dispatch(c) \/ ClientCrash(c)
         PROVE  Lifecycle!Next
    <2>1. /\ call[c].op # "idle" /\ UNCHANGED row
          /\ call' = [call EXCEPT ![c] = [op |-> "idle", task |-> NoTask]]
      BY <1>11 DEF Dispatch, ClientCrash
    <2>2. PICK t \in Tasks : t \in Submitting /\ Submitting' = Submitting \ {t}
      BY <1>b, <2>1
    <2>3. Lifecycle!Return(t)
      BY <2>1, <2>2 DEF Lifecycle!Return
    <2> QED
      BY <2>3 DEF Lifecycle!Next
  <1>c. ASSUME NEW c \in Clients, DispatchRaises(c)
        PROVE  UNCHANGED row /\ UNCHANGED Submitting
    <2>1. /\ call[c].op # "idle" /\ call'[c].op # "idle" /\ call'[c].task = call[c].task
          /\ \A d \in Clients : d # c => call'[d] = call[d]
      BY <1>c DEF DispatchRaises, IInv, TypeOK
    <2> QED
      BY <1>c, <2>1 DEF DispatchRaises, Submitting
  <1>12. ASSUME NEW w \in Workers, AcquireNothing(w) \/ LeaseLost(w) \/ WorkerCrash(w)
         PROVE  UNCHANGED row /\ UNCHANGED Submitting
    BY <1>12, <1>a DEF AcquireNothing, LeaseLost, WorkerCrash
  <1>13. ASSUME LoseMessage \/ RedispatchSelect \/ RedispatchEnqueue \/ RedispatchRecord
                \/ ReconcilerCrash \/ UNCHANGED vars
         PROVE  UNCHANGED row /\ UNCHANGED Submitting
    BY <1>13, <1>a DEF LoseMessage, RedispatchSelect, RedispatchEnqueue, RedispatchRecord,
         ReconcilerCrash, vars
  <1>14. ASSUME NEW c \in Clients, ClientStep(c)
         PROVE  Lifecycle!Next \/ UNCHANGED Lifecycle!lifecycleVars
    BY <1>1, <1>2, <1>3, <1>8, <1>11, <1>c, <1>14 DEF ClientStep
  <1>15. ASSUME NEW w \in Workers, WorkerStep(w)
         PROVE  Lifecycle!Next \/ UNCHANGED Lifecycle!lifecycleVars
    BY <1>4, <1>5, <1>8, <1>9, <1>12, <1>15 DEF WorkerStep
  <1>16. CASE ReconcilerStep
    BY <1>6, <1>8, <1>13, <1>16 DEF ReconcilerStep
  <1>17. CASE LoseMessage \/ UNCHANGED vars
    <2>1. UNCHANGED row /\ UNCHANGED Submitting
      BY <1>13, <1>17
    <2> QED
      BY <1>8, <2>1
  <1>18. CASE \E t \in Tasks : Lapse(t) \/ LapseLate(t)
    BY <1>10, <1>18
  <1>19. CASE \E c \in Clients : ClientStep(c)
    BY <1>14, <1>19
  <1>20. CASE \E w \in Workers : WorkerStep(w)
    BY <1>15, <1>20
  <1> QED
    BY <1>16, <1>17, <1>18, <1>19, <1>20 DEF Next

\* The backend implements the lifecycle its port promises.
THEOREM RefinesLifecycle == Spec => ImplementsLifecycle
  <1>1. Init => Lifecycle!Init
    BY DEF Init, Lifecycle!Init, NoRow, Submitting
  <1> QED
    BY <1>1, InitIInv, NextIInv, StepRefines, PTL DEF Spec, ImplementsLifecycle, Lifecycle!Spec

\* A task that ended or was asked to stop is never queued or run again: no step
\* of the lifecycle does that.
THEOREM EndedTasksStayEnded == Spec => NeverRevived
  <1> DEFINE Ended(t) == row[t].status \in Terminal \union {"cancel_requested"}
             Kept == \A t \in Tasks : Ended(t) =>
                         row'[t].status \notin {"absent", "queued", "running"}
  <1>1. IInv /\ [Next]_vars => [Kept]_vars
    <2> SUFFICES ASSUME IInv, [Next]_vars, NEW t \in Tasks, Ended(t)
                 PROVE  row'[t].status \notin {"absent", "queued", "running"}
      OBVIOUS
    <2>1. StatusOf[t] = row[t].status /\ StatusOf'[t] = row'[t].status
      BY DEF StatusOf
    <2>2. StatusOf'[t] \notin {"absent", "queued", "running"}
      <3>1. CASE Lifecycle!Next
        BY <2>1, <3>1 DEF Lifecycle!Next, Lifecycle!Queue, Lifecycle!Return, Lifecycle!Start, Lifecycle!Finish,
           Lifecycle!Cancel, Lifecycle!Refuse, Lifecycle!Stall, Lifecycle!Move, StatusOf, Terminal
      <3>2. CASE UNCHANGED Lifecycle!lifecycleVars
        BY <2>1, <3>2 DEF Lifecycle!lifecycleVars, StatusOf, Terminal
      <3> QED
        BY <3>1, <3>2, StepRefines
    <2> QED
      BY <2>1, <2>2
  <1> QED
    BY <1>1, InitIInv, NextIInv, PTL DEF Spec, NeverRevived

\* A worker completes a task only under the lease of its current attempt.
THEOREM CurrentLeaseCompletes == Spec => SucceedsUnderCurrentLease
  <1> DEFINE Current == \A t \in Tasks :
                 row'[t].status = "succeeded" /\ row[t].status # "succeeded" =>
                     \E w \in Workers :
                         /\ held[w] = [task |-> t, attempt |-> row[t].attempt]
                         /\ held'[w] = NoLease
  <1>1. IInv /\ [Next]_vars => [Current]_vars
    <2> SUFFICES ASSUME IInv, [Next]_vars, NEW t \in Tasks,
                        row'[t].status = "succeeded", row[t].status # "succeeded"
                 PROVE  \E w \in Workers :
                            /\ held[w] = [task |-> t, attempt |-> row[t].attempt]
                            /\ held'[w] = NoLease
      OBVIOUS
    <2>0. row'[t] # row[t] /\ t \in Tasks /\ row[t] \in Row
      BY DEF IInv, TypeOK
    <2>1. \E w \in Workers : Finish(w) /\ t = held[w].task
      <3>1. ASSUME NEW c \in Clients, ClientStep(c) PROVE FALSE
        BY <2>0, <3>1 DEF ClientStep, Submit, RequestCancel, Cancelled, RecordDispatchFailure,
           Dispatch, DispatchRaises, ClientCrash, Save, NoRow, Row, IInv, TypeOK
      <3>2. ASSUME NEW w \in Workers, WorkerStep(w)
            PROVE  Finish(w) /\ t = held[w].task
        <4>1. CASE Acquire(w)
          BY <2>0, <4>1 DEF Acquire, AcquireWrite, Save, IInv, TypeOK
        <4>2. CASE Heartbeat(w)
          BY <2>0, <4>2 DEF Heartbeat, HeartbeatWrite, Row, IInv, TypeOK
        <4>3. CASE AcquireNothing(w) \/ LeaseLost(w) \/ WorkerCrash(w)
          BY <2>0, <4>3 DEF AcquireNothing, LeaseLost, WorkerCrash
        <4>4. CASE Finish(w)
          BY <2>0, <4>4 DEF Finish, FinishWrite, Save, IInv, TypeOK
        <4> QED
          BY <3>2, <4>1, <4>2, <4>3, <4>4 DEF WorkerStep
      <3>3. ASSUME NEW u \in Tasks, Lapse(u) \/ LapseLate(u) PROVE FALSE
        BY <2>0, <3>3 DEF Lapse, LapseLate, LeaseExpires, Row, IInv, TypeOK
      <3>4. ASSUME ReconcilerStep PROVE FALSE
        <4>1. CASE Requeue
          BY <2>0, <4>1 DEF Requeue, RequeueWrite, Row
        <4> QED
          BY <2>0, <3>4, <4>1 DEF ReconcilerStep, RedispatchSelect, RedispatchEnqueue,
             RedispatchRecord, ReconcilerCrash
      <3>5. ASSUME LoseMessage \/ UNCHANGED vars PROVE FALSE
        BY <2>0, <3>5 DEF LoseMessage, vars
      <3> QED
        BY <3>1, <3>2, <3>3, <3>4, <3>5 DEF Next
    <2>9. PICK w \in Workers : Finish(w) /\ t = held[w].task
      BY <2>1
    <2>2. held[w] \in Lease /\ held[w] # NoLease /\ Leased(w, t)
      BY <2>9 DEF Finish, IInv, TypeOK
    <2>3. held[w].attempt = row[t].attempt
      BY <2>9, <2>2 DEF IInv, LeasesComeFromRows
    <2> QED
      BY <2>9, <2>2, <2>3 DEF Finish, Lease, IInv, TypeOK
  <1> QED
    BY <1>1, InitIInv, NextIInv, PTL DEF Spec, SucceedsUnderCurrentLease

=============================================================================
