------------------------- MODULE AgentStageStoreProofs -------------------------
(***************************************************************************)
(* The safety properties of AgentStageStore for runs of any length, any    *)
(* set of workers and any number of retries and crashes.                   *)
(***************************************************************************)
EXTENDS AgentStageStore, TLAPS

\* Stages are registered in their order.
RegisteredInOrder ==
    \A s \in Stages : \A k \in 1 .. s - 1 : stage[s].status # "absent" => stage[k].status # "absent"

\* Nothing is left to run before a cancelled stage.
CancelledTail ==
    \A s \in Stages : stage[s].status = "cancelled" =>
        \A k \in 1 .. s - 1 : stage[k].status \notin Open

\* A call is made for a stage that was started.
ReceiptsAfterStart ==
    \A s \in Stages : HasReceipt(s) => stage[s].status \notin {"absent", "pending"}

\* Nothing runs beside a cancelled stage.
CancelledStopsAll ==
    (\E s \in Stages : stage[s].status = "cancelled") =>
        \A s \in Stages : stage[s].status # "running"

\* A stage fails by its policy.
FailedByPolicy == \A s \in Stages : stage[s].status = "failed" => stage[s].policy = "fail_run"

\* What the store holds, whatever the workers do.
StoreInv ==
    /\ RegisteredInOrder
    /\ CancelledTail
    /\ ReceiptsAfterStart
    /\ FailedByPolicy
    /\ StagesRunInOrder
    /\ OutputHasReceipt
    /\ ReceiptsAreUnique
    /\ CancelledStopsAll

\* A worker's list of stages may be old, but the store only moves on from it.
ListIsOld(w) ==
    work[w].phase = "listed" =>
        \A s \in Stages :
            /\ work[w].listed[s].status # "absent" =>
                  /\ stage[s].status # "absent"
                  /\ \A k \in 1 .. s - 1 : work[w].listed[k].status # "absent"
            /\ work[w].listed[s].status \in Done => stage[s].status \in Done
            /\ s \in work[w].paid =>
                  /\ HasReceipt(s)
                  /\ work[w].listed[s].status \notin {"absent", "pending"}

\* The stage a worker acts on is registered, with all stages before it done.
ActsInOrder(w) ==
    work[w].phase \notin {"idle", "listed"} =>
        /\ work[w].stage \in Stages
        /\ stage[work[w].stage].status # "absent"
        /\ \A k \in 1 .. work[w].stage - 1 : stage[k].status \in Done

\* What a worker knows about the stage it has started, paid and recorded.
KnowsItsStage(w) ==
    /\ work[w].phase \in {"planned", "started"} => work[w].stage \notin work[w].paid
    /\ work[w].phase \in {"planned", "started", "answered"} => work[w].attempt > 0
    /\ work[w].phase \in {"started", "answered"} =>
          /\ work[w].attempt <= MaxRetries + 1
          /\ stage[work[w].stage].status # "pending"
    /\ work[w].phase = "recorded" =>
          \E r \in receipts : r.stage = work[w].stage /\ r.response = work[w].response

WorkerInv(w) == ListIsOld(w) /\ ActsInOrder(w) /\ KnowsItsStage(w)

\* The inductive invariant: old plans do no harm because stages only move
\* forward and a worker starts behind stages that are done for good.
IInv == TypeOK /\ StoreInv /\ \A w \in Workers : WorkerInv(w)

\* Stages move forward and no receipt is lost.
MovesOn ==
    /\ receipts \subseteq receipts'
    /\ \A s \in Stages :
          /\ stage[s].status # "absent" => stage'[s].status # "absent"
          /\ stage[s].status \notin {"absent", "pending"} =>
                stage'[s].status \notin {"absent", "pending"}
          /\ stage[s].status \in Done => stage'[s].status \in Done

LEMMA EarlierStages ==
    ASSUME NEW s \in Stages, NEW k \in 1 .. s - 1
    PROVE  k \in Stages /\ k < s
  BY StageAssumption DEF Stages

LEMMA IdleIsWork == Idle \in Work
  <1>1. Nothing \in Snapshot
    <2>1. 0 \in 0 .. MaxRetries + 1
      BY StageAssumption
    <2> QED
      BY <2>1 DEF Nothing, Snapshot, Status
  <1>2. 0 \in 0 .. MaxRetries + 2
    BY StageAssumption
  <1> QED
    BY <1>1, <1>2 DEF Idle, Work

LEMMA InitIInv == Init => IInv
  <1> SUFFICES ASSUME Init PROVE IInv
    OBVIOUS
  <1>1. Idle \in Work
    BY IdleIsWork
  <1>2. NoCheckpoint \in Checkpoint
    BY StageAssumption DEF NoCheckpoint, Checkpoint, Status, Policies
  <1>3. TypeOK
    <2>1. 0 \in 0 .. MaxCrashes /\ 0 \in Nat
      BY StageAssumption
    <2>2. FALSE \in BOOLEAN
      OBVIOUS
    <2> QED
      BY <1>1, <1>2, <2>1, <2>2 DEF Init, TypeOK
  <1>4. \A s \in Stages : stage[s].status = "absent"
    BY DEF Init, NoCheckpoint
  <1>5. StoreInv
    BY <1>4 DEF Init, StoreInv, RegisteredInOrder, CancelledTail, ReceiptsAfterStart, FailedByPolicy,
                StagesRunInOrder, OutputHasReceipt, ReceiptsAreUnique, CancelledStopsAll,
                HasReceipt, Done
  <1>6. \A w \in Workers : work[w].phase = "idle"
    BY DEF Init, Idle
  <1>7. \A w \in Workers : WorkerInv(w)
    BY <1>6 DEF WorkerInv, ListIsOld, ActsInOrder, KnowsItsStage
  <1> QED
    BY <1>3, <1>5, <1>7 DEF IInv

\* What the others know stays true.
LEMMA OthersKeepWorkerInv ==
    ASSUME TypeOK, NEW w \in Workers, WorkerInv(w), work'[w] = work[w], MovesOn
    PROVE  WorkerInv(w)'
  <1>1. ListIsOld(w)'
    BY DEF WorkerInv, ListIsOld, MovesOn, HasReceipt
  <1>2. ActsInOrder(w)'
    BY EarlierStages DEF WorkerInv, ActsInOrder, MovesOn
  <1>3. KnowsItsStage(w)'
    BY DEF WorkerInv, KnowsItsStage, ActsInOrder, MovesOn
  <1> QED
    BY <1>1, <1>2, <1>3 DEF WorkerInv

\* A worker at rest knows nothing.
LEMMA RestIsWorkerInv ==
    ASSUME TypeOK, NEW w \in Workers, Rest(w)
    PROVE  /\ work' \in [Workers -> Work]
           /\ WorkerInv(w)'
  <1>1. Idle \in Work
    BY IdleIsWork
  <1>2. work'[w].phase = "idle"
    BY DEF Rest, Idle, TypeOK
  <1>3. WorkerInv(w)'
    BY <1>2 DEF WorkerInv, ListIsOld, ActsInOrder, KnowsItsStage
  <1> QED
    BY <1>1, <1>3 DEF Rest, TypeOK

\* Steps that change only what one worker does.
LEMMA WorkStepKeepsIInv ==
    ASSUME IInv, NEW w \in Workers, NEW n \in Work, work' = [work EXCEPT ![w] = n],
           UNCHANGED <<stage, receipts, calls, crashes, reached>>, WorkerInv(w)'
    PROVE  IInv'
  <1>1. TypeOK'
    BY DEF IInv, TypeOK
  <1>2. StoreInv'
    BY DEF IInv, StoreInv, RegisteredInOrder, CancelledTail, ReceiptsAfterStart, FailedByPolicy,
           StagesRunInOrder, OutputHasReceipt, ReceiptsAreUnique, CancelledStopsAll, HasReceipt
  <1>3. MovesOn
    BY DEF MovesOn
  <1>4. ASSUME NEW v \in Workers PROVE WorkerInv(v)'
    <2>1. CASE v = w
      BY <2>1
    <2>2. CASE v # w
      <3>1. work'[v] = work[v]
        BY <2>2 DEF IInv, TypeOK
      <3> QED
        BY <3>1, <1>3, OthersKeepWorkerInv DEF IInv
    <2> QED
      BY <2>1, <2>2
  <1> QED
    BY <1>1, <1>2, <1>4 DEF IInv

\* Steps that write one checkpoint.
LEMMA WriteKeepsStoreInv ==
    ASSUME TypeOK, StoreInv, NEW s \in Stages, NEW c \in Checkpoint, Becomes(s, c),
           UNCHANGED receipts,
           c.status \notin {"absent", "cancelled"},
           c.status = "pending" => stage[s].status = "absent",
           stage[s].status \in Done => c.status \in Done,
           \A k \in 1 .. s - 1 : stage[k].status # "absent",
           c.status # "pending" => \A k \in 1 .. s - 1 : stage[k].status \in Done,
           c.status \in Open => \A k \in Stages : k > s => stage[k].status # "cancelled",
           stage[s].status # "cancelled",
           c.status = "succeeded" => \E r \in receipts : r.stage = s /\ r.response = c.output,
           c.status = "failed" => c.policy = "fail_run"
    PROVE  StoreInv' /\ MovesOn
  <1>1. /\ stage'[s] = c
        /\ \A k \in Stages \ {s} : stage'[k] = stage[k]
        /\ \A k \in Stages : \A j \in 1 .. k - 1 : j \in Stages /\ j < k
    BY EarlierStages DEF Becomes, TypeOK
  <1>2. MovesOn
    BY <1>1 DEF MovesOn, Done
  <1>3. RegisteredInOrder'
    BY <1>1 DEF StoreInv, RegisteredInOrder
  <1>4. CancelledTail'
    BY <1>1 DEF StoreInv, CancelledTail, Stages
  <1>5. ReceiptsAfterStart'
    BY <1>1 DEF StoreInv, ReceiptsAfterStart, HasReceipt
  <1>5a. FailedByPolicy'
    BY <1>1 DEF StoreInv, FailedByPolicy
  <1>6. StagesRunInOrder'
    BY <1>1, <1>2 DEF StoreInv, StagesRunInOrder, MovesOn, Done
  <1>7. OutputHasReceipt' /\ ReceiptsAreUnique'
    BY <1>1 DEF StoreInv, OutputHasReceipt, ReceiptsAreUnique
  <1>8. CancelledStopsAll'
    <2>1. c.status = "running" => \A k \in Stages : stage[k].status # "cancelled"
      BY DEF Done, Open, Stages
    <2> QED
      BY <1>1, <2>1 DEF StoreInv, CancelledStopsAll
  <1> QED
    BY <1>2, <1>3, <1>4, <1>5, <1>5a, <1>6, <1>7, <1>8 DEF StoreInv

\* Steps that write one checkpoint and leave a worker, if any, in a known state.
LEMMA OthersKeepIInv ==
    ASSUME IInv, TypeOK', StoreInv', MovesOn, NEW w \in Workers, WorkerInv(w)',
           \A v \in Workers \ {w} : work'[v] = work[v]
    PROVE  IInv'
  <1>1. ASSUME NEW v \in Workers PROVE WorkerInv(v)'
    <2>1. CASE v = w
      BY <2>1
    <2>2. CASE v # w
      BY <2>2, OthersKeepWorkerInv DEF IInv
    <2> QED
      BY <2>1, <2>2
  <1> QED
    BY <1>1 DEF IInv

LEMMA RegisterStageStep ==
    ASSUME IInv, NEW s \in Stages, RegisterStage(s)
    PROVE  IInv'
  <1>1. PICK p \in Policies : Becomes(s, [NoCheckpoint EXCEPT !.status = "pending", !.policy = p])
    BY DEF RegisterStage
  <1> DEFINE c == [NoCheckpoint EXCEPT !.status = "pending", !.policy = p]
  <1>2. c \in Checkpoint /\ c.status = "pending"
    <2>1. NoCheckpoint \in Checkpoint
      BY StageAssumption DEF NoCheckpoint, Checkpoint, Status, Policies
    <2>2. "pending" \in Status
      BY DEF Status, Open
    <2> QED
      BY <2>1, <2>2 DEF Checkpoint
  <1>3. Becomes(s, c)
    BY <1>1
  <1> HIDE DEF c
  <1>4. \A k \in 1 .. s - 1 : stage[k].status # "absent"
    <2>1. SUFFICES ASSUME NEW k \in 1 .. s - 1 PROVE stage[k].status # "absent"
      OBVIOUS
    <2>2. s > 1 /\ s - 1 \in Stages
      BY StageAssumption DEF Stages
    <2>3. stage[s - 1].status # "absent"
      BY <2>2 DEF RegisterStage
    <2>4. k = s - 1 \/ k \in 1 .. (s - 1) - 1
      BY DEF Stages
    <2> QED
      BY <2>2, <2>3, <2>4 DEF IInv, StoreInv, RegisteredInOrder
  <1>5. \A k \in Stages : k > s => stage[k].status = "absent"
    BY DEF IInv, StoreInv, RegisteredInOrder, RegisterStage, Stages
  <1>6. stage[s].status = "absent" /\ UNCHANGED <<receipts, calls, work, crashes, reached>>
    BY DEF RegisterStage
  <1>7. TypeOK'
    BY <1>2, <1>3, <1>6 DEF IInv, TypeOK, Becomes
  <1>8. StoreInv' /\ MovesOn
    BY <1>2, <1>3, <1>4, <1>5, <1>6, WriteKeepsStoreInv DEF IInv, Done
  <1>9. \A w \in Workers : WorkerInv(w)'
    BY <1>6, <1>8, OthersKeepWorkerInv DEF IInv
  <1> QED
    BY <1>7, <1>8, <1>9 DEF IInv

LEMMA RequestCancelStep ==
    ASSUME IInv, RequestCancel
    PROVE  IInv'
  <1>1. UNCHANGED <<receipts, calls, work, crashes>> /\ reached' \in BOOLEAN
    BY DEF RequestCancel
  <1>2. \A s \in Stages :
           /\ s \in Cancellable => stage'[s] = [stage[s] EXCEPT !.status = "cancelled"]
           /\ s \notin Cancellable => stage'[s] = stage[s]
           /\ s \in Cancellable <=> stage[s].status \in Open
           /\ stage[s] \in Checkpoint
    BY DEF RequestCancel, Cancellable, IInv, TypeOK
  <1>3. \A s \in Stages :
           /\ stage'[s] \in Checkpoint
           /\ stage[s].status \in Open => stage'[s].status = "cancelled"
           /\ stage[s].status \notin Open => stage'[s] = stage[s]
           /\ stage'[s].output = stage[s].output
    <2> TAKE s \in Stages
    <2>1. CASE s \in Cancellable
      <3>1. stage[s] \in Checkpoint /\ stage'[s] = [stage[s] EXCEPT !.status = "cancelled"]
        BY <1>2, <2>1
      <3>2. stage'[s] \in Checkpoint /\ stage'[s].status = "cancelled" /\ stage'[s].output = stage[s].output
        BY <3>1 DEF Checkpoint, Status, Stopped
      <3> QED
        BY <1>2, <2>1, <3>2
    <2>2. CASE s \notin Cancellable
      BY <1>2, <2>2
    <2> QED
      BY <2>1, <2>2
  <1>4. TypeOK'
    <2>1. stage' \in [Stages -> Checkpoint]
      BY <1>3 DEF RequestCancel
    <2> QED
      BY <1>1, <2>1 DEF IInv, TypeOK
  <1>5. MovesOn
    BY <1>1, <1>3 DEF MovesOn, Open, Done
  <1>6. \A s \in Stages : /\ stage'[s].status \notin Open
                          /\ stage'[s].status \in Done \union {"failed"} => stage'[s] = stage[s]
                          /\ stage'[s].status = "absent" => stage[s].status = "absent"
    BY <1>3 DEF Open, Done
  <1>7. RegisteredInOrder' /\ CancelledTail'
    BY <1>3, <1>5, <1>6, EarlierStages DEF IInv, StoreInv, RegisteredInOrder, CancelledTail, MovesOn
  <1>7a. FailedByPolicy'
    BY <1>3 DEF IInv, StoreInv, FailedByPolicy, Open
  <1>8. ReceiptsAfterStart' /\ OutputHasReceipt' /\ ReceiptsAreUnique'
    BY <1>1, <1>5, <1>6 DEF IInv, StoreInv, ReceiptsAfterStart, OutputHasReceipt, ReceiptsAreUnique,
                            MovesOn, HasReceipt, Done
  <1>9. StagesRunInOrder' /\ CancelledStopsAll'
    <2>1. \A s \in Stages : stage'[s].status # "running"
      BY <1>6 DEF Open
    <2> QED
      BY <2>1, <1>5, <1>6, EarlierStages DEF IInv, StoreInv, StagesRunInOrder, CancelledStopsAll, MovesOn
  <1>10. \A w \in Workers : WorkerInv(w)'
    BY <1>1, <1>5, OthersKeepWorkerInv DEF IInv
  <1> QED
    BY <1>4, <1>7, <1>7a, <1>8, <1>9, <1>10 DEF IInv, StoreInv

\* A worker that rests, crashes or finds nothing to do.
LEMMA RestStep ==
    ASSUME IInv, NEW w \in Workers, Rest(w), UNCHANGED <<stage, receipts, calls, reached>>,
           crashes' \in 0 .. MaxCrashes
    PROVE  IInv'
  <1>1. work' \in [Workers -> Work] /\ WorkerInv(w)'
    BY RestIsWorkerInv DEF IInv
  <1>2. TypeOK'
    BY <1>1 DEF IInv, TypeOK
  <1>3. StoreInv'
    BY DEF IInv, StoreInv, RegisteredInOrder, CancelledTail, ReceiptsAfterStart, FailedByPolicy,
           StagesRunInOrder, OutputHasReceipt, ReceiptsAreUnique, CancelledStopsAll, HasReceipt
  <1>4. MovesOn
    BY DEF MovesOn
  <1>5. \A v \in Workers \ {w} : work'[v] = work[v]
    BY DEF Rest, IInv, TypeOK
  <1> QED
    BY <1>1, <1>2, <1>3, <1>4, <1>5, OthersKeepIInv

LEMMA ListStagesStep ==
    ASSUME IInv, NEW w \in Workers, ListStages(w)
    PROVE  IInv'
  <1> DEFINE paid == {s \in Stages : HasReceipt(s)}
             n == [Idle EXCEPT !.phase = "listed", !.listed = Seen, !.paid = paid]
  <1>1. Seen \in Snapshot
    BY DEF IInv, TypeOK, Seen, Snapshot, Checkpoint
  <1>2. /\ n \in Work /\ n.phase = "listed" /\ n.listed = Seen /\ n.paid = paid
    BY <1>1, IdleIsWork DEF Work
  <1>3. work' = [work EXCEPT ![w] = n] /\ UNCHANGED <<stage, receipts, calls, crashes, reached>>
    BY DEF ListStages
  <1> HIDE DEF n
  <1>4. work'[w] = n
    BY <1>3 DEF IInv, TypeOK
  <1>5. \A s \in Stages : Seen[s].status = stage[s].status
    BY DEF Seen
  <1>6. ListIsOld(w)'
    BY <1>2, <1>3, <1>4, <1>5, EarlierStages
       DEF ListIsOld, IInv, StoreInv, RegisteredInOrder, ReceiptsAfterStart, HasReceipt
  <1>7. ActsInOrder(w)' /\ KnowsItsStage(w)'
    BY <1>2, <1>4 DEF ActsInOrder, KnowsItsStage
  <1> QED
    BY <1>2, <1>3, <1>6, <1>7, WorkStepKeepsIInv DEF WorkerInv

\* The next stage of an old list is behind stages that are done.
LEMMA NextStageIsNext ==
    ASSUME IInv, NEW w \in Workers, work[w].phase = "listed", NEW s \in Stages,
           NextStage(work[w].listed, s)
    PROVE  /\ stage[s].status # "absent"
           /\ \A k \in 1 .. s - 1 : stage[k].status \in Done
  <1>1. ListIsOld(w)
    BY DEF IInv, WorkerInv
  <1>2. stage[s].status # "absent" /\ \A k \in 1 .. s - 1 : work[w].listed[k].status # "absent"
    BY <1>1 DEF ListIsOld, NextStage, Open
  <1>3. \A k \in 1 .. s - 1 : work[w].listed[k].status \in Done
    BY <1>2 DEF NextStage
  <1> QED
    BY <1>1, <1>2, <1>3, EarlierStages DEF ListIsOld

LEMMA PlanReuseStep ==
    ASSUME IInv, NEW w \in Workers, work[w].phase = "listed", NEW s \in Stages,
           NextStage(work[w].listed, s), PlanReuse(w, s),
           UNCHANGED <<stage, receipts, calls, crashes, reached>>
    PROVE  IInv'
  <1>1. PICK r \in receipts :
           /\ Latest(s, r)
           /\ work' = [work EXCEPT ![w] = [@ EXCEPT
                         !.phase = "recorded", !.stage = s, !.attempt = r.attempt,
                         !.response = r.response, !.listed = Nothing]]
    BY DEF PlanReuse
  <1> DEFINE n == [work[w] EXCEPT !.phase = "recorded", !.stage = s, !.attempt = r.attempt,
                                  !.response = r.response, !.listed = Nothing]
  <1>2. work[w] \in Work /\ Nothing \in Snapshot
    BY IdleIsWork DEF IInv, TypeOK, Idle, Work
  <1>3. r.attempt \in 0 .. MaxRetries + 2 /\ r.response \in Nat /\ r.stage = s
    BY <1>1, StageAssumption DEF Latest, IInv, TypeOK, Receipt
  <1>4. n \in Work /\ n.phase = "recorded" /\ n.stage = s /\ n.response = r.response
    BY <1>2, <1>3 DEF Work
  <1>5. work' = [work EXCEPT ![w] = n]
    BY <1>1
  <1> HIDE DEF n
  <1>6. work'[w] = n
    BY <1>5 DEF IInv, TypeOK
  <1>7. ActsInOrder(w)'
    BY <1>4, <1>6, NextStageIsNext DEF ActsInOrder
  <1>8. ListIsOld(w)' /\ KnowsItsStage(w)'
    BY <1>3, <1>4, <1>6 DEF ListIsOld, KnowsItsStage
  <1> QED
    BY <1>4, <1>5, <1>7, <1>8, WorkStepKeepsIInv DEF WorkerInv

LEMMA PlanRunStep ==
    ASSUME IInv, NEW w \in Workers, work[w].phase = "listed", NEW s \in Stages,
           NextStage(work[w].listed, s), PlanRun(w, s),
           UNCHANGED <<stage, receipts, calls, crashes, reached>>
    PROVE  IInv'
  <1> DEFINE n == [work[w] EXCEPT !.phase = "planned", !.stage = s,
                                  !.attempt = work[w].listed[s].attempt + 1, !.listed = Nothing]
  <1>1. work[w] \in Work /\ Nothing \in Snapshot
    BY IdleIsWork DEF IInv, TypeOK, Idle, Work
  <1>2. work[w].listed[s].attempt \in 0 .. MaxRetries + 1
    BY <1>1 DEF Work, Snapshot
  <1>3. work[w].listed[s].attempt + 1 \in 0 .. MaxRetries + 2
        /\ work[w].listed[s].attempt + 1 > 0
    BY <1>2, StageAssumption
  <1>4. /\ n \in Work /\ n.phase = "planned" /\ n.stage = s /\ n.paid = work[w].paid
        /\ n.attempt > 0
    BY <1>1, <1>3 DEF Work
  <1>5. work' = [work EXCEPT ![w] = n]
    BY DEF PlanRun
  <1> HIDE DEF n
  <1>6. work'[w] = n
    BY <1>5 DEF IInv, TypeOK
  <1>7. s \notin work[w].paid
    BY DEF IInv, WorkerInv, ListIsOld, PlanRun, Reuses, NextStage, Open
  <1>8. ActsInOrder(w)'
    BY <1>4, <1>6, NextStageIsNext DEF ActsInOrder
  <1>9. ListIsOld(w)' /\ KnowsItsStage(w)'
    BY <1>4, <1>6, <1>7 DEF ListIsOld, KnowsItsStage
  <1> QED
    BY <1>4, <1>5, <1>8, <1>9, WorkStepKeepsIInv DEF WorkerInv

\* The stage fails before or after it was started.
LEMMA FailingStep ==
    ASSUME IInv, NEW w \in Workers, work[w].phase \in {"planned", "started"},
           Advance(w, "failing"), UNCHANGED <<stage, receipts, calls, crashes, reached>>
    PROVE  IInv'
  <1> DEFINE n == [work[w] EXCEPT !.phase = "failing"]
  <1>1. work[w] \in Work
    BY DEF IInv, TypeOK
  <1>2. n \in Work /\ n.phase = "failing" /\ n.stage = work[w].stage
    BY <1>1 DEF Work
  <1>3. work' = [work EXCEPT ![w] = n]
    BY DEF Advance
  <1> HIDE DEF n
  <1>4. work'[w] = n
    BY <1>3 DEF IInv, TypeOK
  <1>5. WorkerInv(w)'
    BY <1>2, <1>4 DEF IInv, WorkerInv, ListIsOld, ActsInOrder, KnowsItsStage
  <1> QED
    BY <1>2, <1>3, <1>5, WorkStepKeepsIInv

LEMMA StartStageStep ==
    ASSUME IInv, NEW w \in Workers, StartStage(w)
    PROVE  IInv'
  <1> DEFINE s == work[w].stage
             c == [stage[s] EXCEPT !.status = "running", !.attempt = work[w].attempt]
             n == [work[w] EXCEPT !.phase = "started"]
  <1>1. work[w] \in Work /\ work[w].phase = "planned"
    BY DEF IInv, TypeOK, StartStage
  <1>2. /\ s \in Stages /\ stage[s].status \in Open
        /\ \A k \in 1 .. s - 1 : stage[k].status \in Done
        /\ s \notin work[w].paid
        /\ work[w].attempt > 0 /\ work[w].attempt <= MaxRetries + 1
    BY <1>1 DEF IInv, WorkerInv, ActsInOrder, KnowsItsStage, StartStage, Startable, WithinRetries
  <1>3. work[w].attempt \in 0 .. MaxRetries + 1
    BY <1>1, <1>2, StageAssumption DEF Work
  <1>4. c \in Checkpoint /\ c.status = "running"
    <2>1. stage[s] \in Checkpoint
      BY <1>2 DEF IInv, TypeOK
    <2> QED
      BY <2>1, <1>3 DEF Checkpoint, Status, Open
  <1>5. /\ n \in Work /\ n.phase = "started" /\ n.stage = s /\ n.paid = work[w].paid
        /\ n.attempt = work[w].attempt
    BY <1>1 DEF Work
  <1>6. Becomes(s, c) /\ work' = [work EXCEPT ![w] = n] /\ UNCHANGED <<receipts, calls, crashes, reached>>
    BY DEF StartStage, Advance
  <1> HIDE DEF s, c, n
  <1>7. \A k \in Stages : k > s => stage[k].status # "cancelled"
    BY <1>2 DEF IInv, StoreInv, CancelledTail, Stages
  <1>8. StoreInv' /\ MovesOn
    BY <1>2, <1>4, <1>6, <1>7, WriteKeepsStoreInv DEF IInv, Open, Done
  <1>9. stage'[s].status = "running" /\ work'[w] = n
        /\ \A v \in Workers \ {w} : work'[v] = work[v]
    BY <1>2, <1>4, <1>6 DEF IInv, TypeOK, Becomes
  <1>10. TypeOK'
    BY <1>4, <1>5, <1>6 DEF IInv, TypeOK, Becomes
  <1>11. \A k \in 1 .. s - 1 : stage'[k].status \in Done
    BY <1>2, <1>8, EarlierStages DEF MovesOn
  <1>12. WorkerInv(w)'
    BY <1>2, <1>5, <1>9, <1>11 DEF WorkerInv, ListIsOld, ActsInOrder, KnowsItsStage
  <1> QED
    BY <1>8, <1>9, <1>10, <1>12, OthersKeepIInv

LEMMA CallModelStep ==
    ASSUME IInv, NEW w \in Workers, CallModel(w)
    PROVE  IInv'
  <1> DEFINE n == [work[w] EXCEPT !.phase = "answered", !.response = calls[work[w].stage] + 1]
  <1>1. work[w] \in Work /\ work[w].phase = "started" /\ work[w].stage \in Stages
    BY DEF IInv, TypeOK, CallModel, WorkerInv, ActsInOrder
  <1>2. calls[work[w].stage] + 1 \in Nat
    BY <1>1 DEF IInv, TypeOK
  <1>3. /\ n \in Work /\ n.phase = "answered" /\ n.stage = work[w].stage
        /\ n.attempt = work[w].attempt
    BY <1>1, <1>2 DEF Work
  <1>4. /\ work' = [work EXCEPT ![w] = n] /\ UNCHANGED <<stage, receipts, crashes, reached>>
        /\ calls' = [calls EXCEPT ![work[w].stage] = calls[work[w].stage] + 1]
    BY DEF CallModel
  <1> HIDE DEF n
  <1>5. TypeOK'
    BY <1>1, <1>2, <1>3, <1>4 DEF IInv, TypeOK
  <1>6. StoreInv' /\ MovesOn
    BY <1>4 DEF IInv, StoreInv, RegisteredInOrder, CancelledTail, ReceiptsAfterStart, FailedByPolicy, MovesOn,
           StagesRunInOrder, OutputHasReceipt, ReceiptsAreUnique, CancelledStopsAll, HasReceipt
  <1>7. work'[w] = n /\ \A v \in Workers \ {w} : work'[v] = work[v]
    BY <1>4 DEF IInv, TypeOK
  <1>8. WorkerInv(w)'
    BY <1>1, <1>3, <1>4, <1>7 DEF IInv, WorkerInv, ListIsOld, ActsInOrder, KnowsItsStage
  <1> QED
    BY <1>5, <1>6, <1>7, <1>8, OthersKeepIInv

LEMMA RecordReceiptStep ==
    ASSUME IInv, NEW w \in Workers, RecordReceipt(w)
    PROVE  IInv'
  <1> DEFINE r == [stage |-> work[w].stage, attempt |-> work[w].attempt,
                   response |-> work[w].response]
             n == [work[w] EXCEPT !.phase = "recorded"]
  <1>1. /\ work[w] \in Work /\ work[w].phase = "answered" /\ work[w].stage \in Stages
        /\ work[w].attempt > 0 /\ work[w].attempt <= MaxRetries + 1
        /\ stage[work[w].stage].status \notin {"absent", "pending"}
    BY DEF IInv, TypeOK, RecordReceipt, WorkerInv, ActsInOrder, KnowsItsStage
  <1>2. work[w].attempt \in 1 .. MaxRetries + 1
    BY <1>1, StageAssumption DEF Work
  <1>3. r \in Receipt /\ r.stage = work[w].stage /\ r.attempt = work[w].attempt
        /\ r.response = work[w].response
    BY <1>1, <1>2 DEF Receipt, Work
  <1>4. /\ n \in Work /\ n.phase = "recorded" /\ n.stage = work[w].stage
        /\ n.response = work[w].response
    BY <1>1 DEF Work
  <1>5. /\ receipts' = receipts \union {r} /\ work' = [work EXCEPT ![w] = n]
        /\ UNCHANGED <<stage, calls, crashes, reached>> /\ Keyed(w) = {}
    BY DEF RecordReceipt, Advance
  <1> HIDE DEF r, n
  <1>6. TypeOK'
    BY <1>3, <1>4, <1>5 DEF IInv, TypeOK
  <1>7. ReceiptsAfterStart' /\ OutputHasReceipt'
    BY <1>1, <1>3, <1>5 DEF IInv, StoreInv, ReceiptsAfterStart, OutputHasReceipt, HasReceipt
  <1>8. ReceiptsAreUnique'
    <2>1. \A q \in receipts : ~(q.stage = r.stage /\ q.attempt = r.attempt)
      BY <1>3, <1>5 DEF Keyed
    <2> QED
      BY <2>1, <1>5 DEF IInv, StoreInv, ReceiptsAreUnique
  <1>9. StoreInv' /\ MovesOn
    BY <1>5, <1>7, <1>8 DEF IInv, StoreInv, RegisteredInOrder, CancelledTail, FailedByPolicy, MovesOn,
                            StagesRunInOrder, CancelledStopsAll
  <1>10. work'[w] = n /\ \A v \in Workers \ {w} : work'[v] = work[v]
    BY <1>5 DEF IInv, TypeOK
  <1>11. WorkerInv(w)'
    BY <1>1, <1>3, <1>4, <1>5, <1>10 DEF IInv, WorkerInv, ListIsOld, ActsInOrder, KnowsItsStage
  <1> QED
    BY <1>6, <1>9, <1>10, <1>11, OthersKeepIInv

\* A worker that ends a stage with checkpoint c and rests.
LEMMA EndStep ==
    ASSUME IInv, NEW w \in Workers, work[w].phase \in {"recorded", "failing"}, Rest(w),
           NEW c \in Checkpoint, Becomes(work[w].stage, c), UNCHANGED <<receipts, calls, crashes, reached>>,
           stage[work[w].stage].status # "cancelled",
           stage[work[w].stage].status \in Done => c.status \in Done,
           c.status \in Done \union {"failed"},
           c.status = "succeeded" =>
               \E r \in receipts : r.stage = work[w].stage /\ r.response = c.output,
           c.status = "failed" => c.policy = "fail_run"
    PROVE  IInv'
  <1> DEFINE s == work[w].stage
  <1>1. /\ s \in Stages /\ stage[s].status # "absent"
        /\ \A k \in 1 .. s - 1 : stage[k].status \in Done
    BY DEF IInv, WorkerInv, ActsInOrder
  <1>2. c.status \notin {"absent", "cancelled", "pending"} /\ c.status \notin Open
    BY DEF Done, Open
  <1> HIDE DEF s
  <1>3. \A k \in 1 .. s - 1 : stage[k].status # "absent"
    BY <1>1 DEF Done
  <1>4. StoreInv' /\ MovesOn
    BY <1>1, <1>2, <1>3, WriteKeepsStoreInv DEF IInv, s
  <1>5. work' \in [Workers -> Work] /\ WorkerInv(w)'
    BY RestIsWorkerInv DEF IInv
  <1>6. TypeOK'
    BY <1>1, <1>5 DEF IInv, TypeOK, Becomes
  <1>7. \A v \in Workers \ {w} : work'[v] = work[v]
    BY DEF Rest, IInv, TypeOK
  <1> QED
    BY <1>4, <1>5, <1>6, <1>7, OthersKeepIInv

LEMMA CompleteStageStep ==
    ASSUME IInv, NEW w \in Workers, CompleteStage(w)
    PROVE  IInv'
  <1> DEFINE c == [stage[work[w].stage] EXCEPT !.status = "succeeded", !.output = work[w].response]
  <1>1. /\ work[w].stage \in Stages /\ stage[work[w].stage] \in Checkpoint
        /\ work[w].response \in Nat
        /\ \E r \in receipts : r.stage = work[w].stage /\ r.response = work[w].response
    BY DEF IInv, TypeOK, Work, WorkerInv, ActsInOrder, KnowsItsStage, CompleteStage
  <1>2. c \in Checkpoint /\ c.status = "succeeded" /\ c.output = work[w].response
    BY <1>1 DEF Checkpoint, Status, Done
  <1>3. Becomes(work[w].stage, c) /\ Rest(w) /\ UNCHANGED <<receipts, calls, crashes, reached>>
        /\ work[w].phase = "recorded" /\ stage[work[w].stage].status # "cancelled"
    BY DEF CompleteStage, Completable, Stopped
  <1> HIDE DEF c
  <1> QED
    BY <1>1, <1>2, <1>3, EndStep DEF Done

LEMMA PolicyFails ==
    ASSUME NEW p \in Policies
    PROVE  FailureStatus(p) = "failed" <=> p = "fail_run"
  BY DEF Policies, FailureStatus

LEMMA RecordStageFailureStep ==
    ASSUME IInv, NEW w \in Workers, RecordStageFailure(w)
    PROVE  IInv'
  <1> DEFINE s == work[w].stage
             c == [stage[s] EXCEPT !.status = FailureStatus(stage[s].policy)]
  <1>1. Rest(w) /\ UNCHANGED <<receipts, calls, crashes, reached>> /\ work[w].phase = "failing"
    BY DEF RecordStageFailure
  <1>2. CASE ~Failable(s)
    <2>1. UNCHANGED stage
      BY <1>2 DEF RecordStageFailure
    <2> QED
      BY <1>1, <2>1, RestStep DEF IInv, TypeOK
  <1>3. CASE Failable(s)
    <2>1. s \in Stages /\ stage[s] \in Checkpoint
      BY <1>1 DEF IInv, TypeOK, WorkerInv, ActsInOrder
    <2>2. FailureStatus(stage[s].policy) \in {"degraded", "skipped", "failed"}
      BY <2>1 DEF Checkpoint, Policies, FailureStatus
    <2>3. /\ c \in Checkpoint
          /\ c.status \in {"degraded", "skipped", "failed"}
          /\ c.status = "failed" => c.policy = "fail_run"
      BY <2>1, <2>2, PolicyFails DEF Checkpoint, Status, Done, Stopped
    <2>4. Becomes(s, c) /\ stage[s].status \in Open \union {"failed"}
      BY <1>3 DEF RecordStageFailure, Failable
    <2> HIDE DEF c
    <2>5. c.status \in Done \union {"failed"} /\ c.status # "succeeded"
          /\ stage[s].status # "cancelled" /\ stage[s].status \notin Done
      BY <2>3, <2>4 DEF Done, Open
    <2> QED
      BY <1>1, <2>3, <2>4, <2>5, EndStep
  <1> QED
    BY <1>2, <1>3

LEMMA RunsStep ==
    ASSUME IInv, NEW w \in Workers, Runs(w)
    PROVE  IInv'
  <1>1. CASE ListStages(w)
    BY <1>1, ListStagesStep
  <1>2. CASE Plan(w)
    <2>1. PICK s \in Stages : NextStage(work[w].listed, s) /\ (PlanReuse(w, s) \/ PlanRun(w, s))
      BY <1>2 DEF Plan
    <2>2. work[w].phase = "listed" /\ UNCHANGED <<stage, receipts, calls, crashes, reached>>
      BY <1>2 DEF Plan
    <2> QED
      BY <2>1, <2>2, PlanReuseStep, PlanRunStep
  <1>3. CASE PlanNothing(w) \/ StartEnded(w) \/ ReceiptConflict(w) \/ CompleteRefused(w)
    <2>1. Rest(w) /\ UNCHANGED <<stage, receipts, calls, reached>> /\ UNCHANGED crashes
      BY <1>3 DEF PlanNothing, StartEnded, ReceiptConflict, CompleteRefused, Rest
    <2> QED
      BY <2>1, RestStep DEF IInv, TypeOK
  <1>4. CASE StartStage(w)
    BY <1>4, StartStageStep
  <1>5. CASE StartExhausted(w) \/ StageFails(w)
    BY <1>5, FailingStep DEF StartExhausted, StageFails
  <1>6. CASE CallModel(w)
    BY <1>6, CallModelStep
  <1>7. CASE RecordReceipt(w)
    BY <1>7, RecordReceiptStep
  <1>8. CASE CompleteStage(w)
    BY <1>8, CompleteStageStep
  <1>9. CASE RecordStageFailure(w)
    BY <1>9, RecordStageFailureStep
  <1> QED
    BY <1>1, <1>2, <1>3, <1>4, <1>5, <1>6, <1>7, <1>8, <1>9 DEF Runs

LEMMA CrashStep ==
    ASSUME IInv, NEW w \in Workers, Crash(w)
    PROVE  IInv'
  <1>1. crashes' \in 0 .. MaxCrashes
    BY StageAssumption DEF Crash, IInv, TypeOK
  <1> QED
    BY <1>1, RestStep DEF Crash

LEMMA StutterKeepsIInv ==
    ASSUME IInv, UNCHANGED vars
    PROVE  IInv'
  <1>1. TypeOK'
    BY DEF IInv, TypeOK, vars
  <1>2. StoreInv'
    BY DEF vars, IInv, StoreInv, RegisteredInOrder, CancelledTail, ReceiptsAfterStart, FailedByPolicy,
           StagesRunInOrder, OutputHasReceipt, ReceiptsAreUnique, CancelledStopsAll, HasReceipt
  <1>3. \A w \in Workers : WorkerInv(w)'
    BY DEF vars, IInv, WorkerInv, ListIsOld, ActsInOrder, KnowsItsStage, HasReceipt
  <1> QED
    BY <1>1, <1>2, <1>3 DEF IInv

LEMMA NextKeepsIInv == IInv /\ [Next]_vars => IInv'
  <1> SUFFICES ASSUME IInv, [Next]_vars PROVE IInv'
    OBVIOUS
  <1>1. CASE UNCHANGED vars
    BY <1>1, StutterKeepsIInv
  <1>2. CASE Next
    BY <1>2, RegisterStageStep, RequestCancelStep, RunsStep, CrashStep DEF Next
  <1> QED
    BY <1>1, <1>2

LEMMA Inductive == Spec => []IInv
  BY InitIInv, NextKeepsIInv, PTL DEF Spec

\* Every row, receipt and worker keeps its type: no stage is started with an
\* attempt beyond max_retries + 1.
THEOREM TypeCorrect == Spec => []TypeOK
  BY Inductive, PTL DEF IInv

\* However old the plan of a worker is, no stage runs or ends before all
\* earlier ones are done.
THEOREM StagesKeepTheirOrder == Spec => []StagesRunInOrder
  <1>1. IInv => StagesRunInOrder
    BY DEF IInv, StoreInv
  <1> QED
    BY <1>1, Inductive, PTL

\* No worker pays for a stage whose receipt was there when it listed the stages.
THEOREM PaidOnce == Spec => []NoDuplicateCharge
  <1>1. IInv => NoDuplicateCharge
    BY DEF IInv, WorkerInv, KnowsItsStage, NoDuplicateCharge
  <1> QED
    BY <1>1, Inductive, PTL

\* Behind the output of a stage is the receipt of a model call of this stage.
THEOREM OutputsAreReceipted == Spec => []OutputHasReceipt
  <1>1. IInv => OutputHasReceipt
    BY DEF IInv, StoreInv
  <1> QED
    BY <1>1, Inductive, PTL

\* Two workers with one attempt do not both record a response.
THEOREM OneResponsePerKey == Spec => []ReceiptsAreUnique
  <1>1. IInv => ReceiptsAreUnique
    BY DEF IInv, StoreInv
  <1> QED
    BY <1>1, Inductive, PTL

LEMMA NextKeepsReceipts == Next => receipts \subseteq receipts'
  <1> SUFFICES ASSUME Next PROVE receipts \subseteq receipts'
    OBVIOUS
  <1>1. CASE \E s \in Stages : RegisterStage(s)
    BY <1>1 DEF RegisterStage
  <1>2. CASE RequestCancel
    BY <1>2 DEF RequestCancel
  <1>3. CASE \E w \in Workers : RecordReceipt(w)
    BY <1>3 DEF RecordReceipt
  <1>4. ASSUME NEW w \in Workers, Runs(w) \/ Crash(w), ~RecordReceipt(w)
        PROVE  receipts' = receipts
    BY <1>4 DEF Runs, Crash, ListStages, Plan, PlanNothing, StartStage, StartEnded,
                StartExhausted, CallModel, StageFails, ReceiptConflict, CompleteStage,
                CompleteRefused, RecordStageFailure
  <1> QED
    BY <1>1, <1>2, <1>3, <1>4 DEF Next

\* A receipt that was recorded is never replaced or lost.
THEOREM ReceiptsAreForever == Spec => ReceiptsAreKept
  <1>1. [Next]_vars => [receipts \subseteq receipts']_vars
    BY NextKeepsReceipts
  <1> QED
    BY <1>1, PTL DEF Spec, ReceiptsAreKept

\* What ended keeps its end.
LEMMA NextKeepsEnds ==
    ASSUME IInv, Next, NEW s \in Stages
    PROVE  /\ stage[s].status \in Stopped \union {"succeeded"} => stage'[s] = stage[s]
           /\ stage[s].status \in {"degraded", "skipped"} =>
                 stage'[s] = stage[s] \/ stage'[s].status = "succeeded"
  <1> DEFINE Kept == /\ stage[s].status \in Stopped \union {"succeeded"} => stage'[s] = stage[s]
                     /\ stage[s].status \in {"degraded", "skipped"} =>
                           stage'[s] = stage[s] \/ stage'[s].status = "succeeded"
  <1>1. ASSUME NEW k \in Stages, RegisterStage(k) PROVE Kept
    BY <1>1 DEF RegisterStage, Becomes, Stopped
  <1>2. CASE RequestCancel
    BY <1>2 DEF RequestCancel, Cancellable, Open, Stopped
  <1>3. ASSUME NEW w \in Workers, StartStage(w) PROVE Kept
    BY <1>3 DEF StartStage, Startable, Becomes, Open, Stopped
  <1>4. ASSUME NEW w \in Workers, CompleteStage(w) PROVE Kept
    <2>1. stage \in [Stages -> Checkpoint]
      BY DEF IInv, TypeOK
    <2>2. PICK c \in Checkpoint : c.status = "succeeded" /\ Becomes(work[w].stage, c)
      <3>1. work[w].stage \in Stages /\ work[w].response \in Nat
        BY <1>4 DEF IInv, TypeOK, Work, WorkerInv, ActsInOrder, CompleteStage
      <3> QED
        BY <2>1, <3>1, <1>4 DEF CompleteStage, Checkpoint, Status, Done
    <2> QED
      BY <1>4, <2>1, <2>2 DEF CompleteStage, Completable, Becomes
  <1>5. ASSUME NEW w \in Workers, RecordStageFailure(w) PROVE Kept
    <2> DEFINE t == work[w].stage
    <2>1. CASE stage[t].status = "failed"
      <3>1. t \in Stages /\ stage[t] \in Checkpoint
        BY <1>5 DEF IInv, TypeOK, WorkerInv, ActsInOrder, RecordStageFailure
      <3>2. FailureStatus(stage[t].policy) = stage[t].status
        BY <2>1, <3>1, PolicyFails DEF IInv, StoreInv, FailedByPolicy, Checkpoint
      <3>3. [stage[t] EXCEPT !.status = stage[t].status] = stage[t]
        BY <3>1 DEF Checkpoint
      <3>4. stage' = [stage EXCEPT ![t] = stage[t]]
        BY <1>5, <2>1, <3>2, <3>3 DEF RecordStageFailure, Failable, Becomes
      <3> QED
        BY <3>4 DEF IInv, TypeOK
    <2>2. CASE stage[t].status # "failed"
      <3>1. s = t /\ Failable(t) => stage[s].status \in Open
        BY <2>2 DEF Failable
      <3>2. ~(s = t /\ Failable(t)) => stage'[s] = stage[s]
        BY <1>5 DEF RecordStageFailure, Becomes, IInv, TypeOK
      <3> QED
        BY <3>1, <3>2 DEF Open, Stopped
    <2> QED
      BY <2>1, <2>2
  <1>6. ASSUME NEW w \in Workers, Runs(w) \/ Crash(w),
               ~StartStage(w), ~CompleteStage(w), ~RecordStageFailure(w)
        PROVE  Kept
    BY <1>6 DEF Runs, Crash, ListStages, Plan, PlanNothing, StartEnded, StartExhausted,
                CallModel, StageFails, RecordReceipt, ReceiptConflict, CompleteRefused
  <1> QED
    BY <1>1, <1>2, <1>3, <1>4, <1>5, <1>6 DEF Next

\* Stages that succeeded, failed or were cancelled stay as they are; degraded
\* and skipped ones can only become successes.
THEOREM EndsAreFinal == Spec => EndsAreKept
  <1>1. IInv /\ [Next]_vars =>
          [\A s \in Stages :
             /\ stage[s].status \in Stopped \union {"succeeded"} => stage'[s] = stage[s]
             /\ stage[s].status \in {"degraded", "skipped"} =>
                   stage'[s] = stage[s] \/ stage'[s].status = "succeeded"]_vars
    BY NextKeepsEnds
  <1> QED
    BY <1>1, Inductive, PTL DEF Spec, EndsAreKept

\* request_cancel has found a stage exactly if there is a cancelled one.
ReachedIsSeen == reached <=> \E s \in Stages : stage[s].status = "cancelled"

LEMMA OnlyCancelCancels ==
    ASSUME IInv, Next, ~RequestCancel, NEW s \in Stages, stage[s].status # "cancelled"
    PROVE  stage'[s].status # "cancelled"
  <1>1. ASSUME NEW k \in Stages, RegisterStage(k) PROVE stage'[s].status # "cancelled"
    <2>1. PICK c \in Checkpoint : c.status = "pending" /\ Becomes(k, c)
      <3>1. NoCheckpoint \in Checkpoint
        BY StageAssumption DEF NoCheckpoint, Checkpoint, Status, Policies
      <3> QED
        BY <1>1, <3>1 DEF RegisterStage, Checkpoint, Status, Open
    <2> QED
      BY <2>1 DEF Becomes, IInv, TypeOK
  <1>2. ASSUME NEW w \in Workers, StartStage(w) PROVE stage'[s].status # "cancelled"
    BY <1>2 DEF StartStage, Becomes, IInv, TypeOK, Checkpoint
  <1>3. ASSUME NEW w \in Workers, CompleteStage(w) PROVE stage'[s].status # "cancelled"
    BY <1>3 DEF CompleteStage, Becomes, IInv, TypeOK, Checkpoint
  <1>4. ASSUME NEW w \in Workers, RecordStageFailure(w) PROVE stage'[s].status # "cancelled"
    <2> DEFINE t == work[w].stage
               c == [stage[t] EXCEPT !.status = FailureStatus(stage[t].policy)]
    <2>1. t \in Stages /\ stage[t] \in Checkpoint
      BY <1>4 DEF IInv, TypeOK, WorkerInv, ActsInOrder, RecordStageFailure
    <2>2. c.status # "cancelled"
      BY <2>1 DEF Checkpoint, Policies, FailureStatus
    <2>3. UNCHANGED stage \/ Becomes(t, c)
      BY <1>4 DEF RecordStageFailure
    <2> HIDE DEF c
    <2> QED
      BY <2>1, <2>2, <2>3 DEF Becomes, IInv, TypeOK
  <1>5. ASSUME NEW w \in Workers, Runs(w) \/ Crash(w),
               ~StartStage(w), ~CompleteStage(w), ~RecordStageFailure(w)
        PROVE  stage'[s].status # "cancelled"
    BY <1>5 DEF Runs, Crash, ListStages, Plan, PlanNothing, StartEnded, StartExhausted,
                CallModel, StageFails, RecordReceipt, ReceiptConflict, CompleteRefused
  <1> QED
    BY <1>1, <1>2, <1>3, <1>4, <1>5 DEF Next

LEMMA OnlyCancelReaches == Next /\ ~RequestCancel => reached' = reached
  BY DEF Next, RegisterStage, Runs, Crash, ListStages, Plan, PlanNothing, StartStage, StartEnded,
         StartExhausted, CallModel, StageFails, RecordReceipt, ReceiptConflict, CompleteStage,
         CompleteRefused, RecordStageFailure

LEMMA NextKeepsReached == IInv /\ ReachedIsSeen /\ [Next]_vars => ReachedIsSeen'
  <1> SUFFICES ASSUME IInv, ReachedIsSeen, [Next]_vars PROVE ReachedIsSeen'
    OBVIOUS
  <1>1. CASE UNCHANGED vars
    BY <1>1 DEF vars, ReachedIsSeen
  <1>2. CASE RequestCancel
    <2>1. \A s \in Stages :
             /\ s \in Cancellable => stage'[s].status = "cancelled"
             /\ s \notin Cancellable => stage'[s] = stage[s]
      BY <1>2 DEF RequestCancel, Cancellable, IInv, TypeOK, Checkpoint
    <2>2. Cancellable \subseteq Stages /\ reached' = (reached \/ Cancellable # {})
      BY <1>2 DEF RequestCancel, Cancellable
    <2>3. \A s \in Stages : stage[s].status = "cancelled" => s \notin Cancellable
      BY DEF Cancellable, Open
    <2> QED
      BY <2>1, <2>2, <2>3 DEF ReachedIsSeen
  <1>3. CASE Next /\ ~RequestCancel
    <2>1. \A s \in Stages : stage[s].status = "cancelled" => stage'[s].status = "cancelled"
      BY <1>3, NextKeepsEnds DEF Stopped
    <2>2. \A s \in Stages : stage[s].status # "cancelled" => stage'[s].status # "cancelled"
      BY <1>3, OnlyCancelCancels
    <2> QED
      BY <1>3, <2>1, <2>2, OnlyCancelReaches DEF ReachedIsSeen
  <1> QED
    BY <1>1, <1>2, <1>3

\* A call of request_cancel that finds an open stage marks it for good, and
\* nothing runs from then on; only such a call marks stages.
THEOREM CancelIsFinal == Spec => []CancelStopsWhatItFinds
  <1>1. Init => ReachedIsSeen
    BY DEF Init, ReachedIsSeen, NoCheckpoint
  <1>2. IInv /\ ReachedIsSeen => CancelStopsWhatItFinds
    BY DEF IInv, StoreInv, CancelledStopsAll, ReachedIsSeen, CancelStopsWhatItFinds
  <1> QED
    BY <1>1, <1>2, Inductive, NextKeepsReached, PTL DEF Spec
=============================================================================
