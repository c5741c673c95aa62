---------------------------- MODULE TaskLifecycle ----------------------------
(***************************************************************************)
(* What the TaskBackend port (application/task_backend.py) lets an         *)
(* observer of TaskSnapshot see of a task: its status, and how many times  *)
(* it was handed to a worker.  A task starts only from the queue, one      *)
(* attempt at a time; it finishes only while it runs; it goes back to the  *)
(* queue only while it runs; a request to cancel stops it for good; and    *)
(* the call that submits a task may fail it, whatever the task has done by *)
(* then, but only once and only before that call returns: what the caller  *)
(* that submitted a task sees end stays as it ended.                       *)
(***************************************************************************)
EXTENDS Naturals

CONSTANT Tasks

VARIABLES
    status,
    attempt,
    submitting      \* the tasks whose submit() has not returned yet

lifecycleVars == <<status, attempt, submitting>>

Init ==
    /\ status = [t \in Tasks |-> "absent"]
    /\ attempt = [t \in Tasks |-> 0]
    /\ submitting = {}

Move(t, from, to) ==
    /\ status[t] \in from
    /\ status' = [status EXCEPT ![t] = to]

Queue(t) ==
    /\ Move(t, {"absent"}, "queued")
    /\ submitting' = submitting \union {t}
    /\ UNCHANGED attempt

Return(t) ==
    /\ t \in submitting
    /\ submitting' = submitting \ {t}
    /\ UNCHANGED <<status, attempt>>

Start(t) ==
    /\ Move(t, {"queued"}, "running")
    /\ attempt' = [attempt EXCEPT ![t] = @ + 1]
    /\ UNCHANGED submitting

Finish(t) ==
    /\ \E outcome \in {"succeeded", "failed"} : Move(t, {"running"}, outcome)
    /\ UNCHANGED <<attempt, submitting>>

\* Any number of stalled tasks at once.
Stall(S) ==
    /\ \A t \in S : status[t] = "running"
    /\ status' = [t \in Tasks |-> IF t \in S THEN "queued" ELSE status[t]]
    /\ UNCHANGED <<attempt, submitting>>

Cancel(t) ==
    /\ Move(t, {"queued", "running"}, "cancel_requested")
    /\ UNCHANGED <<attempt, submitting>>

\* The dispatch of a submitted task failed, at whatever point the task is.
Refuse(t) ==
    /\ t \in submitting
    /\ status' = [status EXCEPT ![t] = "failed"]
    /\ submitting' = submitting \ {t}
    /\ UNCHANGED attempt

Next ==
    \/ \E t \in Tasks :
          Queue(t) \/ Return(t) \/ Start(t) \/ Finish(t) \/ Cancel(t) \/ Refuse(t)
    \/ \E S \in SUBSET Tasks : Stall(S)

Spec == Init /\ [][Next]_lifecycleVars
=============================================================================
