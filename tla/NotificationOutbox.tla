-------------------------- MODULE NotificationOutbox --------------------------
(***************************************************************************)
(* The transactional outbox of report notifications                        *)
(* (repositories/notification_outbox.py), the publisher that enqueues      *)
(* messages, the sender workers that lease them in batches, and the        *)
(* provider the workers call between two calls of the store.               *)
(*                                                                         *)
(* Every transaction of the store is one step; OutboxReadCommitted splits  *)
(* them.  Sending is outside of every transaction: a worker that leased a  *)
(* message calls the provider, and only afterwards marks the row.          *)
(*                                                                         *)
(* Time is abstracted to the two comparisons the code makes: a lease is    *)
(* "live" until it is "lapsed", and a message is in the sequence due once  *)
(* its next_attempt_at_utc has passed, which is also the order of the rows *)
(* in the SELECT of lease_pending.                                         *)
(***************************************************************************)
EXTENDS Naturals, Sequences, FiniteSets

CONSTANTS
    Messages,    \* notifications of one tenant and one channel, one dedupe key each
    Workers,     \* worker_id values of the senders
    NoWorker,    \* lease_owner IS NULL
    MaxAttempts, \* max_attempts of every message
    Limit        \* limit of lease_pending

ASSUME OutboxAssumption ==
    /\ NoWorker \notin Workers
    /\ MaxAttempts \in Nat \ {0}
    /\ Limit \in Nat \ {0}

VARIABLES
    row,      \* serenity_notification_outbox_messages: the row of each message
    due,      \* ORDER BY next_attempt_at_utc, of the rows whose time has come
    held,     \* the messages each sender leased and did not mark yet
    delivered \* how often the provider delivered each attempt, up to twice

vars == <<row, due, held, delivered>>

-----------------------------------------------------------------------------

Status == {"absent", "pending", "sending", "sent", "dead_letter"}
Attempts == 1 .. MaxAttempts

Row == [status  : Status,
        owner   : Workers \union {NoWorker},
        lease   : {"none", "live", "lapsed"},
        attempt : 0 .. MaxAttempts]

NoRow == [status |-> "absent", owner |-> NoWorker, lease |-> "none", attempt |-> 0]

\* A leased message and what the provider answered for it so far.
Item == [message : Messages, attempt : Attempts, answer : {"none", "ok", "error"}]

Leases(w, m) == {h \in held[w] : h.message = m}

-----------------------------------------------------------------------------
(* Enqueueing                                                              *)

\* enqueue_report_notification(): next_attempt_at is now.  A second call with
\* the same key finds the row and writes nothing.
Enqueue(m) ==
    /\ row[m].status = "absent"
    /\ row' = [row EXCEPT ![m].status = "pending"]
    /\ due' = Append(due, m)
    /\ UNCHANGED <<held, delivered>>

\* next_attempt_at_utc of the message is still to come.
Waits(m) == \A i \in DOMAIN due : due[i] # m

\* next_attempt_at_utc of a message that waits for its retry passes.
FallsDue(m) ==
    /\ row[m].status \in {"pending", "sending"}
    /\ Waits(m)
    /\ due' = Append(due, m)
    /\ UNCHANGED <<row, held, delivered>>

-----------------------------------------------------------------------------
(* Leasing                                                                 *)

\* The WHERE clause of lease_pending.
Selectable ==
    {m \in Messages : row[m].status \in {"pending", "sending"}
                      /\ row[m].attempt < MaxAttempts}

\* Its ORDER BY and LIMIT: rows under a live lease count against the limit.
Selected ==
    {m \in Selectable :
        \E i \in DOMAIN due :
            /\ due[i] = m
            /\ Cardinality({j \in 1 .. i - 1 : due[j] \in Selectable}) < Limit}

\* Mutant: rows that were leased before are not leased again.
LeasableOnce == {m \in Selected : row[m].lease = "none"}

\* The loop skips the rows another sender works on.
Leasable == {m \in Selected : ~(row[m].status = "sending" /\ row[m].lease = "live")}

\* Mutant: only mark_failed counts attempts.
LeaseRowUncounted(w, r) ==
    [status |-> "sending", owner |-> w, lease |-> "live",
     attempt |-> IF r.attempt = 0 THEN 1 ELSE r.attempt]

\* What the loop writes into a row of the batch.
LeaseRow(w, r) ==
    [status |-> "sending", owner |-> w, lease |-> "live", attempt |-> r.attempt + 1]

\* lease_pending(): a sender asks for its next batch once it marked the last.
LeasePending(w) ==
    /\ held[w] = {}
    /\ Leasable # {}
    /\ row' = [m \in Messages |-> IF m \in Leasable THEN LeaseRow(w, row[m]) ELSE row[m]]
    /\ held' = [held EXCEPT ![w] =
                  {[message |-> m, attempt |-> LeaseRow(w, row[m]).attempt,
                    answer |-> "none"] : m \in Leasable}]
    /\ UNCHANGED <<due, delivered>>

-----------------------------------------------------------------------------
(* Sending                                                                 *)

Answer(w, h, a) ==
    held' = [held EXCEPT ![w] = (@ \ {h}) \union {[h EXCEPT !.answer = a]}]

\* 2 stands for twice or more.
Deliver(h) ==
    delivered' = [delivered EXCEPT ![h.message][h.attempt] = IF @ = 2 THEN 2 ELSE @ + 1]

\* The provider accepts the notification and the sender hears of it.
Accepted(w, h) ==
    /\ h.answer = "none"
    /\ Deliver(h)
    /\ Answer(w, h, "ok")
    /\ UNCHANGED <<row, due>>

\* The sender sees an error or a timeout; the provider may have delivered.
Refused(w, h) ==
    /\ h.answer = "none"
    /\ Deliver(h) \/ UNCHANGED delivered
    /\ Answer(w, h, "error")
    /\ UNCHANGED <<row, due>>

\* Mutant: the owner of the lease is not compared.
LeasedByAnyone(w, m) == row[m].status = "sending"

\* _require_leased_row: neither the expiry nor the attempt is looked at.
Leased(w, m) == row[m].status = "sending" /\ row[m].owner = w

Drop(w, h) == held' = [held EXCEPT ![w] = @ \ {h}]

\* What mark_sent and mark_failed write: a new status and no lease.
Closed(r, status) == [r EXCEPT !.status = status, !.owner = NoWorker, !.lease = "none"]

MarkSent(w, h) ==
    /\ h.answer = "ok"
    /\ Leased(w, h.message)
    /\ row' = [row EXCEPT ![h.message] = Closed(@, "sent")]
    /\ Drop(w, h)
    /\ UNCHANGED <<due, delivered>>

NextStatus(r) == IF r.attempt >= MaxAttempts THEN "dead_letter" ELSE "pending"

\* The rows but m, in their order.
Others(m) ==
    IF Waits(m) THEN {due}
    ELSE {SubSeq(due, 1, i - 1) \o SubSeq(due, i + 1, Len(due)) :
             i \in {j \in DOMAIN due : due[j] = m}}

\* The message takes its new next_attempt_at_utc: now, or later.
Reschedule(m) == \E others \in Others(m) : due' = others \/ due' = Append(others, m)

\* mark_failed(), with or without a retry delay.
MarkFailed(w, h) ==
    /\ h.answer = "error"
    /\ Leased(w, h.message)
    /\ row' = [row EXCEPT ![h.message] = Closed(@, NextStatus(@))]
    /\ Reschedule(h.message)
    /\ Drop(w, h)
    /\ UNCHANGED delivered

\* mark_sent() or mark_failed() raised: the lease was given to someone else.
LeaseLost(w, h) ==
    /\ h.answer # "none"
    /\ ~Leased(w, h.message)
    /\ Drop(w, h)
    /\ UNCHANGED <<row, due, delivered>>

\* The sender dies and comes back under the same worker_id.
SenderCrash(w) ==
    /\ held[w] # {}
    /\ held' = [held EXCEPT ![w] = {}]
    /\ UNCHANGED <<row, due, delivered>>

\* lease_expires_at_utc passes, whether or not the sender still works.
Lapse(m) ==
    /\ row[m].lease = "live"
    /\ row' = [row EXCEPT ![m].lease = "lapsed"]
    /\ UNCHANGED <<due, held, delivered>>

-----------------------------------------------------------------------------

Init ==
    /\ row = [m \in Messages |-> NoRow]
    /\ due = <<>>
    /\ held = [w \in Workers |-> {}]
    /\ delivered = [m \in Messages |-> [a \in Attempts |-> 0]]

Call(w, h) == Accepted(w, h) \/ Refused(w, h)

Mark(w, h) == MarkSent(w, h) \/ MarkFailed(w, h) \/ LeaseLost(w, h)

Next ==
    \/ \E m \in Messages : Enqueue(m) \/ FallsDue(m) \/ Lapse(m)
    \/ \E w \in Workers :
          \/ LeasePending(w) \/ SenderCrash(w)
          \/ \E h \in held[w] : Call(w, h) \/ Mark(w, h)

Spec == Init /\ [][Next]_vars

\* Time passes; a sender that is alive asks for work, hears from the provider
\* and marks what it was told.  It may crash, and the provider may refuse, always.
Fairness ==
    /\ \A m \in Messages : WF_vars(FallsDue(m)) /\ WF_vars(Lapse(m))
    /\ \A w \in Workers :
          /\ WF_vars(LeasePending(w))
          /\ WF_vars(\E h \in held[w] : Call(w, h))
          /\ WF_vars(\E h \in held[w] : Mark(w, h))

FairSpec == Spec /\ Fairness

-----------------------------------------------------------------------------
(* Properties                                                              *)

\* Every column and every lease has a value the schema and the code allow; no
\* row is ever leased more than max_attempts times.
TypeOK ==
    /\ row \in [Messages -> Row]
    /\ due \in Seq(Messages)
    /\ held \in [Workers -> SUBSET Item]
    /\ delivered \in [Messages -> [Attempts -> 0 .. 2]]

\* The outbox bounds the side effects: each attempt the row counted reaches
\* the provider's recipients at most once, and nothing is delivered that the
\* row did not count.
AttemptsBoundDeliveries ==
    \A m \in Messages : \A a \in Attempts :
        /\ delivered[m][a] <= 1
        /\ delivered[m][a] = 1 => a <= row[m].attempt

\* mark_sent only compares lease_owner, and a worker_id may have leased the
\* message before, yet a sent row is one whose last attempt was delivered.
SentWasDelivered ==
    \A m \in Messages :
        row[m].status = "sent" => row[m].attempt > 0 /\ delivered[m][row[m].attempt] = 1

\* Whoever may mark or take over a message is named by the columns of its
\* row: a message in sending has an owner and an expiry, no other row has.
LeaseColumns ==
    \A m \in Messages :
        /\ row[m].status = "sending" <=> row[m].owner \in Workers
        /\ row[m].status = "sending" <=> row[m].lease # "none"

\* docs/research-report-delivery-ui-outbox.md:47: a message is only given up
\* after all its attempts, and a message that waits has attempts left.
GivenUpAfterAllAttempts ==
    \A m \in Messages :
        /\ row[m].status = "dead_letter" => row[m].attempt = MaxAttempts
        /\ row[m].status = "pending" => row[m].attempt < MaxAttempts

\* No two senders, and no two entries of one sender, work on the same attempt:
\* a message is handed to a second sender only under a new attempt, and only
\* the one with the row's attempt can still mark it.
LeasesAreUnique ==
    \A v, w \in Workers : \A g \in held[v], h \in held[w] :
        /\ g.message = h.message /\ g.attempt = h.attempt => v = w /\ g = h
        /\ Leased(w, h.message) => h.attempt = row[h.message].attempt

\* docs/research-report-delivery-ui-outbox.md:48: sent rows are not leased
\* again, and neither are dead letters.
EndedStaysEnded ==
    [][\A m \in Messages :
          row[m].status \in {"sent", "dead_letter"} => row'[m] = row[m]]_vars

\* A live lease is not taken from its owner: until it lapses, only its owner
\* changes the row.
LiveLeaseIsExclusive ==
    [][\A m \in Messages :
          row[m].lease = "live" /\ row'[m] # row[m] =>
              \/ row'[m] = [row[m] EXCEPT !.lease = "lapsed"]
              \/ row'[m].status # "sending" /\ Leases(row[m].owner, m) # {}]_vars

\* Every message is sent or given up, or is left in sending with no attempts.
Concludes ==
    \A m \in Messages :
        row[m].status = "pending" ~>
            \/ row[m].status \in {"sent", "dead_letter"}
            \/ row[m].status = "sending" /\ row[m].attempt = MaxAttempts

\* docs/research-report-delivery-ui-outbox.md:46: expired sending rows can be
\* leased again, so none stays expired.
ExpiredIsLeasedAgain ==
    \A m \in Messages :
        row[m].lease = "lapsed" ~> row[m].lease # "lapsed"
=============================================================================
