----------------------- MODULE NotificationOutboxProofs -----------------------
(***************************************************************************)
(* The safety properties of NotificationOutbox for any set of messages and *)
(* senders, any number of attempts and any batch size.                     *)
(***************************************************************************)
EXTENDS NotificationOutbox, SequenceTheorems, TLAPS

\* What a sender holds was counted by the row, and the provider delivered it
\* exactly when it was asked and answered.
HeldIsCounted ==
    \A w \in Workers : \A h \in held[w] :
        /\ h.attempt <= row[h.message].attempt
        /\ h.answer = "none" => delivered[h.message][h.attempt] = 0
        /\ h.answer = "ok" => delivered[h.message][h.attempt] = 1

\* A message that was not enqueued has no history.
Fresh == \A m \in Messages : row[m].status = "absent" => row[m] = NoRow

\* The inductive invariant.  A message is delivered once per attempt because an
\* attempt has one holder; it has one because a lease counts the attempt.
IInv ==
    /\ TypeOK
    /\ Fresh
    /\ LeaseColumns
    /\ GivenUpAfterAllAttempts
    /\ HeldIsCounted
    /\ LeasesAreUnique
    /\ AttemptsBoundDeliveries
    /\ SentWasDelivered

LEMMA InitIInv == Init => IInv
  <1> USE OutboxAssumption
  <1> SUFFICES ASSUME Init PROVE IInv
    OBVIOUS
  <1>1. TypeOK
    BY DEF Init, TypeOK, Row, NoRow, Status, Attempts
  <1>2. Fresh /\ LeaseColumns /\ GivenUpAfterAllAttempts /\ SentWasDelivered
    BY DEF Init, Fresh, LeaseColumns, GivenUpAfterAllAttempts, SentWasDelivered, NoRow
  <1>3. HeldIsCounted /\ LeasesAreUnique /\ AttemptsBoundDeliveries
    BY DEF Init, HeldIsCounted, LeasesAreUnique, AttemptsBoundDeliveries
  <1> QED
    BY <1>1, <1>2, <1>3 DEF IInv

\* Steps that at most drop what senders hold.
LEMMA DropKeepsIInv ==
    ASSUME IInv, TypeOK', UNCHANGED <<row, delivered>>,
           \A w \in Workers : held'[w] \subseteq held[w]
    PROVE  IInv'
  <1> USE DEF IInv
  <1>1. Fresh' /\ LeaseColumns' /\ GivenUpAfterAllAttempts' /\ SentWasDelivered'
        /\ AttemptsBoundDeliveries'
    BY DEF Fresh, LeaseColumns, GivenUpAfterAllAttempts, SentWasDelivered, AttemptsBoundDeliveries
  <1>2. HeldIsCounted'
    BY DEF HeldIsCounted
  <1>3. LeasesAreUnique'
    BY DEF LeasesAreUnique, Leased
  <1> QED
    BY <1>1, <1>2, <1>3

\* Steps that write one row and grant no lease.
LEMMA WriteKeepsIInv ==
    ASSUME IInv, TypeOK', UNCHANGED delivered,
           \A w \in Workers : held'[w] \subseteq held[w],
           NEW m \in Messages, NEW r \in Row, row' = [row EXCEPT ![m] = r],
           r.attempt = row[m].attempt,
           r.status # "absent",
           r.status = "sending" <=> r.owner \in Workers,
           r.status = "sending" <=> r.lease # "none",
           r.status = "sending" => row[m].status = "sending" /\ r.owner = row[m].owner,
           r.status = "dead_letter" => r.attempt = MaxAttempts,
           r.status = "pending" => r.attempt < MaxAttempts,
           r.status = "sent" => r.attempt > 0 /\ delivered[m][r.attempt] = 1
    PROVE  IInv'
  <1> USE DEF IInv
  <1>1. /\ \A k \in Messages \ {m} : row'[k] = row[k]
        /\ row'[m] = r
        /\ \A k \in Messages : row'[k].attempt = row[k].attempt
    BY DEF TypeOK
  <1>2. \A w \in Workers, k \in Messages : Leased(w, k)' => Leased(w, k)
    BY <1>1 DEF Leased
  <1>3. \A w \in Workers : \A h \in held[w] : h.message \in Messages
    BY DEF TypeOK, Item
  <1>4. Fresh' /\ LeaseColumns'
    BY <1>1 DEF Fresh, LeaseColumns
  <1>5. GivenUpAfterAllAttempts'
    BY <1>1 DEF GivenUpAfterAllAttempts
  <1>6. SentWasDelivered'
    BY <1>1 DEF SentWasDelivered
  <1>7. AttemptsBoundDeliveries'
    BY <1>1 DEF AttemptsBoundDeliveries
  <1>8. HeldIsCounted'
    BY <1>1, <1>3 DEF HeldIsCounted
  <1>9. LeasesAreUnique'
    BY <1>1, <1>2, <1>3 DEF LeasesAreUnique
  <1> QED
    BY <1>4, <1>5, <1>6, <1>7, <1>8, <1>9

LEMMA AppendIsTyped ==
    ASSUME TypeOK, NEW m \in Messages, due' = Append(due, m)
    PROVE  due' \in Seq(Messages)
  BY DEF TypeOK

LEMMA EnqueueStep ==
    ASSUME IInv, NEW m \in Messages, Enqueue(m)
    PROVE  IInv'
  <1> DEFINE r == [row[m] EXCEPT !.status = "pending"]
  <1>1. row[m] \in Row
    BY DEF IInv, TypeOK
  <1>2. row[m] = NoRow
    BY DEF IInv, Fresh, Enqueue
  <1>3. /\ r \in Row /\ r.status = "pending" /\ r.owner = NoWorker
        /\ r.lease = "none" /\ r.attempt = 0 /\ row[m].attempt = 0
    BY <1>2, OutboxAssumption DEF NoRow, Row, Status
  <1>4. row' = [row EXCEPT ![m] = r]
    BY DEF Enqueue, IInv, TypeOK
  <1>5. TypeOK'
    BY <1>3, <1>4, AppendIsTyped DEF IInv, TypeOK, Enqueue
  <1>6. UNCHANGED <<held, delivered>>
    BY DEF Enqueue
  <1> HIDE DEF r
  <1>7. /\ r.status \notin {"absent", "sending", "dead_letter", "sent"}
        /\ r.owner \notin Workers /\ r.attempt < MaxAttempts /\ r.attempt = row[m].attempt
    BY <1>3, OutboxAssumption
  <1> QED
    BY <1>3, <1>4, <1>5, <1>6, <1>7, WriteKeepsIInv

LEMMA FallsDueStep ==
    ASSUME IInv, NEW m \in Messages, FallsDue(m)
    PROVE  IInv'
  <1>1. TypeOK'
    BY AppendIsTyped DEF IInv, TypeOK, FallsDue
  <1> QED
    BY <1>1, DropKeepsIInv DEF FallsDue

LEMMA LapseStep ==
    ASSUME IInv, NEW m \in Messages, Lapse(m)
    PROVE  IInv'
  <1> DEFINE r == [row[m] EXCEPT !.lease = "lapsed"]
  <1>1. row[m] \in Row
    BY DEF IInv, TypeOK
  <1>2. row[m].status = "sending" /\ row[m].owner \in Workers
    BY <1>1 DEF IInv, LeaseColumns, Lapse
  <1>3. /\ r \in Row /\ r.status = "sending" /\ r.owner = row[m].owner
        /\ r.lease = "lapsed" /\ r.attempt = row[m].attempt
    BY <1>1, <1>2 DEF Row
  <1>4. row' = [row EXCEPT ![m] = r]
    BY DEF Lapse
  <1>5. TypeOK'
    BY <1>3, <1>4 DEF IInv, TypeOK, Lapse
  <1> HIDE DEF r
  <1> QED
    BY <1>2, <1>3, <1>4, <1>5, WriteKeepsIInv DEF Lapse

\* What mark_sent and mark_failed write is a row without a lease.
LEMMA ClosedRow ==
    ASSUME NEW r \in Row, NEW s \in Status
    PROVE  /\ Closed(r, s) \in Row
           /\ Closed(r, s).status = s
           /\ Closed(r, s).owner = NoWorker
           /\ Closed(r, s).lease = "none"
           /\ Closed(r, s).attempt = r.attempt
  BY DEF Closed, Row

LEMMA MarkSentStep ==
    ASSUME IInv, NEW w \in Workers, NEW h \in held[w], MarkSent(w, h)
    PROVE  IInv'
  <1> DEFINE m == h.message
             r == Closed(row[m], "sent")
  <1>1. h \in Item /\ m \in Messages /\ row[m] \in Row
    BY DEF IInv, TypeOK, Item
  <1>2. /\ r \in Row /\ r.status = "sent" /\ r.owner = NoWorker
        /\ r.lease = "none" /\ r.attempt = row[m].attempt
    BY <1>1, ClosedRow DEF Status
  <1>3. h.attempt = row[m].attempt
    BY DEF IInv, LeasesAreUnique, MarkSent
  <1>4. r.attempt > 0 /\ delivered[m][r.attempt] = 1
    BY <1>1, <1>2, <1>3, OutboxAssumption DEF IInv, HeldIsCounted, MarkSent, Item, Attempts
  <1>5. row' = [row EXCEPT ![m] = r]
    BY DEF MarkSent
  <1>6. \A v \in Workers : held'[v] \subseteq held[v]
    BY DEF IInv, TypeOK, MarkSent, Drop
  <1>7. TypeOK'
    BY <1>1, <1>2, <1>5 DEF IInv, TypeOK, MarkSent, Drop
  <1> HIDE DEF m, r
  <1> QED
    BY <1>1, <1>2, <1>4, <1>5, <1>6, <1>7, WriteKeepsIInv, OutboxAssumption DEF MarkSent

LEMMA RescheduleIsTyped ==
    ASSUME TypeOK, NEW m \in Messages, Reschedule(m)
    PROVE  due' \in Seq(Messages)
  <1>1. PICK others \in Others(m) : due' = others \/ due' = Append(others, m)
    BY DEF Reschedule
  <1>2. due \in Seq(Messages) /\ Len(due) \in Nat
    BY DEF TypeOK
  <1>3. ASSUME NEW i \in DOMAIN due
        PROVE  SubSeq(due, 1, i - 1) \o SubSeq(due, i + 1, Len(due)) \in Seq(Messages)
    <2>1. i \in 1 .. Len(due) /\ \A j \in 1 .. Len(due) : due[j] \in Messages
      BY <1>2, <1>3
    <2>2. SubSeq(due, 1, i - 1) \in Seq(Messages)
      BY <2>1, <1>2, SubSeqProperties
    <2>3. SubSeq(due, i + 1, Len(due)) \in Seq(Messages)
      BY <2>1, <1>2, SubSeqProperties
    <2> QED
      BY <2>2, <2>3, ConcatProperties
  <1>4. others \in Seq(Messages)
    BY <1>2, <1>3 DEF Others
  <1> QED
    BY <1>1, <1>4

LEMMA MarkFailedStep ==
    ASSUME IInv, NEW w \in Workers, NEW h \in held[w], MarkFailed(w, h)
    PROVE  IInv'
  <1> DEFINE m == h.message
             s == NextStatus(row[m])
             r == Closed(row[m], s)
  <1>1. h \in Item /\ m \in Messages /\ row[m] \in Row
    BY DEF IInv, TypeOK, Item
  <1>2. /\ s \in {"pending", "dead_letter"}
        /\ s = "dead_letter" => row[m].attempt = MaxAttempts
        /\ s = "pending" => row[m].attempt < MaxAttempts
    BY <1>1, OutboxAssumption DEF NextStatus, Row
  <1>3. /\ r \in Row /\ r.status = s /\ r.owner = NoWorker
        /\ r.lease = "none" /\ r.attempt = row[m].attempt
    BY <1>1, <1>2, ClosedRow DEF Status
  <1>4. row' = [row EXCEPT ![m] = r]
    BY DEF MarkFailed
  <1>5. \A v \in Workers : held'[v] \subseteq held[v]
    BY DEF IInv, TypeOK, MarkFailed, Drop
  <1>6. due' \in Seq(Messages)
    BY <1>1, RescheduleIsTyped DEF IInv, MarkFailed
  <1>7. TypeOK'
    BY <1>1, <1>3, <1>4, <1>6 DEF IInv, TypeOK, MarkFailed, Drop
  <1>8. UNCHANGED delivered
    BY DEF MarkFailed
  <1> HIDE DEF m, r, s
  <1>9. /\ r.status \notin {"absent", "sending", "sent"} /\ r.owner \notin Workers
        /\ r.status = "dead_letter" => r.attempt = MaxAttempts
        /\ r.status = "pending" => r.attempt < MaxAttempts
    BY <1>2, <1>3, OutboxAssumption
  <1> QED
    BY <1>1, <1>3, <1>4, <1>5, <1>7, <1>8, <1>9, WriteKeepsIInv

LEMMA LeaseLostStep ==
    ASSUME IInv, NEW w \in Workers, NEW h \in held[w], LeaseLost(w, h)
    PROVE  IInv'
  <1>1. \A v \in Workers : held'[v] \subseteq held[v]
    BY DEF IInv, TypeOK, LeaseLost, Drop
  <1>2. TypeOK'
    BY DEF IInv, TypeOK, LeaseLost, Drop
  <1> QED
    BY <1>1, <1>2, DropKeepsIInv DEF LeaseLost

LEMMA SenderCrashStep ==
    ASSUME IInv, NEW w \in Workers, SenderCrash(w)
    PROVE  IInv'
  <1>1. \A v \in Workers : held'[v] \subseteq held[v]
    BY DEF IInv, TypeOK, SenderCrash
  <1>2. TypeOK'
    BY DEF IInv, TypeOK, SenderCrash
  <1> QED
    BY <1>1, <1>2, DropKeepsIInv DEF SenderCrash

\* A provider call: only the answered item and the count of its attempt change.
LEMMA CallStep ==
    ASSUME IInv, NEW w \in Workers, NEW h \in held[w], Call(w, h)
    PROVE  IInv'
  <1> USE DEF IInv
  <1>1. PICK a \in {"ok", "error"} : Answer(w, h, a) /\ (a = "ok" => Deliver(h))
    BY DEF Call, Accepted, Refused
  <1>2. /\ h \in Item /\ h.message \in Messages /\ h.attempt \in Attempts
        /\ h.answer = "none" /\ UNCHANGED <<row, due>>
        /\ Deliver(h) \/ UNCHANGED delivered
    BY DEF TypeOK, Item, Call, Accepted, Refused
  <1> DEFINE g == [h EXCEPT !.answer = a]
  <1>3. /\ g \in Item /\ g.message = h.message /\ g.attempt = h.attempt /\ g.answer = a
    BY <1>2 DEF Item
  <1>4. held' = [held EXCEPT ![w] = (held[w] \ {h}) \union {g}]
    BY <1>1 DEF Answer
  <1> HIDE DEF g
  <1>5. \A v \in Workers : \A k \in held'[v] :
            \/ k \in held[v] /\ (v = w => k # h)
            \/ v = w /\ k = g
    BY <1>4 DEF TypeOK
  <1>6. delivered[h.message][h.attempt] = 0
    BY <1>2 DEF HeldIsCounted
  <1>7. /\ \A m \in Messages : \A b \in Attempts :
              ~(m = h.message /\ b = h.attempt) => delivered'[m][b] = delivered[m][b]
        /\ delivered'[h.message][h.attempt] \in {0, 1}
        /\ a = "ok" => delivered'[h.message][h.attempt] = 1
    BY <1>1, <1>2, <1>6 DEF Deliver, TypeOK
  <1>8. TypeOK'
    <2>1. held' \in [Workers -> SUBSET Item]
      BY <1>3, <1>4 DEF TypeOK
    <2>2. delivered' \in [Messages -> [Attempts -> 0 .. 2]]
      <3>1. CASE UNCHANGED delivered
        BY <3>1 DEF TypeOK
      <3>2. CASE Deliver(h)
        <4>1. delivered' = [delivered EXCEPT ![h.message][h.attempt] = 1]
          BY <3>2, <1>2, <1>6 DEF Deliver, TypeOK
        <4>2. delivered[h.message] \in [Attempts -> 0 .. 2] /\ 1 \in 0 .. 2
          BY <1>2 DEF TypeOK
        <4> QED
          BY <4>1, <4>2, <1>2 DEF TypeOK
      <3> QED
        BY <1>2, <3>1, <3>2
    <2> QED
      BY <1>2, <2>1, <2>2 DEF TypeOK
  <1>9. Fresh' /\ LeaseColumns' /\ GivenUpAfterAllAttempts'
    BY <1>2 DEF Fresh, LeaseColumns, GivenUpAfterAllAttempts
  <1>10. AttemptsBoundDeliveries'
    BY <1>2, <1>7 DEF AttemptsBoundDeliveries, HeldIsCounted
  <1>11. SentWasDelivered'
    <2> SUFFICES ASSUME NEW m \in Messages, row[m].status = "sent"
                 PROVE  row[m].attempt > 0 /\ delivered'[m][row[m].attempt] = 1
      BY <1>2 DEF SentWasDelivered
    <2>1. row[m].attempt > 0 /\ delivered[m][row[m].attempt] = 1
      BY DEF SentWasDelivered
    <2>2. row[m].attempt \in Attempts
      BY <2>1, OutboxAssumption DEF TypeOK, Row, Attempts
    <2> QED
      BY <1>6, <1>7, <2>1, <2>2
  <1>12. HeldIsCounted'
    <2> SUFFICES ASSUME NEW v \in Workers, NEW k \in held'[v]
                 PROVE  /\ k.attempt <= row[k.message].attempt
                        /\ k.answer = "none" => delivered'[k.message][k.attempt] = 0
                        /\ k.answer = "ok" => delivered'[k.message][k.attempt] = 1
      BY <1>2 DEF HeldIsCounted
    <2>1. CASE k \in held[v] /\ (v = w => k # h)
      <3>1. ~(k.message = h.message /\ k.attempt = h.attempt)
        BY <2>1 DEF LeasesAreUnique
      <3>2. k.message \in Messages /\ k.attempt \in Attempts
        BY <2>1 DEF TypeOK, Item
      <3> QED
        BY <2>1, <3>1, <3>2, <1>7 DEF HeldIsCounted
    <2>2. CASE v = w /\ k = g
      BY <2>2, <1>1, <1>3, <1>7 DEF HeldIsCounted
    <2> QED
      BY <1>5, <2>1, <2>2
  <1>13. LeasesAreUnique'
    <2>1. \A v \in Workers, k \in Messages : Leased(v, k)' <=> Leased(v, k)
      BY <1>2 DEF Leased
    <2> QED
      BY <1>2, <1>3, <1>5, <2>1 DEF LeasesAreUnique, Leased
  <1> QED
    BY <1>8, <1>9, <1>10, <1>11, <1>12, <1>13

\* A row that is leased is open, and its new attempt is within the limit.
LEMMA LeasableRow ==
    ASSUME IInv, NEW m \in Leasable
    PROVE  /\ m \in Messages
           /\ row[m].status \in {"pending", "sending"}
           /\ row[m].attempt + 1 \in Attempts
           /\ row[m].lease # "live"
  <1>1. m \in Messages /\ row[m] \in Row
    BY DEF Leasable, Selected, Selectable, IInv, TypeOK
  <1> QED
    BY <1>1, OutboxAssumption
    DEF Leasable, Selected, Selectable, IInv, LeaseColumns, Row, Attempts

\* What lease_pending writes into a row and hands to the sender.
LEMMA LeasedRow ==
    ASSUME NEW w \in Workers, NEW r \in Row, r.attempt + 1 \in Attempts
    PROVE  /\ LeaseRow(w, r) \in Row
           /\ LeaseRow(w, r).status = "sending"
           /\ LeaseRow(w, r).owner = w
           /\ LeaseRow(w, r).lease = "live"
           /\ LeaseRow(w, r).attempt = r.attempt + 1
  <1>1. r.attempt + 1 \in 0 .. MaxAttempts
    BY OutboxAssumption DEF Attempts
  <1> QED
    BY <1>1 DEF LeaseRow, Row, Status

LEMMA LeaseStep ==
    ASSUME IInv, NEW w \in Workers, LeasePending(w)
    PROVE  IInv'
  <1> USE DEF IInv
  <1> DEFINE batch == {[message |-> m, attempt |-> row[m].attempt + 1,
                        answer |-> "none"] : m \in Leasable}
  <1>0. \A m \in Leasable :
            /\ m \in Messages /\ row[m] \in Row /\ row[m].attempt \in Nat
            /\ row[m].attempt + 1 \in Attempts
    BY LeasableRow DEF TypeOK, Row
  <1>1. /\ held[w] = {}
        /\ held' = [held EXCEPT ![w] = batch]
        /\ UNCHANGED <<due, delivered>>
    <2>1. \A m \in Leasable : LeaseRow(w, row[m]).attempt = row[m].attempt + 1
      BY <1>0, LeasedRow
    <2>2. {[message |-> m, attempt |-> LeaseRow(w, row[m]).attempt,
            answer |-> "none"] : m \in Leasable} = batch
      BY <2>1
    <2> QED
      BY <2>2 DEF LeasePending
  <1>2. \A m \in Leasable :
            /\ m \in Messages
            /\ row'[m] \in Row
            /\ row'[m].status = "sending"
            /\ row'[m].owner = w
            /\ row'[m].lease = "live"
            /\ row'[m].attempt = row[m].attempt + 1
            /\ row[m].attempt \in Nat
            /\ row[m].attempt + 1 \in Attempts
    BY <1>0, LeasedRow DEF LeasePending
  <1>3. \A m \in Messages \ Leasable : row'[m] = row[m]
    BY DEF LeasePending
  <1>4. \A v \in Workers : \A h \in held'[v] :
            \/ v # w /\ h \in held[v]
            \/ /\ v = w
               /\ h.message \in Leasable
               /\ h = [message |-> h.message, attempt |-> row[h.message].attempt + 1,
                       answer |-> "none"]
    BY <1>1 DEF TypeOK
  <1>5. \A v \in Workers : \A h \in held[v] :
            h \in Item /\ h.message \in Messages /\ h.attempt \in Nat
    BY OutboxAssumption DEF TypeOK, Item, Attempts
  <1> HIDE DEF batch
  <1>6. TypeOK'
    <2>1. row' \in [Messages -> Row]
      <3>1. \A m \in Messages : row'[m] \in Row
        BY <1>2, <1>3 DEF TypeOK
      <3>2. row' = [m \in Messages |-> IF m \in Leasable THEN LeaseRow(w, row[m]) ELSE row[m]]
        BY DEF LeasePending
      <3> QED
        BY <3>1, <3>2
    <2>2. batch \in SUBSET Item
      BY <1>2 DEF batch, Item
    <2> QED
      BY <1>1, <2>1, <2>2 DEF TypeOK
  <1>7. Fresh' /\ LeaseColumns'
    BY <1>2, <1>3 DEF Fresh, LeaseColumns
  <1>8. GivenUpAfterAllAttempts'
    BY <1>2, <1>3 DEF GivenUpAfterAllAttempts
  <1>9. SentWasDelivered'
    BY <1>1, <1>2, <1>3 DEF SentWasDelivered
  <1>10. AttemptsBoundDeliveries'
    <2> SUFFICES ASSUME NEW m \in Messages, NEW a \in Attempts
                 PROVE  delivered[m][a] <= 1
                        /\ (delivered[m][a] = 1 => a <= row'[m].attempt)
      BY <1>1 DEF AttemptsBoundDeliveries
    <2>1. delivered[m][a] <= 1 /\ (delivered[m][a] = 1 => a <= row[m].attempt)
      BY DEF AttemptsBoundDeliveries
    <2>2. row'[m].attempt = row[m].attempt
          \/ (row[m].attempt \in Nat /\ row'[m].attempt = row[m].attempt + 1)
      BY <1>2, <1>3
    <2> QED
      BY <2>1, <2>2, OutboxAssumption DEF Attempts
  <1>11. HeldIsCounted'
    <2> SUFFICES ASSUME NEW v \in Workers, NEW h \in held'[v]
                 PROVE  /\ h.attempt <= row'[h.message].attempt
                        /\ h.answer = "none" => delivered[h.message][h.attempt] = 0
                        /\ h.answer = "ok" => delivered[h.message][h.attempt] = 1
      BY <1>1 DEF HeldIsCounted
    <2>1. CASE v # w /\ h \in held[v]
      <3>1. h.message \in Messages /\ h.attempt \in Nat
            /\ h.attempt <= row[h.message].attempt
        BY <2>1, <1>5 DEF HeldIsCounted
      <3>2. row'[h.message].attempt = row[h.message].attempt
            \/ (row[h.message].attempt \in Nat
                /\ row'[h.message].attempt = row[h.message].attempt + 1)
        BY <3>1, <1>2, <1>3
      <3>3. h.attempt <= row'[h.message].attempt
        BY <3>1, <3>2
      <3> QED
        BY <2>1, <3>3 DEF HeldIsCounted
    <2>2. CASE h.message \in Leasable
               /\ h = [message |-> h.message, attempt |-> row[h.message].attempt + 1,
                       answer |-> "none"]
      <3> DEFINE m == h.message
      <3>1. h.attempt = row[m].attempt + 1 /\ h.answer = "none"
        BY <2>2
      <3>2. row'[m].attempt = h.attempt
        BY <2>2, <3>1, <1>2
      <3>3. delivered[m][h.attempt] \in 0 .. 2 /\ delivered[m][h.attempt] # 1
            /\ delivered[m][h.attempt] <= 1
        BY <2>2, <3>1, <1>2 DEF AttemptsBoundDeliveries, TypeOK
      <3> QED
        BY <2>2, <3>1, <3>2, <3>3, <1>2
    <2> QED
      BY <1>4, <2>1, <2>2
  <1>12. LeasesAreUnique'
    <2>1. ASSUME NEW v \in Workers, v # w, NEW k \in Messages, Leased(v, k)'
          PROVE  Leased(v, k) /\ row'[k] = row[k]
      BY <2>1, <1>2, <1>3 DEF Leased
    <2>2. ASSUME NEW v \in Workers, NEW h \in held'[v], Leased(v, h.message)'
          PROVE  h.attempt = row'[h.message].attempt
      <3>1. CASE v # w /\ h \in held[v]
        BY <3>1, <2>1, <2>2, <1>5 DEF LeasesAreUnique
      <3>2. CASE h.message \in Leasable
                 /\ h = [message |-> h.message, attempt |-> row[h.message].attempt + 1,
                         answer |-> "none"]
        BY <3>2, <1>2
      <3> QED
        BY <1>4, <3>1, <3>2
    <2>3. ASSUME NEW u \in Workers, NEW v \in Workers, NEW g \in held'[u], NEW h \in held'[v],
                 g.message = h.message, g.attempt = h.attempt
          PROVE  u = v /\ g = h
      <3>1. CASE u = w /\ v = w
        BY <3>1, <2>3, <1>4
      <3>2. CASE u # w /\ v # w
        BY <3>2, <2>3, <1>4 DEF LeasesAreUnique
      <3>3. ASSUME NEW x \in Workers, x # w, NEW y \in held'[x], NEW z \in held'[w],
                   y.message = z.message, y.attempt = z.attempt
            PROVE  FALSE
        <4>1. y \in held[x] /\ y.attempt \in Nat /\ y.attempt <= row[y.message].attempt
          BY <3>3, <1>4, <1>5 DEF HeldIsCounted
        <4>2. z.message \in Leasable /\ z.attempt = row[z.message].attempt + 1
          BY <1>4
        <4> QED
          BY <3>3, <4>1, <4>2, <1>2
      <3> QED
        BY <3>1, <3>2, <3>3, <2>3
    <2> QED
      BY <2>2, <2>3 DEF LeasesAreUnique
  <1> QED
    BY <1>6, <1>7, <1>8, <1>9, <1>10, <1>11, <1>12

LEMMA StepKeepsIInv == IInv /\ [Next]_vars => IInv'
  <1> SUFFICES ASSUME IInv, [Next]_vars PROVE IInv'
    OBVIOUS
  <1>1. ASSUME NEW m \in Messages, Enqueue(m) \/ FallsDue(m) \/ Lapse(m)
        PROVE  IInv'
    BY <1>1, EnqueueStep, FallsDueStep, LapseStep
  <1>2. ASSUME NEW w \in Workers, LeasePending(w) \/ SenderCrash(w)
        PROVE  IInv'
    BY <1>2, LeaseStep, SenderCrashStep
  <1>3. ASSUME NEW w \in Workers, NEW h \in held[w], Call(w, h) \/ Mark(w, h)
        PROVE  IInv'
    BY <1>3, CallStep, MarkSentStep, MarkFailedStep, LeaseLostStep DEF Mark
  <1>4. CASE UNCHANGED vars
    <2>1. TypeOK'
      BY <1>4 DEF IInv, TypeOK, vars
    <2> QED
      BY <1>4, <2>1, DropKeepsIInv DEF vars
  <1> QED
    BY <1>1, <1>2, <1>3, <1>4 DEF Next

\* The invariant holds in every reachable state.
THEOREM InductiveInvariant == Spec => []IInv
  BY InitIInv, StepKeepsIInv, PTL DEF Spec

\* Every column and every lease keeps its type: no row is leased more than
\* max_attempts times, for any number of senders and any batch size.
THEOREM TypeCorrect == Spec => []TypeOK
  BY InductiveInvariant, PTL DEF IInv

\* The provider delivers each counted attempt at most once and never more.
THEOREM DeliveriesAreBounded == Spec => []AttemptsBoundDeliveries
  BY InductiveInvariant, PTL DEF IInv

\* A sent row is one whose last attempt was delivered.
THEOREM SentMeansDelivered == Spec => []SentWasDelivered
  BY InductiveInvariant, PTL DEF IInv

\* Senders that share a message hold different attempts, the current one by
\* the owner of the row.
THEOREM LeasesIdentifyHolders == Spec => []LeasesAreUnique
  BY InductiveInvariant, PTL DEF IInv

\* No message is given up early, none waits without attempts left.
THEOREM NoEarlyDeadLetter == Spec => []GivenUpAfterAllAttempts
  BY InductiveInvariant, PTL DEF IInv

\* Who may mark or take over a message is named by its row.
THEOREM SendingIsRecoverable == Spec => []LeaseColumns
  BY InductiveInvariant, PTL DEF IInv

\* How a single step changes a row that has ended or is under a live lease.
LEMMA RowsChangeUnderLease ==
    ASSUME IInv, [Next]_vars, NEW m \in Messages, row'[m] # row[m]
    PROVE  /\ row[m].status \notin {"sent", "dead_letter"}
           /\ row[m].lease = "live" =>
                 \/ row'[m] = [row[m] EXCEPT !.lease = "lapsed"]
                 \/ row'[m].status # "sending" /\ Leases(row[m].owner, m) # {}
  <1> USE DEF IInv
  <1>1. row[m] \in Row /\ row \in [Messages -> Row]
    BY DEF TypeOK
  <1>2. ASSUME NEW k \in Messages, Enqueue(k) \/ FallsDue(k)
        PROVE  row[m].status = "absent" /\ row[m].lease = "none"
    BY <1>1, <1>2 DEF Enqueue, FallsDue, LeaseColumns
  <1>3. ASSUME NEW k \in Messages, Lapse(k)
        PROVE  row[m].status = "sending" /\ row'[m] = [row[m] EXCEPT !.lease = "lapsed"]
    BY <1>1, <1>3 DEF Lapse, LeaseColumns
  <1>4. ASSUME NEW w \in Workers, LeasePending(w)
        PROVE  row[m].status \in {"pending", "sending"} /\ row[m].lease # "live"
    BY <1>4, LeasableRow DEF LeasePending
  <1>5. ASSUME NEW w \in Workers, NEW h \in held[w], MarkSent(w, h) \/ MarkFailed(w, h)
        PROVE  /\ row[m].status = "sending"
               /\ row'[m].status # "sending" /\ Leases(row[m].owner, m) # {}
    <2>1. h.message = m
      BY <1>1, <1>5 DEF MarkSent, MarkFailed
    <2>2. row[m].status = "sending" /\ row[m].owner = w
      BY <1>5, <2>1 DEF MarkSent, MarkFailed, Leased
    <2>3. row'[m].status # "sending"
      <3>1. PICK st \in {"sent", "dead_letter", "pending"} : row' = [row EXCEPT ![m] = Closed(@, st)]
        BY <1>5, <2>1 DEF MarkSent, MarkFailed, NextStatus
      <3>2. row'[m] = Closed(row[m], st) /\ row[m] \in Row
        BY <1>1, <3>1
      <3>3. row'[m].status = st
        BY <3>2 DEF Closed, Row
      <3> QED
        BY <3>3
    <2> QED
      BY <2>1, <2>2, <2>3 DEF Leases
  <1>6. ASSUME NEW w \in Workers,
               SenderCrash(w) \/ \E h \in held[w] : Call(w, h) \/ LeaseLost(w, h)
        PROVE  FALSE
    BY <1>6 DEF SenderCrash, Call, Accepted, Refused, LeaseLost
  <1>7. CASE UNCHANGED vars
    BY <1>7 DEF vars
  <1>8. CASE Next
    BY <1>2, <1>3, <1>4, <1>5, <1>6, <1>8 DEF Next, Mark
  <1> QED
    BY <1>7, <1>8

\* Sent and dead-letter rows are never written again.
THEOREM EndedRowsAreFinal == Spec => EndedStaysEnded
  <1>1. IInv /\ [Next]_vars =>
          [\A m \in Messages :
             row[m].status \in {"sent", "dead_letter"} => row'[m] = row[m]]_vars
    BY RowsChangeUnderLease
  <1> QED
    BY <1>1, InductiveInvariant, PTL DEF Spec, EndedStaysEnded

\* Until it lapses, only the owner of a lease changes the row.
THEOREM LiveLeasesExclude == Spec => LiveLeaseIsExclusive
  <1>1. IInv /\ [Next]_vars =>
          [\A m \in Messages :
             row[m].lease = "live" /\ row'[m] # row[m] =>
                 \/ row'[m] = [row[m] EXCEPT !.lease = "lapsed"]
                 \/ row'[m].status # "sending" /\ Leases(row[m].owner, m) # {}]_vars
    BY RowsChangeUnderLease
  <1> QED
    BY <1>1, InductiveInvariant, PTL DEF Spec, LiveLeaseIsExclusive
=============================================================================
