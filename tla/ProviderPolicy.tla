----------------------------- MODULE ProviderPolicy -----------------------------
(* Which provider's batch is taken: the fallback along the priorities of a   *)
(* policy, what makes a batch unfit, and the check of its closes against     *)
(* another provider (integrations/data/provider_policy.py).                  *)
(*                                                                           *)
(* An answer is a provider's error, [fails |-> TRUE], or its batch with the  *)
(* time it is fresh until and the quality status the caller has found, which *)
(* may be "none".                                                            *)
EXTENDS DataQuality

CONSTANTS
    Policy,     \* ProviderPolicy: [priority, supporting, cross, maxDiff]
    Requested   \* ProviderSelectionRequest.required_fields

\* cross_check_provider_id and max_close_diff_bps may be None.
NoProvider == "none"

\* Of the sources only those are kept that have the market and the capability.
IsPolicy(p) ==
    /\ p.priority # <<>> /\ Range(p.priority) \subseteq Providers
    /\ p.supporting \subseteq Range(p.priority)
    /\ p.cross \in Providers \cup {NoProvider}
    /\ p.maxDiff \in Nat \cup {Missing}

ASSUME PolicyAssumption ==
    IsPolicy(Policy) /\ Requested # {} /\ NoProvider \notin Providers

\* Those of the priorities that have the market and the capability.
OrderedProviders == SelectSeq(Policy.priority, LAMBDA p : p \in Policy.supporting)

-----------------------------------------------------------------------------
IsStale(batch, at) == at > batch.freshUntil

MissingFields(records) ==
    {f \in Requested : \E r \in Range(records) : r[f] = Missing}

Rejection(batch, at) ==
    CASE IsStale(batch, at) -> "stale"
      [] ~IsStale(batch, at) /\ batch.quality \in {"quarantine", "blocking"} -> "quality"
      [] OTHER -> IF MissingFields(batch.records) # {} THEN "missing_fields" ELSE "none"

IsUsable(answer, at) == ~answer.fails /\ Rejection(answer, at) = "none"

-----------------------------------------------------------------------------
(* The cross check                                                         *)

RecordKey(record) == <<record.inst, record.day>>

\* The last record of a key stands for it.
RecordOf(records, key) ==
    records[CHOOSE n \in DOMAIN records : /\ RecordKey(records[n]) = key
        /\ \A m \in DOMAIN records : RecordKey(records[m]) = key => m <= n]

\* More than maxDiff basis points of the first close away from it.
Differs(close, cross) ==
    close # 0 /\ Distance(cross, close) * 10000 > Policy.maxDiff * close

\* Nothing is compared with an answer that would itself be rejected.
IsCompared(p, answers, at) ==
    /\ Policy.cross # NoProvider /\ Policy.maxDiff # Missing /\ Policy.cross # p
    /\ Policy.cross \in DOMAIN answers
    /\ IsUsable(answers[Policy.cross], at)

\* The closes of the keys both have: <<p's, the cross provider's>>.
ComparedCloses(p, answers) ==
    LET cross == answers[Policy.cross].records
        shared == {r \in Range(answers[p].records) :
                     \E c \in Range(cross) : RecordKey(c) = RecordKey(r)}
    IN  {<<r.close, RecordOf(cross, RecordKey(r)).close>> : r \in shared}

-----------------------------------------------------------------------------
(* select()                                                                *)

\* Mutant: after a conflict the next provider is asked.
AttemptOrFallBack(p, answers, at) ==
    LET closes == ComparedCloses(p, answers)
    IN  IF ~IsUsable(answers[p], at) THEN "rejected"
        ELSE IF ~IsCompared(p, answers, at) THEN "selected"
        ELSE IF \E c \in closes : Missing \in {c[1], c[2]} THEN "raised"
        ELSE IF \E c \in closes : Differs(c[1], c[2]) THEN "rejected"
        ELSE "selected"

\* What comes of the batch of p, when it is its turn.  A close that is there
\* but None is an error that no other provider is asked after.
Attempt(p, answers, at) ==
    LET closes == ComparedCloses(p, answers)
    IN  IF ~IsUsable(answers[p], at) THEN "rejected"
        ELSE IF ~IsCompared(p, answers, at) THEN "selected"
        ELSE IF \E c \in closes : Missing \in {c[1], c[2]} THEN "raised"
        ELSE IF \E c \in closes : Differs(c[1], c[2]) THEN "quarantined"
        ELSE "selected"

\* In the order of the policy, the first attempt that is not a rejection ends
\* the selection; who has not answered is not attempted.
Select(answers, at) ==
    LET attempted == {n \in DOMAIN OrderedProviders : OrderedProviders[n] \in DOMAIN answers}
        Status(n) == Attempt(OrderedProviders[n], answers, at)
        ending == {n \in attempted : Status(n) # "rejected"}
        last == Min(ending)
    IN  IF ending = {} THEN [status |-> "exhausted", selected |-> NoProvider]
        ELSE [status |-> Status(last),
              selected |-> IF Status(last) = "selected" THEN OrderedProviders[last]
                                                        ELSE NoProvider]
=============================================================================
