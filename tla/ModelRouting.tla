---------------------------- MODULE ModelRouting ----------------------------
(***************************************************************************)
(* The choice of a model for a prompt (application/model_routing.py) and   *)
(* the registry of prompts and of output schemas it draws on               *)
(* (evidence/prompt_registry.py).  Versions are numbers or tuples; a hash  *)
(* is the content it is the hash of.                                       *)
(***************************************************************************)
EXTENDS Integers, SequencesExt

CONSTANT NoRoute

(***************************************************************************)
(* The prompt registry.                                                    *)
(***************************************************************************)
Newer(v, w) == \E i \in 1..3 : v[i] > w[i] /\ \A j \in 1..(i - 1) : v[j] = w[j]

IsNewest(v, versions) == v \in versions /\ \A w \in versions : w = v \/ Newer(v, w)

(* An output schema keeps what its predecessor promised, or takes a new    *)
(* major version: a property may be added, not lost or retyped, and no new *)
(* one may be required, nor an old one no longer be.                       *)
KeepsSchema(old, new) ==
  /\ DOMAIN old.properties \subseteq DOMAIN new.properties
  /\ \A p \in DOMAIN old.properties : new.properties[p] = old.properties[p]
  /\ new.required = old.required /\ new.additional_properties = old.additional_properties

ValidSchema(schema) ==
  DOMAIN schema.properties # {} /\ Range(schema.required) \subseteq DOMAIN schema.properties

RegistersSchema(schemas, schema) ==
  LET known == {s \in schemas : s.name = schema.name}
  IN  /\ ValidSchema(schema)
      /\ \A latest \in {s \in known : IsNewest(s.version, {t.version : t \in known})} :
           /\ Newer(schema.version, latest.version)
           /\ schema.version[1] > latest.version[1] \/ KeepsSchema(latest, schema)

(* A tool only reads, and is for none of the scopes that write or trade.   *)
ForbiddenToolScopes ==
  {"brokerage", "database_write", "db_write", "filesystem_write", "shell", "trade", "trading"}

Key(declaration) == <<declaration.id, declaration.version>>
IsNew(declaration, registered) == Key(declaration) \notin {Key(d) : d \in registered}

HasNoSideEffect(tool) == tool.side_effect \in {"none", "read_only"}

RegistersTool(registry, tool) ==
  IsNew(tool, registry.tools) /\ HasNoSideEffect(tool) /\ tool.scopes \cap ForbiddenToolScopes = {}

RegistersModel(registry, model) ==
  IsNew(model, registry.models) /\ model.max_output_tokens \in 1..model.max_context_tokens

(* A prompt refers to a schema, to a model that answers in JSON and to     *)
(* tools without side effects, and has the model compute nothing again.    *)
ReferencesHold(registry, prompt) ==
  /\ \E s \in registry.schemas : s.name = prompt.schema /\ s.version = prompt.schema_version
  /\ \E m \in registry.models : Key(m) = prompt.model /\ m.supports_json_schema
  /\ \A t \in prompt.tools : \E tool \in registry.tools : Key(tool) = t /\ HasNoSideEffect(tool)

ValidPrompt(prompt) == "no_llm_recompute" \in prompt.policies

RegistersPrompt(registry, prompt) ==
  IsNew(prompt, registry.prompts) /\ ValidPrompt(prompt) /\ ReferencesHold(registry, prompt)

(* Nothing of a prompt changes when it is published but that it is.        *)
Publish(prompt) == [prompt EXCEPT !.published = TRUE]

PublishedIn(registry, prompt) ==
  [registry EXCEPT !.prompts = (@ \ {prompt}) \cup {Publish(prompt)}]

Published(registry, role) == {p \in registry.prompts : p.role = role /\ p.published}

DefaultPromptForRole(registry, role) ==
  CHOOSE p \in Published(registry, role) :
    \A q \in Published(registry, role) : ~Newer(q.version, p.version)

(* Only a published prompt of the role asked for can be had.               *)
Resolves(registry, prompt, role) ==
  prompt.published /\ prompt.role = role /\ ReferencesHold(registry, prompt)

(* What a stage of a run is bound to; the binding tells one stage, and one *)
(* moment, from another.                                                   *)
Binding(registry, role, run, stage, resolvedAt) ==
  [role |-> role, prompt |-> Key(DefaultPromptForRole(registry, role)), run_id |-> run, stage_id |-> stage,
   resolved_at |-> resolvedAt]

(* The prompts, the schemas, the tool and the model every run can have.    *)
RoleOutputSchema(role) ==
  [name |-> <<"output", role>>, version |-> <<1, 0, 0>>, required |-> <<"claims", "citations">>,
   additional_properties |-> FALSE,
   properties |-> [claims |-> "objects", citations |-> "objects", warnings |-> "strings", limitations |-> "strings"]]

BundleReader ==
  [id |-> "evidence_bundle.read", version |-> <<1, 0, 0>>, side_effect |-> "read_only", scopes |-> {"evidence_bundle"}]

JsonModel ==
  [id |-> "registry_only_json_model", version |-> <<1, 0, 0>>, supports_json_schema |-> TRUE,
   supports_tool_calls |-> FALSE, max_context_tokens |-> 8192, max_output_tokens |-> 2048]

DefaultPrompt(role) ==
  [id |-> <<role, "research">>, version |-> <<1, 0, 0>>, role |-> role, schema |-> RoleOutputSchema(role).name,
   schema_version |-> <<1, 0, 0>>, model |-> Key(JsonModel), tools |-> {Key(BundleReader)}, published |-> FALSE,
   policies |-> {"use_only_included_evidence", "cite_evidence_ids_and_hashes", "no_llm_recompute"}]

DefaultRegistry(roles) ==
  [schemas |-> {RoleOutputSchema(role) : role \in roles}, tools |-> {BundleReader}, models |-> {JsonModel},
   prompts |-> {Publish(DefaultPrompt(role)) : role \in roles}]

(***************************************************************************)
(* Routes are tried by priority; prices are in millionths of a dollar for  *)
(* a thousand tokens, and a cost is rounded half up.                       *)
(***************************************************************************)
RouteOrder(r, s) ==
  \/ r.priority < s.priority
  \/ r.priority = s.priority /\ r.route_id < s.route_id

PriceFor(prices, route) ==
  LET matching == {p \in prices : p.model = route.model}
  IN  CHOOSE p \in matching : \A q \in matching : q = p \/ Newer(p.version, q.version)

(* A table has a price of a version once, and one for every route.         *)
ValidPrices(prices, routes) ==
  /\ \A p, q \in prices : p.model = q.model /\ p.version = q.version => p = q
  /\ \A route \in routes : \E p \in prices : p.model = route.model

EstimateCost(price, promptTokens, completionTokens) ==
  (promptTokens * price.input + completionTokens * price.output + 500) \div 1000

StaticRejection(route, request) ==
  CASE request.json_schema /\ ~route.supports_json_schema -> "json_schema_unsupported"
    [] ~(request.json_schema /\ ~route.supports_json_schema)
         /\ request.max_output_tokens > route.max_output_tokens -> "output_tokens_exceeded"
    [] ~(request.json_schema /\ ~route.supports_json_schema)
         /\ request.max_output_tokens <= route.max_output_tokens
         /\ request.prompt_tokens + request.max_output_tokens > route.max_context_tokens ->
         "context_tokens_exceeded"
    [] OTHER -> "none"

(* Mutant: an answer is known by its prompt and its route alone. *)
CacheKeyOfPrompt(request, route, price) == [binding |-> request.binding, route |-> route, price |-> price.version]

CacheKey(request, route, price) ==
  [bundle |-> request.bundle, binding |-> request.binding, route |-> route, price |-> price.version,
   max_output_tokens |-> request.max_output_tokens, json_schema |-> request.json_schema]

(* Mutant: what is spent counts, what is about to be does not. *)
RejectionOnceOverspent(cost, policy, usage) ==
  CASE cost > policy.invocation -> "invocation_budget_exceeded"
    [] cost <= policy.invocation /\ usage.run_spent > policy.run -> "run_budget_exceeded"
    [] OTHER -> "none"

BudgetRejection(cost, policy, usage) ==
  CASE cost > policy.invocation -> "invocation_budget_exceeded"
    [] cost <= policy.invocation /\ usage.run_spent + cost > policy.run -> "run_budget_exceeded"
    [] cost <= policy.invocation /\ usage.run_spent + cost <= policy.run
         /\ usage.daily_spent + cost > policy.daily -> "daily_budget_exceeded"
    [] OTHER -> "none"

(***************************************************************************)
(* The plan: the first route that is able, under its rate and either       *)
(* answered before or within the budgets.                                  *)
(***************************************************************************)
Outcome(prices, request, policy, usage, receipts, route) ==
  LET price == PriceFor(prices, route)
      static == StaticRejection(route, request)
      cost == EstimateCost(price, request.prompt_tokens, request.max_output_tokens)
      budget == BudgetRejection(cost, policy, usage)
      held == {r \in receipts : r.key = CacheKey(request, route, price)}
  IN  IF static # "none" THEN [takes |-> FALSE, reason |-> static]
      ELSE IF usage.recent_calls[route.route_id] >= route.max_calls_per_minute
           THEN [takes |-> FALSE, reason |-> "rate_limited"]
      ELSE IF held # {} THEN [takes |-> TRUE, cost |-> 0, receipts |-> held]
      ELSE IF budget # "none" THEN [takes |-> FALSE, reason |-> budget]
      ELSE [takes |-> TRUE, cost |-> cost, receipts |-> {}]

BudgetReasons == {"invocation_budget_exceeded", "run_budget_exceeded", "daily_budget_exceeded"}

FallbackReason(skipped) ==
  IF "rate_limited" \in skipped THEN "fallback_rate_limited"
  ELSE IF skipped \cap BudgetReasons # {} THEN "fallback_budget" ELSE "fallback_route_unavailable"

(* No route takes the prompt.                                              *)
Refusal(skipped) ==
  LET broke == skipped \cap BudgetReasons # {}
  IN  [status |-> IF broke THEN "budget_exhausted" ELSE "rate_limited", route |-> NoRoute, cost |-> 0,
       receipts |-> {}, partial_reason |-> IF broke THEN "budget_exhausted"
                                           ELSE IF "rate_limited" \in skipped THEN "rate_limited"
                                           ELSE "no_route_available"]

Plan(prices, routes, request, policy, usage, receipts) ==
  LET OutcomeOf(r) == Outcome(prices, request, policy, usage, receipts, r)
      taking == {r \in routes : OutcomeOf(r).takes}
      first == CHOOSE r \in taking : \A s \in taking \ {r} : RouteOrder(r, s)
      skipped == {OutcomeOf(s).reason : s \in {s \in routes : taking = {} \/ RouteOrder(s, first)}}
  IN  IF taking = {} THEN Refusal(skipped)
      ELSE [status |-> IF OutcomeOf(first).receipts # {} THEN "cache_hit"
                       ELSE IF skipped = {} THEN "ready" ELSE "degraded",
            route |-> first, cost |-> OutcomeOf(first).cost, receipts |-> OutcomeOf(first).receipts,
            partial_reason |-> IF skipped = {} \/ OutcomeOf(first).receipts # {} THEN "none"
                               ELSE FallbackReason(skipped)]
=============================================================================
