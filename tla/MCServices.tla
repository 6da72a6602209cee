------------------------------ MODULE MCServices ------------------------------
(***************************************************************************)
(* The services around the core, side by side in one run.  They share no   *)
(* state: `part` says which of them moves, the others stay as they began.  *)
(***************************************************************************)
EXTENDS EvaluationGate, PromptLibrary, Accounts, Resources, Listings, ContextPackages,
        ModelProvider, Metrics

VARIABLE part

vars == <<part, gateVars, promptVars, accountVars, resourceVars, listingVars, contextVars,
          providerVars, metricsVars>>

MCAsked == << {{"unit_test", "llm_judge"}}, {{"performance"}, {"braintrust"}} >>
MCRegistered == {"unit_test", "llm_judge", "performance", "braintrust"}

MCPathHints == << {"openapi"}, {} >>
MCContents == {<<>>, <<"auth", "code">>, <<"plan", "code", "auth">>}
MCQuery == <<"auth", "code">>

Stream(name, type, id, day) ==
  [metric_name |-> name, entity_type |-> type, entity_id |-> id, day |-> day]
Long == Stream("cost", "project", "p1", 1)
MCStreams == {Long, Stream("cost", "project", "p1", 2), Stream("cost", "agent", "a1", 2),
              Stream("tokens", "project", "p1", 1)}
MCMaxRows == [s \in MCStreams |-> IF s = Long THEN 21 ELSE 1]

\* What has several initial states begins in one of them unless it moves.
Init ==
  /\ part \in {"gate", "prompts", "accounts", "resources", "listings", "context", "provider", "metrics"}
  /\ GateInit /\ PromptInit /\ AccountsInit /\ ListingsInit /\ MetricsInit
  /\ ResourcesInit /\ (part # "resources" => rows = [k \in Kinds |-> Fresh(k)])
  /\ ContextInit /\ (part # "context" => \A f \in Files : disk[f] = <<>>)
  /\ ProviderInit /\ (part # "provider" => request = [op |-> "embed", plugin |-> "claude"])

Next ==
  /\ UNCHANGED part
  /\ \/ part = "gate" /\ GateNext
        /\ UNCHANGED <<promptVars, accountVars, resourceVars, listingVars, contextVars, providerVars, metricsVars>>
     \/ part = "prompts" /\ PromptNext
        /\ UNCHANGED <<gateVars, accountVars, resourceVars, listingVars, contextVars, providerVars, metricsVars>>
     \/ part = "accounts" /\ AccountsNext
        /\ UNCHANGED <<gateVars, promptVars, resourceVars, listingVars, contextVars, providerVars, metricsVars>>
     \/ part = "resources" /\ ResourcesNext
        /\ UNCHANGED <<gateVars, promptVars, accountVars, listingVars, contextVars, providerVars, metricsVars>>
     \/ part = "listings" /\ ListingsNext
        /\ UNCHANGED <<gateVars, promptVars, accountVars, resourceVars, contextVars, providerVars, metricsVars>>
     \/ part = "context" /\ ContextNext
        /\ UNCHANGED <<gateVars, promptVars, accountVars, resourceVars, listingVars, providerVars, metricsVars>>
     \/ part = "provider" /\ ProviderNext
        /\ UNCHANGED <<gateVars, promptVars, accountVars, resourceVars, listingVars, contextVars, metricsVars>>
     \/ part = "metrics" /\ MetricsNext
        /\ UNCHANGED <<gateVars, promptVars, accountVars, resourceVars, listingVars, contextVars, providerVars>>

Spec == Init /\ [][Next]_vars

\* Every variable of the service that moves keeps its type.
ServicesTypeOK ==
  CASE part = "gate" -> GateTypeOK [] part = "prompts" -> PromptTypeOK
    [] part = "accounts" -> AccountsTypeOK [] part = "resources" -> ResourcesTypeOK
    [] part = "listings" -> ListingsTypeOK [] part = "context" -> ContextTypeOK
    [] part = "provider" -> ProviderTypeOK [] part = "metrics" -> MetricsTypeOK

==============================================================================
