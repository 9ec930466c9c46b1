------------------------------- MODULE Migrations -------------------------------
(***************************************************************************)
(* The Alembic revisions and the commands that run them (env.py): one      *)
(* transaction for the revisions of a command, on PostgreSQL.  A revision  *)
(* is the set of changes that its upgrade makes; its downgrade makes them  *)
(* undone, tables in reverse order, unless it cannot be run at all.        *)
(*                                                                         *)
(* A table stands for itself and the columns that no other revision        *)
(* touches: the columns named are those that a later revision adds or that *)
(* come back after they were dropped.  Indexes and named unique and check  *)
(* constraints come and go with them.                                      *)
(***************************************************************************)
EXTENDS Integers, Sequences, FiniteSets, TLC, SequencesExt

CONSTANTS
    Targets,     \* the revisions that a command names; Base for none of them
    Base,
    Filled       \* the tables in which the program may have stored rows

VARIABLES
    database,    \* what is committed: the revisions applied, the schema, the rows
    command,     \* the command in progress, its transaction and what it has left
    stopped      \* why and at which revision the last command failed

migrationVars == <<database, command, stopped>>

Nothing ==
    [parents |-> {}, creates |-> <<>>, refs |-> {}, unrefs |-> {}, adds |-> {}, drops |-> {},
     requires |-> {}, recasts |-> {}, seeds |-> {}, types |-> {}, oneWay |-> FALSE]

-----------------------------------------------------------------------------
(* The revisions.  requires: tables that get a required column without a   *)
(* default, which no row survives; recasts: tables whose values must fit   *)
(* another type, length or constraint, which some do; refs and unrefs:     *)
(* foreign keys; oneWay: a downgrade that no database runs.                *)

MarketTables ==
    [creates |-> <<"assets", "bars", "quotes", "news_articles", "feature_snapshots">>,
     refs |-> {"bars", "quotes", "news_articles", "feature_snapshots"} \X {"assets"}]

ModelAndPolicyTables ==
    [creates |-> <<"prompt_versions", "model_versions", "execution_modes", "risk_profiles",
                   "execution_policies">>,
     refs |-> {"execution_policies"} \X {"execution_modes", "risk_profiles"}]

TradingTables ==
    [creates |-> <<"signals", "risk_decisions", "paper_orders", "paper_fills", "positions",
                   "pnl_snapshots">>,
     refs |-> {"signals"} \X {"assets", "prompt_versions"}
                \union {"risk_decisions"} \X {"risk_profiles", "signals"}
                \union {"paper_orders"} \X {"assets", "risk_decisions"}
                \union {<<"paper_fills", "paper_orders">>, <<"positions", "assets">>}]

AuditTables ==
    [creates |-> <<"eval_cases", "eval_runs", "approval_requests", "audit_logs">>,
     refs |-> {"eval_runs"} \X {"eval_cases", "model_versions", "prompt_versions"}
                \union {<<"approval_requests", "risk_decisions">>}]

(* What the drift drops and RiskDecisionColumns brings back. *)
ReturningColumns ==
    {"approval_requests"} \X {"risk_decision_id", "timestamp", "approved_by", "approved_at", "expired_at"}
        \union {"execution_modes"} \X {"requires_approval", "allows_live_orders"}
        \union {"paper_orders"} \X {"asset_id", "risk_decision_id", "direction", "quantity",
                                    "filled_quantity", "timestamp"}
        \union {"risk_decisions"} \X {"timestamp", "blocking_rule"}
        \union {"risk_profiles"} \X {"is_active", "max_correlated_bucket_exposure", "min_confidence",
                                     "min_signal_score", "max_spread_bps_fx",
                                     "max_spread_bps_equity", "cooldown_after_3_losses_min"}

RiskProfileColumn == {<<"risk_decisions", "risk_profile_id">>}

InitialTables ==
    [Nothing EXCEPT
        !.creates = MarketTables.creates \o ModelAndPolicyTables.creates
                        \o TradingTables.creates \o AuditTables.creates,
        !.refs = MarketTables.refs \union ModelAndPolicyTables.refs
                     \union TradingTables.refs \union AuditTables.refs,
        !.adds = ReturningColumns \union RiskProfileColumn]

EnumTypes ==
    {"approval_status_enum", "asset_class_enum", "catalyst_type_enum", "execution_mode_name_enum",
     "execution_policy_asset_class_enum", "execution_policy_mode_enum", "horizon_label_enum",
     "order_status_enum", "position_status_enum", "prompt_role_enum", "regime_type_enum",
     "setup_type_enum", "signal_regime_type_enum", "signal_status_enum", "trade_direction_enum"}

DriftOfApprovalsToBars ==
    [requires |-> {"approval_requests", "assets", "bars"},
     recasts |-> {"approval_requests", "assets"},
     refs |-> {<<"approval_requests", "signals">>},
     unrefs |-> {<<"approval_requests", "risk_decisions">>}]

DriftOfEvaluationsAndPolicies ==
    [requires |-> {"eval_cases", "execution_policies"},
     recasts |-> {"eval_runs", "execution_modes"},
     refs |-> {},
     unrefs |-> {<<"eval_runs", "eval_cases">>}
                  \union {"execution_policies"} \X {"execution_modes", "risk_profiles"}]

DriftOfFeaturesToNews ==
    [requires |-> {"feature_snapshots", "model_versions"},
     recasts |-> {"model_versions"},
     refs |-> {},
     unrefs |-> {<<"news_articles", "assets">>}]

DriftOfOrdersAndPositions ==
    [requires |-> {"paper_fills", "paper_orders", "pnl_snapshots", "positions"},
     recasts |-> {"paper_orders", "positions"},
     refs |-> {"paper_orders", "positions"} \X {"signals"},
     unrefs |-> {"paper_orders"} \X {"risk_decisions", "assets"}]

DriftOfPromptsAndQuotes ==
    [requires |-> {"quotes"}, recasts |-> {"prompt_versions", "quotes"}, refs |-> {}, unrefs |-> {}]

DriftOfRiskAndSignals ==
    [requires |-> {"signals"},
     recasts |-> {"risk_decisions", "risk_profiles", "signals"},
     refs |-> {"signals"} \X {"feature_snapshots", "model_versions"},
     unrefs |-> {<<"risk_decisions", "risk_profiles">>}]

(* Constraints that the upgrade lets the database name and the downgrade   *)
(* would drop by no name: Alembic does not emit that.                      *)
UnnamedConstraints ==
    {"signals", "risk_decisions", "positions", "paper_orders", "news_articles", "approval_requests"}

SyncOrmDrift ==
    LET parts == {DriftOfApprovalsToBars, DriftOfEvaluationsAndPolicies, DriftOfFeaturesToNews,
                  DriftOfOrdersAndPositions, DriftOfPromptsAndQuotes, DriftOfRiskAndSignals}
    IN  [Nothing EXCEPT
            !.parents = {"001_initial_tables"},
            !.types = EnumTypes,
            !.requires = UNION {p.requires : p \in parts},
            !.recasts = UNION {p.recasts : p \in parts},
            !.refs = UNION {p.refs : p \in parts},
            !.unrefs = UNION {p.unrefs : p \in parts},
            !.drops = ReturningColumns \union RiskProfileColumn,
            !.oneWay = UnnamedConstraints # {}]

(* The downgrade turns text into an enumeration and into a boolean without *)
(* a USING clause, for which PostgreSQL has no cast.                       *)
RiskDecisionColumns ==
    [Nothing EXCEPT
        !.parents = {"9c0191d5922a"},
        !.adds = ReturningColumns \union {<<"approval_requests", "rejected_by">>},
        !.recasts = {"prompt_versions", "risk_profiles"},
        !.oneWay = TRUE]

(* Three branches from here, which StrategyLabTables brings together.      *)

FeatureSnapshotSignal ==
    [Nothing EXCEPT
        !.parents = {"d058936fdd0d"},
        !.adds = {<<"feature_snapshots", "signal_id">>},
        !.refs = {<<"feature_snapshots", "signals">>}]

SignalOutcomesTable ==
    [Nothing EXCEPT
        !.parents = {"d058936fdd0d"},
        !.creates = <<"signal_outcomes">>,
        !.refs = {"signal_outcomes"} \X {"signals", "assets"}]

BrokerFields ==
    [Nothing EXCEPT
        !.parents = {"d058936fdd0d"},
        !.adds = {<<"assets", "ibkr_con_id">>}
                   \union {"paper_orders"} \X {"broker_order_id", "commission", "avg_fill_price",
                                               "ibkr_status"}
                   \union {"positions"} \X {"broker_order_id", "ibkr_con_id", "market_value",
                                            "commission_paid"}]

DataCentreTables ==
    [Nothing EXCEPT
        !.parents = {"f1a2b3c4d5e6"},
        !.creates = <<"market_data_import_runs", "market_data_quality_reports", "market_data_gaps",
                      "provider_coverage_reports">>]

CoverageTable ==
    [Nothing EXCEPT
        !.parents = {"a2b3c4d5e6f7"},
        !.creates = <<"provider_asset_coverage">>,
        !.adds = {<<"market_data_import_runs", "batch_id">>}
                   \union {"market_data_quality_reports"} \X {"quality_score", "approved_for_backtest"}]

QualityFields ==
    [Nothing EXCEPT
        !.parents = {"b3c4d5e6f7a8"},
        !.adds = {"market_data_quality_reports"} \X {"expected_bars", "actual_bars",
                                                     "bad_price_bars", "suspicious_spike_bars"}
                   \union {"market_data_gaps"} \X {"expected_candles_missing", "severity"}]

ResearchJobsTable ==
    [Nothing EXCEPT !.parents = {"c4d5e6f7a8b9"}, !.creates = <<"research_jobs">>]

StrategyLabTables ==
    [Nothing EXCEPT
        !.parents = {"a1b2c3d4e5f6", "d5e6f7a8b9c0", "e7f8g9h0i1j2"},
        !.creates = <<"strategy_configs", "backtest_runs", "mock_trades", "strategy_results",
                      "equity_curve_points", "drawdown_periods">>]

QualityReviewFields ==
    [Nothing EXCEPT
        !.parents = {"e1f2a3b4c5d6"},
        !.adds = {"market_data_quality_reports"} \X {"review_status", "review_notes"}]

QualityReviewPolish ==
    [Nothing EXCEPT
        !.parents = {"g2h3i4j5k6l7"},
        !.creates = <<"quality_review_audits">>,
        !.adds = {"market_data_quality_reports"} \X {"reviewed_by", "reviewed_at"},
        !.refs = {<<"quality_review_audits", "market_data_quality_reports">>}]

AiBacktestReportsTable ==
    [Nothing EXCEPT !.parents = {"h3i4j5k6l7m8"}, !.creates = <<"ai_backtest_reports">>]

BaselineCandidatesTable ==
    [Nothing EXCEPT !.parents = {"i4j5k6l7m8n9"}, !.creates = <<"baseline_candidates">>]

ValidationPlansTables ==
    [Nothing EXCEPT
        !.parents = {"j5k6l7m8n9o0"},
        !.creates = <<"paper_validation_plans", "paper_validation_events">>,
        !.refs = {<<"paper_validation_events", "paper_validation_plans">>}]

ValidationEvidenceTable ==
    [Nothing EXCEPT
        !.parents = {"k6l7m8n9o0p1"},
        !.creates = <<"paper_validation_evidence">>,
        !.refs = {<<"paper_validation_evidence", "paper_validation_plans">>}]

PaperRecommendationsTable ==
    [Nothing EXCEPT
        !.parents = {"l7m8n9o0p1q2"},
        !.creates = <<"paper_recommendations">>,
        !.refs = {"paper_recommendations"} \X {"signals", "model_versions"}]

RiskLimitConfigsTable ==
    [Nothing EXCEPT
        !.parents = {"m8n9o0p1q2r3"},
        !.creates = <<"risk_limit_configs">>,
        !.seeds = {"risk_limit_configs"}]

TradingHaltsTable ==
    [Nothing EXCEPT
        !.parents = {"n9o0p1q2r3s4"},
        !.creates = <<"trading_halts">>,
        !.seeds = {"trading_halts"}]

BrokerTradeEventsTable ==
    [Nothing EXCEPT !.parents = {"o0p1q2r3s4t5"}, !.creates = <<"broker_trade_events">>]

ArmingStatesTable ==
    [Nothing EXCEPT
        !.parents = {"p1q2r3s4t5u6"},
        !.creates = <<"trading_control_arming_states">>,
        !.seeds = {"trading_control_arming_states"}]

LlmRequestLogsTable ==
    [Nothing EXCEPT !.parents = {"q2r3s4t5u6v7"}, !.creates = <<"llm_request_logs">>]

PositionOpenedBy ==
    [Nothing EXCEPT !.parents = {"r3s4t5u6v7w8"}, !.adds = {<<"positions", "opened_by">>}]

IncidentLogsTable ==
    [Nothing EXCEPT !.parents = {"s4t5u6v7w8x9"}, !.creates = <<"incident_logs">>]

NewsCitations ==
    [Nothing EXCEPT !.parents = {"t5u6v7w8x9y0"}, !.adds = {<<"news_articles", "citations_json">>}]

NewsEvidenceClass ==
    [Nothing EXCEPT !.parents = {"u6v7w8x9y0z1"}, !.adds = {<<"news_articles", "evidence_class">>}]

BrokerSubmitDecisionsTable ==
    [Nothing EXCEPT !.parents = {"v7w8x9y0z1a2"}, !.creates = <<"broker_submit_decisions">>]

RiskProfileId ==
    [Nothing EXCEPT !.parents = {"x8y9z0a1b2c3"}, !.adds = RiskProfileColumn]

BlockReasonCode ==
    [Nothing EXCEPT
        !.parents = {"y9z0a1b2c3d4"},
        !.adds = {<<"risk_decisions", "block_reason_code">>}]

NewsInDecisionLogTable ==
    [Nothing EXCEPT !.parents = {"z0a1b2c3d4e5"}, !.creates = <<"news_in_decision_log">>]

(* This one looks first whether the column is there. *)
PositionsClosePrice ==
    [Nothing EXCEPT !.parents = {"f6a7b8c9d0e1"}, !.adds = {<<"positions", "close_price">>}]

ScoreModelTables ==
    [Nothing EXCEPT
        !.parents = {"g7h8i9j0k1l2"},
        !.types = {"model_registry_status_enum", "promotion_type_enum", "rollback_trigger_enum"},
        !.creates = <<"score_model_registry", "score_model_evaluations", "score_model_parameters",
                      "score_model_promotions", "score_model_rollbacks">>,
        !.refs = {"score_model_evaluations", "score_model_parameters", "score_model_promotions",
                  "score_model_rollbacks"} \X {"score_model_registry"}]

Revision ==
    [r \in {"001_initial_tables"} |-> InitialTables]
    @@ ("9c0191d5922a" :> SyncOrmDrift) @@ ("d058936fdd0d" :> RiskDecisionColumns)
    @@ ("a1b2c3d4e5f6" :> FeatureSnapshotSignal) @@ ("e7f8g9h0i1j2" :> SignalOutcomesTable)
    @@ ("f1a2b3c4d5e6" :> BrokerFields) @@ ("a2b3c4d5e6f7" :> DataCentreTables)
    @@ ("b3c4d5e6f7a8" :> CoverageTable) @@ ("c4d5e6f7a8b9" :> QualityFields)
    @@ ("d5e6f7a8b9c0" :> ResearchJobsTable) @@ ("e1f2a3b4c5d6" :> StrategyLabTables)
    @@ ("g2h3i4j5k6l7" :> QualityReviewFields) @@ ("h3i4j5k6l7m8" :> QualityReviewPolish)
    @@ ("i4j5k6l7m8n9" :> AiBacktestReportsTable) @@ ("j5k6l7m8n9o0" :> BaselineCandidatesTable)
    @@ ("k6l7m8n9o0p1" :> ValidationPlansTables) @@ ("l7m8n9o0p1q2" :> ValidationEvidenceTable)
    @@ ("m8n9o0p1q2r3" :> PaperRecommendationsTable) @@ ("n9o0p1q2r3s4" :> RiskLimitConfigsTable)
    @@ ("o0p1q2r3s4t5" :> TradingHaltsTable) @@ ("p1q2r3s4t5u6" :> BrokerTradeEventsTable)
    @@ ("q2r3s4t5u6v7" :> ArmingStatesTable) @@ ("r3s4t5u6v7w8" :> LlmRequestLogsTable)
    @@ ("s4t5u6v7w8x9" :> PositionOpenedBy) @@ ("t5u6v7w8x9y0" :> IncidentLogsTable)
    @@ ("u6v7w8x9y0z1" :> NewsCitations) @@ ("v7w8x9y0z1a2" :> NewsEvidenceClass)
    @@ ("x8y9z0a1b2c3" :> BrokerSubmitDecisionsTable) @@ ("y9z0a1b2c3d4" :> RiskProfileId)
    @@ ("z0a1b2c3d4e5" :> BlockReasonCode) @@ ("f6a7b8c9d0e1" :> NewsInDecisionLogTable)
    @@ ("g7h8i9j0k1l2" :> PositionsClosePrice) @@ ("h8i9j0k1l2m3" :> ScoreModelTables)

Revisions == DOMAIN Revision
HeadRevision == "h8i9j0k1l2m3"

(* A revision and all before it, Lineage being the table of what Ancestry computes. *)
Ancestry[r \in Revisions] == {r} \union UNION {Ancestry[p] : p \in Revision[r].parents}
Lineage == [r \in Revisions |-> Ancestry[r]]

-----------------------------------------------------------------------------
(* The models that the program queries, those without a revision among     *)
(* them, and the columns that SignalOutcome has and its table has not.     *)

UnmigratedModels ==
    {"feature_definitions", "filing_events", "fundamental_snapshots", "macro_observations",
     "macro_series", "market_regimes", "missed_opportunity_labels", "news_items",
     "news_symbol_links", "opportunity_outcomes", "scored_opportunities"}

ModelTables == UnmigratedModels \union UNION {ToSet(Revision[r].creates) : r \in Revisions}

OutcomeMeasures == {"signal_outcomes"} \X {"r_multiple", "mae_pct", "mfe_pct"}

ModelColumns == OutcomeMeasures \union UNION {Revision[r].adds : r \in Revisions}

-----------------------------------------------------------------------------
(* One revision *)

Empty == [applied |-> {}, tables |-> {}, columns |-> {}, refs |-> {}, types |-> {}, rows |-> {}]

Idle == [kind |-> "none", left |-> {}, work |-> Empty]

Created(r) == ToSet(Revision[r].creates)

(* A table is created after those it refers to, and nothing twice. *)
CanCreate(w, r) ==
    LET creates == Revision[r].creates
        Known(n) == w.tables \union {creates[m] : m \in 1..n}
    IN  \A n \in DOMAIN creates :
            /\ creates[n] \notin w.tables
            /\ \A ref \in Revision[r].refs : ref[1] = creates[n] => ref[2] \in Known(n)

CanUpgrade(w, r) ==
    /\ CanCreate(w, r)
    /\ \A c \in Revision[r].adds : /\ c[1] \in w.tables \union Created(r)
                                   /\ c \in w.columns => r = "g7h8i9j0k1l2"
    /\ Revision[r].drops \subseteq w.columns
    /\ \A ref \in Revision[r].refs : ref[2] \in w.tables \union Created(r)
    /\ Revision[r].unrefs \subseteq w.refs

Upgraded(w, r) ==
    [applied |-> w.applied \union {r},
     tables |-> w.tables \union Created(r),
     columns |-> (w.columns \ Revision[r].drops) \union Revision[r].adds,
     refs |-> (w.refs \ Revision[r].unrefs) \union Revision[r].refs,
     types |-> w.types \union Revision[r].types,
     rows |-> w.rows \union Revision[r].seeds]

(* No table is dropped under a foreign key of another. *)
CanDowngrade(w, r) ==
    /\ ~ Revision[r].oneWay
    /\ Created(r) \subseteq w.tables
    /\ Revision[r].adds \subseteq w.columns
    /\ \A ref \in w.refs \ Revision[r].refs : ref[2] \in Created(r) => ref[1] \in Created(r)

(* Mutant: a downgrade that leaves the columns it added. *)
DowngradedKeepingColumns(w, r) ==
    [applied |-> w.applied \ {r},
     tables |-> w.tables \ Created(r),
     columns |-> w.columns \union Revision[r].drops,
     refs |-> (w.refs \ Revision[r].refs) \union Revision[r].unrefs,
     types |-> w.types \ Revision[r].types,
     rows |-> w.rows \ Created(r)]

Downgraded(w, r) ==
    [applied |-> w.applied \ {r},
     tables |-> w.tables \ Created(r),
     columns |-> (w.columns \ Revision[r].adds) \union Revision[r].drops,
     refs |-> (w.refs \ Revision[r].refs) \union Revision[r].unrefs,
     types |-> w.types \ Revision[r].types,
     rows |-> w.rows \ Created(r)]

-----------------------------------------------------------------------------
(* What a chain of revisions makes *)

(* A column is there when a revision applied has added it and none of its  *)
(* descendants has dropped it.                                             *)
Held(added, dropped, applied) ==
    {c \in UNION {added[r] : r \in applied} : \E r \in applied :
        /\ c \in added[r]
        /\ \A s \in applied : r \in Lineage[s] /\ r # s => c \notin dropped[s]}

ColumnsOf(applied) ==
    Held([r \in Revisions |-> Revision[r].adds], [r \in Revisions |-> Revision[r].drops], applied)

RefsOf(applied) ==
    Held([r \in Revisions |-> Revision[r].refs], [r \in Revisions |-> Revision[r].unrefs], applied)

TablesOf(applied) == UNION {Created(r) : r \in applied}

Ancestors(r) == Lineage[r] \ {r}

(* The revisions follow each other: each one's lineage is that of its      *)
(* parents and itself, there is no way back, and the head has them all.    *)
LineageFits ==
    /\ \A r \in Revisions :
          /\ r \in Lineage[r] /\ Lineage[r] \subseteq Revisions
          /\ Lineage[r] = {r} \union UNION {Lineage[p] : p \in Revision[r].parents}
          /\ Revision[r].parents \subseteq Ancestors(r)
          /\ \A s \in Ancestors(r) : /\ Lineage[s] \subseteq Ancestors(r)
                                 /\ \E t \in Lineage[r] : s \in Revision[t].parents
          /\ "9c0191d5922a" \in Ancestors(r) <=> "d058936fdd0d" \in Lineage[r]
    /\ Lineage[HeadRevision] = Revisions

(* Each table and each type is created once, after what it refers to.      *)
TablesFit ==
    \A r \in Revisions :
        /\ \A s \in Revisions \ {r} : /\ Created(r) \intersect Created(s) = {}
                                      /\ Revision[r].types \intersect Revision[s].types = {}
        /\ \A n \in DOMAIN Revision[r].creates, ref \in Revision[r].refs :
              ref[1] = Revision[r].creates[n] =>
                  ref[2] \in TablesOf(Ancestors(r)) \union {Revision[r].creates[m] : m \in 1..n}
        /\ \A ref \in Revision[r].refs : {ref[1], ref[2]} \subseteq TablesOf(Lineage[r])
        /\ \A c \in Revision[r].adds : c[1] \in TablesOf(Lineage[r])
        /\ Revision[r].seeds \subseteq Created(r)

(* What two revisions add, one between them drops; what one drops, another *)
(* has added before it and no other has dropped.                           *)
ComesAndGoes(added, dropped) ==
    \A r \in Revisions :
        /\ \A p \in Revisions \ {r} : \A c \in added[r] \intersect added[p] :
              \/ r \in Lineage[p]
              \/ \E s \in Ancestors(r) : p \in Ancestors(s) /\ c \in dropped[s]
        /\ \A c \in dropped[r] :
              /\ \E p \in Ancestors(r) :
                    /\ c \in added[p]
                    /\ \A s \in Revisions : p \in Ancestors(s) /\ c \in dropped[s] => r \in Lineage[s]
              /\ \A p \in Revisions : c \in added[p] => p \in Ancestors(r) \/ r \in Ancestors(p)

(* What the proofs need of the table, which is closed: it has no constant. *)
ASSUME RevisionsFit ==
    /\ LineageFits /\ TablesFit
    /\ ComesAndGoes([r \in Revisions |-> Revision[r].adds], [r \in Revisions |-> Revision[r].drops])
    /\ ComesAndGoes([r \in Revisions |-> Revision[r].refs], [r \in Revisions |-> Revision[r].unrefs])
    /\ \A r \in Revisions :
          IF r \in {"9c0191d5922a", "d058936fdd0d"} THEN Revision[r].oneWay
          ELSE /\ ~ Revision[r].oneWay /\ Revision[r].drops = {} /\ Revision[r].unrefs = {}
               /\ Revision[r].requires \union Revision[r].recasts = {}
    /\ UnmigratedModels \intersect TablesOf(Revisions) = {}
    /\ ModelColumns \ ColumnsOf(Revisions) = OutcomeMeasures

ASSUME TargetsAssumption == Targets \subseteq Revisions \union {Base} /\ Base \notin Revisions

-----------------------------------------------------------------------------
(* Commands *)

MigrationInit ==
    /\ database = Empty
    /\ command = Idle
    /\ stopped = [why |-> "nothing", at |-> Base]

(* alembic upgrade: the target and what comes before it. *)
StartUpgrade(target) ==
    /\ command.kind = "none" /\ target # Base
    /\ Lineage[target] \ database.applied # {}
    /\ command' = [kind |-> "upgrade", left |-> Lineage[target] \ database.applied,
                   work |-> database]
    /\ UNCHANGED <<database, stopped>>

(* alembic downgrade: what came after the target. *)
Descendants(target) ==
    {r \in Revisions : target = Base \/ (r # target /\ target \in Lineage[r])}

StartDowngrade(target) ==
    /\ command.kind = "none" /\ target \in database.applied \union {Base}
    /\ Descendants(target) \intersect database.applied # {}
    /\ command' = [kind |-> "downgrade", left |-> Descendants(target) \intersect database.applied,
                   work |-> database]
    /\ UNCHANGED <<database, stopped>>

(* The revisions are taken in some order that follows the parents.         *)
Due ==
    IF command.kind = "upgrade"
    THEN {r \in command.left : Revision[r].parents \subseteq command.work.applied}
    ELSE {r \in command.left : \A s \in command.work.applied : r \notin Revision[s].parents}

(* What the rows of a table may make of a revision: they stop it for sure, *)
(* or depending on their values.                                           *)
RowsStop(w, r) == Revision[r].requires \intersect w.rows # {}
RowsMayStop(w, r) == Revision[r].recasts \intersect w.rows # {}

RunUpgrade ==
    /\ command.kind = "upgrade"
    /\ \E r \in Due :
          /\ CanUpgrade(command.work, r) /\ ~ RowsStop(command.work, r)
          /\ command' = [command EXCEPT !.left = @ \ {r}, !.work = Upgraded(@, r)]
    /\ UNCHANGED <<database, stopped>>

RunDowngrade ==
    /\ command.kind = "downgrade"
    /\ \E r \in Due :
          /\ CanDowngrade(command.work, r)
          /\ command' = [command EXCEPT !.left = @ \ {r}, !.work = Downgraded(@, r)]
    /\ UNCHANGED <<database, stopped>>

(* A statement fails, and the transaction with it. *)
Fail ==
    /\ \E r \in Due, why \in {"schema", "rows", "one way"} :
          /\ \/ /\ why = "schema"
                /\ \/ command.kind = "upgrade" /\ ~ CanUpgrade(command.work, r)
                   \/ /\ command.kind = "downgrade" /\ ~ Revision[r].oneWay
                      /\ ~ CanDowngrade(command.work, r)
             \/ /\ why = "rows" /\ command.kind = "upgrade"
                /\ RowsStop(command.work, r) \/ RowsMayStop(command.work, r)
             \/ why = "one way" /\ command.kind = "downgrade" /\ Revision[r].oneWay
          /\ stopped' = [why |-> why, at |-> r]
    /\ command' = Idle
    /\ UNCHANGED database

(* The process dies, or the connection. *)
Abort ==
    /\ command.kind # "none"
    /\ command' = Idle
    /\ UNCHANGED <<database, stopped>>

Commit ==
    /\ command.kind # "none" /\ command.left = {}
    /\ database' = command.work
    /\ command' = Idle
    /\ UNCHANGED stopped

(* The program stores a row; a command in progress has locked the tables.  *)
StoreRow(table) ==
    /\ command.kind = "none"
    /\ table \in database.tables \ database.rows
    /\ database' = [database EXCEPT !.rows = @ \union {table}]
    /\ UNCHANGED <<command, stopped>>

MigrationNext ==
    \/ \E target \in Targets : StartUpgrade(target) \/ StartDowngrade(target)
    \/ RunUpgrade \/ RunDowngrade \/ Fail \/ Abort \/ Commit
    \/ \E table \in Filled : StoreRow(table)

MigrationSpec == MigrationInit /\ [][MigrationNext]_migrationVars

-----------------------------------------------------------------------------

MigrationTypeOK ==
    \A w \in {database, command.work} :
        /\ w.applied \subseteq Revisions /\ w.tables \subseteq ModelTables
        /\ w.columns \subseteq ModelColumns /\ w.rows \subseteq w.tables
        /\ \A r \in w.applied : Revision[r].parents \subseteq w.applied

(* Whatever way a database has got to its revisions, over which branch     *)
(* first, back and forth, past commands that failed or died, its schema is *)
(* theirs: nothing is left behind by a downgrade, and no foreign key       *)
(* points to a table that is gone.                                         *)
SchemaFollowsRevisions ==
    \A w \in {database, command.work} :
        /\ w.tables = UNION {Created(r) : r \in w.applied}
        /\ w.columns = ColumnsOf(w.applied)
        /\ w.types = UNION {Revision[r].types : r \in w.applied}
        /\ \A ref \in w.refs : ref[1] \in w.tables /\ ref[2] \in w.tables

(* So no revision meets a schema that it was not written for; rows stop    *)
(* none after the first three, whatever the program stored; and the only   *)
(* downgrades that fail are those of the second and the third, for which   *)
(* no database gets back to before them.                                   *)
FailuresKnown ==
    /\ stopped.why # "schema"
    /\ stopped.why = "rows" => stopped.at \in {"9c0191d5922a", "d058936fdd0d"}
    /\ stopped.why = "one way" =>
          \/ stopped.at = "d058936fdd0d"
          \/ stopped.at = "9c0191d5922a" /\ "9c0191d5922a" \in Targets
    /\ command.kind = "downgrade" /\ "d058936fdd0d" \in database.applied =>
          "d058936fdd0d" \in command.work.applied

(* An upgrade loses no rows and a downgrade those of the tables it drops;  *)
(* the rows that a revision inserts are there whenever its table is, and   *)
(* once.                                                                   *)
RowsKept ==
    /\ command.kind # "none" =>
          database.rows \intersect command.work.tables \subseteq command.work.rows
    /\ \A w \in {database, command.work} : \A r \in w.applied : Revision[r].seeds \subseteq w.rows

(* At the head every table and column that a model names is there, but for *)
(* those that no revision creates.                                         *)
HeadServesMostModels ==
    HeadRevision \in database.applied =>
        /\ ModelTables \ database.tables = UnmigratedModels
        /\ ModelColumns \ database.columns = OutcomeMeasures

(* The migrations bring any database to the models' schema, however it got *)
(* where it is.                                                            *)
MigrationsFit ==
    SchemaFollowsRevisions /\ FailuresKnown /\ RowsKept /\ HeadServesMostModels

=============================================================================
