----------------------------- MODULE ApiSchemas -----------------------------
(***************************************************************************)
(* The pydantic models of the API (app/api, trace_transformer.py,          *)
(* alerting/rules.py): what a response of each holds once it is written as *)
(* JSON, and which requests each accepts.  A schema is a function from     *)
(* field names to the JSON of the field.                                   *)
(***************************************************************************)
EXTENDS JsonValue, TLC

typed(names, kind) ==
    [n \in names |-> [json |-> kind, of |-> <<>>, null |-> FALSE, default |-> FALSE]]

uuid(names) == typed(names, "uuid")

datetime(names) == typed(names, "datetime")

string(names) == typed(names, "string")

number(names) == typed(names, "number")

boolean(names) == typed(names, "boolean")

array(names) == typed(names, "array")

dict(names) == typed(names, "object")

obj(name, schema) ==
    name :> [json |-> "model", of |-> schema, null |-> FALSE, default |-> FALSE]

list_of(name, schema) ==
    name :> [json |-> "models", of |-> schema, null |-> FALSE, default |-> FALSE]

nullable(schema) == [n \in DOMAIN schema |-> [schema[n] EXCEPT !.null = TRUE]]

defaulted(schema) == [n \in DOMAIN schema |-> [schema[n] EXCEPT !.default = TRUE]]

(* model_dump: every field is written.  Of the rows a schema can describe two
   are told apart: one with nothing optional set and every list empty, and one
   with everything set. *)
RECURSIVE dump(_, _)
dump(schema, full) ==
    Object([n \in DOMAIN schema |->
        LET f == schema[n]
        IN  CASE f.null /\ ~full -> Null
              [] f.json = "model" -> dump(f.of, full)
              [] f.json = "models" ->
                     Array(IF full THEN <<dump(f.of, TRUE), dump(f.of, FALSE)>> ELSE <<>>)
              [] f.json = "object" -> Object("any" :> Text)
              [] f.json = "array" -> Array(IF full THEN <<Text>> ELSE <<>>)
              [] OTHER -> scalar(f.json)])

(* model_validate: what has no default is there, and what is there has its type
   and is in range.  Fields the schema does not know are ignored. *)
accepts(schema, body) ==
    \A n \in DOMAIN schema :
        IF n \notin DOMAIN body THEN schema[n].default
        ELSE body[n].json = schema[n].json \/ (schema[n].null /\ body[n] = Null)

AlertIncidentResponse ==
    uuid({"id"})
    @@ nullable(uuid({"rule_id"}))
    @@ string({"rule_name", "severity", "status"})
    @@ nullable(string({"slo_name"}))
    @@ number({"last_value", "threshold", "consecutive_violations"})
    @@ datetime({"fired_at"})
    @@ nullable(datetime({"resolved_at"}))

AlertMessageResponse ==
    string({"message", "status"})

AlertRuleResponse ==
    uuid({"id"})
    @@ string({"name", "metric", "comparison", "window", "severity"})
    @@ number({"threshold", "consecutive_cycles"})
    @@ boolean({"is_enabled"})
    @@ datetime({"created_at", "updated_at"})

AlertRuleSchema ==
    string({"name", "metric"})
    @@ number({"threshold"})
    @@ defaulted(string({"comparison", "window", "severity"}))
    @@ defaulted(number({"consecutive_cycles"}))
    @@ defaulted(boolean({"is_enabled"}))
    @@ defaulted(nullable(string({"slo_name"})))

ApiKeyCreatedResponse ==
    uuid({"id"})
    @@ string({"key_id", "name", "key"})
    @@ datetime({"created_at"})

ApiKeyResponse ==
    uuid({"id"})
    @@ string({"key_id", "name"})
    @@ boolean({"is_revoked"})
    @@ datetime({"created_at"})
    @@ nullable(datetime({"revoked_at", "last_used_at"}))

ApiKeyRevokedResponse ==
    string({"status", "key_id"})

AuthMessageResponse ==
    string({"message", "status"})

BackupRecordSchema ==
    string({"backup_id", "status", "checksum", "storage_location",
          "postgres_version"})
    @@ datetime({"created_at"})
    @@ nullable(datetime({"completed_at"}))
    @@ number({"size_bytes", "duration_ms"})
    @@ dict({"verification_metadata"})
    @@ nullable(string({"error_details"}))

CreateApiKeyRequest ==
    string({"name"})

ErrorResponse ==
    string({"detail", "error_code"})

HazardEventResponse ==
    uuid({"id"})
    @@ string({"event_type"})
    @@ nullable(string({"region_label", "details", "source", "external_id"}))
    @@ datetime({"event_date", "created_at"})

HistoricalScalingTelemetrySchema ==
    string({"window", "scaling_verdict"})
    @@ number({"sample_count", "max_queue_depth", "avg_queue_depth",
          "max_worker_utilization_pct", "avg_worker_utilization_pct"})
    @@ boolean({"threshold_crossed_at_least_once", "sustained_queue_depth_breach",
          "sustained_utilization_breach", "sustained_trigger_satisfied",
          "triggers_met"})

InvestigationCreateRequest ==
    string({"query"})
    @@ defaulted(boolean({"consent_public_research"}))

InvestigationCreateResponse ==
    uuid({"investigation_id"})
    @@ string({"status", "stream_url", "poll_url"})

InvestigationStatusResponse ==
    uuid({"investigation_id"})
    @@ string({"status"})
    @@ nullable(string({"complexity_tier", "answer"}))
    @@ nullable(number({"confidence"}))
    @@ array({"evidence_gaps"})
    @@ nullable(dict({"execution_trace"}))
    @@ datetime({"created_at"})
    @@ nullable(datetime({"completed_at"}))

TraceMetadata ==
    uuid({"investigation_id"})
    @@ string({"schema_version", "status"})
    @@ datetime({"generated_at", "created_at"})
    @@ nullable(string({"complexity_tier"}))
    @@ nullable(datetime({"completed_at"}))
    @@ nullable(number({"confidence"}))
    @@ number({"node_count", "edge_count"})
    @@ boolean({"has_replan", "has_collaboration", "has_degraded_mode"})

TraceNode ==
    string({"id", "label", "type", "status"})
    @@ nullable(string({"timestamp"}))
    @@ dict({"details"})

TraceEdge ==
    string({"id", "source", "target"})
    @@ nullable(string({"label", "type"}))

TraceSummary ==
    number({"evidence_count", "replan_count", "critic_flag_count",
          "collaboration_event_count"})
    @@ array({"degraded_sources"})

InvestigationTraceResponse ==
    uuid({"investigation_id"})
    @@ string({"schema_version"})
    @@ obj("metadata", TraceMetadata)
    @@ list_of("nodes", TraceNode)
    @@ list_of("edges", TraceEdge)
    @@ obj("summary", TraceSummary)

LivenessResponse ==
    string({"status", "app_version", "schema_version"})

MetricRollupSchema ==
    nullable(string({"group_key"}))
    @@ number({"count", "p50_latency_ms", "p95_latency_ms", "avg_cost_estimate",
          "success_rate"})

MetricsResponse ==
    string({"generated_at", "window", "group_by"})
    @@ nullable(string({"event_type"}))
    @@ list_of("rollups", MetricRollupSchema)
    @@ number({"queue_depth", "worker_utilization_pct", "recommended_pool_size"})
    @@ nullable(obj("historical_scaling_telemetry", HistoricalScalingTelemetrySchema))

PasswordResetConfirmPayload ==
    string({"token", "new_password"})

PasswordResetRequestPayload ==
    string({"email"})

PatternFindingResponse ==
    uuid({"id"})
    @@ string({"pattern_hash", "algorithm_version", "source_event_type",
          "target_event_type", "description"})
    @@ number({"version", "time_window_days", "support_count", "total_source_events",
          "total_target_events", "observed_rate", "baseline_rate", "lift",
          "statistical_confidence"})
    @@ nullable(string({"region_label"}))
    @@ dict({"uncertainty"})
    @@ array({"supporting_event_ids"})
    @@ datetime({"mined_at", "created_at"})

PingResponse ==
    string({"ping", "env"})

ReadinessFailureResponse ==
    string({"status", "reason", "failing_dependency"})

ReadinessResponse ==
    string({"status", "app_version", "schema_version", "database", "redis"})

ResearchInvestigationResponse ==
    uuid({"investigation_id"})
    @@ string({"query_category"})
    @@ array({"domains_involved"})
    @@ nullable(string({"complexity_tier", "query_text"}))
    @@ nullable(number({"confidence_summary"}))
    @@ boolean({"consent_public_research"})
    @@ nullable(dict({"execution_trace"}))
    @@ datetime({"created_at"})
    @@ nullable(datetime({"completed_at"}))

ResendVerificationRequest ==
    string({"email"})

RestoreDrillRecordSchema ==
    string({"drill_id", "backup_id", "status"})
    @@ datetime({"started_at"})
    @@ nullable(datetime({"completed_at"}))
    @@ number({"duration_ms"})
    @@ boolean({"row_counts_match", "checksum_match", "migration_version_match"})
    @@ dict({"discrepancies"})
    @@ nullable(string({"error_details"}))

RootResponse ==
    string({"service", "status", "version", "env"})

TokenResponse ==
    string({"access_token", "token_type"})
    @@ number({"expires_in"})

UserLoginRequest ==
    string({"email", "password"})

UserRegisterRequest ==
    string({"email", "password"})
    @@ defaulted(nullable(string({"full_name"})))

UserResponse ==
    uuid({"id"})
    @@ string({"email", "role"})
    @@ nullable(string({"full_name"}))
    @@ boolean({"is_active", "is_verified"})
    @@ datetime({"created_at"})
    @@ nullable(datetime({"last_login_at"}))
=============================================================================
