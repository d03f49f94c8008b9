----------------------------- MODULE SdkModels ------------------------------
(***************************************************************************)
(* sdk/python/gaiaos_sdk/_generated/models: what the from_dict of every    *)
(* generated class demands of the JSON it is given.  A model is a function *)
(* from field names to how the field is read: d.pop(name) or d.pop(name,   *)
(* UNSET), and the conversion that is applied to the value.                *)
(***************************************************************************)
EXTENDS JsonValue, TLC

(* A class without fields of its own: any object, kept as additional properties. *)
free_form == [n \in {} |-> n]

fields(names, conversion, kind) ==
    [n \in names |-> [conv |-> conversion, json |-> kind, of |-> free_form,
                     optional |-> FALSE, union |-> FALSE]]

(* The value is taken as it is, whatever it is. *)
plain(names) == fields(names, "plain", "any")

(* The same, of a class that callers construct: its annotations say what they give. *)
typed(names, kind) == fields(names, "plain", kind)

string(names) == typed(names, "string")

number(names) == typed(names, "number")

boolean(names) == typed(names, "boolean")

(* A _parse helper tries the members of a union with null, and passes on a value
   that is none of them as it is. *)
or_none(model) == [n \in DOMAIN model |-> [model[n] EXCEPT !.union = TRUE]]

union(names) == or_none(plain(names))

uuid(names) == fields(names, "uuid", "uuid")

datetime(names) == fields(names, "datetime", "datetime")

(* A loop over the value, with an item parser that never raises. *)
list(names) == fields(names, "list", "array")

union_uuid(names) == or_none(uuid(names))

union_string(names) == or_none(string(names))

union_datetime(names) == or_none(datetime(names))

nested(name, model) ==
    name :> [conv |-> "model", json |-> "object", of |-> model,
             optional |-> FALSE, union |-> FALSE]

nested_list(name, model) ==
    name :> [conv |-> "models", json |-> "array", of |-> model,
             optional |-> FALSE, union |-> FALSE]

union_of(name, model) == or_none(nested(name, model))

(* d.pop(name, UNSET): the field may be absent. *)
unset(model) == [n \in DOMAIN model |-> [model[n] EXCEPT !.optional = TRUE]]

(* from_dict returns, rather than raising KeyError, TypeError or ValueError.
   With exact, it also converts: no union falls back on the raw value. *)
RECURSIVE reads(_, _, _)
reads(model, v, exact) ==
    /\ v.json = "object"
    /\ \A n \in DOMAIN model :
          IF n \notin DOMAIN v.in THEN model[n].optional
          ELSE LET x == v.in[n]
                   f == model[n]
               IN  \/ f.union /\ (~exact \/ x = Null)
                   \/ f.conv = "plain"
                   \/ f.conv \in {"uuid", "datetime"} /\ x.json = f.conv
                   \/ f.conv = "list" /\ x.json \in {"array", "string", "object"}
                   \/ f.conv = "model" /\ reads(f.of, x, exact)
                   \/ /\ f.conv = "models" /\ x.json = "array"
                      /\ \A i \in DOMAIN x.in : reads(f.of, x.in[i], exact)

(* The attrs constructor takes exactly the keyword arguments that are fields,
   and needs those without a default. *)
constructs(model, kwargs) ==
    /\ kwargs \subseteq DOMAIN model
    /\ {n \in DOMAIN model : ~model[n].optional} \subseteq kwargs

(* Slip: the regenerated client reads a nullable timestamp as a required one. *)
AlertIncidentResponse_strict ==
    plain({"consecutive_violations", "last_value", "rule_name", "severity", "status",
           "threshold"})
    @@ datetime({"fired_at", "resolved_at"}) @@ uuid({"id"}) @@ union({"rule_id", "slo_name"})

AlertIncidentResponse ==
    plain({"consecutive_violations", "last_value", "rule_name", "severity", "status",
          "threshold"})
    @@ datetime({"fired_at"})
    @@ uuid({"id"})
    @@ union_datetime({"resolved_at"})
    @@ union_uuid({"rule_id"})
    @@ unset(union({"slo_name"}))

AlertMessageResponse ==
    plain({"message"})
    @@ unset(plain({"status"}))

AlertRuleResponse ==
    plain({"comparison", "consecutive_cycles", "is_enabled", "metric", "name",
          "severity", "threshold", "window"})
    @@ datetime({"created_at", "updated_at"})
    @@ uuid({"id"})

AlertRuleSchema ==
    string({"metric", "name"})
    @@ number({"threshold"})
    @@ unset(string({"comparison", "severity", "window"}))
    @@ unset(number({"consecutive_cycles"}))
    @@ unset(boolean({"is_enabled"}))
    @@ unset(union_string({"slo_name"}))

ApiKeyCreatedResponse ==
    datetime({"created_at"})
    @@ uuid({"id"})
    @@ plain({"key", "key_id", "name"})

ApiKeyResponse ==
    datetime({"created_at"})
    @@ uuid({"id"})
    @@ plain({"is_revoked", "key_id", "name"})
    @@ unset(union_datetime({"last_used_at", "revoked_at"}))

ApiKeyRevokedResponse ==
    plain({"key_id"})
    @@ unset(plain({"status"}))

AuthMessageResponse ==
    plain({"message"})
    @@ unset(plain({"status"}))

BackupRecordSchemaVerificationMetadata == free_form

BackupRecordSchema ==
    plain({"backup_id", "checksum", "duration_ms", "postgres_version", "size_bytes",
          "status", "storage_location"})
    @@ union_datetime({"completed_at"})
    @@ datetime({"created_at"})
    @@ union({"error_details"})
    @@ nested("verification_metadata", BackupRecordSchemaVerificationMetadata)

CreateApiKeyRequest ==
    string({"name"})

ErrorResponse ==
    plain({"detail", "error_code"})

ValidationErrorContext == free_form

ValidationError ==
    list({"loc"})
    @@ plain({"msg", "type"})
    @@ unset(nested("ctx", ValidationErrorContext))
    @@ unset(plain({"input"}))

HTTPValidationError ==
    unset(nested_list("detail", ValidationError))

HazardEventResponse ==
    datetime({"created_at", "event_date"})
    @@ union({"details", "external_id", "region_label", "source"})
    @@ plain({"event_type"})
    @@ uuid({"id"})

HistoricalScalingTelemetrySchema ==
    plain({"avg_queue_depth", "avg_worker_utilization_pct", "max_queue_depth",
          "max_worker_utilization_pct", "sample_count", "scaling_verdict",
          "sustained_queue_depth_breach", "sustained_trigger_satisfied",
          "sustained_utilization_breach", "threshold_crossed_at_least_once",
          "triggers_met", "window"})

InvestigationCreateRequest ==
    string({"query"})
    @@ unset(boolean({"consent_public_research"}))

InvestigationCreateResponse ==
    uuid({"investigation_id"})
    @@ plain({"poll_url", "status", "stream_url"})

InvestigationStatusResponseExecutionTraceType0 == free_form

InvestigationStatusResponse ==
    union({"answer", "complexity_tier", "confidence"})
    @@ union_datetime({"completed_at"})
    @@ datetime({"created_at"})
    @@ union_of("execution_trace", InvestigationStatusResponseExecutionTraceType0)
    @@ uuid({"investigation_id"})
    @@ plain({"status"})
    @@ unset(plain({"evidence_gaps"}))

TraceEdge ==
    plain({"id", "source", "target"})
    @@ unset(union({"label", "type"}))

TraceMetadata ==
    datetime({"created_at"})
    @@ uuid({"investigation_id"})
    @@ plain({"status"})
    @@ unset(union_datetime({"completed_at"}))
    @@ unset(union({"complexity_tier", "confidence"}))
    @@ unset(plain({"edge_count", "has_collaboration", "has_degraded_mode", "has_replan",
          "node_count", "schema_version"}))
    @@ unset(datetime({"generated_at"}))

TraceNodeDetails == free_form

TraceNode ==
    plain({"id", "label", "type"})
    @@ unset(nested("details", TraceNodeDetails))
    @@ unset(plain({"status"}))
    @@ unset(union({"timestamp"}))

TraceSummary ==
    unset(plain({"collaboration_event_count", "critic_flag_count", "degraded_sources",
          "evidence_count", "replan_count"}))

InvestigationTraceResponse ==
    nested_list("edges", TraceEdge)
    @@ uuid({"investigation_id"})
    @@ nested("metadata", TraceMetadata)
    @@ nested_list("nodes", TraceNode)
    @@ nested("summary", TraceSummary)
    @@ unset(plain({"schema_version"}))

LivenessResponse ==
    plain({"app_version", "schema_version", "status"})

MetricRollupSchema ==
    plain({"avg_cost_estimate", "count", "p50_latency_ms", "p95_latency_ms",
          "success_rate"})
    @@ union({"group_key"})

MetricsResponse ==
    plain({"group_by", "queue_depth", "recommended_pool_size", "window",
          "worker_utilization_pct"})
    @@ nested_list("rollups", MetricRollupSchema)
    @@ unset(union({"event_type"}))
    @@ unset(plain({"generated_at"}))
    @@ unset(union_of("historical_scaling_telemetry", HistoricalScalingTelemetrySchema))

PasswordResetConfirmPayload ==
    string({"new_password", "token"})

PasswordResetRequestPayload ==
    string({"email"})

PatternFindingResponseUncertainty == free_form

PatternFindingResponse ==
    plain({"algorithm_version", "baseline_rate", "description", "lift",
          "observed_rate", "pattern_hash", "source_event_type",
          "statistical_confidence", "support_count", "supporting_event_ids",
          "target_event_type", "time_window_days", "total_source_events",
          "total_target_events", "version"})
    @@ datetime({"created_at", "mined_at"})
    @@ uuid({"id"})
    @@ union({"region_label"})
    @@ nested("uncertainty", PatternFindingResponseUncertainty)

PingResponse ==
    plain({"env", "ping"})

ReadinessFailureResponse ==
    plain({"failing_dependency", "reason", "status"})

ReadinessResponse ==
    plain({"app_version", "database", "redis", "schema_version", "status"})

ResearchInvestigationResponseExecutionTraceType0 == free_form

ResearchInvestigationResponse ==
    union({"complexity_tier", "confidence_summary"})
    @@ plain({"consent_public_research", "domains_involved", "query_category"})
    @@ datetime({"created_at"})
    @@ uuid({"investigation_id"})
    @@ unset(union_datetime({"completed_at"}))
    @@ unset(union_of("execution_trace",
          ResearchInvestigationResponseExecutionTraceType0))
    @@ unset(union({"query_text"}))

ResendVerificationRequest ==
    string({"email"})

RestoreDrillRecordSchemaDiscrepancies == free_form

RestoreDrillRecordSchema ==
    plain({"backup_id", "checksum_match", "drill_id", "duration_ms",
          "migration_version_match", "row_counts_match", "status"})
    @@ union_datetime({"completed_at"})
    @@ nested("discrepancies", RestoreDrillRecordSchemaDiscrepancies)
    @@ union({"error_details"})
    @@ datetime({"started_at"})

RootResponse ==
    plain({"env", "service", "status", "version"})

TokenResponse ==
    plain({"access_token", "expires_in"})
    @@ unset(plain({"token_type"}))

UserLoginRequest ==
    string({"email", "password"})

UserRegisterRequest ==
    string({"email", "password"})
    @@ unset(union_string({"full_name"}))

UserResponse ==
    datetime({"created_at"})
    @@ plain({"email", "is_active", "is_verified", "role"})
    @@ union({"full_name"})
    @@ uuid({"id"})
    @@ union_datetime({"last_login_at"})
=============================================================================
