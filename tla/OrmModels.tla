----------------------------- MODULE OrmModels -----------------------------
(***************************************************************************)
(* db/models: what the application believes of its tables.  A column of a  *)
(* model is required when it is nullable=False: every row the application  *)
(* writes names it, its Python default included.  A foreign key is its     *)
(* columns, the table it refers to and what deleting a row there does.     *)
(***************************************************************************)
EXTENDS Migrations

orm(table, columns, fks, uniques) ==
    [table |-> table, columns |-> columns, fks |-> fks, uniques |-> uniques]

AdministrativeBoundary ==
    orm("administrative_boundaries",
        required({"id", "osm_id", "name", "created_at"}) @@ typed("postgis", required({"geom"}))
          @@ nullable({"admin_level"}), {}, {{"osm_id"}})

AlertIncident ==
    orm("alert_incidents",
        required({"id", "rule_name", "severity", "status", "last_value", "threshold",
                  "consecutive_violations", "fired_at", "created_at", "updated_at"})
          @@ nullable({"rule_id", "slo_name", "resolved_at"}),
        {<<{"rule_id"}, "alert_rules", "SET NULL">>}, {})

AlertRule ==
    orm("alert_rules",
        required({"id", "name", "metric", "threshold", "comparison", "window", "severity",
                  "consecutive_cycles", "is_enabled", "created_at", "updated_at"}), {}, {{"name"}})

ApiKey ==
    orm("api_keys",
        required({"id", "key_id", "key_hash", "name", "owner_id", "is_revoked", "created_at"})
          @@ nullable({"revoked_at", "last_used_at"}),
        {<<{"owner_id"}, "users", "CASCADE">>}, {{"key_id"}})

BackupRecord ==
    orm("backup_records",
        required({"id", "backup_id", "created_at", "size_bytes", "checksum", "storage_location",
                  "postgres_version", "duration_ms", "verification_metadata"})
          @@ typed("backup_status_enum", required({"status"}))
          @@ nullable({"completed_at", "error_details"}), {}, {{"backup_id"}})

RestoreDrillRecord ==
    orm("restore_drill_records",
        required({"id", "drill_id", "backup_id", "started_at", "duration_ms", "row_counts_match",
                  "checksum_match", "migration_version_match", "discrepancies"})
          @@ typed("backup_status_enum", required({"status"}))
          @@ nullable({"completed_at", "error_details"}), {}, {{"drill_id"}})

EvalBenchmarkQuestion ==
    orm("eval_benchmark_questions",
        required({"id", "question_text", "expected_domains", "expected_complexity",
                  "reference_answer", "created_at"}) @@ nullable({"reference_evidence"}), {}, {})

EvalBenchmarkRun ==
    orm("eval_benchmark_runs",
        required({"id", "benchmark_question_id", "orchestrator_version", "run_at"})
          @@ nullable({"investigation_id", "score", "metrics"}),
        {<<{"benchmark_question_id"}, "eval_benchmark_questions", "CASCADE">>,
         <<{"investigation_id"}, "investigations", "SET NULL">>}, {})

HazardEvent ==
    orm("hazard_events",
        required({"id", "event_type", "event_date", "created_at"})
          @@ typed("postgis", nullable({"region"}))
          @@ nullable({"region_label", "details", "source", "external_id"}),
        {}, {{"source", "external_id"}})

HazardRelationship ==
    orm("hazard_relationships",
        required({"id", "parent_id", "child_id", "relationship_type", "confidence", "created_at"}),
        {<<{"parent_id"}, "hazard_events", "CASCADE">>, <<{"child_id"}, "hazard_events", "CASCADE">>},
        {{"parent_id", "child_id", "relationship_type"}})

IngestionCursor ==
    orm("ingestion_cursors", required({"source", "last_ingested_at", "updated_at"}), {}, {})

InstalledPluginRow ==
    orm("installed_plugins",
        required({"id", "name", "version", "domain", "status", "manifest_json", "installed_at"})
          @@ nullable({"error_message"}), {}, {})

Investigation ==
    orm("investigations",
        required({"id", "query_text", "status", "consent_public_research", "created_at"})
          @@ nullable({"user_id", "complexity_tier", "answer", "confidence", "execution_trace",
                       "completed_at"}),
        {<<{"user_id"}, "users", "RESTRICT">>}, {})

LiteratureChunk ==
    orm("literature_chunks",
        required({"id", "document_id", "chunk_text", "created_at"})
          @@ typed("vector", nullable({"embedding"}))
          @@ nullable({"source_id", "source_url", "metadata", "ts_content"}), {}, {})

MetricEventRow ==
    orm("metrics",
        required({"id", "event_type", "duration_ms", "cost_estimate", "success", "ts"})
          @@ nullable({"group_key", "queue_wait_ms"}), {}, {})

PasswordResetToken ==
    orm("password_reset_tokens",
        required({"id", "user_id", "hashed_token", "expires_at", "created_at"})
          @@ nullable({"used_at"}), {<<{"user_id"}, "users", "CASCADE">>}, {{"hashed_token"}})

PatternFinding ==
    orm("pattern_findings",
        required({"id", "pattern_hash", "algorithm_version", "version", "source_event_type",
                  "target_event_type", "time_window_days", "support_count", "total_source_events",
                  "total_target_events", "observed_rate", "baseline_rate", "lift",
                  "statistical_confidence", "uncertainty", "supporting_event_ids", "description",
                  "mined_at", "is_active", "created_at"}) @@ nullable({"region_label"}), {}, {})

ScalingTelemetrySampleRow ==
    orm("scaling_telemetry_samples",
        required({"id", "queue_depth", "worker_utilization_pct", "active_worker_count",
                  "busy_worker_count", "recommended_pool_size", "ts"}), {}, {})

User ==
    orm("users",
        required({"id", "email", "hashed_password", "role", "is_active", "is_verified",
                  "created_at", "updated_at"})
          @@ nullable({"full_name", "hashed_verification_token", "verification_token_expires_at",
                       "last_login_at", "deleted_at"}), {}, {{"email"}})

models ==
    {AdministrativeBoundary, AlertIncident, AlertRule, ApiKey, BackupRecord, RestoreDrillRecord,
     EvalBenchmarkQuestion, EvalBenchmarkRun, HazardEvent, HazardRelationship, IngestionCursor,
     InstalledPluginRow, Investigation, LiteratureChunk, MetricEventRow, PasswordResetToken,
     PatternFinding, ScalingTelemetrySampleRow, User}
=============================================================================
