----------------------------- MODULE Migrations -----------------------------
(***************************************************************************)
(* data/migrations/versions: every revision's upgrade() and downgrade(),   *)
(* as the operations they give Alembic, in their order.                    *)
(***************************************************************************)
EXTENDS Ddl

CONSTANT LOCAL_GEOCODE_DB       \* tools.geocoding: per known place its point

upgrade_0001 == <<create_type("postgis"), create_type("vector")>>
downgrade_0001 ==
    <<drop_type("postgis_tiger_geocoder", FALSE), drop_type("postgis_topology", FALSE),
      drop_type("vector", FALSE), drop_type("postgis", TRUE), drop_type("fuzzystrmatch", FALSE)>>

upgrade_0005 ==
    <<create_table("eval_benchmark_questions",
        required({"question_text", "expected_domains", "expected_complexity", "reference_answer"})
          @@ server_default({"id", "created_at"}) @@ nullable({"reference_evidence"}), {}, {}),
      create_table("eval_benchmark_runs",
        required({"benchmark_question_id", "orchestrator_version"})
          @@ server_default({"id", "run_at"}) @@ nullable({"investigation_id", "score", "metrics"}),
        {fk("eval_benchmark_runs_benchmark_question_id_fkey", "eval_benchmark_runs",
            {"benchmark_question_id"}, "eval_benchmark_questions", "CASCADE")}, {}),
      create_index("ix_eval_runs_version", "eval_benchmark_runs", {"orchestrator_version", "run_at"}),
      insert_row("eval_benchmark_questions")>>
downgrade_0005 ==
    <<drop_index("ix_eval_runs_version", "eval_benchmark_runs"),
      drop_table("eval_benchmark_runs"), drop_table("eval_benchmark_questions")>>

upgrade_0006 ==
    <<create_table("investigations",
        required({"query_text"}) @@ server_default({"id", "status", "created_at"})
          @@ nullable({"complexity_tier", "answer", "confidence", "execution_trace", "completed_at"}),
        {}, {}),
      create_index("ix_investigations_status", "investigations", {"status"}),
      create_index("ix_investigations_created_at", "investigations", {"created_at"}),
      create_foreign_key(fk("fk_eval_runs_investigation_id", "eval_benchmark_runs",
                            {"investigation_id"}, "investigations", "SET NULL"))>>
downgrade_0006 ==
    <<drop_constraint("fk_eval_runs_investigation_id", "eval_benchmark_runs"),
      drop_index("ix_investigations_created_at", "investigations"),
      drop_index("ix_investigations_status", "investigations"), drop_table("investigations")>>

upgrade_0007 ==
    <<create_table("literature_chunks",
        required({"document_id", "chunk_text"}) @@ server_default({"id", "created_at"})
          @@ nullable({"source_url", "metadata", "ts_content"})
          @@ typed("vector", nullable({"embedding"})), {}, {}),
      create_index("ix_literature_chunks_document", "literature_chunks", {"document_id"}),
      create_index("ix_literature_chunks_fts", "literature_chunks", {"ts_content"}),
      create_index("ix_literature_chunks_embedding", "literature_chunks", {"embedding"})>>
downgrade_0007 ==
    <<drop_index("ix_literature_chunks_fts", "literature_chunks"),
      drop_index("ix_literature_chunks_document", "literature_chunks"),
      drop_index("ix_literature_chunks_embedding", "literature_chunks"),
      drop_table("literature_chunks")>>

upgrade_0008 ==
    <<create_table("hazard_events",
        required({"event_type", "region", "event_date"}) @@ server_default({"id", "created_at"})
          @@ nullable({"details"}), {}, {}),
      create_index("ix_hazard_events_event_type", "hazard_events", {"event_type"}),
      create_index("ix_hazard_events_region", "hazard_events", {"region"}),
      create_table("hazard_relationships",
        required({"parent_id", "child_id", "relationship_type", "confidence"})
          @@ server_default({"id", "created_at"}),
        {fk("hazard_relationships_parent_id_fkey", "hazard_relationships", {"parent_id"},
            "hazard_events", "CASCADE"),
         fk("hazard_relationships_child_id_fkey", "hazard_relationships", {"child_id"},
            "hazard_events", "CASCADE")},
        {index("uq_parent_child_rel", "hazard_relationships",
               {"parent_id", "child_id", "relationship_type"}, TRUE)}),
      create_index("ix_hazard_relationships_parent_id", "hazard_relationships", {"parent_id"}),
      create_index("ix_hazard_relationships_child_id", "hazard_relationships", {"child_id"})>>
downgrade_0008 ==
    <<drop_index("ix_hazard_relationships_child_id", "hazard_relationships"),
      drop_index("ix_hazard_relationships_parent_id", "hazard_relationships"),
      drop_table("hazard_relationships"),
      drop_index("ix_hazard_events_region", "hazard_events"),
      drop_index("ix_hazard_events_event_type", "hazard_events"), drop_table("hazard_events")>>

upgrade_0009 ==
    <<create_table("users",
        required({"email", "hashed_password"})
          @@ server_default({"id", "role", "is_active", "is_verified", "created_at", "updated_at"})
          @@ nullable({"full_name", "hashed_verification_token", "verification_token_expires_at",
                       "last_login_at", "deleted_at"}), {}, {}),
      create_unique("ix_users_email", "users", {"email"}),
      create_index("ix_users_hashed_verification_token", "users", {"hashed_verification_token"})>>
downgrade_0009 ==
    <<drop_index("ix_users_hashed_verification_token", "users"),
      drop_index("ix_users_email", "users"), drop_table("users")>>

upgrade_0010 ==
    <<add_column("investigations", nullable({"user_id"})),
      create_foreign_key(fk("fk_investigations_user_id_users", "investigations", {"user_id"},
                            "users", "RESTRICT")),
      create_index("ix_investigations_user_id", "investigations", {"user_id"})>>
downgrade_0010 ==
    <<drop_index("ix_investigations_user_id", "investigations"),
      drop_constraint("fk_investigations_user_id_users", "investigations"),
      drop_column("investigations", "user_id")>>

(* The point of every known place, one UPDATE each. *)
backfill_0011 ==
    LET locations == SetToSeq(DOMAIN LOCAL_GEOCODE_DB)
    IN  [i \in DOMAIN locations |->
            set_where("hazard_events", "region_geom", LOCAL_GEOCODE_DB[locations[i]],
                      "region_label", locations[i])]

(* The place's name moves to region_label; region becomes its point. *)
upgrade_0011_to_point(backfill) ==
    <<add_column("hazard_events", nullable({"region_label"})),
      copy_column("hazard_events", "region_label", "region"),
      add_column("hazard_events", typed("postgis", nullable({"region_geom"})))>>
    \o backfill \o
    <<drop_index("ix_hazard_events_region", "hazard_events"),
      drop_column("hazard_events", "region"),
      rename_column("hazard_events", "region_geom", "region"),
      create_index("idx_hazard_events_region_gist", "hazard_events", {"region"})>>

(* Slip: a place that is not known becomes the first known one. *)
upgrade_0011_default_point ==
    upgrade_0011_to_point(
        <<set_where("hazard_events", "region_geom",
                    LOCAL_GEOCODE_DB[CHOOSE p \in DOMAIN LOCAL_GEOCODE_DB : TRUE], "region_geom", NULL)>>)
upgrade_0011 == upgrade_0011_to_point(backfill_0011)

downgrade_0011 ==
    <<drop_index("idx_hazard_events_region_gist", "hazard_events"),
      add_column("hazard_events", nullable({"region_str"})),
      copy_column("hazard_events", "region_str", "region_label"),
      drop_column("hazard_events", "region"),
      rename_column("hazard_events", "region_str", "region"),
      create_index("ix_hazard_events_region", "hazard_events", {"region"}),
      drop_column("hazard_events", "region_label")>>

upgrade_0012 ==
    <<create_table("ingestion_cursors",
        required({"source", "last_ingested_at"}) @@ server_default({"updated_at"}), {}, {}),
      add_column("hazard_events", nullable({"source"})),
      add_column("hazard_events", nullable({"external_id"})),
      create_index("ix_hazard_events_source", "hazard_events", {"source"}),
      create_index("ix_hazard_events_external_id", "hazard_events", {"external_id"}),
      create_unique("uq_hazard_event_source_external_id", "hazard_events", {"source", "external_id"})>>
downgrade_0012 ==
    <<drop_constraint("uq_hazard_event_source_external_id", "hazard_events"),
      drop_index("ix_hazard_events_external_id", "hazard_events"),
      drop_index("ix_hazard_events_source", "hazard_events"),
      drop_column("hazard_events", "external_id"), drop_column("hazard_events", "source"),
      drop_table("ingestion_cursors")>>

upgrade_0013 ==
    <<create_table("metrics",
        required({"event_type"})
          @@ server_default({"id", "duration_ms", "cost_estimate", "success", "ts"})
          @@ nullable({"group_key"}), {}, {}),
      create_index("ix_metrics_ts", "metrics", {"ts"}),
      create_index("ix_metrics_event_type", "metrics", {"event_type"})>>
downgrade_0013 ==
    <<drop_index("ix_metrics_event_type", "metrics"), drop_index("ix_metrics_ts", "metrics"),
      drop_table("metrics")>>

upgrade_0014 ==
    <<create_table("api_keys",
        required({"id", "key_id", "key_hash", "name", "owner_id"})
          @@ server_default({"is_revoked", "created_at"}) @@ nullable({"revoked_at", "last_used_at"}),
        {fk("api_keys_owner_id_fkey", "api_keys", {"owner_id"}, "users", "CASCADE")}, {}),
      create_unique("ix_api_keys_key_id", "api_keys", {"key_id"}),
      create_index("ix_api_keys_owner_id", "api_keys", {"owner_id"}),
      create_index("ix_api_keys_is_revoked", "api_keys", {"is_revoked"})>>
downgrade_0014 ==
    <<drop_index("ix_api_keys_is_revoked", "api_keys"), drop_index("ix_api_keys_owner_id", "api_keys"),
      drop_index("ix_api_keys_key_id", "api_keys"), drop_table("api_keys")>>

upgrade_0015 ==
    <<create_table("password_reset_tokens",
        required({"id", "user_id", "hashed_token", "expires_at"}) @@ server_default({"created_at"})
          @@ nullable({"used_at"}),
        {fk("password_reset_tokens_user_id_fkey", "password_reset_tokens", {"user_id"}, "users",
            "CASCADE")}, {}),
      create_index("ix_password_reset_tokens_user_id", "password_reset_tokens", {"user_id"}),
      create_unique("ix_password_reset_tokens_hashed_token", "password_reset_tokens", {"hashed_token"}),
      create_index("ix_password_reset_tokens_used_at", "password_reset_tokens", {"used_at"})>>
downgrade_0015 ==
    <<drop_index("ix_password_reset_tokens_used_at", "password_reset_tokens"),
      drop_index("ix_password_reset_tokens_hashed_token", "password_reset_tokens"),
      drop_index("ix_password_reset_tokens_user_id", "password_reset_tokens"),
      drop_table("password_reset_tokens")>>

upgrade_0016 ==
    <<create_table("alert_rules",
        required({"id", "name", "metric", "threshold"})
          @@ server_default({"comparison", "window", "severity", "consecutive_cycles", "is_enabled",
                             "created_at", "updated_at"}), {}, {}),
      create_unique("ix_alert_rules_name", "alert_rules", {"name"}),
      create_table("alert_incidents",
        required({"id", "rule_name", "severity", "last_value", "threshold"})
          @@ server_default({"status", "consecutive_violations", "fired_at", "created_at", "updated_at"})
          @@ nullable({"rule_id", "resolved_at"}),
        {fk("alert_incidents_rule_id_fkey", "alert_incidents", {"rule_id"}, "alert_rules", "SET NULL")},
        {}),
      create_index("ix_alert_incidents_rule_id", "alert_incidents", {"rule_id"}),
      create_index("ix_alert_incidents_rule_name", "alert_incidents", {"rule_name"}),
      create_index("ix_alert_incidents_status", "alert_incidents", {"status"})>>
downgrade_0016 ==
    <<drop_index("ix_alert_incidents_status", "alert_incidents"),
      drop_index("ix_alert_incidents_rule_name", "alert_incidents"),
      drop_index("ix_alert_incidents_rule_id", "alert_incidents"), drop_table("alert_incidents"),
      drop_index("ix_alert_rules_name", "alert_rules"), drop_table("alert_rules")>>

upgrade_0017 ==
    <<create_type("backup_status_enum"),
      create_table("backup_records",
        required({"backup_id"})
          @@ server_default({"id", "created_at", "size_bytes", "checksum", "storage_location",
                             "postgres_version", "duration_ms", "verification_metadata"})
          @@ typed("backup_status_enum", server_default({"status"}))
          @@ nullable({"completed_at", "error_details"}), {},
        {index("backup_records_backup_id_key", "backup_records", {"backup_id"}, TRUE)}),
      create_index("ix_backup_records_backup_id", "backup_records", {"backup_id"}),
      create_index("ix_backup_records_status", "backup_records", {"status"}),
      create_table("restore_drill_records",
        required({"drill_id", "backup_id"})
          @@ server_default({"id", "started_at", "duration_ms", "row_counts_match", "checksum_match",
                             "migration_version_match", "discrepancies"})
          @@ typed("backup_status_enum", server_default({"status"}))
          @@ nullable({"completed_at", "error_details"}), {},
        {index("restore_drill_records_drill_id_key", "restore_drill_records", {"drill_id"}, TRUE)}),
      create_index("ix_restore_drill_records_drill_id", "restore_drill_records", {"drill_id"}),
      create_index("ix_restore_drill_records_backup_id", "restore_drill_records", {"backup_id"}),
      create_index("ix_restore_drill_records_status", "restore_drill_records", {"status"})>>
downgrade_0017 ==
    <<drop_table("restore_drill_records"), drop_table("backup_records"),
      drop_type("backup_status_enum", FALSE)>>

upgrade_0018 ==
    <<create_table("installed_plugins",
        required({"name", "version", "domain", "manifest_json"})
          @@ server_default({"id", "status", "installed_at"}) @@ nullable({"error_message"}), {}, {}),
      create_index("ix_installed_plugins_domain", "installed_plugins", {"domain"})>>
downgrade_0018 ==
    <<drop_index("ix_installed_plugins_domain", "installed_plugins"), drop_table("installed_plugins")>>

upgrade_0019 ==
    <<add_column("alert_incidents", nullable({"slo_name"})),
      create_index("ix_alert_incidents_slo_name", "alert_incidents", {"slo_name"})>>
downgrade_0019 ==
    <<drop_index("ix_alert_incidents_slo_name", "alert_incidents"),
      drop_column("alert_incidents", "slo_name")>>

(* Slip: the new column has no default for the rows that exist. *)
upgrade_0020_no_default ==
    <<add_column("investigations", required({"consent_public_research"})),
      create_index("ix_investigations_consent_public_research", "investigations",
                   {"consent_public_research"}),
      create_index("ix_investigations_status_created_at", "investigations", {"status", "created_at"})>>
upgrade_0020 ==
    <<add_column("investigations", server_default({"consent_public_research"})),
      create_index("ix_investigations_consent_public_research", "investigations",
                   {"consent_public_research"}),
      create_index("ix_investigations_status_created_at", "investigations", {"status", "created_at"})>>

(* Slip: dropping the column is taken to drop both indexes. *)
downgrade_0020_keeps_index == <<drop_column("investigations", "consent_public_research")>>
downgrade_0020 ==
    <<drop_index("ix_investigations_status_created_at", "investigations"),
      drop_index("ix_investigations_consent_public_research", "investigations"),
      drop_column("investigations", "consent_public_research")>>

upgrade_0021 ==
    <<create_table("administrative_boundaries",
        required({"id", "osm_id", "name"}) @@ typed("postgis", required({"geom"}))
          @@ server_default({"created_at"}) @@ nullable({"admin_level"}), {},
        {index("administrative_boundaries_osm_id_key", "administrative_boundaries", {"osm_id"}, TRUE)}),
      create_unique("ix_administrative_boundaries_osm_id", "administrative_boundaries", {"osm_id"}),
      create_index("ix_administrative_boundaries_name", "administrative_boundaries", {"name"}),
      create_index("idx_admin_boundaries_geom_gist", "administrative_boundaries", {"geom"})>>
downgrade_0021 ==
    <<drop_index("idx_admin_boundaries_geom_gist", "administrative_boundaries"),
      drop_index("ix_administrative_boundaries_name", "administrative_boundaries"),
      drop_index("ix_administrative_boundaries_osm_id", "administrative_boundaries"),
      drop_table("administrative_boundaries")>>

upgrade_0022 ==
    <<add_column("literature_chunks", nullable({"source_id"})),
      create_index("ix_literature_chunks_source_id", "literature_chunks", {"source_id"})>>
downgrade_0022 ==
    <<drop_index("ix_literature_chunks_source_id", "literature_chunks"),
      drop_column("literature_chunks", "source_id")>>

upgrade_0023 ==
    <<create_table("pattern_findings",
        required({"id", "pattern_hash", "source_event_type", "target_event_type", "time_window_days",
                  "support_count", "total_source_events", "total_target_events", "observed_rate",
                  "baseline_rate", "lift", "statistical_confidence", "uncertainty",
                  "supporting_event_ids", "description", "mined_at"})
          @@ server_default({"algorithm_version", "version", "is_active", "created_at"})
          @@ nullable({"region_label"}), {}, {}),
      create_index("ix_pattern_findings_pattern_hash", "pattern_findings", {"pattern_hash"}),
      create_index("ix_pattern_findings_active_confidence", "pattern_findings",
                   {"is_active", "statistical_confidence"}),
      create_index("ix_pattern_findings_source_event_type", "pattern_findings", {"source_event_type"}),
      create_index("ix_pattern_findings_target_event_type", "pattern_findings", {"target_event_type"}),
      create_index("ix_pattern_findings_region_label", "pattern_findings", {"region_label"})>>
downgrade_0023 ==
    <<drop_index("ix_pattern_findings_region_label", "pattern_findings"),
      drop_index("ix_pattern_findings_target_event_type", "pattern_findings"),
      drop_index("ix_pattern_findings_source_event_type", "pattern_findings"),
      drop_index("ix_pattern_findings_active_confidence", "pattern_findings"),
      drop_index("ix_pattern_findings_pattern_hash", "pattern_findings"),
      drop_table("pattern_findings")>>

upgrade_0024 ==
    <<create_table("scaling_telemetry_samples",
        required({"id"})
          @@ server_default({"queue_depth", "worker_utilization_pct", "active_worker_count",
                             "busy_worker_count", "recommended_pool_size", "ts"}), {}, {}),
      create_index("ix_scaling_telemetry_samples_ts", "scaling_telemetry_samples", {"ts"})>>
downgrade_0024 ==
    <<drop_index("ix_scaling_telemetry_samples_ts", "scaling_telemetry_samples"),
      drop_table("scaling_telemetry_samples")>>

(* Slip: the column is added to another table. *)
upgrade_0025_elsewhere == <<add_column("scaling_telemetry_samples", nullable({"queue_wait_ms"}))>>
upgrade_0025 == <<add_column("metrics", nullable({"queue_wait_ms"}))>>
downgrade_0025 == <<drop_column("metrics", "queue_wait_ms")>>

(* The chain that revision and down_revision make, oldest first. *)
upgrades ==
    <<upgrade_0001, upgrade_0005, upgrade_0006, upgrade_0007, upgrade_0008, upgrade_0009,
      upgrade_0010, upgrade_0011, upgrade_0012, upgrade_0013, upgrade_0014, upgrade_0015,
      upgrade_0016, upgrade_0017, upgrade_0018, upgrade_0019, upgrade_0020, upgrade_0021,
      upgrade_0022, upgrade_0023, upgrade_0024, upgrade_0025>>
downgrades ==
    <<downgrade_0001, downgrade_0005, downgrade_0006, downgrade_0007, downgrade_0008, downgrade_0009,
      downgrade_0010, downgrade_0011, downgrade_0012, downgrade_0013, downgrade_0014, downgrade_0015,
      downgrade_0016, downgrade_0017, downgrade_0018, downgrade_0019, downgrade_0020, downgrade_0021,
      downgrade_0022, downgrade_0023, downgrade_0024, downgrade_0025>>

(* The place in the chain of the revisions the properties speak of. *)
head == Len(upgrades)
rev_0011 == 8
=============================================================================
