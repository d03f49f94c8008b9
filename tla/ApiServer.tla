----------------------------- MODULE ApiServer ------------------------------
(***************************************************************************)
(* The HTTP API: the gateway middleware (gateway/middleware.py) with its   *)
(* authentication providers, the role and ownership checks of              *)
(* auth/dependencies.py, and one action per route handler of app/api.      *)
(* Requests wait in call[c], one per client; a handler answers there.      *)
(*                                                                         *)
(* What the account, alerting and backup handlers do to their rows is the  *)
(* subject of Accounts, Alerting and Backup; here they choose among the    *)
(* answers they can give.                                                  *)
(***************************************************************************)
EXTENDS ApiSchemas, Naturals, Sequences

VARIABLES
    investigations,     \* the owner of every investigation, numbered from 1
    keys,               \* the API keys: [owner, revoked], numbered from 1
    account,            \* per account, [role, active]
    jwt,                \* per account, whether its access token is still valid
    redis,              \* whether Redis answers
    research,           \* settings.public_research_api_enabled
    throttle,           \* whether the rate limiter may refuse this behaviour's requests
    call,               \* per client, its request and how far it has come
    unread              \* history: per client, the parameters its route did not read

rows == <<investigations, keys>>

world == <<account, jwt, redis, research, throttle>>

Nobody == "nobody"

req(c) == call[c].request

-----------------------------------------------------------------------------
(* Answers. *)

answer(c, status, model, body) ==
    call' = [call EXCEPT ![c].phase = "answered",
                         ![c].reply = [status |-> status, model |-> model, body |-> body]]

reply(c, status, model, body) == answer(c, status, model, body) /\ UNCHANGED rows

(* Slip: the answer has no error code. *)
json_error_bare(c, status) == reply(c, status, "ErrorResponse", Object("detail" :> Text))

(* A JSONResponse of the handler's own: {"detail", "error_code"}. *)
json_error(c, status) == reply(c, status, "ErrorResponse", dump(ErrorResponse, TRUE))

(* raise HTTPException: what the exception handler writes is {"detail": detail}. *)
http_error(c, status, detail) == reply(c, status, "HTTPException", Object("detail" :> detail))

(* FastAPI's answer to a request that does not validate. *)
invalid(c) ==
    http_error(c, 422,
        Array(<<Object([type |-> Text, loc |-> Array(<<Text, Text>>), msg |-> Text, input |-> Text])>>))

(* An exception nobody handles. *)
crash(c) == reply(c, 500, "Exception", scalar("not_json"))

ok(c, status, model, schema) ==
    \E full \in BOOLEAN : reply(c, status, model, dump(schema, full))

ok_list(c, model, schema) ==
    \E full \in {<<>>, <<TRUE, FALSE>>} :
        reply(c, 200, model, Array([i \in DOMAIN full |-> dump(schema, full[i])]))

-----------------------------------------------------------------------------
(* gateway/middleware.py, auth/api_key_provider.py, auth/jwt_provider.py *)

Live(a) == account[a].active

ApiKeyAuthProvider(cred) ==
    IF cred.key = 0 THEN [user |-> Nobody, key_error |-> FALSE]
    ELSE IF keys[cred.key].revoked \/ ~Live(keys[cred.key].owner)
         THEN [user |-> Nobody, key_error |-> TRUE]
         ELSE [user |-> keys[cred.key].owner, key_error |-> FALSE]

JWTRefuses(cred) ==
    cred.bearer # Nobody /\ (~jwt[cred.bearer] \/ ~Live(cred.bearer))

(* GatewayMiddleware.dispatch.  An HTTPException that a provider or the rate
   limiter raises is raised outside FastAPI's exception handlers, so that the
   client gets the plain 500 of an unhandled exception. *)
dispatch(c) ==
    /\ call[c].phase = "sent"
    /\ LET cred == call[c].cred
           byKey == ApiKeyAuthProvider(cred)
           short == byKey.user # Nobody \/ byKey.key_error
       IN  IF ~short /\ JWTRefuses(cred) THEN crash(c)
           ELSE \/ /\ call' = [call EXCEPT
                        ![c].phase = "routed",
                        ![c].user = IF short THEN byKey.user ELSE cred.bearer,
                        ![c].key_error = byKey.key_error]
                   /\ UNCHANGED rows
                \/ throttle /\ crash(c)
    /\ UNCHANGED <<world, unread>>

-----------------------------------------------------------------------------
(* auth/dependencies.py *)

role(c) == account[call[c].user].role

(* get_current_user, get_current_active_user, RequireRole: a dependency comes
   before the validation of parameters and body.  The 401 for an account that
   is not active or not verified has no case of its own: the test is of the
   user as dispatch read it, who was active then, and an account is verified
   before it gets its first token or key and never ceases to be. *)
refused(c, status, detail) == http_error(c, status, detail) /\ UNCHANGED unread

current_user(c, Then) ==
    IF call[c].key_error THEN refused(c, 401, Object("message" :> Text @@ "error_code" :> Text))
    ELSE IF call[c].user = Nobody THEN refused(c, 401, Text)
    ELSE Then

RequireRole(c, allowed, Then) ==
    current_user(c, IF role(c) \in allowed \cup {"ADMIN"} THEN Then ELSE refused(c, 403, Text))

check_owner_or_role(c, owner, Then) ==
    IF role(c) = "ADMIN" \/ owner = call[c].user THEN Then ELSE http_error(c, 403, Text)

(* FastAPI validates path, query and body against the handler's signature; a
   parameter that is not in it is not looked at. *)
no_fields == [n \in {} |-> n]

query(names) == defaulted(string(names))

validated(c, params, body, Then) ==
    /\ unread' = [unread EXCEPT ![c] = DOMAIN req(c).params \ DOMAIN params]
    /\ IF accepts(params, req(c).params) /\ accepts(body, req(c).body) THEN Then ELSE invalid(c)

(* A handler without parameters validates nothing. *)
unparameterised(c, Then) == unread' = [unread EXCEPT ![c] = DOMAIN req(c).params] /\ Then

-----------------------------------------------------------------------------
(* app/api/v1/investigations.py, investigations_stream.py *)

Exists(c) == call[c].id \in DOMAIN investigations

(* The answer names the new row. *)
accepted(c) ==
    call' = [call EXCEPT ![c].phase = "answered", ![c].id = Len(investigations) + 1,
                         ![c].reply = [status |-> 202, model |-> "InvestigationCreateResponse",
                                       body |-> dump(InvestigationCreateResponse, TRUE)]]

(* Slip: the row is stored without its owner. *)
create_investigation_ownerless(c) ==
    validated(c, no_fields, InvestigationCreateRequest,
        IF ~redis THEN json_error(c, 503)
        ELSE /\ investigations' = Append(investigations, Nobody)
             /\ accepted(c)
             /\ UNCHANGED keys)

(* Redis may go between the ping and the enqueueing: then the row is there and
   the handler raises. *)
create_investigation(c) ==
    validated(c, no_fields, InvestigationCreateRequest,
        IF ~redis THEN json_error(c, 503)
        ELSE /\ investigations' = Append(investigations, call[c].user)
             /\ accepted(c) \/ answer(c, 500, "Exception", scalar("not_json"))
             /\ UNCHANGED keys)

(* The row and, for a signed-in caller only, its owner are checked. *)
readable(c, Then) ==
    validated(c, uuid({"investigation_id"}), no_fields,
        IF ~Exists(c) THEN json_error(c, 404)
        ELSE IF call[c].user = Nobody THEN Then
        ELSE check_owner_or_role(c, investigations[call[c].id], Then))

get_investigation(c) ==
    readable(c, ok(c, 200, "InvestigationStatusResponse", InvestigationStatusResponse))

get_investigation_trace(c) ==
    readable(c, ok(c, 200, "InvestigationTraceResponse", InvestigationTraceResponse))

(* The events themselves are the subject of Investigation. *)
stream_investigation_events(c) ==
    readable(c, IF redis THEN reply(c, 200, "StreamEvent", scalar("not_json"))
                ELSE json_error(c, 503))

-----------------------------------------------------------------------------
(* app/api/v1/api_keys.py *)

create_api_key(c) ==
    RequireRole(c, {"RESEARCHER"}, validated(c, no_fields, CreateApiKeyRequest,
        /\ keys' = Append(keys, [owner |-> call[c].user, revoked |-> FALSE])
        /\ answer(c, 201, "ApiKeyCreatedResponse", dump(ApiKeyCreatedResponse, TRUE))
        /\ UNCHANGED investigations))

list_api_keys(c) ==
    RequireRole(c, {"RESEARCHER"}, unparameterised(c,
        ok_list(c, "ApiKeyResponse", ApiKeyResponse)))

revoke_api_key(c) ==
    current_user(c, validated(c, string({"key_id"}), no_fields,
        IF call[c].id \notin DOMAIN keys THEN http_error(c, 404, Text)
        ELSE check_owner_or_role(c, keys[call[c].id].owner,
                 /\ keys' = [keys EXCEPT ![call[c].id].revoked = TRUE]
                 /\ answer(c, 200, "ApiKeyRevokedResponse", dump(ApiKeyRevokedResponse, TRUE))
                 /\ UNCHANGED investigations)))

-----------------------------------------------------------------------------
(* app/api/v1/research.py *)

published(c, params, model, schema) ==
    validated(c, params, no_fields,
        IF research THEN ok_list(c, model, schema) ELSE json_error(c, 503))

list_public_research_investigations(c) ==
    published(c, query({"domain", "since", "limit", "offset"}),
              "ResearchInvestigationResponse", ResearchInvestigationResponse)

list_public_hazard_events(c) ==
    published(c, query({"event_type", "source", "limit", "offset"}),
              "HazardEventResponse", HazardEventResponse)

list_public_research_patterns(c) ==
    published(c, query({"event_type", "region", "time_window_days", "min_confidence",
                        "sort_by", "order", "limit", "offset"}),
              "PatternFindingResponse", PatternFindingResponse)

-----------------------------------------------------------------------------
(* app/api/v1/admin_alerts.py, admin_backups.py, admin_metrics.py *)

list_alert_incidents(c) ==
    RequireRole(c, {}, validated(c, query({"status", "limit", "offset"}), no_fields,
        ok_list(c, "AlertIncidentResponse", AlertIncidentResponse)))

list_alert_rules(c) ==
    RequireRole(c, {}, unparameterised(c,
        ok_list(c, "AlertRuleResponse", AlertRuleResponse)))

upsert_alert_rule(c) ==
    RequireRole(c, {}, validated(c, no_fields, AlertRuleSchema,
        ok(c, 200, "AlertRuleResponse", AlertRuleResponse)))

delete_alert_rule(c) ==
    RequireRole(c, {}, validated(c, uuid({"rule_id"}), no_fields,
        \/ ok(c, 200, "AlertMessageResponse", AlertMessageResponse)
        \/ json_error(c, 404)))

list_backups(c) ==
    RequireRole(c, {}, validated(c, query({"limit"}), no_fields,
        ok_list(c, "BackupRecordSchema", BackupRecordSchema)))

list_restore_drills(c) ==
    RequireRole(c, {}, validated(c, query({"limit"}), no_fields,
        ok_list(c, "RestoreDrillRecordSchema", RestoreDrillRecordSchema)))

(* An event type that is a text but not a known one is refused by the handler. *)
get_admin_metrics(c) ==
    RequireRole(c, {}, validated(c, query({"window", "group_by", "event_type"}), no_fields,
        \/ ok(c, 200, "MetricsResponse", MetricsResponse)
        \/ "event_type" \in DOMAIN req(c).params /\ http_error(c, 422, Text)))

(* verify_prometheus_auth without a scraper's token: an administrator. *)
get_prometheus_metrics(c) ==
    RequireRole(c, {}, unparameterised(c, reply(c, 200, "text", scalar("not_json"))))

-----------------------------------------------------------------------------
(* app/api/v1/auth.py *)

register(c) ==
    validated(c, no_fields, UserRegisterRequest,
        \/ ok(c, 201, "UserResponse", UserResponse)
        \/ json_error(c, 409)
        \/ json_error(c, 422))

login(c) ==
    validated(c, no_fields, UserLoginRequest,
        ok(c, 200, "TokenResponse", TokenResponse) \/ json_error(c, 401))

verify_email(c) ==
    validated(c, string({"token"}), no_fields,
        ok(c, 200, "AuthMessageResponse", AuthMessageResponse) \/ json_error(c, 400))

resend_verification(c) ==
    validated(c, no_fields, ResendVerificationRequest,
        ok(c, 200, "AuthMessageResponse", AuthMessageResponse))

get_me(c) ==
    current_user(c, unparameterised(c, ok(c, 200, "UserResponse", UserResponse)))

request_password_reset(c) ==
    validated(c, no_fields, PasswordResetRequestPayload,
        ok(c, 202, "AuthMessageResponse", AuthMessageResponse))

reset_password(c) ==
    validated(c, no_fields, PasswordResetConfirmPayload,
        \/ ok(c, 200, "AuthMessageResponse", AuthMessageResponse)
        \/ json_error(c, 400)
        \/ json_error(c, 422))

-----------------------------------------------------------------------------
(* app/api/root.py, app/api/v1/router.py, app/api/v1/health.py *)

read_root(c) == unparameterised(c, ok(c, 200, "RootResponse", RootResponse))

ping(c) == unparameterised(c, ok(c, 200, "PingResponse", PingResponse))

liveness(c) == unparameterised(c, ok(c, 200, "LivenessResponse", LivenessResponse))

(* The database, PostGIS or pgvector may be what is missing. *)
readiness(c) ==
    unparameterised(c,
        \/ redis /\ ok(c, 200, "ReadinessResponse", ReadinessResponse)
        \/ http_error(c, 503, dump(ReadinessFailureResponse, TRUE)))

-----------------------------------------------------------------------------
(* The routers: app/api/root.py and what app/api/v1/router.py includes. *)

at(c, method, path) == req(c).method = method /\ req(c).path = path

Handle(c) ==
    /\ call[c].phase = "routed"
    /\ \/ at(c, "get", "/") /\ read_root(c)
       \/ at(c, "get", "/api/v1/ping") /\ ping(c)
       \/ at(c, "get", "/api/v1/health/live") /\ liveness(c)
       \/ at(c, "get", "/api/v1/health/ready") /\ readiness(c)
       \/ at(c, "post", "/api/v1/auth/register") /\ register(c)
       \/ at(c, "post", "/api/v1/auth/login") /\ login(c)
       \/ at(c, "get", "/api/v1/auth/verify-email") /\ verify_email(c)
       \/ at(c, "post", "/api/v1/auth/resend-verification") /\ resend_verification(c)
       \/ at(c, "get", "/api/v1/auth/me") /\ get_me(c)
       \/ at(c, "post", "/api/v1/auth/request-reset") /\ request_password_reset(c)
       \/ at(c, "post", "/api/v1/auth/reset") /\ reset_password(c)
       \/ at(c, "post", "/api/v1/api-keys") /\ create_api_key(c)
       \/ at(c, "get", "/api/v1/api-keys") /\ list_api_keys(c)
       \/ at(c, "delete", "/api/v1/api-keys/{key_id}") /\ revoke_api_key(c)
       \/ at(c, "post", "/api/v1/investigations") /\ create_investigation(c)
       \/ at(c, "get", "/api/v1/investigations/{investigation_id}") /\ get_investigation(c)
       \/ /\ at(c, "get", "/api/v1/investigations/{investigation_id}/trace")
          /\ get_investigation_trace(c)
       \/ /\ at(c, "get", "/api/v1/investigations/{investigation_id}/stream")
          /\ stream_investigation_events(c)
       \/ /\ at(c, "get", "/api/v1/research/investigations")
          /\ list_public_research_investigations(c)
       \/ at(c, "get", "/api/v1/research/hazard-events") /\ list_public_hazard_events(c)
       \/ at(c, "get", "/api/v1/research/patterns") /\ list_public_research_patterns(c)
       \/ at(c, "get", "/api/v1/admin/alerts") /\ list_alert_incidents(c)
       \/ at(c, "get", "/api/v1/admin/alert-rules") /\ list_alert_rules(c)
       \/ at(c, "post", "/api/v1/admin/alert-rules") /\ upsert_alert_rule(c)
       \/ at(c, "delete", "/api/v1/admin/alert-rules/{rule_id}") /\ delete_alert_rule(c)
       \/ at(c, "get", "/api/v1/admin/backups") /\ list_backups(c)
       \/ at(c, "get", "/api/v1/admin/restore-drills") /\ list_restore_drills(c)
       \/ at(c, "get", "/api/v1/admin/metrics") /\ get_admin_metrics(c)
       \/ at(c, "get", "/api/v1/admin/metrics/prometheus") /\ get_prometheus_metrics(c)
    /\ UNCHANGED world
=============================================================================
