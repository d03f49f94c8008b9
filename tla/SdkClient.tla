----------------------------- MODULE SdkClient ------------------------------
(***************************************************************************)
(* sdk/python/gaiaos_sdk: for every endpoint the request that _get_kwargs  *)
(* builds and the model that _parse_response reads from the answer, per    *)
(* status (_generated/api); the methods of GaiaClient and AsyncGaiaClient  *)
(* (client.py), which wrap these calls; and the exceptions an answer turns *)
(* into (exceptions.py).  The synchronous and the asynchronous functions   *)
(* and clients are the same.                                               *)
(***************************************************************************)
EXTENDS SdkModels, Integers

endpoint(method, path, params, body, parse) ==
    [method |-> method, path |-> path, params |-> params, body |-> body, parse |-> parse]

get(path, parse) == endpoint("get", path, free_form, free_form, parse)

get_with(path, params, parse) == endpoint("get", path, params, free_form, parse)

post(path, body, parse) == endpoint("post", path, free_form, body, parse)

delete(path, params, parse) == endpoint("delete", path, params, free_form, parse)

(* What _parse_response does at a status: a model, a list of models, whatever
   response.json() returns, or cast(Any, None). *)
one(status, name, model) == status :> [as |-> "one", name |-> name, model |-> model]

many(status, name, model) == status :> [as |-> "many", name |-> name, model |-> model]

json(status) == status :> [as |-> "json", name |-> "Any", model |-> free_form]

none(status) == status :> [as |-> "none", name |-> "None", model |-> free_form]

(* _parse_response: the name of what it returns, or "raises".  The answer is
   parsed before anyone looks at its status. *)
Parses(p, body, exact) ==
    \/ p.as = "none"
    \/ p.as = "json" /\ body.json # "not_json"
    \/ p.as = "one" /\ reads(p.model, body, exact)
    \/ /\ p.as = "many" /\ body.json = "array"
       /\ \A i \in DOMAIN body.in : reads(p.model, body.in[i], exact)

parse_response(api, status, body) ==
    IF status \notin DOMAIN api.parse THEN "None"
    ELSE IF Parses(api.parse[status], body, FALSE) THEN api.parse[status].name
    ELSE "raises"

read_root ==
    get("/",
        one(200, "RootResponse", RootResponse))

create_api_key ==
    post("/api/v1/api-keys", CreateApiKeyRequest,
        one(201, "ApiKeyCreatedResponse", ApiKeyCreatedResponse)
        @@ one(422, "HTTPValidationError", HTTPValidationError))

create_investigation ==
    post("/api/v1/investigations", InvestigationCreateRequest,
        one(202, "InvestigationCreateResponse", InvestigationCreateResponse)
        @@ none(422)
        @@ one(503, "ErrorResponse", ErrorResponse))

delete_alert_rule ==
    delete("/api/v1/admin/alert-rules/{rule_id}", uuid({"rule_id"}),
        one(200, "AlertMessageResponse", AlertMessageResponse)
        @@ none(404)
        @@ one(422, "HTTPValidationError", HTTPValidationError))

get_admin_metrics ==
    get_with("/api/v1/admin/metrics", unset(string({"window", "group_by", "event_type"})),
        one(200, "MetricsResponse", MetricsResponse)
        @@ one(422, "HTTPValidationError", HTTPValidationError))

get_investigation ==
    get_with("/api/v1/investigations/{investigation_id}", uuid({"investigation_id"}),
        one(200, "InvestigationStatusResponse", InvestigationStatusResponse)
        @@ one(403, "ErrorResponse", ErrorResponse)
        @@ one(404, "ErrorResponse", ErrorResponse)
        @@ one(422, "HTTPValidationError", HTTPValidationError))

get_investigation_trace ==
    get_with("/api/v1/investigations/{investigation_id}/trace", uuid({"investigation_id"}),
        one(200, "InvestigationTraceResponse", InvestigationTraceResponse)
        @@ one(403, "ErrorResponse", ErrorResponse)
        @@ one(404, "ErrorResponse", ErrorResponse)
        @@ one(422, "HTTPValidationError", HTTPValidationError))

get_me ==
    get("/api/v1/auth/me",
        one(200, "UserResponse", UserResponse))

get_prometheus_metrics ==
    get("/api/v1/admin/metrics/prometheus",
        none(200))

list_alert_incidents ==
    get_with("/api/v1/admin/alerts", unset(string({"status", "limit", "offset"})),
        many(200, "AlertIncidentResponse", AlertIncidentResponse)
        @@ one(422, "HTTPValidationError", HTTPValidationError))

list_alert_rules ==
    get("/api/v1/admin/alert-rules",
        many(200, "AlertRuleResponse", AlertRuleResponse))

list_api_keys ==
    get("/api/v1/api-keys",
        many(200, "ApiKeyResponse", ApiKeyResponse))

list_backups ==
    get_with("/api/v1/admin/backups", unset(string({"limit"})),
        many(200, "BackupRecordSchema", BackupRecordSchema)
        @@ one(422, "HTTPValidationError", HTTPValidationError))

list_public_hazard_events ==
    get_with("/api/v1/research/hazard-events",
        unset(string({"event_type", "source", "limit", "offset"})),
        many(200, "HazardEventResponse", HazardEventResponse)
        @@ one(422, "HTTPValidationError", HTTPValidationError)
        @@ one(503, "ErrorResponse", ErrorResponse))

list_public_research_investigations ==
    get_with("/api/v1/research/investigations",
        unset(string({"domain", "since", "limit", "offset"})),
        many(200, "ResearchInvestigationResponse", ResearchInvestigationResponse)
        @@ one(422, "HTTPValidationError", HTTPValidationError)
        @@ one(503, "ErrorResponse", ErrorResponse))

list_public_research_patterns ==
    get_with("/api/v1/research/patterns",
        unset(string({"event_type", "region", "time_window_days", "min_confidence",
                      "sort_by", "order", "limit", "offset"})),
        many(200, "PatternFindingResponse", PatternFindingResponse)
        @@ one(422, "HTTPValidationError", HTTPValidationError)
        @@ one(503, "ErrorResponse", ErrorResponse))

list_restore_drills ==
    get_with("/api/v1/admin/restore-drills", unset(string({"limit"})),
        many(200, "RestoreDrillRecordSchema", RestoreDrillRecordSchema)
        @@ one(422, "HTTPValidationError", HTTPValidationError))

liveness ==
    get("/api/v1/health/live",
        one(200, "LivenessResponse", LivenessResponse))

login ==
    post("/api/v1/auth/login", UserLoginRequest,
        one(200, "TokenResponse", TokenResponse)
        @@ none(401)
        @@ one(422, "HTTPValidationError", HTTPValidationError))

ping ==
    get("/api/v1/ping",
        one(200, "PingResponse", PingResponse))

readiness ==
    get("/api/v1/health/ready",
        one(200, "ReadinessResponse", ReadinessResponse)
        @@ one(503, "ReadinessFailureResponse", ReadinessFailureResponse))

register ==
    post("/api/v1/auth/register", UserRegisterRequest,
        one(201, "UserResponse", UserResponse)
        @@ none(409)
        @@ none(422))

request_password_reset ==
    post("/api/v1/auth/request-reset", PasswordResetRequestPayload,
        one(202, "AuthMessageResponse", AuthMessageResponse)
        @@ one(422, "HTTPValidationError", HTTPValidationError))

resend_verification ==
    post("/api/v1/auth/resend-verification", ResendVerificationRequest,
        one(200, "AuthMessageResponse", AuthMessageResponse)
        @@ one(422, "HTTPValidationError", HTTPValidationError))

reset_password ==
    post("/api/v1/auth/reset", PasswordResetConfirmPayload,
        one(200, "AuthMessageResponse", AuthMessageResponse)
        @@ none(400)
        @@ none(422))

revoke_api_key ==
    delete("/api/v1/api-keys/{key_id}", string({"key_id"}),
        one(200, "ApiKeyRevokedResponse", ApiKeyRevokedResponse)
        @@ one(422, "HTTPValidationError", HTTPValidationError))

stream_investigation_events ==
    get_with("/api/v1/investigations/{investigation_id}/stream", uuid({"investigation_id"}),
        json(200)
        @@ none(403)
        @@ none(404)
        @@ one(422, "HTTPValidationError", HTTPValidationError)
        @@ none(503))

upsert_alert_rule ==
    post("/api/v1/admin/alert-rules", AlertRuleSchema,
        one(200, "AlertRuleResponse", AlertRuleResponse)
        @@ one(422, "HTTPValidationError", HTTPValidationError))

verify_email ==
    get_with("/api/v1/auth/verify-email", string({"token"}),
        one(200, "AuthMessageResponse", AuthMessageResponse)
        @@ none(400)
        @@ one(422, "HTTPValidationError", HTTPValidationError))

-----------------------------------------------------------------------------
(* A method: the generated call, the keyword arguments it constructs the body
   with, and what it returns when all is well. *)
method(api, kwargs, value) == [api |-> api, kwargs |-> kwargs, value |-> value]

InvestigationsClient_create ==
    method(create_investigation, {"query", "consent_public_research"},
           "InvestigationCreateResponse")

InvestigationsClient_get == method(get_investigation, {}, "InvestigationStatusResponse")

InvestigationsClient_get_trace ==
    method(get_investigation_trace, {}, "InvestigationTraceResponse")

(* Opened with httpx_sse on the same route, not with the generated call. *)
InvestigationsClient_stream == method(stream_investigation_events, {}, "StreamEvent")

AuthClient_login == method(login, {"username", "password"}, "TokenResponse")

AuthClient_register == method(register, {"email", "password", "full_name"}, "UserResponse")

AuthClient_create_api_key ==
    method(create_api_key, {"name", "expires_in_days"}, "ApiKeyCreatedResponse")

AuthClient_list_api_keys == method(list_api_keys, {}, "ApiKeyResponse")

AuthClient_revoke_api_key == method(revoke_api_key, {}, "None")

ResearchClient_list_patterns ==
    method(list_public_research_patterns, {}, "PatternFindingResponse")

ResearchClient_list_hazard_events ==
    method(list_public_hazard_events, {}, "HazardEventResponse")

ResearchClient_list_investigations ==
    method(list_public_research_investigations, {}, "ResearchInvestigationResponse")

GaiaClient_validate_server == method(liveness, {}, "LivenessResponse")

(* raise_for_status, at 400 and above. *)
raise_for_status(status) ==
    CASE status = 401 -> "AuthenticationError"
      [] status = 403 -> "PermissionDeniedError"
      [] status = 404 -> "NotFoundError"
      [] status = 429 -> "RateLimitError"
      [] status >= 500 -> "ServerError"
      [] OTHER -> "GaiaAPIError"

(* _check_version_compatibility. *)
check_version(sameMajor) == IF sameMajor THEN "LivenessResponse" ELSE "IncompatibleServerError"

(* How a method ends, given the answer: what it returns, or what it raises. *)
outcome(m, status, body, sameMajor) ==
    LET parsed == parse_response(m.api, status, body)
    IN  IF m.value = "StreamEvent"
        THEN IF status = 200 THEN "StreamEvent" ELSE "SSEError"
        ELSE IF parsed = "raises" THEN "KeyError"
        ELSE IF status >= 400 THEN raise_for_status(status)
        ELSE IF m.value = "LivenessResponse" THEN check_version(sameMajor)
        ELSE IF m.value \in {parsed, "None"} THEN m.value
        ELSE "GaiaAPIError"

-----------------------------------------------------------------------------
(* Requests. *)

(* What the caller's arguments are: only what must be given, everything, or
   everything with values the server does not admit. *)
Arguments == {"bare", "full", "out_of_range"}

value(field, args) ==
    CASE args = "out_of_range" -> OutOfRange
      [] args = "bare" /\ field.union -> Null
      [] OTHER -> scalar(field.json)

given(model, args) ==
    {n \in DOMAIN model : args # "bare" \/ ~model[n].optional}

written(model, names, args) == [n \in names |-> value(model[n], args)]

(* _get_kwargs and to_dict. *)
request(api, kwargs, params, args) ==
    [method |-> api.method, path |-> api.path,
     params |-> written(api.params, params, args),
     body |-> written(api.body, kwargs, args)]
=============================================================================
