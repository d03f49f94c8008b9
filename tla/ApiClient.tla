----------------------------- MODULE ApiClient ------------------------------
(***************************************************************************)
(* Callers of the Python SDK against the API of ApiServer: every method of *)
(* GaiaClient and every generated call, built, sent, authenticated,        *)
(* handled, parsed and turned into a value or an exception, while keys are *)
(* revoked, tokens expire, accounts are closed and Redis comes and goes.   *)
(***************************************************************************)
EXTENDS ApiServer, Sequences, FiniteSets

CONSTANTS
    Clients,        \* the callers
    Accounts,       \* the accounts they may act for
    MaxNew,         \* investigations, and keys, created in a behaviour
    Scenarios       \* who calls what, with which credentials, in which surroundings

Sdk == INSTANCE SdkClient

(* The methods of the client. *)
Methods ==
    [create |-> Sdk!InvestigationsClient_create,
     get |-> Sdk!InvestigationsClient_get,
     get_trace |-> Sdk!InvestigationsClient_get_trace,
     stream |-> Sdk!InvestigationsClient_stream,
     login |-> Sdk!AuthClient_login,
     register |-> Sdk!AuthClient_register,
     create_api_key |-> Sdk!AuthClient_create_api_key,
     list_api_keys |-> Sdk!AuthClient_list_api_keys,
     revoke_api_key |-> Sdk!AuthClient_revoke_api_key,
     list_patterns |-> Sdk!ResearchClient_list_patterns,
     list_hazard_events |-> Sdk!ResearchClient_list_hazard_events,
     list_investigations |-> Sdk!ResearchClient_list_investigations,
     validate_server |-> Sdk!GaiaClient_validate_server]

(* The generated calls without a method of their own, and those whose method
   cannot be used. *)
Generated ==
    [create_api_key_generated |-> Sdk!create_api_key,
     delete_alert_rule |-> Sdk!delete_alert_rule,
     get_admin_metrics |-> Sdk!get_admin_metrics,
     get_me |-> Sdk!get_me,
     get_prometheus_metrics |-> Sdk!get_prometheus_metrics,
     list_alert_incidents |-> Sdk!list_alert_incidents,
     list_alert_rules |-> Sdk!list_alert_rules,
     list_backups |-> Sdk!list_backups,
     list_restore_drills |-> Sdk!list_restore_drills,
     list_public_hazard_events |-> Sdk!list_public_hazard_events,
     list_public_research_investigations |-> Sdk!list_public_research_investigations,
     list_public_research_patterns |-> Sdk!list_public_research_patterns,
     login_generated |-> Sdk!login,
     ping |-> Sdk!ping,
     read_root |-> Sdk!read_root,
     readiness |-> Sdk!readiness,
     request_password_reset |-> Sdk!request_password_reset,
     resend_verification |-> Sdk!resend_verification,
     reset_password |-> Sdk!reset_password,
     upsert_alert_rule |-> Sdk!upsert_alert_rule,
     verify_email |-> Sdk!verify_email]

Operations == DOMAIN Methods \cup DOMAIN Generated

api(op) == IF op \in DOMAIN Methods THEN Methods[op].api ELSE Generated[op]

VARIABLES
    scenario,       \* the scenario of this behaviour
    told            \* history: per client, the investigations it was told are accepted

vars == <<rows, world, call, unread, scenario, told>>

MaxInvestigations == Len(scenario.investigations) + MaxNew

MaxKeys == Len(scenario.keys) + MaxNew

NoRequest == [method |-> "none", path |-> "none", params |-> no_fields, body |-> no_fields]

NoReply == [status |-> 0, model |-> "none", body |-> Null]

Idle(cred) ==
    [phase |-> "idle", op |-> "none", args |-> "none", id |-> 0, cred |-> cred,
     request |-> NoRequest, user |-> Nobody, key_error |-> FALSE,
     reply |-> NoReply]

TypeOK ==
    /\ investigations \in Seq(Accounts \cup {Nobody})
    /\ keys \in Seq([owner : Accounts, revoked : BOOLEAN])
    /\ Len(investigations) <= MaxInvestigations /\ Len(keys) <= MaxKeys
    /\ account \in [Accounts -> [role : {"USER", "RESEARCHER", "ADMIN"}, active : BOOLEAN]]
    /\ jwt \in [Accounts -> BOOLEAN]
    /\ {redis, research, throttle} \subseteq BOOLEAN
    /\ told \in [Clients -> SUBSET DOMAIN investigations]
    /\ \A c \in Clients : unread[c] \subseteq DOMAIN req(c).params
    /\ \A c \in Clients :
          /\ call[c].phase \in {"idle", "raised", "sent", "routed", "answered"}
          /\ call[c].op \in Operations \cup {"none"}
          /\ call[c].user \in Accounts \cup {Nobody}
          /\ call[c].reply.status \in {0, 200, 201, 202, 400, 401, 403, 404, 409, 422, 500, 503}
          /\ call[c].phase = "answered" => call[c].reply.status # 0

Init ==
    \E s \in Scenarios :
        /\ scenario = s
        /\ investigations = s.investigations
        /\ keys = s.keys
        /\ account = [a \in Accounts |-> [role |-> s.role[a], active |-> TRUE]]
        /\ jwt = [a \in Accounts |-> TRUE]
        /\ redis = TRUE
        /\ research = s.research
        /\ throttle = s.throttle
        /\ call = [c \in Clients |-> Idle(s.cred[c])]
        /\ unread = [c \in Clients |-> {}]
        /\ told = [c \in Clients |-> {}]

-----------------------------------------------------------------------------
(* The caller. *)

Kwargs(op, args) ==
    IF op \in DOMAIN Methods THEN Methods[op].kwargs ELSE Sdk!given(Generated[op].body, args)

Params(op, args) ==
    Sdk!given(api(op).params, IF op \in DOMAIN Methods THEN "bare" ELSE args)

(* The route names a row. *)
Names(op) == DOMAIN api(op).params \cap {"investigation_id", "key_id", "rule_id"} # {}

(* The bound MaxNew: there is room for the row that a call may create. *)
Room(op) ==
    LET pending == Cardinality({c \in Clients :
                       call[c].op = op /\ call[c].phase \in {"sent", "routed"}})
    IN  /\ op = "create" => Len(investigations) + pending < MaxInvestigations
        /\ op = "create_api_key_generated" => Len(keys) + pending < MaxKeys

(* A call is made; one whose body cannot be constructed never leaves. *)
Send(c, op, args, id) ==
    /\ call[c].phase = "idle"
    /\ op \in scenario.ops[c] /\ Room(op)
    /\ id \in (IF Names(op) THEN scenario.ids[c] ELSE {0})
    /\ args # "bare" => DOMAIN api(op).params \cup DOMAIN api(op).body # {}
    /\ IF ~Sdk!constructs(api(op).body, Kwargs(op, args))
       THEN call' = [call EXCEPT ![c] =
                [Idle(@.cred) EXCEPT !.phase = "raised", !.op = op, !.args = args]]
       ELSE call' = [call EXCEPT ![c] =
                [Idle(@.cred) EXCEPT
                    !.phase = "sent", !.op = op, !.args = args, !.id = id,
                    !.request = Sdk!request(api(op), Kwargs(op, args), Params(op, args), args)]]
    /\ unread' = [unread EXCEPT ![c] = {}]
    /\ UNCHANGED <<rows, world, scenario, told>>

(* How the call in hand ends, once it is answered. *)
Outcome(c) ==
    LET r == call[c].reply
        op == call[c].op
    IN  IF op \in DOMAIN Methods
        THEN Sdk!outcome(Methods[op], r.status, r.body, scenario.sameMajor)
        ELSE Sdk!parse_response(Generated[op], r.status, r.body)

(* The answer arrives, or is lost on the way. *)
Receive(c) ==
    /\ call[c].phase \in {"answered", "raised"}
    /\ call' = [call EXCEPT ![c] = Idle(@.cred)]
    /\ \/ IF call[c].phase = "answered" /\ Outcome(c) = "InvestigationCreateResponse"
          THEN told' = [told EXCEPT ![c] = @ \cup {call[c].id}]
          ELSE UNCHANGED told
       \/ UNCHANGED told
    /\ UNCHANGED <<rows, world, unread, scenario>>

Serve(c) == (dispatch(c) \/ Handle(c)) /\ UNCHANGED <<scenario, told>>

-----------------------------------------------------------------------------
(* The surroundings. *)

TokenExpires(a) ==
    /\ "expiry" \in scenario.events /\ jwt[a]
    /\ jwt' = [jwt EXCEPT ![a] = FALSE]
    /\ UNCHANGED <<rows, account, redis, research, throttle, call, unread, scenario, told>>

AccountCloses(a) ==
    /\ "closing" \in scenario.events /\ account[a].active
    /\ account' = [account EXCEPT ![a].active = FALSE]
    /\ UNCHANGED <<rows, jwt, redis, research, throttle, call, unread, scenario, told>>

RedisFlips ==
    /\ "redis" \in scenario.events
    /\ redis' = ~redis
    /\ UNCHANGED <<rows, account, jwt, research, throttle, call, unread, scenario, told>>

Next ==
    \/ \E c \in Clients :
          \/ \E op \in Operations, args \in scenario.args, id \in {0} \cup scenario.ids[c] :
                Send(c, op, args, id)
          \/ Serve(c)
          \/ Receive(c)
    \/ \E a \in Accounts : TokenExpires(a) \/ AccountCloses(a)
    \/ RedisFlips

Spec == Init /\ [][Next]_vars

-----------------------------------------------------------------------------
Answered(c) == call[c].phase = "answered"

Status(c) == call[c].reply.status

(* The generated code knows the status and reads the body as the model the
   handler wrote, converting every field that its model converts. *)
ReadAsWritten(c) ==
    LET parse == api(call[c].op).parse
    IN  /\ Status(c) \in DOMAIN parse
        /\ parse[Status(c)].name = call[c].reply.model
        /\ Sdk!Parses(parse[Status(c)], call[c].reply.body, TRUE)

(* Whatever a handler answers below 400, with every optional field set or
   unset and every list empty or not, the SDK's call returns as the model the
   handler wrote. *)
AnswersAreUnderstood ==
    \A c \in Clients :
        Answered(c) /\ Status(c) < 400 =>
            /\ call[c].reply.body.json # "not_json" => ReadAsWritten(c)
            /\ call[c].op \in DOMAIN Methods =>
                   Outcome(c) = IF call[c].op = "validate_server" /\ ~scenario.sameMajor
                                THEN "IncompatibleServerError" ELSE Methods[call[c].op].value

(* Arguments in range are never refused by the validation of the request, and
   every parameter that is sent is one the route reads. *)
RequestsAreUnderstood ==
    \A c \in Clients :
        Answered(c) /\ call[c].args # "out_of_range" =>
            /\ unread[c] = {}
            /\ Status(c) = 422 => call[c].reply.body.in["detail"].json # "array"

(* The handlers and the generated code speak the same language, over every
   route: the parameters, the request models and the answer models of the one
   are those of the other, field by field, whatever optional is left out. *)
SdkMatchesServer == AnswersAreUnderstood /\ RequestsAreUnderstood

(* What the exception classes say they are raised on (exceptions.py). *)
DocumentedError(status) ==
    CASE status = 401 -> "AuthenticationError"
      [] status = 404 -> "NotFoundError"
      [] status \in 500 .. 599 -> "ServerError"
      [] OTHER -> "GaiaAPIError"

(* An error answer reaches the caller of a client method as the exception its
   status documents, never as an exception of the parser, although the body is
   parsed before the status is looked at.  (403 is left out: its body cannot be
   parsed as the model that get and get_trace expect.  So is the event stream,
   which is opened without the generated code.) *)
ErrorsAreTyped ==
    \A c \in Clients :
        /\ Answered(c) /\ Status(c) >= 400 /\ Status(c) # 403
        /\ call[c].op \in DOMAIN Methods \ {"stream"}
        => Outcome(c) = DocumentedError(Status(c))

(* A caller who was told that an investigation is accepted is never told, by
   get or get_trace with the same credentials, that it does not exist or is
   someone else's: not when its key is revoked or its account closed between
   the two, nor while others create and revoke. *)
CreatorCanRead ==
    \A c \in Clients :
        Answered(c) /\ call[c].op \in {"get", "get_trace"} /\ call[c].id \in told[c]
        => Status(c) \notin {403, 404}

=============================================================================
