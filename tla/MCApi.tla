-------------------------------- MODULE MCApi -------------------------------
(* Instances of ApiClient. *)
EXTENDS ApiClient

MCClients == {"c1", "c2"}

MCAccounts == {"alice", "root"}

roles(r) == [alice |-> r, root |-> "ADMIN"]

key(i) == [key |-> i, bearer |-> Nobody]

bearer(a) == [key |-> 0, bearer |-> a]

(* One caller makes every call there is: of investigations of its own, of
   another's, of nobody's and of none. *)
Contract(r, cred) ==
    [ops |-> [c1 |-> Operations, c2 |-> {}], ids |-> [c1 |-> 1 .. 4, c2 |-> {}],
     args |-> Sdk!Arguments,
     cred |-> [c1 |-> cred, c2 |-> bearer(Nobody)], role |-> roles(r),
     investigations |-> <<"alice", "root", Nobody>>,
     keys |-> <<[owner |-> "alice", revoked |-> FALSE], [owner |-> "root", revoked |-> FALSE]>>,
     research |-> cred # bearer(Nobody), throttle |-> r = "USER", sameMajor |-> r # "USER",
     events |-> IF cred.bearer = "alice" THEN {"redis"} ELSE {}]

(* Two callers: one works with its key or token, the other revokes the key,
   while accounts are closed and tokens expire. *)
Revocation(cred, revoker) ==
    [ops |-> [c1 |-> {"create", "get", "get_trace", "list_api_keys", "get_me",
                      "create_api_key_generated"},
              c2 |-> {"revoke_api_key"}],
     ids |-> [c1 |-> 1 .. 1, c2 |-> 1 .. 1], args |-> {"bare"},
     cred |-> [c1 |-> cred, c2 |-> bearer(revoker)], role |-> roles("RESEARCHER"),
     investigations |-> <<>>, keys |-> <<[owner |-> "alice", revoked |-> FALSE]>>,
     research |-> TRUE, throttle |-> FALSE, sameMajor |-> TRUE,
     events |-> {"closing", "expiry"}]

MCScenarios ==
    {Contract(r, cred) : r \in {"USER", "RESEARCHER"}, cred \in {key(1), bearer("alice")}}
    \cup {Contract("RESEARCHER", bearer(a)) : a \in {"root", Nobody}}
    \cup {Revocation(key(1), a) : a \in MCAccounts}
    \cup {Revocation(bearer("alice"), "root")}
=============================================================================
