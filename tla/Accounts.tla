------------------------------ MODULE Accounts ------------------------------
(***************************************************************************)
(* The account service: app/api/v1/auth.py and api_keys.py over            *)
(* db/repository.py's UserRepository, the two providers of the gateway's   *)
(* auth chain (auth/api_key_provider.py, auth/jwt_provider.py) and the     *)
(* bootstrap script tools/create_admin.py.                                 *)
(*                                                                         *)
(* Requests run concurrently.  A handler reads, awaits, and then writes: a *)
(* session writes back only the columns the handler assigned, so what      *)
(* another request wrote to the other columns meanwhile survives.  The     *)
(* password reset takes row locks (READ COMMITTED, SELECT FOR UPDATE).     *)
(***************************************************************************)
EXTENDS Integers, FiniteSets

CONSTANTS
    Emails, VerifyTokens, ResetTokens, Keys,
    Requests,       \* the requests in flight together
    OpSets,         \* the sets of endpoints a behaviour may use
    MaxResets,      \* how often a reset link is followed in a behaviour
    FirstUsers,     \* the accounts there may be at the start, as roles by email
    None

Roles == {"user", "researcher", "admin"}
Ops == {"register", "login", "verify_email", "resend_verification",
        "request_password_reset", "reset_password", "soft_delete_user", "create_admin",
        "get_me", "create_api_key", "revoke_api_key"}
Protected == {"get_me", "create_api_key", "revoke_api_key"}

ASSUME AccountsAssumption ==
    /\ None \notin Emails \cup VerifyTokens \cup ResetTokens \cup Keys \cup Roles
    /\ OpSets \subseteq SUBSET Ops
    /\ MaxResets \in Nat
    /\ \A u \in FirstUsers : \E E \in SUBSET Emails : u \in [E -> Roles]

VARIABLES
    ops,                                    \* the endpoints used in this behaviour
    users, active, verified, deleted,       \* the rows of users, and their flags
    role, vtok, vexpired,                   \* role; verification token, and if it expired
    sent,                                   \* verification tokens generated so far
    rowner, used, rexpired,                 \* password_reset_tokens: owner, used_at, expiry
    kowner, revoked,                        \* api_keys: owner and is_revoked
    jwt,                                    \* the users that hold an unexpired access token
    req,                                    \* the requests in flight
    resets,                                 \* reset links followed so far
    raised,                                 \* endpoints that ended in an unhandled exception
    dead                                    \* history: reset tokens that a committed reset
                                            \* promised to have invalidated

rows == <<users, active, verified, deleted, role, vtok, vexpired, sent>>
tokens == <<rowner, used, rexpired>>
keyRows == <<kowner, revoked>>
vars == <<ops, rows, tokens, keyRows, jwt, req, resets, raised, dead>>

Pc == {"idle", "write", "lock", "invalidate", "commit",
       "key", "owner", "touch", "jwt", "handler"}
Free == [op |-> "none", pc |-> "idle", e |-> None, tok |-> None, key |-> None,
         role |-> None, before |-> {}, doomed |-> {},
         late |-> FALSE]    \* history: the credential was void when the request arrived

TypeOK ==
    /\ ops \in OpSets
    /\ users \subseteq Emails
    /\ active \subseteq users /\ verified \subseteq users /\ deleted \subseteq users
    /\ role \in [Emails -> Roles \cup {None}] /\ \A e \in users : role[e] \in Roles
    /\ vtok \in [Emails -> VerifyTokens \cup {None}]
    /\ vexpired \subseteq Emails /\ sent \subseteq VerifyTokens
    /\ rowner \in [ResetTokens -> Emails \cup {None}]
    /\ used \subseteq ResetTokens /\ rexpired \subseteq ResetTokens
    /\ kowner \in [Keys -> Emails \cup {None}] /\ revoked \subseteq Keys
    /\ jwt \subseteq Emails
    /\ req \in [Requests -> [op : Ops \cup {"none"}, pc : Pc, e : Emails \cup {None},
                             tok : VerifyTokens \cup ResetTokens \cup {None},
                             key : Keys \cup {None}, role : Roles \cup {None},
                             before : SUBSET ResetTokens, doomed : SUBSET ResetTokens,
                             late : BOOLEAN]]
    /\ resets \in 0 .. MaxResets
    /\ raised \subseteq Ops
    /\ dead \subseteq ResetTokens

(* Accounts of the start are verified ones, without a key. *)
Init ==
    /\ ops \in OpSets
    /\ \E u \in FirstUsers :
          /\ users = DOMAIN u
          /\ role = [e \in Emails |-> IF e \in DOMAIN u THEN u[e] ELSE None]
    /\ active = users /\ verified = users /\ deleted = {}
    /\ vtok = [e \in Emails |-> None] /\ vexpired = {} /\ sent = {}
    /\ rowner = [t \in ResetTokens |-> None] /\ used = {} /\ rexpired = {}
    /\ kowner = [k \in Keys |-> None] /\ revoked = {}
    /\ jwt = {}
    /\ req = [r \in Requests |-> Free]
    /\ resets = 0 /\ raised = {} /\ dead = {}

-----------------------------------------------------------------------------
(* Requests: arrival, the answer, and an exception no handler catches (500). *)
Arrives(r, op) == op \in ops /\ req[r].pc = "idle"
At(r, op, pc) == req[r].op = op /\ req[r].pc = pc
Answer(r) == req' = [req EXCEPT ![r] = Free]
Raise(r) == Answer(r) /\ raised' = raised \cup {req[r].op}
GoOn(r, x) == req' = [req EXCEPT ![r] = x]

(* Bound: a request that will need a fresh token or key arrives only while
   there is one for it. *)
Writers(S) == {r \in Requests : req[r].op \in S /\ req[r].pc # "idle"}
SpareVerifyToken ==
    Cardinality(Writers({"register", "resend_verification"})) < Cardinality(VerifyTokens \ sent)
SpareResetToken ==
    Cardinality(Writers({"request_password_reset"}))
        < Cardinality({t \in ResetTokens : rowner[t] = None})
SpareKey ==
    Cardinality(Writers({"create_api_key"})) < Cardinality({k \in Keys : kowner[k] = None})

get_user_by_email(e) == e \in users \ deleted

(* create_user, and the verification token that register stores with the row. *)
InsertUser(e, as, isVerified, t) ==
    /\ users' = users \cup {e} /\ active' = active \cup {e}
    /\ verified' = IF isVerified THEN verified \cup {e} ELSE verified
    /\ role' = [role EXCEPT ![e] = as]
    /\ vtok' = [vtok EXCEPT ![e] = t]
    /\ sent' = IF t = None THEN sent ELSE sent \cup {t}
    /\ UNCHANGED <<deleted, vexpired>>

(* register: the password passes the policy and the email is free, or the
   request is refused (422, 409).  The row is written after an await: if it
   exists by then, deleted or not, the unique index makes create_user raise. *)
Register(r, e) ==
    /\ Arrives(r, "register") /\ SpareVerifyToken
    /\ \/ Answer(r)
       \/ ~get_user_by_email(e)
          /\ GoOn(r, [Free EXCEPT !.op = "register", !.pc = "write", !.e = e])
    /\ UNCHANGED <<ops, resets, rows, tokens, keyRows, jwt, raised, dead>>

RegisterInsert(r, t) ==
    /\ At(r, "register", "write") /\ t \notin sent
    /\ LET e == req[r].e IN
       IF e \in users
       THEN Raise(r) /\ UNCHANGED rows
       ELSE Answer(r) /\ UNCHANGED raised /\ InsertUser(e, "user", FALSE, t)
    /\ UNCHANGED <<ops, resets, tokens, keyRows, jwt, dead>>

(* login: wrong credentials, an inactive or an unverified account are refused.
   The access token is issued after update_last_login, whatever happened to
   the account meanwhile. *)
Login(r, e) ==
    /\ Arrives(r, "login")
    /\ \/ Answer(r)
       \/ /\ get_user_by_email(e) /\ e \in active \cap verified
          /\ GoOn(r, [Free EXCEPT !.op = "login", !.pc = "write", !.e = e])
    /\ UNCHANGED <<ops, resets, rows, tokens, keyRows, jwt, raised, dead>>

LoginIssue(r) ==
    /\ At(r, "login", "write")
    /\ jwt' = jwt \cup {req[r].e}
    /\ Answer(r)
    /\ UNCHANGED <<ops, resets, rows, tokens, keyRows, raised, dead>>

(* verify_email: the user with this token, not deleted, the token not expired. *)
VerifyEmail(r, t) ==
    /\ Arrives(r, "verify_email")
    /\ LET owners == {e \in users \ deleted : vtok[e] = t} IN
       IF owners \ vexpired = {}
       THEN Answer(r)
       ELSE \E e \in owners \ vexpired :
               GoOn(r, [Free EXCEPT !.op = "verify_email", !.pc = "write", !.e = e])
    /\ UNCHANGED <<ops, resets, rows, tokens, keyRows, jwt, raised, dead>>

VerifyWrite(r) ==
    /\ At(r, "verify_email", "write")
    /\ LET e == req[r].e IN
       /\ verified' = verified \cup {e}
       /\ vtok' = [vtok EXCEPT ![e] = None]
       /\ vexpired' = vexpired \ {e}
    /\ Answer(r)
    /\ UNCHANGED <<ops, resets, users, active, deleted, role, sent, tokens, keyRows, jwt,
                   raised, dead>>

(* resend_verification: answers 200 in any case. *)
ResendVerification(r, e) ==
    /\ Arrives(r, "resend_verification") /\ SpareVerifyToken
    /\ IF get_user_by_email(e) /\ e \in active \ verified
       THEN GoOn(r, [Free EXCEPT !.op = "resend_verification", !.pc = "write", !.e = e])
       ELSE Answer(r)
    /\ UNCHANGED <<ops, resets, rows, tokens, keyRows, jwt, raised, dead>>

(* Slip: the whole row is written back as it was read. *)
ResendWriteRow(r, t) ==
    /\ At(r, "resend_verification", "write") /\ t \notin sent
    /\ LET e == req[r].e IN
       /\ vtok' = [vtok EXCEPT ![e] = t]
       /\ vexpired' = vexpired \ {e}
       /\ verified' = verified \ {e}
    /\ sent' = sent \cup {t}
    /\ Answer(r)
    /\ UNCHANGED <<ops, resets, users, active, deleted, role, tokens, keyRows, jwt, raised, dead>>

(* update_verification_token assigns the token and its expiry, nothing else. *)
ResendWrite(r, t) ==
    /\ At(r, "resend_verification", "write") /\ t \notin sent
    /\ LET e == req[r].e IN
       /\ vtok' = [vtok EXCEPT ![e] = t]
       /\ vexpired' = vexpired \ {e}
    /\ sent' = sent \cup {t}
    /\ Answer(r)
    /\ UNCHANGED <<ops, resets, users, active, verified, deleted, role, tokens, keyRows, jwt,
                   raised, dead>>

(* UserRepository.soft_delete_user. *)
SoftDelete(r, e) ==
    /\ Arrives(r, "soft_delete_user")
    /\ IF get_user_by_email(e)
       THEN GoOn(r, [Free EXCEPT !.op = "soft_delete_user", !.pc = "write", !.e = e])
       ELSE Answer(r)
    /\ UNCHANGED <<ops, resets, rows, tokens, keyRows, jwt, raised, dead>>

SoftDeleteWrite(r) ==
    /\ At(r, "soft_delete_user", "write")
    /\ deleted' = deleted \cup {req[r].e} /\ active' = active \ {req[r].e}
    /\ Answer(r)
    /\ UNCHANGED <<ops, resets, users, verified, role, vtok, vexpired, sent, tokens, keyRows, jwt,
                   raised, dead>>

(* create_admin: promotes the account it found, or creates one. *)
CreateAdmin(r, e) ==
    /\ Arrives(r, "create_admin")
    /\ GoOn(r, [Free EXCEPT !.op = "create_admin", !.pc = "write", !.e = e,
                            !.role = IF get_user_by_email(e) THEN role[e] ELSE None])
    /\ UNCHANGED <<ops, resets, rows, tokens, keyRows, jwt, raised, dead>>

CreateAdminWrite(r) ==
    /\ At(r, "create_admin", "write")
    /\ LET e == req[r].e IN
       \/ /\ req[r].role # None
          /\ role' = [role EXCEPT ![e] = "admin"]
          /\ active' = active \cup {e} /\ verified' = verified \cup {e}
          /\ Answer(r)
          /\ UNCHANGED <<users, deleted, vtok, vexpired, sent, raised>>
       \/ /\ req[r].role = None /\ e \notin users
          /\ InsertUser(e, "admin", TRUE, None)
          /\ Answer(r) /\ UNCHANGED raised
       \/ /\ req[r].role = None /\ e \in users
          /\ Raise(r)
          /\ UNCHANGED rows
    /\ UNCHANGED <<ops, resets, tokens, keyRows, jwt, dead>>

-----------------------------------------------------------------------------
(* The password reset. *)
Open(e) == {t \in ResetTokens : rowner[t] = e /\ t \notin used}

(* request_password_reset answers 202 in any case; only an active account
   gets a token. *)
RequestReset(r, e) ==
    /\ Arrives(r, "request_password_reset") /\ SpareResetToken
    /\ IF get_user_by_email(e) /\ e \in active
       THEN GoOn(r, [Free EXCEPT !.op = "request_password_reset", !.pc = "write", !.e = e])
       ELSE Answer(r)
    /\ UNCHANGED <<ops, resets, rows, tokens, keyRows, jwt, raised, dead>>

RequestResetWrite(r, t) ==
    /\ At(r, "request_password_reset", "write") /\ rowner[t] = None
    /\ rowner' = [rowner EXCEPT ![t] = req[r].e]
    /\ Answer(r)
    /\ UNCHANGED <<ops, resets, rows, used, rexpired, keyRows, jwt, raised, dead>>

(* reset_password: refused for a weak password (422), or on to the locks. *)
ResetPassword(r, t) ==
    /\ Arrives(r, "reset_password") /\ rowner[t] # None
    /\ resets < MaxResets /\ resets' = resets + 1
    /\ \/ Answer(r)
       \/ GoOn(r, [Free EXCEPT !.op = "reset_password", !.pc = "lock", !.tok = t])
    /\ UNCHANGED <<ops, rows, tokens, keyRows, jwt, raised, dead>>

(* Slip: SELECT without FOR UPDATE: only the UPDATE locks. *)
HeldByUpdate(r) == IF req[r].pc = "commit" THEN req[r].doomed ELSE {}

(* The rows of password_reset_tokens a transaction holds. *)
Held(r) == IF req[r].pc \in {"invalidate", "commit"} THEN {req[r].tok} \cup req[r].doomed ELSE {}
LockedByOthers(r) == UNION {Held(s) : s \in Requests \ {r}}

(* SELECT ... FOR UPDATE waits for another transaction's lock and then looks
   at the row again; the user row is read without a lock.  400 otherwise.
   What is open from here on is what the reset promises to invalidate. *)
LockToken(r) ==
    /\ At(r, "reset_password", "lock") /\ req[r].tok \notin LockedByOthers(r)
    /\ LET t == req[r].tok
           e == rowner[t]
       IN  IF t \in used \cup rexpired \/ ~get_user_by_email(e) \/ e \notin active
           THEN Answer(r)
           ELSE GoOn(r, [req[r] EXCEPT !.pc = "invalidate", !.e = e,
                                       !.before = {s \in ResetTokens : rowner[s] = e}])
    /\ UNCHANGED <<ops, resets, rows, tokens, keyRows, jwt, raised, dead>>

(* Slip: the UPDATE runs in a session of its own, and waits for the row that
   this request has locked itself. *)
InvalidateElsewhere(r) ==
    /\ At(r, "reset_password", "invalidate")
    /\ Open(req[r].e) \cap (LockedByOthers(r) \cup Held(r)) = {}
    /\ GoOn(r, [req[r] EXCEPT !.pc = "commit", !.doomed = Open(req[r].e)])
    /\ UNCHANGED <<ops, resets, rows, tokens, keyRows, jwt, raised, dead>>

(* UPDATE password_reset_tokens: waits for every open token of the user. *)
Invalidate(r) ==
    /\ At(r, "reset_password", "invalidate")
    /\ Open(req[r].e) \cap LockedByOthers(r) = {}
    /\ GoOn(r, [req[r] EXCEPT !.pc = "commit", !.doomed = Open(req[r].e)])
    /\ UNCHANGED <<ops, resets, rows, tokens, keyRows, jwt, raised, dead>>

CommitReset(r) ==
    /\ At(r, "reset_password", "commit")
    /\ used' = used \cup req[r].doomed
    /\ dead' = dead \cup req[r].before
    /\ Answer(r)
    /\ UNCHANGED <<ops, resets, rows, rowner, rexpired, keyRows, jwt, raised>>

(* Two resets of one account through two tokens each hold one row and want
   the other's: PostgreSQL aborts one of them, and the handler raises. *)
Deadlocked(r, s) ==
    /\ At(r, "reset_password", "invalidate") /\ At(s, "reset_password", "invalidate")
    /\ r # s /\ req[r].tok \in Open(req[s].e) /\ req[s].tok \in Open(req[r].e)

DeadlockAbort(r) ==
    /\ \E s \in Requests : Deadlocked(r, s)
    /\ Raise(r)
    /\ UNCHANGED <<ops, resets, rows, tokens, keyRows, jwt, dead>>

-----------------------------------------------------------------------------
(* The auth chain.  A request to a protected endpoint arrives with an API key
   (then the JWT is not looked at) or with an access token.  What it is checked
   against is read after awaits, while others revoke, close and promote. *)
WithKey(r, op, k) ==
    /\ Arrives(r, op) /\ kowner[k] # None /\ (op = "create_api_key" => SpareKey)
    /\ GoOn(r, [Free EXCEPT !.op = op, !.pc = "key", !.key = k,
                            !.late = k \in revoked \/ kowner[k] \in deleted])
    /\ UNCHANGED <<ops, resets, rows, tokens, keyRows, jwt, raised, dead>>

WithJwt(r, op, e) ==
    /\ Arrives(r, op) /\ (op = "create_api_key" => SpareKey)
    /\ GoOn(r, [Free EXCEPT !.op = op, !.pc = "jwt", !.e = e, !.late = e \in deleted])
    /\ UNCHANGED <<ops, resets, rows, tokens, keyRows, jwt, raised, dead>>

(* ApiKeyAuthProvider reads the key's row: 401 if the key is revoked. *)
ReadKey(r) ==
    /\ req[r].pc = "key"
    /\ IF req[r].key \in revoked
       THEN Answer(r)
       ELSE GoOn(r, [req[r] EXCEPT !.pc = "owner", !.e = kowner[req[r].key]])
    /\ UNCHANGED <<ops, resets, rows, tokens, keyRows, jwt, raised, dead>>

(* Slip: only the flag is looked at, which create_admin sets again. *)
owner_admits_flag(e) == e \in active

(* The owner's row, read in a second query; the key's row is not read again. *)
owner_admits(e) == e \in active \ deleted

(* get_current_active_user looks at the user as it was read here (sessions do
   not expire what they loaded): 401 for an unverified one. *)
ReadOwner(r) ==
    /\ req[r].pc = "owner"
    /\ LET e == req[r].e IN
       IF owner_admits(e) /\ e \in verified
       THEN GoOn(r, [req[r] EXCEPT !.pc = "touch", !.role = role[e]])
       ELSE Answer(r)
    /\ UNCHANGED <<ops, resets, rows, tokens, keyRows, jwt, raised, dead>>

(* The use of the key is recorded (last_used_at) and committed. *)
TouchKey(r) ==
    /\ req[r].pc = "touch"
    /\ GoOn(r, [req[r] EXCEPT !.pc = "handler", !.key = None])
    /\ UNCHANGED <<ops, resets, rows, tokens, keyRows, jwt, raised, dead>>

(* JWTAuthProvider: an unexpired token of a live, active, verified user. *)
jwt_admits(e) == e \in jwt /\ get_user_by_email(e) /\ e \in active \cap verified

ReadJwt(r) ==
    /\ req[r].pc = "jwt"
    /\ LET e == req[r].e IN
       IF jwt_admits(e)
       THEN GoOn(r, [req[r] EXCEPT !.pc = "handler", !.role = role[e]])
       ELSE Answer(r)
    /\ UNCHANGED <<ops, resets, rows, tokens, keyRows, jwt, raised, dead>>

(* GET /auth/me and GET /api-keys only read. *)
GetMe(r) ==
    /\ At(r, "get_me", "handler")
    /\ Answer(r)
    /\ UNCHANGED <<ops, resets, rows, tokens, keyRows, jwt, raised, dead>>

RequireRole(r, allowed) == req[r].role \in allowed \cup {"admin"}

CreateKey(r, k) ==
    /\ At(r, "create_api_key", "handler") /\ kowner[k] = None
    /\ IF RequireRole(r, {"researcher", "admin"})
       THEN kowner' = [kowner EXCEPT ![k] = req[r].e]
       ELSE UNCHANGED kowner
    /\ Answer(r)
    /\ UNCHANGED <<ops, resets, rows, tokens, revoked, jwt, raised, dead>>

check_owner_or_role(r, owner) == req[r].role = "admin" \/ owner = req[r].e

RevokeKey(r, k) ==
    /\ At(r, "revoke_api_key", "handler")
    /\ IF kowner[k] # None /\ check_owner_or_role(r, kowner[k])
       THEN revoked' = revoked \cup {k}
       ELSE UNCHANGED revoked
    /\ Answer(r)
    /\ UNCHANGED <<ops, resets, rows, tokens, kowner, jwt, raised, dead>>

(* Time passes: a verification token, a reset token or an access token expires. *)
Expire ==
    \/ /\ \E e \in Emails : vtok[e] # None /\ vexpired' = vexpired \cup {e}
       /\ UNCHANGED <<rexpired, jwt>>
    \/ /\ \E t \in ResetTokens : rowner[t] # None /\ rexpired' = rexpired \cup {t}
       /\ UNCHANGED <<vexpired, jwt>>
    \/ /\ \E e \in jwt : jwt' = jwt \ {e}
       /\ UNCHANGED <<vexpired, rexpired>>

TimePasses ==
    /\ Expire
    /\ UNCHANGED <<ops, resets, users, active, verified, deleted, role, vtok, sent, rowner, used,
                   keyRows, req, raised, dead>>

-----------------------------------------------------------------------------
Arrival(r) ==
    \/ \E e \in Emails : \/ Register(r, e) \/ Login(r, e) \/ ResendVerification(r, e)
                         \/ SoftDelete(r, e) \/ CreateAdmin(r, e) \/ RequestReset(r, e)
                         \/ \E op \in Protected : WithJwt(r, op, e)
    \/ \E t \in VerifyTokens : VerifyEmail(r, t)
    \/ \E t \in ResetTokens : ResetPassword(r, t)
    \/ \E k \in Keys, op \in Protected : WithKey(r, op, k)

Handler(r) ==
    \/ \E t \in VerifyTokens : RegisterInsert(r, t) \/ ResendWrite(r, t)
    \/ LoginIssue(r) \/ VerifyWrite(r) \/ SoftDeleteWrite(r) \/ CreateAdminWrite(r)
    \/ \E t \in ResetTokens : RequestResetWrite(r, t)
    \/ LockToken(r) \/ Invalidate(r) \/ CommitReset(r)
    \/ ReadKey(r) \/ ReadOwner(r) \/ TouchKey(r) \/ ReadJwt(r) \/ GetMe(r)
    \/ \E k \in Keys : CreateKey(r, k) \/ RevokeKey(r, k)

Next == (\E r \in Requests : Arrival(r) \/ Handler(r) \/ DeadlockAbort(r)) \/ TimePasses

Spec == Init /\ [][Next]_vars

(* A coroutine that can go on is scheduled again, and PostgreSQL's deadlock
   detector runs. *)
FairSpec ==
    /\ Spec
    /\ \A r \in Requests : WF_vars(Handler(r))
    /\ WF_vars(\E r \in Requests : DeadlockAbort(r))

-----------------------------------------------------------------------------
(* "ensuring previously requested links cannot be replayed" (docs/phase4/
   auth_security_review.md): a reset that gets as far as its commit came
   through a link that no earlier reset of the account had invalidated, even
   if both were under way together. *)
SpentLinksStaySpent ==
    \A r \in Requests : At(r, "reset_password", "commit") => req[r].tok \notin dead

(* Every request is answered: the locks of concurrent resets never leave one
   waiting for ever. *)
Answered == \A r \in Requests : req[r].pc # "idle" ~> req[r].pc = "idle"

(* A request that arrives after its key was revoked or its account closed is
   never served, whichever credential is presented, whatever a create_admin or
   a login that was under way writes after the deletion, and although the key
   and its owner are read at different times.  So what is served could have
   been served, whole, at the moment it arrived. *)
ClosedIsClosed ==
    \A r \in Requests : req[r].pc \in {"touch", "handler"} => ~req[r].late

stage == [e \in Emails |-> CASE e \notin users -> "absent"
                             [] e \in deleted -> "closed"
                             [] e \in verified \ deleted -> "verified"
                             [] OTHER -> "unverified"]
link == [t \in ResetTokens |-> CASE rowner[t] = None -> "unsent"
                                 [] t \in used -> "spent"
                                 [] OTHER -> "open"]
key == [k \in Keys |-> CASE kowner[k] = None -> "unissued"
                         [] k \in revoked -> "revoked"
                         [] OTHER -> "live"]
Lifecycle == INSTANCE AccountLifecycle

(* Whatever requests overlap, accounts, keys and reset links only move
   forward: no request writes back a flag that another one changed after it
   was read. *)
NothingIsUndone == Lifecycle!Spec
=============================================================================
