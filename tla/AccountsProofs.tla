--------------------------- MODULE AccountsProofs ---------------------------
(***************************************************************************)
(* What holds of Accounts for any number of accounts, tokens, keys and     *)
(* requests under way together, and for any choice of endpoints.           *)
(***************************************************************************)
EXTENDS Accounts, TLAPS

Request ==
    [op : Ops \cup {"none"}, pc : Pc, e : Emails \cup {None},
     tok : VerifyTokens \cup ResetTokens \cup {None},
     key : Keys \cup {None}, role : Roles \cup {None},
     before : SUBSET ResetTokens, doomed : SUBSET ResetTokens, late : BOOLEAN]

RowsOK ==
    /\ users \subseteq Emails
    /\ active \subseteq users /\ verified \subseteq users /\ deleted \subseteq users
    /\ role \in [Emails -> Roles \cup {None}] /\ \A e \in users : role[e] \in Roles
    /\ vtok \in [Emails -> VerifyTokens \cup {None}]
    /\ vexpired \subseteq Emails /\ sent \subseteq VerifyTokens

\* A link that is spent was sent, and a reset promised no more than it spent.
TokensOK ==
    /\ rowner \in [ResetTokens -> Emails \cup {None}]
    /\ used \subseteq ResetTokens /\ rexpired \subseteq ResetTokens
    /\ \A t \in used : rowner[t] # None
    /\ dead \subseteq used

KeysOK ==
    /\ kowner \in [Keys -> Emails \cup {None}] /\ revoked \subseteq Keys
    /\ \A k \in revoked : kowner[k] # None

RestOK ==
    /\ ops \in OpSets /\ jwt \subseteq Emails /\ resets \in 0 .. MaxResets
    /\ raised \subseteq Ops

\* What a handler may rely on between two of its steps, whatever the others did:
\* us are the users, ow the owners of the reset tokens and sp the spent ones.
ReqInv(x, us, ow, sp) ==
    /\ x.pc = "write" => x.e \in Emails
    /\ x.pc = "write" /\ x.op \notin {"register", "create_admin"} => x.e \in us
    /\ x.pc = "write" /\ x.op = "create_admin" /\ x.role # None => x.e \in us
    /\ x.pc = "key" => x.key \in Keys
    /\ x.pc \in {"touch", "handler"} => x.e \in Emails
    /\ x.pc \in {"lock", "invalidate", "commit"} =>
          /\ x.op = "reset_password"
          /\ x.tok \in ResetTokens /\ ow[x.tok] # None
    /\ x.pc \in {"lock", "invalidate"} => x.doomed = {}
    /\ x.pc = "invalidate" => x.e \in Emails /\ \A t \in x.before : ow[t] = x.e
    /\ x.pc = "commit" => /\ x.before \subseteq sp \cup x.doomed
                          /\ \A t \in x.doomed : ow[t] # None
    /\ x.op \in Ops \/ x.pc = "idle"

HeldBy(x) == IF x.pc \in {"invalidate", "commit"} THEN {x.tok} \cup x.doomed ELSE {}

\* The row locks: no token is held twice, and none that is held is spent.
LocksOK ==
    /\ \A r, s \in Requests : r # s => HeldBy(req[r]) \cap HeldBy(req[s]) = {}
    /\ \A r \in Requests : HeldBy(req[r]) \cap used = {}

ReqsOK ==
    /\ req \in [Requests -> Request]
    /\ \A r \in Requests : ReqInv(req[r], users, rowner, used)

IInv == RowsOK /\ TokensOK /\ KeysOK /\ RestOK /\ ReqsOK /\ LocksOK

LEMMA FreeOK ==
    ASSUME NEW us, NEW ow, NEW sp
    PROVE  Free \in Request /\ ReqInv(Free, us, ow, sp) /\ HeldBy(Free) = {}
BY DEF Free, Request, Pc, ReqInv, HeldBy

LEMMA InitIInv == Init => IInv
<1> SUFFICES ASSUME Init PROVE IInv
  OBVIOUS
<1>1. RowsOK
  <2>1. PICK u \in FirstUsers :
           /\ users = DOMAIN u
           /\ role = [e \in Emails |-> IF e \in DOMAIN u THEN u[e] ELSE None]
    BY DEF Init
  <2>2. PICK E \in SUBSET Emails : u \in [E -> Roles]
    BY <2>1, AccountsAssumption
  <2> QED
    BY <2>1, <2>2 DEF Init, RowsOK
<1>2. TokensOK /\ KeysOK
  BY DEF Init, TokensOK, KeysOK
<1>3. RestOK
  BY AccountsAssumption DEF Init, RestOK
<1>4. ReqsOK /\ LocksOK
  BY FreeOK DEF Init, ReqsOK, LocksOK
<1> QED
  BY <1>1, <1>2, <1>3, <1>4 DEF IInv

\* Others only add users, owners of new tokens, and spent tokens.
LEMMA ReqInvKept ==
    ASSUME NEW x \in Request, NEW us, NEW ow, NEW sp, NEW us2, NEW ow2, NEW sp2,
           ReqInv(x, us, ow, sp), us \subseteq us2, sp \subseteq sp2,
           \A t \in ResetTokens : ow[t] # None => ow2[t] = ow[t]
    PROVE  ReqInv(x, us2, ow2, sp2)
<1>1. \A t \in x.before \cup x.doomed : t \in ResetTokens
  BY DEF Request
<1>2. x.pc = "invalidate" => \A t \in x.before : ow[t] # None
  BY AccountsAssumption DEF ReqInv
<1> QED
  BY <1>1, <1>2 DEF ReqInv

\* A step of request r that takes or keeps no lock and spends no token.
LEMMA PlainStep ==
    ASSUME IInv, NEW r \in Requests, NEW x \in Request,
           req' = [req EXCEPT ![r] = x],
           ReqInv(x, users', rowner', used'), HeldBy(x) = {},
           used' = used, users \subseteq users',
           \A t \in ResetTokens : rowner[t] # None => rowner'[t] = rowner[t]
    PROVE  ReqsOK' /\ LocksOK'
<1>1. ASSUME NEW s \in Requests, s # r
      PROVE  req'[s] = req[s] /\ ReqInv(req'[s], users', rowner', used')
  <2>1. req'[s] = req[s] /\ req[s] \in Request /\ ReqInv(req[s], users, rowner, used)
    BY <1>1 DEF IInv, ReqsOK
  <2> QED
    BY <2>1, ReqInvKept
<1>2. req'[r] = x
  BY DEF IInv, ReqsOK
<1>3. ReqsOK'
  BY <1>1, <1>2 DEF IInv, ReqsOK
<1>4. LocksOK'
  BY <1>1, <1>2 DEF IInv, LocksOK
<1> QED
  BY <1>3, <1>4

\* A request arrives: it is answered at once, or its first step is done.
LEMMA ArrivalInv ==
    ASSUME IInv, NEW r \in Requests, Arrival(r)
    PROVE  IInv'
<1> DEFINE Same == UNCHANGED <<ops, rows, tokens, keyRows, jwt, raised, dead>>
<1>1. ASSUME NEW x \in Request, GoOn(r, x), Same, resets' \in 0 .. MaxResets,
             ReqInv(x, users, rowner, used), HeldBy(x) = {}
      PROVE  IInv'
  <2>1. ReqsOK' /\ LocksOK'
    BY <1>1, PlainStep, Zenon DEF GoOn, rows, tokens
  <2>2. RowsOK' /\ TokensOK'
    BY <1>1 DEF IInv, RowsOK, TokensOK, rows, tokens
  <2>3. KeysOK' /\ RestOK'
    BY <1>1 DEF IInv, KeysOK, RestOK, keyRows
  <2> QED
    BY <2>1, <2>2, <2>3 DEF IInv
<1>2. ASSUME Answer(r), Same, resets' \in 0 .. MaxResets
      PROVE  IInv'
  BY <1>1, <1>2, FreeOK, Zenon DEF Answer, GoOn
<1>3. resets \in 0 .. MaxResets /\ users \subseteq Emails
  BY DEF IInv, RestOK, RowsOK
<1>4. ASSUME NEW op \in Ops, NEW e \in Emails,
             op \in {"register", "create_admin"} \/ e \in users,
             GoOn(r, [Free EXCEPT !.op = op, !.pc = "write", !.e = e]),
             Same, resets' = resets
      PROVE  IInv'
  <2> DEFINE x == [Free EXCEPT !.op = op, !.pc = "write", !.e = e]
  <2>1. x \in Request /\ ReqInv(x, users, rowner, used) /\ HeldBy(x) = {}
    BY <1>4, Zenon DEF Free, Request, Pc, ReqInv, HeldBy
  <2> QED
    BY <1>1, <1>3, <1>4, <2>1
<1>5. ASSUME NEW e \in Emails, Register(r, e) PROVE IInv'
  BY <1>2, <1>3, <1>4, <1>5, Zenon DEF Register, Ops
<1>6. ASSUME NEW e \in Emails, Login(r, e) PROVE IInv'
  BY <1>2, <1>3, <1>4, <1>6, Zenon DEF Login, Ops, get_user_by_email
<1>7. ASSUME NEW e \in Emails, ResendVerification(r, e) PROVE IInv'
  BY <1>2, <1>3, <1>4, <1>7, Zenon DEF ResendVerification, Ops, get_user_by_email
<1>8. ASSUME NEW e \in Emails, SoftDelete(r, e) PROVE IInv'
  BY <1>2, <1>3, <1>4, <1>8, Zenon DEF SoftDelete, Ops, get_user_by_email
<1>9. ASSUME NEW e \in Emails, RequestReset(r, e) PROVE IInv'
  BY <1>2, <1>3, <1>4, <1>9, Zenon DEF RequestReset, Ops, get_user_by_email
<1>10. ASSUME NEW t \in VerifyTokens, VerifyEmail(r, t) PROVE IInv'
  BY <1>2, <1>3, <1>4, <1>10, Zenon DEF VerifyEmail, Ops
<1>11. ASSUME NEW e \in Emails, CreateAdmin(r, e) PROVE IInv'
  <2> DEFINE ro == IF get_user_by_email(e) THEN role[e] ELSE None
             x == [Free EXCEPT !.op = "create_admin", !.pc = "write", !.e = e, !.role = ro]
  <2>1. ro \in Roles \cup {None} /\ (ro # None => e \in users)
    BY DEF IInv, RowsOK, get_user_by_email
  <2>2. x \in Request /\ ReqInv(x, users, rowner, used) /\ HeldBy(x) = {}
    BY <2>1, Zenon DEF Free, Request, Pc, Ops, ReqInv, HeldBy
  <2>3. GoOn(r, x) /\ Same /\ resets' = resets
    BY <1>11 DEF CreateAdmin
  <2> QED
    BY <1>1, <1>3, <2>2, <2>3
<1>12. ASSUME NEW t \in ResetTokens, ResetPassword(r, t) PROVE IInv'
  <2> DEFINE x == [Free EXCEPT !.op = "reset_password", !.pc = "lock", !.tok = t]
  <2>1. x \in Request /\ ReqInv(x, users, rowner, used) /\ HeldBy(x) = {}
    BY <1>12, Zenon DEF Free, Request, Pc, Ops, ReqInv, HeldBy, ResetPassword
  <2>2. resets' \in 0 .. MaxResets
    BY <1>3, <1>12, AccountsAssumption DEF ResetPassword
  <2>3. Same /\ (Answer(r) \/ GoOn(r, x))
    BY <1>12 DEF ResetPassword
  <2> QED
    BY <1>1, <1>2, <2>1, <2>2, <2>3
<1>13. ASSUME NEW k \in Keys, NEW op \in Protected, WithKey(r, op, k) PROVE IInv'
  <2> DEFINE l == k \in revoked \/ kowner[k] \in deleted
             x == [Free EXCEPT !.op = op, !.pc = "key", !.key = k, !.late = l]
  <2>1. x \in Request /\ ReqInv(x, users, rowner, used) /\ HeldBy(x) = {}
    <3> HIDE DEF l
    <3>1. l \in BOOLEAN
      BY DEF l
    <3> QED
      BY <3>1, Zenon DEF Free, Request, Pc, Ops, Protected, ReqInv, HeldBy
  <2>2. Same /\ resets' = resets /\ GoOn(r, x)
    BY <1>13 DEF WithKey
  <2> QED
    BY <1>1, <1>3, <2>1, <2>2
<1>14. ASSUME NEW e \in Emails, NEW op \in Protected, WithJwt(r, op, e) PROVE IInv'
  <2> DEFINE l == e \in deleted
             x == [Free EXCEPT !.op = op, !.pc = "jwt", !.e = e, !.late = l]
  <2>1. x \in Request /\ ReqInv(x, users, rowner, used) /\ HeldBy(x) = {}
    <3> HIDE DEF l
    <3>1. l \in BOOLEAN
      BY DEF l
    <3> QED
      BY <3>1, Zenon DEF Free, Request, Pc, Ops, Protected, ReqInv, HeldBy
  <2>2. Same /\ resets' = resets /\ GoOn(r, x)
    BY <1>14 DEF WithJwt
  <2> QED
    BY <1>1, <1>3, <2>1, <2>2
<1> QED
  BY <1>5, <1>6, <1>7, <1>8, <1>9, <1>10, <1>11, <1>12, <1>13, <1>14 DEF Arrival

\* A request ends, having written rows, sent a link or changed a key, but
\* without spending a link.
LEMMA AnswerStep ==
    ASSUME IInv, NEW r \in Requests, Answer(r),
           used' = used, users \subseteq users',
           \A t \in ResetTokens : rowner[t] # None => rowner'[t] = rowner[t]
    PROVE  ReqsOK' /\ LocksOK'
BY FreeOK, PlainStep, Zenon DEF Answer

LEMMA InsertUserOK ==
    ASSUME RowsOK, NEW e \in Emails, NEW as \in Roles, NEW b \in BOOLEAN,
           NEW t \in VerifyTokens \cup {None}, InsertUser(e, as, b, t)
    PROVE  RowsOK' /\ users \subseteq users'
BY Zenon DEF RowsOK, InsertUser

\* The handlers of the account's row.
LEMMA RowHandlerInv ==
    ASSUME IInv, NEW r \in Requests,
           \/ \E t \in VerifyTokens : RegisterInsert(r, t) \/ ResendWrite(r, t)
           \/ LoginIssue(r) \/ VerifyWrite(r) \/ SoftDeleteWrite(r) \/ CreateAdminWrite(r)
    PROVE  IInv'
<1> DEFINE e == req[r].e
<1>1. /\ req[r] \in Request /\ ReqInv(req[r], users, rowner, used)
      /\ RowsOK
  BY DEF IInv, ReqsOK
<1>2. ASSUME Answer(r), RowsOK', users \subseteq users', UNCHANGED <<tokens, keyRows, dead>>,
             ops' = ops, resets' = resets, jwt' \subseteq Emails, raised' \subseteq Ops
      PROVE  IInv'
  <2>1. ReqsOK' /\ LocksOK'
    BY <1>2, AnswerStep DEF tokens
  <2>2. TokensOK' /\ KeysOK' /\ RestOK'
    BY <1>2 DEF IInv, TokensOK, KeysOK, RestOK, tokens, keyRows
  <2> QED
    BY <1>2, <2>1, <2>2 DEF IInv
<1>3. jwt \subseteq Emails /\ raised \subseteq Ops
  BY DEF IInv, RestOK
<1>4. ASSUME NEW t \in VerifyTokens, RegisterInsert(r, t) PROVE IInv'
  <2>1. e \in Emails /\ raised \cup {req[r].op} \subseteq Ops
    BY <1>1, <1>3, <1>4 DEF RegisterInsert, At, ReqInv, Ops
  <2>2. CASE e \in users
    <3>1. RowsOK' /\ users' = users
      BY <1>1, <1>4, <2>2 DEF RegisterInsert, RowsOK, rows
    <3> QED
      BY <1>2, <1>3, <1>4, <2>1, <2>2, <3>1 DEF RegisterInsert, Raise
  <2>3. CASE e \notin users
    <3>1. RowsOK' /\ users \subseteq users'
      BY <1>1, <1>4, <2>1, <2>3, InsertUserOK, Zenon DEF RegisterInsert, Roles
    <3> QED
      BY <1>2, <1>3, <1>4, <2>3, <3>1 DEF RegisterInsert
  <2> QED
    BY <2>2, <2>3
<1>5. ASSUME NEW t \in VerifyTokens, ResendWrite(r, t) PROVE IInv'
  <2>1. RowsOK' /\ users' = users
    BY <1>1, <1>5 DEF ResendWrite, RowsOK, At, ReqInv
  <2> QED
    BY <1>2, <1>3, <1>5, <2>1 DEF ResendWrite
<1>6. CASE LoginIssue(r)
  <2>1. RowsOK' /\ users' = users /\ jwt' \subseteq Emails
    BY <1>1, <1>3, <1>6 DEF LoginIssue, RowsOK, rows, At, ReqInv
  <2> QED
    BY <1>2, <1>3, <1>6, <2>1 DEF LoginIssue
<1>7. CASE VerifyWrite(r)
  <2>1. RowsOK' /\ users' = users
    BY <1>1, <1>7 DEF VerifyWrite, RowsOK, At, ReqInv
  <2> QED
    BY <1>2, <1>3, <1>7, <2>1 DEF VerifyWrite
<1>8. CASE SoftDeleteWrite(r)
  <2>1. RowsOK' /\ users' = users
    BY <1>1, <1>8 DEF SoftDeleteWrite, RowsOK, At, ReqInv
  <2> QED
    BY <1>2, <1>3, <1>8, <2>1 DEF SoftDeleteWrite
<1>9. CASE CreateAdminWrite(r)
  <2>1. /\ e \in Emails /\ raised \cup {req[r].op} \subseteq Ops
        /\ req[r].role # None => e \in users
    BY <1>1, <1>3, <1>9, Zenon DEF CreateAdminWrite, At, ReqInv, Ops
  <2>2. CASE req[r].role # None
    <3>1. RowsOK' /\ users' = users
      BY <1>1, <1>9, <2>1, <2>2, Zenon DEF CreateAdminWrite, RowsOK, Roles
    <3> QED
      BY <1>2, <1>3, <1>9, <2>2, <3>1, Zenon DEF CreateAdminWrite
  <2>3. CASE req[r].role = None /\ e \notin users
    <3>1. RowsOK' /\ users \subseteq users'
      BY <1>1, <1>9, <2>1, <2>3, InsertUserOK, Zenon DEF CreateAdminWrite, Roles
    <3> QED
      BY <1>2, <1>3, <1>9, <2>3, <3>1, Zenon DEF CreateAdminWrite
  <2>4. CASE req[r].role = None /\ e \in users
    <3>1. RowsOK' /\ users' = users
      BY <1>1, <1>9, <2>4, Zenon DEF CreateAdminWrite, RowsOK, rows
    <3> QED
      BY <1>2, <1>3, <1>9, <2>1, <2>4, <3>1, Zenon DEF CreateAdminWrite, Raise
  <2> QED
    BY <2>2, <2>3, <2>4
<1> QED
  BY <1>4, <1>5, <1>6, <1>7, <1>8, <1>9

\* The password reset.  The lock of the first token, the wait for the others
\* and the commit are what keeps a link from being spent twice.
LEMMA ResetHandlerInv ==
    ASSUME IInv, NEW r \in Requests,
           \/ \E t \in ResetTokens : RequestResetWrite(r, t)
           \/ LockToken(r) \/ Invalidate(r) \/ CommitReset(r) \/ DeadlockAbort(r)
    PROVE  IInv'
<1> DEFINE t0 == req[r].tok
           e == req[r].e
           Rest == UNCHANGED <<ops, resets, rows, keyRows, jwt>>
<1>1. /\ req[r] \in Request /\ ReqInv(req[r], users, rowner, used)
      /\ req \in [Requests -> Request] /\ TokensOK
  BY DEF IInv, ReqsOK
<1>2. ASSUME Rest, raised' \subseteq Ops
      PROVE  RowsOK' /\ KeysOK' /\ RestOK'
  BY <1>2 DEF IInv, RowsOK, KeysOK, RestOK, rows, keyRows
<1>3. raised \subseteq Ops
  BY DEF IInv, RestOK
<1>4. ASSUME NEW t \in ResetTokens, RequestResetWrite(r, t) PROVE IInv'
  <2>1. e \in Emails
    BY <1>1, <1>4 DEF RequestResetWrite, At, ReqInv
  <2>2. TokensOK' /\ \A s \in ResetTokens : rowner[s] # None => rowner'[s] = rowner[s]
    BY <1>1, <1>4, <2>1, AccountsAssumption DEF RequestResetWrite, TokensOK
  <2>3. ReqsOK' /\ LocksOK'
    BY <1>4, <2>2, AnswerStep DEF RequestResetWrite, rows
  <2> QED
    BY <1>2, <1>3, <1>4, <2>2, <2>3 DEF RequestResetWrite, IInv
<1>5. ASSUME Answer(r), UNCHANGED <<tokens, dead>>, Rest, raised' \subseteq Ops
      PROVE  IInv'
  <2>1. ReqsOK' /\ LocksOK'
    BY <1>5, AnswerStep DEF tokens, rows
  <2>2. TokensOK'
    BY <1>1, <1>5 DEF TokensOK, tokens
  <2> QED
    BY <1>2, <1>5, <2>1, <2>2 DEF IInv
<1>6. CASE DeadlockAbort(r)
  <2>1. raised \cup {req[r].op} \subseteq Ops
    BY <1>3, <1>6 DEF DeadlockAbort, Deadlocked, At, Ops
  <2> QED
    BY <1>5, <1>6, <2>1 DEF DeadlockAbort, Raise
\* What the others hold, and what they rely on, stays as it was.
<1>7. ASSUME NEW x \in Request, GoOn(r, x), UNCHANGED <<tokens, dead, raised>>, Rest,
             ReqInv(x, users, rowner, used), HeldBy(x) \cap used = {},
             HeldBy(x) \cap LockedByOthers(r) = {}
      PROVE  IInv'
  <2>1. \A s \in Requests : req'[s] = IF s = r THEN x ELSE req[s]
    BY <1>1, <1>7 DEF GoOn
  <2>2. \A s \in Requests : s # r => HeldBy(req[s]) \cap HeldBy(x) = {}
    BY <1>7 DEF LockedByOthers, Held, HeldBy
  <2>3. LocksOK'
    BY <1>7, <2>1, <2>2 DEF IInv, LocksOK, tokens
  <2>4. ReqsOK'
    BY <1>7, <2>1 DEF IInv, ReqsOK, GoOn, tokens, rows
  <2>5. TokensOK'
    BY <1>1, <1>7 DEF TokensOK, tokens
  <2> QED
    BY <1>2, <1>3, <1>7, <2>3, <2>4, <2>5 DEF IInv
<1>8. CASE LockToken(r)
  <2> DEFINE o == rowner[t0]
             x == [req[r] EXCEPT !.pc = "invalidate", !.e = o,
                                 !.before = {s \in ResetTokens : rowner[s] = o}]
  <2>1. /\ t0 \in ResetTokens /\ o \in Emails
        /\ req[r].doomed = {} /\ req[r].op = "reset_password"
    BY <1>1, <1>8 DEF LockToken, At, ReqInv, TokensOK
  <2>2. CASE GoOn(r, x) /\ t0 \notin used
    <3>1. x \in Request /\ ReqInv(x, users, rowner, used) /\ HeldBy(x) = {t0}
      <4>1. x \in Request
        BY <1>1, <2>1, Zenon DEF Request, Pc
      <4>2. /\ x.pc = "invalidate" /\ x.op = "reset_password" /\ x.tok = t0 /\ x.e = o
            /\ x.doomed = {} /\ \A t \in x.before : rowner[t] = o
        BY <1>1, <2>1 DEF Request
      <4> QED
        BY <2>1, <4>1, <4>2, AccountsAssumption DEF ReqInv, HeldBy, Ops
    <3>2. HeldBy(x) \cap LockedByOthers(r) = {}
      BY <1>8, <3>1, Zenon DEF LockToken
    <3> QED
      BY <1>7, <1>8, <2>2, <3>1, <3>2, Zenon DEF LockToken
  <2>3. CASE Answer(r)
    BY <1>3, <1>5, <1>8, <2>3 DEF LockToken
  <2> QED
    BY <1>8, <2>2, <2>3 DEF LockToken
<1>9. CASE Invalidate(r)
  <2> DEFINE x == [req[r] EXCEPT !.pc = "commit", !.doomed = Open(e)]
  <2>1. /\ t0 \in ResetTokens /\ rowner[t0] # None /\ e \in Emails
        /\ req[r].op = "reset_password" /\ req[r].pc = "invalidate"
        /\ \A t \in req[r].before : t \in ResetTokens /\ rowner[t] = e
    BY <1>1, <1>9 DEF Invalidate, At, ReqInv, Request
  <2>2. req[r].before \subseteq used \cup Open(e)
    BY <2>1 DEF Open
  <2>3. Open(e) \subseteq ResetTokens /\ \A t \in Open(e) : rowner[t] # None /\ t \notin used
    BY <2>1, AccountsAssumption DEF Open
  <2>4. x \in Request /\ ReqInv(x, users, rowner, used) /\ HeldBy(x) = {t0} \cup Open(e)
    BY <1>1, <2>1, <2>2, <2>3, Zenon DEF Request, Pc, Ops, ReqInv, HeldBy
  <2>5. t0 \in HeldBy(req[r])
    BY <2>1 DEF HeldBy
  <2>6. t0 \notin used /\ t0 \notin LockedByOthers(r)
    BY <2>5 DEF IInv, LocksOK, LockedByOthers, Held, HeldBy
  <2>7. HeldBy(x) \cap LockedByOthers(r) = {} /\ HeldBy(x) \cap used = {}
    BY <1>9, <2>3, <2>4, <2>6 DEF Invalidate
  <2> QED
    BY <1>7, <1>9, <2>4, <2>7 DEF Invalidate
<1>10. CASE CommitReset(r)
  <2>1. /\ req[r].doomed \subseteq HeldBy(req[r]) /\ req[r].doomed \subseteq ResetTokens
        /\ req[r].before \subseteq used \cup req[r].doomed
        /\ \A t \in req[r].doomed : rowner[t] # None
    BY <1>1, <1>10, Zenon DEF CommitReset, At, ReqInv, HeldBy, Request
  <2>2. used' = used \cup req[r].doomed /\ rowner' = rowner /\ users' = users
    BY <1>10, Zenon DEF CommitReset, rows
  <2>3. TokensOK'
    BY <1>1, <1>10, <2>1, <2>2, Zenon DEF CommitReset, TokensOK
  <2>4. \A s \in Requests : req'[s] = IF s = r THEN Free ELSE req[s]
    BY <1>1, <1>10, Zenon DEF CommitReset, Answer
  <2>5. ASSUME NEW s \in Requests
        PROVE  req'[s] \in Request /\ ReqInv(req'[s], users', rowner', used')
    <3>1. CASE s = r
      BY <2>4, <3>1, FreeOK
    <3>2. CASE s # r
      <4>1. req[s] \in Request /\ ReqInv(req[s], users, rowner, used)
        BY DEF IInv, ReqsOK
      <4> QED
        BY <2>2, <2>4, <3>2, <4>1, ReqInvKept
    <3> QED
      BY <3>1, <3>2
  <2>6. ReqsOK'
    <3>1. req' \in [Requests -> Request]
      BY <1>1, <1>10, FreeOK DEF CommitReset, Answer
    <3> QED
      BY <2>5, <3>1 DEF ReqsOK
  <2>7. \A s \in Requests : HeldBy(req'[s]) \cap used' = {}
    BY <2>1, <2>2, <2>4, FreeOK DEF IInv, LocksOK
  <2>8. LocksOK'
    BY <2>4, <2>7, FreeOK DEF IInv, LocksOK
  <2> QED
    BY <1>2, <1>3, <1>10, <2>3, <2>6, <2>8, Zenon DEF CommitReset, IInv
<1> QED
  BY <1>4, <1>6, <1>8, <1>9, <1>10

\* The protected endpoints.
LEMMA KeyHandlerInv ==
    ASSUME IInv, NEW r \in Requests,
           \/ ReadKey(r) \/ ReadOwner(r) \/ TouchKey(r) \/ ReadJwt(r) \/ GetMe(r)
           \/ \E k \in Keys : CreateKey(r, k) \/ RevokeKey(r, k)
    PROVE  IInv'
<1> DEFINE Same == UNCHANGED <<ops, resets, rows, tokens, jwt, raised, dead>>
<1>1. req[r] \in Request /\ ReqInv(req[r], users, rowner, used) /\ KeysOK
  BY DEF IInv, ReqsOK
<1>2. Same => RowsOK' /\ TokensOK' /\ RestOK'
  BY DEF IInv, RowsOK, TokensOK, RestOK, rows, tokens
<1>3. ASSUME Answer(r), Same, KeysOK' PROVE IInv'
  <2>1. ReqsOK' /\ LocksOK'
    BY <1>3, AnswerStep DEF tokens, rows
  <2> QED
    BY <1>2, <1>3, <2>1 DEF IInv
<1>4. CASE ReadKey(r) \/ ReadOwner(r) \/ TouchKey(r) \/ ReadJwt(r)
  <2>1. Same /\ KeysOK'
    BY <1>1, <1>4 DEF ReadKey, ReadOwner, TouchKey, ReadJwt, KeysOK, keyRows
  <2>2. ASSUME NEW x \in Request, GoOn(r, x), ReqInv(x, users, rowner, used), HeldBy(x) = {}
        PROVE  IInv'
    <3>1. ReqsOK' /\ LocksOK'
      BY <2>1, <2>2, PlainStep, Zenon DEF GoOn, tokens, rows
    <3> QED
      BY <1>2, <2>1, <3>1 DEF IInv
  <2>3. CASE ReadKey(r)
    <3> DEFINE x == [req[r] EXCEPT !.pc = "owner", !.e = kowner[req[r].key]]
    <3>1. kowner[req[r].key] \in Emails \cup {None}
      BY <1>1, <2>3, Zenon DEF ReadKey, ReqInv, KeysOK
    <3>2. x \in Request /\ ReqInv(x, users, rowner, used) /\ HeldBy(x) = {}
      BY <1>1, <2>3, <3>1, Zenon DEF ReadKey, Request, Pc, ReqInv, HeldBy
    <3> QED
      BY <1>3, <2>1, <2>2, <2>3, <3>2, Zenon DEF ReadKey
  <2>4. ASSUME NEW p \in {"touch", "handler"}, req[r].pc \in {"owner", "jwt"},
               req[r].e \in users,
               GoOn(r, [req[r] EXCEPT !.pc = p, !.role = role[req[r].e]])
        PROVE  IInv'
    <3> DEFINE x == [req[r] EXCEPT !.pc = p, !.role = role[req[r].e]]
    <3>1. req[r].e \in Emails /\ role[req[r].e] \in Roles
      BY <2>4 DEF IInv, RowsOK
    <3>2. x \in Request /\ ReqInv(x, users, rowner, used) /\ HeldBy(x) = {}
      BY <1>1, <2>4, <3>1, Zenon DEF Request, Pc, ReqInv, HeldBy
    <3> QED
      BY <2>2, <2>4, <3>2, Zenon
  <2>5. CASE ReadOwner(r)
    <3>1. active \subseteq users
      BY DEF IInv, RowsOK
    <3> QED
      BY <1>3, <2>1, <2>4, <2>5, <3>1, Zenon DEF ReadOwner, owner_admits
  <2>6. CASE ReadJwt(r)
    BY <1>3, <2>1, <2>4, <2>6, Zenon DEF ReadJwt, jwt_admits, get_user_by_email
  <2>7. CASE TouchKey(r)
    <3> DEFINE x == [req[r] EXCEPT !.pc = "handler", !.key = None]
    <3>1. x \in Request /\ ReqInv(x, users, rowner, used) /\ HeldBy(x) = {}
      BY <1>1, <2>7, Zenon DEF TouchKey, Request, Pc, ReqInv, HeldBy
    <3> QED
      BY <2>2, <2>7, <3>1, Zenon DEF TouchKey
  <2> QED
    BY <1>4, <2>3, <2>5, <2>6, <2>7
<1>5. CASE GetMe(r)
  <2>1. KeysOK'
    BY <1>1, <1>5 DEF GetMe, KeysOK, keyRows
  <2> QED
    BY <1>3, <1>5, <2>1 DEF GetMe
<1>6. ASSUME NEW k \in Keys, CreateKey(r, k) PROVE IInv'
  <2>1. req[r].e \in Emails
    BY <1>1, <1>6, Zenon DEF CreateKey, At, ReqInv
  <2>2. KeysOK'
    BY <1>1, <1>6, <2>1 DEF CreateKey, KeysOK
  <2> QED
    BY <1>3, <1>6, <2>2 DEF CreateKey
<1>7. ASSUME NEW k \in Keys, RevokeKey(r, k) PROVE IInv'
  <2>1. KeysOK'
    BY <1>1, <1>7 DEF RevokeKey, KeysOK
  <2> QED
    BY <1>3, <1>7, <2>1 DEF RevokeKey
<1> QED
  BY <1>4, <1>5, <1>6, <1>7

LEMMA TimeInv == IInv /\ TimePasses => IInv'
<1> SUFFICES ASSUME IInv, TimePasses PROVE IInv'
  OBVIOUS
<1>1. RowsOK' /\ TokensOK'
  BY DEF IInv, RowsOK, TokensOK, TimePasses, Expire
<1>2. KeysOK' /\ RestOK'
  BY DEF IInv, KeysOK, RestOK, TimePasses, Expire, keyRows
<1>3. ReqsOK' /\ LocksOK'
  BY DEF IInv, ReqsOK, LocksOK, TimePasses
<1> QED
  BY <1>1, <1>2, <1>3 DEF IInv

LEMMA StutterInv == IInv /\ UNCHANGED vars => IInv'
BY DEF vars, rows, tokens, keyRows, IInv, RowsOK, TokensOK, KeysOK, RestOK, ReqsOK, LocksOK

LEMMA NextInv == IInv /\ [Next]_vars => IInv'
<1> SUFFICES ASSUME IInv, Next PROVE IInv'
  BY StutterInv
<1>1. ASSUME NEW r \in Requests, Handler(r) PROVE IInv'
  BY <1>1, RowHandlerInv, ResetHandlerInv, KeyHandlerInv DEF Handler
<1> QED
  BY <1>1, ArrivalInv, ResetHandlerInv, TimeInv DEF Next

\* A reset of the password that gets as far as its commit came through a link
\* that no earlier reset of the account had invalidated: any number of resets
\* of one account may be under way, through the same link or different ones.
THEOREM ResetSafety == Spec => [](TypeOK /\ SpentLinksStaySpent)
<1>1. IInv => TypeOK
  BY DEF IInv, RowsOK, TokensOK, KeysOK, RestOK, ReqsOK, TypeOK, Request
<1>2. IInv => SpentLinksStaySpent
  BY DEF IInv, TokensOK, LocksOK, SpentLinksStaySpent, At, HeldBy
<1> QED
  BY <1>1, <1>2, InitIInv, NextInv, PTL DEF Spec

\* Revocations and closures are for good, and a key never changes hands.  What
\* is known of the credential of a request that arrived with a void one, as it
\* moves from read to read: rv are the revoked keys, del the closed accounts and
\* ow the owners of the keys.
VoidInv(x, rv, del, ow) ==
    /\ x.pc = "key" /\ x.late => x.key \in rv \/ ow[x.key] \in del
    /\ x.pc \in {"owner", "jwt"} /\ x.late => x.e \in del
    /\ x.pc \in {"touch", "handler"} => ~x.late

LateInv == \A r \in Requests : VoidInv(req[r], revoked, deleted, kowner)

LEMMA ForGood ==
    ASSUME IInv, [Next]_vars
    PROVE  /\ revoked \subseteq revoked' /\ deleted \subseteq deleted'
           /\ \A k \in Keys : kowner[k] # None => kowner'[k] = kowner[k]
<1> DEFINE Goal == /\ revoked \subseteq revoked' /\ deleted \subseteq deleted'
                   /\ \A k \in Keys : kowner[k] # None => kowner'[k] = kowner[k]
<1>1. UNCHANGED <<deleted, kowner, revoked>> => Goal
  OBVIOUS
<1> HIDE DEF Goal
<1>2. CASE UNCHANGED vars \/ TimePasses
  BY <1>1, <1>2 DEF vars, rows, keyRows, TimePasses
<1>3. ASSUME NEW r \in Requests, Arrival(r) PROVE Goal
  BY <1>1, <1>3, Zenon DEF Arrival, Register, Login, ResendVerification, SoftDelete, CreateAdmin,
                    RequestReset, WithJwt, VerifyEmail, ResetPassword, WithKey,
                    rows, keyRows
<1>4. ASSUME NEW r \in Requests,
             \/ LockToken(r) \/ Invalidate(r) \/ CommitReset(r) \/ DeadlockAbort(r)
             \/ ReadKey(r) \/ ReadOwner(r) \/ TouchKey(r) \/ ReadJwt(r) \/ GetMe(r)
             \/ LoginIssue(r) \/ VerifyWrite(r)
      PROVE  Goal
  BY <1>1, <1>4, Zenon DEF LockToken, Invalidate, CommitReset, DeadlockAbort, ReadKey, ReadOwner,
                    TouchKey, ReadJwt, GetMe, LoginIssue, VerifyWrite, rows, keyRows
<1>5. ASSUME NEW r \in Requests,
             \/ \E t \in VerifyTokens : RegisterInsert(r, t) \/ ResendWrite(r, t)
             \/ \E t \in ResetTokens : RequestResetWrite(r, t)
             \/ CreateAdminWrite(r)
      PROVE  Goal
  BY <1>1, <1>5 DEF RegisterInsert, ResendWrite, RequestResetWrite, CreateAdminWrite,
                    InsertUser, rows, keyRows
<1>6. ASSUME NEW r \in Requests, SoftDeleteWrite(r) PROVE Goal
  BY <1>6 DEF SoftDeleteWrite, keyRows, Goal
<1>7. ASSUME NEW r \in Requests, NEW k \in Keys, CreateKey(r, k) \/ RevokeKey(r, k) PROVE Goal
  BY <1>7 DEF CreateKey, RevokeKey, rows, Goal, IInv, KeysOK
<1>8. ASSUME NEW r \in Requests, Handler(r) PROVE Goal
  BY <1>4, <1>5, <1>6, <1>7, <1>8 DEF Handler
<1> QED
  BY <1>2, <1>3, <1>4, <1>8 DEF Next, Goal

\* A request that goes nowhere near a protected endpoint's handler.
LEMMA VoidElsewhere ==
    ASSUME NEW x, x.pc \notin {"key", "owner", "jwt", "touch", "handler"},
           NEW rv, NEW del, NEW ow
    PROVE  VoidInv(x, rv, del, ow)
BY DEF VoidInv

LEMMA LateNext == IInv /\ LateInv /\ [Next]_vars => LateInv'
<1> SUFFICES ASSUME IInv, LateInv, [Next]_vars PROVE LateInv'
  OBVIOUS
<1> DEFINE Void(x) == VoidInv(x, revoked', deleted', kowner')
<1>1. req \in [Requests -> Request]
  BY DEF IInv, ReqsOK
<1>2. ASSUME NEW x \in Request, VoidInv(x, revoked, deleted, kowner), x.pc = "key" => x.key \in Keys
      PROVE  Void(x)
  <2>1. deleted \subseteq Emails /\ None \notin deleted
    BY AccountsAssumption DEF IInv, RowsOK
  <2> QED
    BY <1>2, <2>1, ForGood DEF VoidInv
<1>3. ASSUME NEW s \in Requests PROVE Void(req[s])
  <2>1. req[s] \in Request /\ ReqInv(req[s], users, rowner, used)
    BY DEF IInv, ReqsOK
  <2> QED
    BY <1>2, <2>1 DEF LateInv, ReqInv
<1>4. ASSUME NEW s \in Requests, NEW x, req' = [req EXCEPT ![s] = x], Void(x)
      PROVE  LateInv'
  BY <1>1, <1>3, <1>4, Zenon DEF LateInv
<1> HIDE DEF Void
<1>5. CASE UNCHANGED vars \/ TimePasses
  <2>1. req' = req
    BY <1>5 DEF vars, TimePasses
  <2> QED
    BY <1>3, <2>1 DEF LateInv, Void
<1>6. ASSUME NEW s \in Requests, NEW x, req' = [req EXCEPT ![s] = x],
             x.pc \notin {"key", "owner", "jwt", "touch", "handler"}
      PROVE  LateInv'
  BY <1>4, <1>6, VoidElsewhere DEF Void
<1>7. ASSUME NEW s \in Requests, Answer(s) PROVE LateInv'
  BY <1>6, <1>7 DEF Answer, Free
<1>8. ASSUME NEW s \in Requests, Arrival(s) PROVE LateInv'
  <2>1. ASSUME NEW e, NEW op, GoOn(s, [Free EXCEPT !.op = op, !.pc = "write", !.e = e])
        PROVE  LateInv'
    BY <1>6, <2>1 DEF GoOn, Free
  <2>2. ASSUME NEW e \in Emails,
               \/ Register(s, e) \/ Login(s, e) \/ ResendVerification(s, e)
               \/ SoftDelete(s, e) \/ RequestReset(s, e)
        PROVE  LateInv'
    BY <1>7, <2>1, <2>2, Zenon DEF Register, Login, ResendVerification, SoftDelete, RequestReset
  <2>3. ASSUME NEW e \in Emails, CreateAdmin(s, e) PROVE LateInv'
    <3>1. ASSUME NEW ro, GoOn(s, [Free EXCEPT !.op = "create_admin", !.pc = "write", !.e = e,
                                              !.role = ro])
          PROVE  LateInv'
      BY <1>6, <3>1 DEF GoOn, Free
    <3> QED
      BY <2>3, <3>1, Zenon DEF CreateAdmin
  <2>4. ASSUME NEW t \in VerifyTokens, VerifyEmail(s, t) PROVE LateInv'
    BY <1>7, <2>1, <2>4, Zenon DEF VerifyEmail
  <2>5. ASSUME NEW t \in ResetTokens, ResetPassword(s, t) PROVE LateInv'
    <3>1. GoOn(s, [Free EXCEPT !.op = "reset_password", !.pc = "lock", !.tok = t]) => LateInv'
      BY <1>6 DEF GoOn, Free
    <3> QED
      BY <1>7, <2>5, <3>1, Zenon DEF ResetPassword
  <2>6. ASSUME NEW e \in Emails, NEW op \in Protected, WithJwt(s, op, e) PROVE LateInv'
    <3> DEFINE x == [Free EXCEPT !.op = op, !.pc = "jwt", !.e = e, !.late = e \in deleted]
    <3>1. x.pc = "jwt" /\ x.e = e /\ (x.late => e \in deleted)
      BY Zenon DEF Free
    <3>2. deleted' = deleted
      BY <2>6 DEF WithJwt, rows
    <3>3. Void(x)
      <4> HIDE DEF x
      <4> QED
        BY <3>1, <3>2 DEF Void, VoidInv
    <3> QED
      BY <1>4, <2>6, <3>3, Zenon DEF WithJwt, GoOn
  <2>7. ASSUME NEW k \in Keys, NEW op \in Protected, WithKey(s, op, k) PROVE LateInv'
    <3> DEFINE x == [Free EXCEPT !.op = op, !.pc = "key", !.key = k,
                                 !.late = k \in revoked \/ kowner[k] \in deleted]
    <3>1. x.pc = "key" /\ x.key = k /\ (x.late => k \in revoked \/ kowner[k] \in deleted)
      BY Zenon DEF Free
    <3>2. deleted' = deleted /\ revoked' = revoked /\ kowner' = kowner
      BY <2>7 DEF WithKey, rows, keyRows
    <3>3. Void(x)
      <4> HIDE DEF x
      <4> QED
        BY <3>1, <3>2 DEF Void, VoidInv
    <3> QED
      BY <1>4, <2>7, <3>3, Zenon DEF WithKey, GoOn
  <2> QED
    BY <1>8, <2>2, <2>3, <2>4, <2>5, <2>6, <2>7, Zenon DEF Arrival
\* The two reads: what is void is found out in one of them.
<1>9. ASSUME NEW s \in Requests, ReadKey(s) \/ ReadOwner(s) \/ TouchKey(s) \/ ReadJwt(s)
      PROVE  LateInv'
  <2>1. /\ req[s] \in Request /\ VoidInv(req[s], revoked, deleted, kowner)
        /\ deleted' = deleted
    BY <1>1, <1>9 DEF LateInv, ReadKey, ReadOwner, TouchKey, ReadJwt, rows
  <2>2. CASE ReadKey(s)
    <3> DEFINE x == [req[s] EXCEPT !.pc = "owner", !.e = kowner[req[s].key]]
    <3>1. CASE req[s].key \notin revoked /\ GoOn(s, x)
      <4>1. x.pc = "owner" /\ x.e = kowner[req[s].key] /\ x.late = req[s].late
        BY <2>1, Zenon DEF Request
      <4>2. req[s].late => kowner[req[s].key] \in deleted
        BY <2>1, <2>2, <3>1, Zenon DEF ReadKey, VoidInv
      <4>3. Void(x)
        <5> HIDE DEF x
        <5> QED
          BY <2>1, <4>1, <4>2 DEF Void, VoidInv
      <4> QED
        BY <1>4, <3>1, <4>3, Zenon DEF GoOn
    <3> QED
      BY <1>7, <2>2, <3>1, Zenon DEF ReadKey
  <2>3. ASSUME NEW p \in {"touch", "handler"}, NEW ro, ~req[s].late,
               GoOn(s, [req[s] EXCEPT !.pc = p, !.role = ro])
        PROVE  LateInv'
    <3> DEFINE x == [req[s] EXCEPT !.pc = p, !.role = ro]
    <3>1. x.pc = p /\ x.late = req[s].late
      BY <2>1, Zenon DEF Request
    <3>2. Void(x)
      BY <2>3, <3>1, Zenon DEF Void, VoidInv
    <3> QED
      BY <1>4, <2>3, <3>2, Zenon DEF GoOn
  <2>4. CASE ReadOwner(s)
    <3>1. req[s].e \notin deleted => ~req[s].late
      BY <2>1, <2>4, Zenon DEF ReadOwner, VoidInv
    <3> QED
      BY <1>7, <2>3, <2>4, <3>1, Zenon DEF ReadOwner, owner_admits
  <2>5. CASE ReadJwt(s)
    <3>1. req[s].e \notin deleted => ~req[s].late
      BY <2>1, <2>5, Zenon DEF ReadJwt, VoidInv
    <3> QED
      BY <1>7, <2>3, <2>5, <3>1, Zenon DEF ReadJwt, jwt_admits, get_user_by_email
  <2>6. CASE TouchKey(s)
    <3> DEFINE x == [req[s] EXCEPT !.pc = "handler", !.key = None]
    <3>1. x.pc = "handler" /\ x.late = req[s].late /\ ~req[s].late
      BY <2>1, <2>6, Zenon DEF TouchKey, Request, VoidInv
    <3>2. Void(x)
      BY <3>1, Zenon DEF Void, VoidInv
    <3> QED
      BY <1>4, <2>6, <3>2, Zenon DEF TouchKey, GoOn
  <2> QED
    BY <1>9, <2>2, <2>4, <2>5, <2>6
<1>10. ASSUME NEW s \in Requests, Handler(s) \/ DeadlockAbort(s) PROVE LateInv'
  <2>1. ASSUME LockToken(s) \/ Invalidate(s) PROVE LateInv'
    <3>1. ASSUME NEW x, GoOn(s, x), x.pc \in {"invalidate", "commit"} PROVE LateInv'
      BY <1>6, <3>1 DEF GoOn
    <3>2. CASE LockToken(s)
      <4> DEFINE x == [req[s] EXCEPT !.pc = "invalidate", !.e = rowner[req[s].tok],
                         !.before = {t \in ResetTokens : rowner[t] = rowner[req[s].tok]}]
      <4>1. x.pc = "invalidate"
        BY <1>1, Zenon DEF Request
      <4> QED
        BY <1>7, <3>1, <3>2, <4>1, Zenon DEF LockToken
    <3>3. CASE Invalidate(s)
      <4> DEFINE x == [req[s] EXCEPT !.pc = "commit", !.doomed = Open(req[s].e)]
      <4>1. x.pc = "commit"
        BY <1>1, Zenon DEF Request
      <4> QED
        BY <3>1, <3>3, <4>1, Zenon DEF Invalidate
    <3> QED
      BY <2>1, <3>2, <3>3
  <2> QED
    BY <1>7, <1>9, <1>10, <2>1, Zenon DEF Handler, DeadlockAbort, Raise, RegisterInsert,
            ResendWrite, LoginIssue, VerifyWrite, SoftDeleteWrite, CreateAdminWrite,
            RequestResetWrite, CommitReset, GetMe, CreateKey, RevokeKey
<1> QED
  BY <1>5, <1>8, <1>10 DEF Next

\* A request that arrives after its key was revoked or its account closed is
\* never served, although the key and its owner are read at different times,
\* others write in between, and create_admin may mark a closed account active.
THEOREM ClosedStaysClosed == Spec => []ClosedIsClosed
<1>1. Init => LateInv
  BY VoidElsewhere DEF Init, LateInv, Free
<1>2. LateInv => ClosedIsClosed
  BY DEF LateInv, VoidInv, ClosedIsClosed
<1> QED
  BY <1>1, <1>2, InitIInv, NextInv, LateNext, PTL DEF Spec

-----------------------------------------------------------------------------
\* The refinement.  Nobody's stage, link or key moves in a step that leaves the
\* tables alone.
LEMMA SameTables ==
    /\ UNCHANGED <<users, verified, deleted>> => stage' = stage
    /\ UNCHANGED <<rowner, used>> => link' = link
    /\ UNCHANGED <<kowner, revoked>> => key' = key
BY DEF stage, link, key

\* What a handler may write to a row moves the account forward.
LEMMA StageMoves ==
    ASSUME RowsOK, NEW e \in Emails,
           \/ /\ e \in users /\ users' = users /\ deleted' = deleted
              /\ verified' = verified \cup {e}
           \/ /\ e \in users /\ users' = users /\ verified' = verified
              /\ deleted' = deleted \cup {e}
           \/ /\ e \notin users /\ users' = users \cup {e} /\ deleted' = deleted
              /\ verified' \in {verified, verified \cup {e}}
    PROVE  stage' = stage \/ \E s \in Lifecycle!After(stage[e]) :
                                stage' = [stage EXCEPT ![e] = s]
<1>1. \A f \in Emails \ {e} : stage'[f] = stage[f]
  BY DEF stage
<1>2. stage'[e] = stage[e] \/ stage'[e] \in Lifecycle!After(stage[e])
  BY DEF stage, RowsOK, Lifecycle!After
<1>3. stage' = [stage EXCEPT ![e] = stage'[e]]
  BY <1>1, Zenon DEF stage
<1>4. stage = [stage EXCEPT ![e] = stage[e]]
  BY DEF stage
<1> QED
  BY <1>2, <1>3, <1>4

LEMMA RefineInit == Init => Lifecycle!Init
BY DEF Init, Lifecycle!Init, stage, link, key

LEMMA RefineRows ==
    ASSUME IInv, NEW r \in Requests,
           \/ \E t \in VerifyTokens : RegisterInsert(r, t) \/ ResendWrite(r, t)
           \/ LoginIssue(r) \/ VerifyWrite(r) \/ SoftDeleteWrite(r) \/ CreateAdminWrite(r)
    PROVE  [Lifecycle!Next]_(Lifecycle!vars)
<1> DEFINE e == req[r].e
<1>1. ReqInv(req[r], users, rowner, used) /\ RowsOK
  BY DEF IInv, ReqsOK
<1>2. link' = link /\ key' = key
  BY SameTables, Zenon DEF RegisterInsert, ResendWrite, LoginIssue, VerifyWrite, SoftDeleteWrite,
                    CreateAdminWrite, tokens, keyRows
<1>3. \/ UNCHANGED <<users, verified, deleted>>
      \/ /\ e \in Emails
         /\ \/ /\ e \in users /\ users' = users /\ deleted' = deleted
               /\ verified' = verified \cup {e}
            \/ /\ e \in users /\ users' = users /\ verified' = verified
               /\ deleted' = deleted \cup {e}
            \/ /\ e \notin users /\ users' = users \cup {e} /\ deleted' = deleted
               /\ verified' \in {verified, verified \cup {e}}
  <2>1. ASSUME NEW t \in VerifyTokens, RegisterInsert(r, t) \/ ResendWrite(r, t) PROVE <1>3
    BY <1>1, <2>1, Zenon DEF RegisterInsert, ResendWrite, InsertUser, At, ReqInv, rows
  <2>2. CASE LoginIssue(r) \/ VerifyWrite(r) \/ SoftDeleteWrite(r)
    BY <1>1, <2>2, Zenon DEF LoginIssue, VerifyWrite, SoftDeleteWrite, At, ReqInv, rows
  <2>3. CASE CreateAdminWrite(r)
    BY <1>1, <2>3, Zenon DEF CreateAdminWrite, InsertUser, At, ReqInv, rows
  <2> QED
    BY <2>1, <2>2, <2>3
<1>4. stage' = stage \/ (e \in Emails /\ \E s \in Lifecycle!After(stage[e]) :
                                            stage' = [stage EXCEPT ![e] = s])
  BY <1>1, <1>3, SameTables, StageMoves
<1> QED
  BY <1>2, <1>4 DEF Lifecycle!Next, Lifecycle!Advance, Lifecycle!vars

LEMMA RefineTokens ==
    ASSUME IInv, NEW r \in Requests,
           \/ \E t \in ResetTokens : RequestResetWrite(r, t)
           \/ CommitReset(r)
    PROVE  [Lifecycle!Next]_(Lifecycle!vars)
<1>1. ReqInv(req[r], users, rowner, used) /\ req[r] \in Request /\ TokensOK
  BY Zenon DEF IInv, ReqsOK
<1>2. stage' = stage /\ key' = key
  BY SameTables DEF RequestResetWrite, CommitReset, rows, keyRows
<1>3. ASSUME NEW t \in ResetTokens, RequestResetWrite(r, t)
      PROVE  link[t] = "unsent" /\ link' = [link EXCEPT ![t] = "open"]
  BY <1>1, <1>3, AccountsAssumption, Zenon DEF RequestResetWrite, At, ReqInv, TokensOK, link
<1>4. CASE CommitReset(r)
  <2> DEFINE T == req[r].doomed
  <2>1. /\ T \in SUBSET ResetTokens /\ T \cap used = {} /\ \A t \in T : rowner[t] # None
        /\ rowner' = rowner /\ used' = used \cup T
    BY <1>1, <1>4 DEF CommitReset, At, ReqInv, Request, IInv, LocksOK, HeldBy
  <2>2. /\ \A t \in T : link[t] = "open"
        /\ link' = [t \in ResetTokens |-> IF t \in T THEN "spent" ELSE link[t]]
    BY <2>1 DEF link
  <2>3. Lifecycle!Spend(T)
    BY <1>2, <2>2 DEF Lifecycle!Spend
  <2> QED
    BY <2>1, <2>3 DEF Lifecycle!Next
<1> QED
  BY <1>2, <1>3, <1>4 DEF Lifecycle!Next, Lifecycle!Send

LEMMA RefineKeys ==
    ASSUME IInv, NEW r \in Requests, NEW k \in Keys, CreateKey(r, k) \/ RevokeKey(r, k)
    PROVE  [Lifecycle!Next]_(Lifecycle!vars)
<1>1. ReqInv(req[r], users, rowner, used) /\ KeysOK
  BY DEF IInv, ReqsOK
<1>2. stage' = stage /\ link' = link
  BY SameTables DEF CreateKey, RevokeKey, rows, tokens
<1>3. CASE CreateKey(r, k)
  <2>1. \/ UNCHANGED <<kowner, revoked>>
        \/ key[k] = "unissued" /\ key' = [key EXCEPT ![k] = "live"]
    BY <1>1, <1>3, AccountsAssumption, Zenon DEF CreateKey, At, ReqInv, KeysOK, key
  <2> QED
    BY <1>2, <2>1, SameTables DEF Lifecycle!Next, Lifecycle!Issue, Lifecycle!vars
<1>4. CASE RevokeKey(r, k)
  <2>1. \/ UNCHANGED <<kowner, revoked>>
        \/ key[k] = "live" /\ key' = [key EXCEPT ![k] = "revoked"]
    BY <1>1, <1>4, Zenon DEF RevokeKey, KeysOK, key
  <2> QED
    BY <1>2, <2>1, SameTables DEF Lifecycle!Next, Lifecycle!Revoke, Lifecycle!vars
<1> QED
  BY <1>3, <1>4

LEMMA RefineNext == IInv /\ [Next]_vars => [Lifecycle!Next]_(Lifecycle!vars)
<1> SUFFICES ASSUME IInv, [Next]_vars PROVE [Lifecycle!Next]_(Lifecycle!vars)
  OBVIOUS
<1>1. UNCHANGED <<users, verified, deleted, rowner, used, kowner, revoked>>
         => UNCHANGED Lifecycle!vars
  BY SameTables DEF Lifecycle!vars
<1>2. CASE UNCHANGED vars \/ TimePasses
  BY <1>1, <1>2 DEF vars, rows, tokens, keyRows, TimePasses
<1>3. ASSUME NEW r \in Requests, Arrival(r) PROVE UNCHANGED Lifecycle!vars
  BY <1>1, <1>3, Zenon DEF Arrival, Register, Login, ResendVerification, SoftDelete, CreateAdmin,
                    RequestReset, WithJwt, VerifyEmail, ResetPassword, WithKey,
                    rows, tokens, keyRows
<1>4. ASSUME NEW r \in Requests,
             \/ LockToken(r) \/ Invalidate(r) \/ DeadlockAbort(r)
             \/ ReadKey(r) \/ ReadOwner(r) \/ TouchKey(r) \/ ReadJwt(r) \/ GetMe(r)
      PROVE  UNCHANGED Lifecycle!vars
  BY <1>1, <1>4 DEF LockToken, Invalidate, DeadlockAbort, ReadKey, ReadOwner, TouchKey, ReadJwt,
                    GetMe, rows, tokens, keyRows
<1>5. ASSUME NEW r \in Requests, Handler(r) PROVE [Lifecycle!Next]_(Lifecycle!vars)
  BY <1>4, <1>5, RefineRows, RefineTokens, RefineKeys DEF Handler
<1> QED
  BY <1>2, <1>3, <1>4, <1>5 DEF Next

\* Whatever requests overlap, the tables implement the abstract life of
\* accounts, links and keys: each only moves forward.
THEOREM AccountsImplementLifecycle == Spec => NothingIsUndone
BY RefineInit, RefineNext, InitIInv, NextInv, PTL DEF Spec, NothingIsUndone, Lifecycle!Spec
=============================================================================
