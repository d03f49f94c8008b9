-------------------------- MODULE AccountLifecycle --------------------------
(***************************************************************************)
(* What the account service promises its users, whatever requests overlap: *)
(* an account only moves forward (unverified, verified, closed), a key is  *)
(* issued and then revoked once, and a password-reset link is sent and     *)
(* then spent once.  Nothing is ever undone.                               *)
(***************************************************************************)
CONSTANTS Emails, ResetTokens, Keys

VARIABLES
    stage,      \* per email, how far the account is
    link,       \* per reset token
    key         \* per API key

vars == <<stage, link, key>>

Init ==
    /\ stage \in [Emails -> {"absent", "unverified", "verified", "closed"}]
    /\ link = [t \in ResetTokens |-> "unsent"]
    /\ key = [k \in Keys |-> "unissued"]

After(s) ==
    CASE s = "absent"     -> {"unverified", "verified"}
      [] s = "unverified" -> {"verified", "closed"}
      [] s = "verified"   -> {"closed"}
      [] s = "closed"     -> {}

Advance(e) ==
    /\ \E s \in After(stage[e]) : stage' = [stage EXCEPT ![e] = s]
    /\ UNCHANGED <<link, key>>

Send(t) ==
    /\ link[t] = "unsent"
    /\ link' = [link EXCEPT ![t] = "open"]
    /\ UNCHANGED <<stage, key>>

(* A reset spends the link it came through and every other open one of its
   account. *)
Spend(T) ==
    /\ \A t \in T : link[t] = "open"
    /\ link' = [t \in ResetTokens |-> IF t \in T THEN "spent" ELSE link[t]]
    /\ UNCHANGED <<stage, key>>

Issue(k) ==
    /\ key[k] = "unissued"
    /\ key' = [key EXCEPT ![k] = "live"]
    /\ UNCHANGED <<stage, link>>

Revoke(k) ==
    /\ key[k] = "live"
    /\ key' = [key EXCEPT ![k] = "revoked"]
    /\ UNCHANGED <<stage, link>>

Next ==
    \/ \E e \in Emails : Advance(e)
    \/ \E t \in ResetTokens : Send(t)
    \/ \E T \in SUBSET ResetTokens : Spend(T)
    \/ \E k \in Keys : Issue(k) \/ Revoke(k)

Spec == Init /\ [][Next]_vars
=============================================================================
