---------------------------- MODULE MCAccounts ----------------------------
EXTENDS Accounts
CONSTANT e1

MCOpSets ==
    { {"register", "verify_email", "resend_verification", "create_admin", "soft_delete_user"},
      {"request_password_reset", "reset_password", "soft_delete_user"},
      {"login", "get_me", "create_api_key", "revoke_api_key", "soft_delete_user", "create_admin"} }
Researcher == [e \in {e1} |-> "researcher"]
Nobody == [e \in {} |-> "user"]
MCFirstUsers == {Researcher, Nobody}
============================================================================
