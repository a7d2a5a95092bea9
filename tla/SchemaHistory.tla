--------------------------- MODULE SchemaHistory ---------------------------
(* What the migrations do to the database schema, and what the ORM models    *)
(* expect of it.                                                             *)
(*                                                                           *)
(* A schema is a set of objects <<kind, owner, name>>.  The owner is the     *)
(* table, or the object itself when it belongs to no table; it is what DDL   *)
(* locks.  Column types, lengths and the order of columns are left out.      *)
EXTENDS Naturals, Sequences

Of(kind, t, names) == {<<kind, t, n>> : n \in names}
Table(t)           == <<"table", t, "">>
Trigger(t)         == <<"trigger", t, "set_updated_at">>
Types(names)       == {<<"type", n, "">> : n \in names}
SetUpdatedAt       == <<"function", "set_updated_at", "">>
PgTrgm             == <<"extension", "pg_trgm", "">>

\* op.create_table: every key has NOT NULL columns and nullable ones.
CreateTable(t, required, optional) ==
  {Table(t)} \cup Of("required", t, required) \cup Of("optional", t, optional)

\* A script drops objects by name, then whole tables, then adds objects.
Script(drops, tables, adds) == [drops |-> drops, tables |-> tables, adds |-> adds]
NoScript == Script({}, {}, {})

---------------------------------------------------------------------------
\* The migrations, in the order of their down_revision.

Migration01 ==
  [up   |-> Script({}, {}, {SetUpdatedAt}),
   down |-> Script({SetUpdatedAt}, {}, {})]

Migration02 ==
  LET t   == "user_identities"
      gin == Of("gin index", t, {"first_name", "last_name"})
  IN [up   |-> Script({}, {},
                 {PgTrgm, Trigger(t)} \cup gin
                 \cup CreateTable(t, {"id", "first_name", "last_name",
                        "phone_number", "created_at", "updated_at"},
                        {"middle_name", "date_of_birth", "address"})
                 \cup Of("default", t, {"created_at", "updated_at"})),
      down |-> Script({Trigger(t)} \cup gin, {t}, {})]

Migration03 ==
  LET t   == "user_credentials"
      ixs == Of("gin index", t, {"email"})
             \cup Of("partial unique index", t, {"non student email",
                                                 "personal identity_id"})
  IN [up   |-> Script({}, {},
                 {PgTrgm, Trigger(t)} \cup ixs
                 \cup Types({"userrole", "accounttype", "userstatus"})
                 \cup CreateTable(t, {"id", "public_id", "identity_id",
                        "username", "email", "role", "account_type", "status",
                        "created_at", "updated_at"},
                        {"password_hash", "pre_transition_status"})
                 \cup Of("default", t, {"public_id", "created_at", "updated_at"})
                 \cup Of("unique", t, {"public_id", "username"})
                 \cup Of("references", t, {"user_identities"})),
      down |-> Script({Trigger(t)} \cup ixs, {t}, {})]

Migration04 ==
  LET t   == "user_sessions"
      ixs == Of("index", t, {"credentials_id", "device_id"})
  IN [up   |-> Script({}, {},
                 {Trigger(t)} \cup ixs
                 \cup CreateTable(t, {"id", "public_id", "credentials_id",
                        "access_token_version", "created_at", "updated_at"},
                        {"refresh_token_hash", "refresh_token_expires_at",
                         "user_agent", "ip_address", "device_id",
                         "last_active_at"})
                 \cup Of("default", t, {"public_id", "created_at", "updated_at"})
                 \cup Of("unique", t, {"public_id"})
                 \cup Of("references", t, {"user_credentials"})),
      down |-> Script({Trigger(t)} \cup ixs, {t}, {})]

Migration05 ==
  LET t   == "emails"
      ixs == Of("index", t, {"email_type", "status", "triggered_by"})
  IN [up   |-> Script({}, {},
                 {Trigger(t)} \cup ixs \cup Types({"emailtype", "emailstatus"})
                 \cup CreateTable(t, {"id", "public_id", "recipient_email",
                        "subject", "html_body", "email_type", "status",
                        "retry_count", "max_retries", "scheduled_for",
                        "created_at", "updated_at"},
                        {"last_error", "sent_at", "triggered_by"})
                 \cup Of("default", t, {"public_id", "scheduled_for",
                                        "created_at", "updated_at"})
                 \cup Of("unique", t, {"public_id"})
                 \cup Of("references", t, {"user_credentials"})),
      down |-> Script({Trigger(t)} \cup ixs, {t}, {})]

Migration06 ==
  LET t == "user_activations"
  IN [up   |-> Script({}, {},
                 {Trigger(t)}
                 \cup CreateTable(t, {"id", "credentials_id",
                        "activation_token_hash", "activation_token_expires_at",
                        "created_at", "updated_at"}, {})
                 \cup Of("default", t, {"created_at", "updated_at"})
                 \cup Of("unique", t, {"credentials_id"})
                 \cup Of("references", t, {"user_credentials"})),
      down |-> Script({Trigger(t)}, {t}, {})]

Migration07 ==
  LET t == "user_login_lockouts"
  IN [up   |-> Script({}, {},
                 {Trigger(t)}
                 \cup CreateTable(t, {"id", "credentials_id",
                        "failed_attempts", "created_at", "updated_at"},
                        {"locked_until", "last_failed_at"})
                 \cup Of("default", t, {"created_at", "updated_at"})
                 \cup Of("unique", t, {"credentials_id"})
                 \cup Of("references", t, {"user_credentials"})),
      down |-> Script({Trigger(t)}, {t}, {})]

\* The file ends after upgrade(): it defines no downgrade() (Reversible).
Migration08 ==
  LET t == "login_history"
  IN [up   |-> Script({}, {},
                 CreateTable(t, {"id", "credentials_id", "success", "created_at"},
                        {"ip_address", "user_agent", "failure_reason"})
                 \cup Of("default", t, {"created_at"})
                 \cup Of("index", t, {"credentials_id"})
                 \cup Of("references", t, {"user_credentials"})),
      down |-> NoScript]

Migration09 ==
  LET t   == "idempotency_records"
      ixs == Of("index", t, {"expires_at"})
  IN [up   |-> Script({}, {},
                 ixs \cup Types({"idempotencystatus"})
                 \cup CreateTable(t, {"id", "key", "operation", "actor_id",
                        "request_hash", "status", "expires_at", "created_at"},
                        {"http_status", "response_body"})
                 \cup Of("default", t, {"created_at"})
                 \cup Of("unique", t, {"operation, actor_id, key"})),
      down |-> Script(ixs, {t}, {})]

Migration10 ==
  LET ix == Of("partial unique index", "user_credentials",
               {"personal identity_id"})
  IN [up |-> Script(ix, {}, {}), down |-> Script({}, {}, ix)]

Migration11 ==
  LET uq == Of("unique", "user_credentials", {"identity_id, account_type"})
  IN [up |-> Script({}, {}, uq), down |-> Script(uq, {}, {})]

Migration12 ==
  LET default == Of("default", "emails", {"max_retries"})
  IN [up |-> Script({}, {}, default), down |-> Script(default, {}, {})]

BugMigration13 == \* the second alter_column forgotten
  LET default == Of("default", "emails", {"status"})
  IN [up |-> Script({}, {}, default), down |-> Script(default, {}, {})]

Migration13 ==
  LET default == Of("default", "emails", {"status", "retry_count"})
  IN [up |-> Script({}, {}, default), down |-> Script(default, {}, {})]

Migration14 ==
  LET t        == "idempotency_records"
      nullable == Of("optional", t, {"http_status"})
      notNull  == Of("required", t, {"http_status"})
      status   == Of("required", t, {"status"})
  IN [up   |-> Script(nullable \cup status, {}, notNull),
      down |-> Script(notNull, {}, nullable \cup status)]

Migration ==
  <<Migration01, Migration02, Migration03, Migration04, Migration05,
    Migration06, Migration07, Migration08, Migration09, Migration10,
    Migration11, Migration12, Migration13, Migration14>>

Newest       == Len(Migration)
Reversible == 1..Newest \ {8}

---------------------------------------------------------------------------
\* The effect of a script on a schema.
Run(script, S) ==
  {x \in S \ script.drops : x[2] \notin script.tables} \cup script.adds

\* The schema that the upgrades up to a revision create in an empty database.
SchemaAt[r \in 0..Newest] ==
  IF r = 0 THEN {} ELSE Run(Migration[r].up, SchemaAt[r - 1])

---------------------------------------------------------------------------
\* What the models declare.  The trigger is what UpdatedAtMixin relies on.

IdMixin(t)        == Of("required", t, {"id"})
CreatedAtMixin(t) == Of("required", t, {"created_at"})
                     \cup Of("default", t, {"created_at"})
UpdatedAtMixin(t) == Of("required", t, {"updated_at"})
                     \cup Of("default", t, {"updated_at"}) \cup {Trigger(t)}
PublicIdMixin(t)  == Of("required", t, {"public_id"})
                     \cup Of("default", t, {"public_id"})
                     \cup Of("unique", t, {"public_id"})

UserIdentity ==
  LET t == "user_identities"
  IN IdMixin(t) \cup CreatedAtMixin(t) \cup UpdatedAtMixin(t)
     \cup CreateTable(t, {"first_name", "last_name", "phone_number"},
                         {"middle_name", "date_of_birth", "address"})
     \cup Of("gin index", t, {"first_name", "last_name"})

UserCredentials ==
  LET t == "user_credentials"
  IN IdMixin(t) \cup PublicIdMixin(t) \cup CreatedAtMixin(t)
     \cup UpdatedAtMixin(t)
     \cup CreateTable(t, {"identity_id", "username", "email", "role",
                          "account_type", "status"},
                         {"password_hash", "pre_transition_status"})
     \cup Of("references", t, {"user_identities"})
     \cup Of("unique", t, {"username", "identity_id, account_type"})
     \cup Of("partial unique index", t, {"non student email"})
     \cup Of("gin index", t, {"email"})

UserSession ==
  LET t == "user_sessions"
  IN IdMixin(t) \cup PublicIdMixin(t) \cup CreatedAtMixin(t)
     \cup UpdatedAtMixin(t)
     \cup CreateTable(t, {"credentials_id", "access_token_version"},
                         {"refresh_token_hash", "refresh_token_expires_at",
                          "user_agent", "ip_address", "device_id",
                          "last_active_at"})
     \cup Of("references", t, {"user_credentials"})
     \cup Of("index", t, {"credentials_id", "device_id"})

Email ==
  LET t == "emails"
  IN IdMixin(t) \cup PublicIdMixin(t) \cup CreatedAtMixin(t)
     \cup UpdatedAtMixin(t)
     \cup CreateTable(t, {"recipient_email", "subject", "html_body",
                          "email_type", "status", "retry_count", "max_retries",
                          "scheduled_for"},
                         {"last_error", "sent_at", "triggered_by"})
     \cup Of("default", t, {"status", "retry_count", "max_retries",
                            "scheduled_for"})
     \cup Of("index", t, {"email_type", "status", "triggered_by"})
     \cup Of("references", t, {"user_credentials"})

UserActivation ==
  LET t == "user_activations"
  IN IdMixin(t) \cup CreatedAtMixin(t) \cup UpdatedAtMixin(t)
     \cup CreateTable(t, {"credentials_id", "activation_token_hash",
                          "activation_token_expires_at"}, {})
     \cup Of("unique", t, {"credentials_id"})
     \cup Of("references", t, {"user_credentials"})

UserLoginLockout ==
  LET t == "user_login_lockouts"
  IN IdMixin(t) \cup CreatedAtMixin(t) \cup UpdatedAtMixin(t)
     \cup CreateTable(t, {"credentials_id", "failed_attempts"},
                         {"locked_until", "last_failed_at"})
     \cup Of("unique", t, {"credentials_id"})
     \cup Of("references", t, {"user_credentials"})

LoginHistory ==
  LET t == "login_history"
  IN IdMixin(t) \cup CreatedAtMixin(t)
     \cup CreateTable(t, {"credentials_id", "success"},
                         {"ip_address", "user_agent", "failure_reason"})
     \cup Of("references", t, {"user_credentials"})
     \cup Of("index", t, {"credentials_id"})

IdempotencyRecord ==
  LET t == "idempotency_records"
  IN IdMixin(t) \cup CreatedAtMixin(t)
     \cup CreateTable(t, {"key", "operation", "actor_id", "request_hash",
                          "http_status", "expires_at"}, {"response_body"})
     \cup Of("unique", t, {"operation, actor_id, key"})
     \cup Of("index", t, {"expires_at"})

Metadata ==
  UserIdentity \cup UserCredentials \cup UserSession \cup Email
  \cup UserActivation \cup UserLoginLockout \cup LoginHistory
  \cup IdempotencyRecord
=============================================================================
