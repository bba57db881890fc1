------------------------------ MODULE Accounts ------------------------------
(***************************************************************************)
(* AuthService: accounts, the tokens it signs, and the administrator that  *)
(* main makes sure of before the server listens.  Passwords are what they  *)
(* hash to; a token carries the role its account had when it was signed.   *)
(***************************************************************************)
EXTENDS Integers

CONSTANTS
    Names,       \* user names
    AdminConfigs \* what ORDER_ADMIN_USERNAME and _PASSWORD may be set to over time

VARIABLES
    account,     \* account[n]: the row with that user name
    tokens,      \* tokens in circulation
    config,      \* the settings the process was last started with
    configured   \* history: names that were ever configured as administrator

accountVars == <<account, tokens, config, configured>>

NoAccount == [password |-> "none", role |-> "none"]
Account(password, role) == [password |-> password, role |-> role]
Exists(n) == account[n] # NoAccount

Role(role) == IF role \in {"USER", "ADMIN"} THEN role ELSE "USER"

signToken(n, role) == tokens' = tokens \cup {[name |-> n, role |-> Role(role)]}

\* An unused name gets an account and a token.
Register(n) ==
    /\ ~Exists(n)
    /\ account' = [account EXCEPT ![n] = Account("own", "USER")]
    /\ signToken(n, "USER")
    /\ UNCHANGED <<config, configured>>

Login(n, password) ==
    /\ Exists(n)
    /\ account[n].password = password
    /\ signToken(n, account[n].role)
    /\ UNCHANGED <<account, config, configured>>

\* Slip: an account that is there already is left as it is.
EnsureAdminIfMissing ==
    /\ account' = IF Exists(config.name) THEN account
                  ELSE [account EXCEPT ![config.name] = Account(config.password, "ADMIN")]
    /\ UNCHANGED <<tokens, config, configured>>

\* Created, or overwritten with the configured password and role.
EnsureAdmin ==
    /\ account' = [account EXCEPT ![config.name] = Account(config.password, "ADMIN")]
    /\ UNCHANGED <<tokens, config, configured>>

\* Slip: roles that are missing are filled in with the wrong one.
FillRolesAdmin ==
    /\ account' = [n \in Names |-> IF Exists(n) /\ account[n].role = ""
                                   THEN [account[n] EXCEPT !.role = "ADMIN"]
                                   ELSE account[n]]
    /\ UNCHANGED <<tokens, config, configured>>

\* database.Open: accounts of the earlier version have no role.
FillRoles ==
    /\ account' = [n \in Names |-> IF Exists(n) /\ account[n].role = ""
                                   THEN [account[n] EXCEPT !.role = "USER"]
                                   ELSE account[n]]
    /\ UNCHANGED <<tokens, config, configured>>

LoadConfig(c) ==
    /\ config' = c
    /\ configured' = configured \cup {c.name}
    /\ UNCHANGED <<account, tokens>>

AccountsInit(legacy) ==
    /\ account \in [Names -> {NoAccount} \cup IF legacy THEN {Account("own", "")} ELSE {}]
    /\ tokens = {}
    /\ config = CHOOSE c \in AdminConfigs : TRUE
    /\ configured = {}

-----------------------------------------------------------------------------
(* Properties *)

\* Every variable has its type.
AccountsTypeOK ==
    /\ account \in [Names -> [password : {"none", "own"} \cup {c.password : c \in AdminConfigs},
                              role : {"none", "", "USER", "ADMIN"}]]
    /\ tokens \subseteq [name : Names, role : {"USER", "ADMIN"}]
    /\ config \in AdminConfigs
    /\ configured \subseteq Names

\* Nobody but an account that was configured as administrator at some time has
\* that role or a token that says so, whatever the order of registrations,
\* logins, interrupted migrations and restarts with other settings.
AdminsWereConfigured ==
    /\ \A n \in Names : account[n].role = "ADMIN" => n \in configured
    /\ \A t \in tokens : t.role = "ADMIN" => t.name \in configured
=============================================================================
