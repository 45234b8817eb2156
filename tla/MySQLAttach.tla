----------------------------- MODULE MySQLAttach ------------------------------
(***************************************************************************)
(* ATTACH ... (TYPE mysql): from the path, a secret and the environment to *)
(* the catalog of the database, and the connections that are opened for it *)
(* later, one for every transaction.  Each of them reads the connection    *)
(* string, and the environment, anew (MySQLUtils::Connect).                *)
(***************************************************************************)
EXTENDS MySQLConnectionString

CONSTANTS
  Paths,             \* the paths given to ATTACH: see AttachAssumption
  SecretContents,    \* the options a secret may have
  SecretPlaces,      \* the secrets there may be: <<name, storage>>
  MaxSecrets,        \* bound: the secrets that are created
  EnvironmentValues  \* the values environment variables may be set to

\* "given" is what the text of a path says, Malformed if it says nothing.
Malformed == [malformed |-> TRUE]

ASSUME AttachAssumption ==
  /\ \A path \in Paths : DOMAIN path = {"given", "uri", "text"}
  /\ \A secret \in SecretContents : DOMAIN secret \subseteq ToSet(SecretOptions)
  /\ DOMAIN EnvironmentValues \subseteq EnvironmentOptions

DefaultSecret == "__default_mysql"
SecretNames == {place[1] : place \in SecretPlaces}

VARIABLES
  secrets,         \* the secret at each place, NoSecret for none
  env,             \* the environment variables that are set
  externalAccess,  \* enable_external_access
  catalog,         \* the MySQLCatalog, NotAttached if there is none
  connecting,      \* the host being tried, and for whom; Idle otherwise
  session,         \* the last connection opened, NoSession if there is none
  outcome,         \* auxiliary: the last ATTACH and how it ended
  moved            \* auxiliary: the environment changed since ATTACH

attachVars == <<secrets, env, externalAccess, catalog, connecting, session, outcome, moved>>

NotAttached == [string |-> Invalid]
Idle == [phase |-> "idle"]
NoSession == [host |-> "none"]
NoOutcome == [result |-> "none"]

AttachTypeOK ==
  /\ secrets \in [SecretPlaces -> SecretContents \cup {NoSecret}]
  /\ \A option \in DOMAIN env : env[option] \in EnvironmentValues[option]
  /\ externalAccess \in BOOLEAN /\ moved \in BOOLEAN
  /\ catalog # NotAttached => catalog.string # Invalid
  /\ connecting.phase \in {"idle", "first", "retry"}
  /\ outcome.result \in {"none", "pending", "attached", "refused", "unreachable"}
  /\ outcome.result = "pending" => connecting # Idle

AttachInit ==
  /\ secrets = [place \in SecretPlaces |-> NoSecret]
  /\ env = NoOptions
  /\ externalAccess = TRUE
  /\ catalog = NotAttached
  /\ connecting = Idle
  /\ session = NoSession
  /\ outcome = NoOutcome
  /\ moved = FALSE
-----------------------------------------------------------------------------
\* Bound: what only ATTACH reads changes between two of them.
Unattached == catalog = NotAttached /\ outcome = NoOutcome

\* CREATE SECRET accepts the options it lists and no other.
CreateMySQLSecretFunction ==
  /\ Unattached
  /\ Cardinality({place \in SecretPlaces : secrets[place] # NoSecret}) < MaxSecrets
  /\ \E place \in SecretPlaces, content \in SecretContents :
       /\ secrets[place] = NoSecret
       /\ secrets' = [secrets EXCEPT ![place] = content]
  /\ UNCHANGED <<env, externalAccess, catalog, connecting, session, outcome, moved>>

SetEnvironment ==
  /\ \E option \in DOMAIN EnvironmentValues \ DOMAIN env :
       \E value \in EnvironmentValues[option] :
         env' = [x \in DOMAIN env \cup {option} |-> IF x = option THEN value ELSE env[x]]
  /\ moved' = (catalog # NotAttached)
  /\ UNCHANGED <<secrets, externalAccess, catalog, connecting, session, outcome>>

DisableExternalAccess ==
  /\ Unattached
  /\ externalAccess' = FALSE
  /\ UNCHANGED <<secrets, env, catalog, connecting, session, outcome, moved>>

\* The secret of that name, the one in memory before the persistent one.
GetSecret(name) ==
  LET at(storage) == IF <<name, storage>> \in SecretPlaces
                     THEN secrets[<<name, storage>>] ELSE NoSecret
  IN IF at("memory") # NoSecret THEN at("memory") ELSE at("local_file")

\* The host and the values a connection is opened with: "" for a default.
Chosen(params, option) == IF option \in DOMAIN params THEN params[option] ELSE <<>>

\* Mutant of DefaultSchema: the environment is forgotten.
SchemaOfString(string) == Chosen(ParseOptions(string), "database")

\* What the constructor of MySQLCatalog makes the default schema.
DefaultSchema(string) == Chosen(ParseConnectionParameters(string, env), "database")

\* External access is disabled, or an option is none of TYPE, READ_ONLY and
\* SECRET: nothing is read.
RefuseAttach ==
  /\ Unattached
  /\ outcome' = [result |-> "refused"]
  /\ UNCHANGED <<secrets, env, externalAccess, catalog, connecting, session, moved>>

(***************************************************************************)
(* ATTACH of a path, and of a secret if one is named.  The constructor   *)
(* of the catalog reads the connection string and opens a connection to    *)
(* try it.                                                                 *)
(***************************************************************************)
MySQLAttach(request, string) ==
  /\ IF \/ request.explicit /\ request.secret = NoSecret
        \/ string = Invalid
        \/ ParseConnectionParameters(string, env) = Error
     THEN /\ outcome' = [result |-> "refused", request |-> request]
          /\ UNCHANGED <<catalog, connecting, moved>>
     ELSE /\ catalog' = [string |-> string, default_schema |-> DefaultSchema(string)]
          /\ outcome' = [result |-> "pending", request |-> request]
          /\ connecting' = [phase |-> "first"]
          /\ moved' = FALSE
  /\ UNCHANGED <<secrets, env, externalAccess, session>>

Attach(path, name) ==
  LET explicit == name # ""
      secret   == GetSecret(IF explicit THEN name ELSE DefaultSecret)
  IN /\ Unattached /\ externalAccess
     /\ MySQLAttach([path |-> path, secret |-> secret, explicit |-> explicit, env |-> env],
                    GetConnectionString(path.text, secret, env))

\* The error of an ATTACH reaches the client.
Report ==
  /\ outcome.result \in {"refused", "unreachable"}
  /\ outcome' = NoOutcome
  /\ UNCHANGED <<secrets, env, externalAccess, catalog, connecting, session, moved>>

\* A transaction opens its connection.
Open ==
  /\ catalog # NotAttached /\ connecting = Idle
  /\ connecting' = [phase |-> "first"]
  /\ session' = NoSession
  /\ UNCHANGED <<secrets, env, externalAccess, catalog, outcome, moved>>

\* Mutant of Fail: the constructor of MySQLCatalog swallows it.
FailQuietly ==
  /\ connecting' = Idle
  /\ UNCHANGED <<catalog, outcome, session>>

\* Connect throws: an ATTACH fails with it, a catalog that exists stays.
Fail ==
  /\ connecting' = Idle
  /\ IF outcome.result = "pending"
     THEN catalog' = NotAttached /\ outcome' = [outcome EXCEPT !.result = "unreachable"]
     ELSE UNCHANGED <<catalog, outcome>>
  /\ UNCHANGED session

Connected(host, params, environment) ==
  /\ session' = [host |-> host, params |-> params, env |-> environment]
  /\ connecting' = Idle
  /\ outcome' = IF outcome.result = "pending"
                THEN [outcome EXCEPT !.result = "attached"] ELSE outcome
  /\ UNCHANGED catalog

Localhost == {<<>>, <<"localhost">>}

\* Mutant of TryHost: every host is followed by 127.0.0.1.
TryHostOrRetry(params) ==
  IF params = Error THEN Fail
  ELSE \/ Connected(Chosen(params, "host"), params, env)
       \/ /\ connecting' = [phase |-> "retry", params |-> params, env |-> env]
          /\ UNCHANGED <<catalog, session, outcome>>

TryHost(params) ==
  IF params = Error THEN Fail
  ELSE \/ Connected(Chosen(params, "host"), params, env)
       \/ /\ Chosen(params, "host") \in Localhost
          /\ connecting' = [phase |-> "retry", params |-> params, env |-> env]
          /\ UNCHANGED <<catalog, session, outcome>>
       \/ Fail

(***************************************************************************)
(* MySQLUtils::Connect reads the connection string and tries the host it   *)
(* names.  The server may be down or not have the database, mysql_init and *)
(* what follows a connection (mysql_set_character_set) may fail.           *)
(***************************************************************************)
Connect ==
  /\ connecting.phase = "first"
  /\ TryHost(ParseConnectionParameters(catalog.string, env))
  /\ UNCHANGED <<secrets, env, externalAccess, moved>>

\* The second attempt.
Retry ==
  /\ connecting.phase = "retry"
  /\ \/ Connected(<<"127.0.0.1">>, connecting.params, connecting.env)
     \/ Fail
  /\ UNCHANGED <<secrets, env, externalAccess, moved>>

Detach ==
  /\ catalog # NotAttached /\ connecting = Idle
  /\ catalog' = NotAttached /\ session' = NoSession /\ outcome' = NoOutcome
  /\ moved' = FALSE
  /\ UNCHANGED <<secrets, env, externalAccess, connecting>>

AttachNext ==
  \/ CreateMySQLSecretFunction \/ SetEnvironment \/ DisableExternalAccess
  \/ RefuseAttach
  \/ \E path \in Paths, name \in SecretNames \cup {""} : Attach(path, name)
  \/ Report \/ Open \/ Connect \/ Retry \/ Detach
-----------------------------------------------------------------------------
(***************************************************************************)
(* What a path says, as it is read: the escape of a colon in a URI stands  *)
(* for a semicolon in the code's table.                                    *)
(***************************************************************************)
AsRead(path, option) ==
  LET value == path.given[option]
  IN [i \in DOMAIN value |-> IF path.uri /\ value[i] = ":" THEN ";" ELSE value[i]]

\* The value of an option: of the path, of the secret, of the environment.
Source(request, environment, option) ==
  CASE option \in DOMAIN request.path.given -> AsRead(request.path, option)
    [] option \in DOMAIN request.secret \ DOMAIN request.path.given -> request.secret[option]
    [] option \in (DOMAIN environment \cap EnvironmentOptions)
                 \ (DOMAIN request.secret \cup DOMAIN request.path.given) -> environment[option]
    [] OTHER -> <<>>

(***************************************************************************)
(* Every connection is opened with the value of the path for each option   *)
(* it gives, with the secret's for those it does not, and with the         *)
(* environment's for what neither has; no character of a value is lost or  *)
(* added on the way through escapes, quotes and URI tokens.                *)
(***************************************************************************)
SourcesInOrder ==
  session # NoSession =>
    \A option \in Options :
      Chosen(session.params, option) = Source(outcome.request, session.env, option)

\* A connection string with a question mark is taken for a URI.
TakenForURI(path) == ~path.uri /\ \E i \in DOMAIN path.text : path.text[i] = "?"

\* The statement names a secret there is not, or its path says nothing.
Unreadable(request) ==
  \/ request.explicit /\ request.secret = NoSecret
  \/ request.path.given = Malformed

OutOfRange(port) == port # <<>> /\ ~ValidPort(port)

\* The port of the connection, and the one of the path and the environment alone.
UsedPort(request) == Source(request, request.env, "port")
BarePort(request) == Source([request EXCEPT !.secret = NoSecret], request.env, "port")

BadPort(request) ==
  \/ OutOfRange(UsedPort(request))
  \/ request.secret # NoSecret /\ OutOfRange(BarePort(request))

(***************************************************************************)
(* ATTACH is refused for a cause its statement, its secret or the          *)
(* environment contains, and whenever there is one: never because a secret *)
(* and a path both have an option, or because of the characters of a       *)
(* value, and no reader on the way lets pass what another would refuse.    *)
(* The port of the environment is a cause already when the path alone is   *)
(* read to find what a secret has to add.                                  *)
(***************************************************************************)
RefusedForACause ==
  /\ outcome.result = "refused" /\ outcome # [result |-> "refused"] =>
       \/ Unreadable(outcome.request) \/ BadPort(outcome.request)
       \/ TakenForURI(outcome.request.path)
  /\ outcome.result \in {"pending", "attached", "unreachable"} =>
       ~Unreadable(outcome.request) /\ ~BadPort(outcome.request)

(***************************************************************************)
(* A connection goes to the host that was asked for; 127.0.0.1 stands in   *)
(* only for no host or for localhost.                                      *)
(***************************************************************************)
ConnectsWhereTold ==
  session # NoSession =>
    LET host == Source(outcome.request, session.env, "host")
    IN session.host = host \/ (host \in Localhost /\ session.host = <<"127.0.0.1">>)

(***************************************************************************)
(* The default schema of the catalog is the database of its connections,   *)
(* where unqualified statements end up, unless the environment changed     *)
(* after ATTACH.                                                           *)
(***************************************************************************)
DefaultIsSession ==
  session # NoSession /\ ~moved =>
    Chosen(session.params, "database") = catalog.default_schema
=============================================================================
