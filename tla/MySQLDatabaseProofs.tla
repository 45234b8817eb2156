-------------------------- MODULE MySQLDatabaseProofs --------------------------
(***************************************************************************)
(* An attached database, for any paths, secrets and environment and any    *)
(* schemas, tables, indexes and columns: the properties of the catalog     *)
(* hold in every state of MySQLDatabase, and a connection is opened with   *)
(* what the string of its catalog says, whatever reading a string gives.   *)
(* The last part is about that reading: an option that was written into a  *)
(* string is read from it.                                                 *)
(***************************************************************************)
EXTENDS MySQLDatabase, MySQLCatalogProofs, WellFoundedInduction

\* The parameters are what the string of the catalog and the environment say.
ReadFrom(params, environment) ==
  params = ParseConnectionParameters(catalog.string, environment)

(***************************************************************************)
(* A connection is opened for a catalog that exists, from its string and   *)
(* the environment of the moment, which is the one of ATTACH unless it was *)
(* changed; the second attempt is for no host or for localhost.            *)
(***************************************************************************)
AttachInv ==
  /\ AttachTypeOK
  /\ "result" \in DOMAIN outcome
  /\ outcome.result = "pending" => session = NoSession
  /\ session # NoSession => catalog # NotAttached
  /\ connecting.phase # "idle" => catalog # NotAttached
  /\ catalog # NotAttached /\ ~moved =>
       catalog.default_schema = Chosen(ParseConnectionParameters(catalog.string, env), "database")
  /\ connecting.phase = "retry" =>
       /\ ReadFrom(connecting.params, connecting.env) /\ (~moved => connecting.env = env)
       /\ Chosen(connecting.params, "host") \in Localhost
  /\ session # NoSession =>
       /\ ReadFrom(session.params, session.env) /\ (~moved => session.env = env)
       /\ \/ session.host = Chosen(session.params, "host")
          \/ /\ session.host = <<"127.0.0.1">>
             /\ Chosen(session.params, "host") \in Localhost

IInv ==
  /\ AttachInv /\ CatalogInv
  /\ phase \in {"attaching", "open"}
  /\ phase = "attaching" => cache = EmptySet

LEMMA Phases ==
  /\ Idle.phase = "idle" /\ [phase |-> "first"].phase = "first"
  /\ [phase |-> "first"] # Idle
  /\ \A params, environment :
       LET c == [phase |-> "retry", params |-> params, env |-> environment] IN
       c.phase = "retry" /\ c.params = params /\ c.env = environment /\ c # Idle
  /\ NoOutcome.result = "none" /\ "result" \in DOMAIN NoOutcome
  /\ NotAttached.string = Invalid
  BY DEF Idle, NoOutcome, NotAttached

LEMMA InitAttach ==
  ASSUME AttachInit
  PROVE  AttachInv
  <1>1. \A option \in DOMAIN NoOptions : NoOptions[option] \in EnvironmentValues[option]
    BY DEF NoOptions
  <1>2. secrets \in [SecretPlaces -> SecretContents \cup {NoSecret}]
    BY DEF AttachInit
  <1>3. AttachTypeOK
    BY <1>1, <1>2, Phases DEF AttachInit, AttachTypeOK
  <1>. QED  BY <1>3, Phases DEF AttachInit, AttachInv

LEMMA CreateSecretKeeps ==
  ASSUME AttachInv, CreateMySQLSecretFunction
  PROVE  AttachInv'
  <1>1. secrets' \in [SecretPlaces -> SecretContents \cup {NoSecret}]
    BY DEF AttachInv, AttachTypeOK, CreateMySQLSecretFunction
  <1>. QED
    BY <1>1 DEF AttachInv, AttachTypeOK, CreateMySQLSecretFunction, ReadFrom

LEMMA SetEnvironmentKeeps ==
  ASSUME AttachInv, SetEnvironment
  PROVE  AttachInv'
  <1>1. \A option \in DOMAIN env' : env'[option] \in EnvironmentValues[option]
    BY DEF AttachInv, AttachTypeOK, SetEnvironment
  <1>2. moved' = (catalog # NotAttached)
        /\ UNCHANGED <<secrets, externalAccess, catalog, connecting, session, outcome>>
    BY DEF SetEnvironment
  <1>. QED  BY <1>1, <1>2 DEF AttachInv, AttachTypeOK, ReadFrom

LEMMA DisableKeeps ==
  ASSUME AttachInv, DisableExternalAccess
  PROVE  AttachInv'
  BY DEF AttachInv, AttachTypeOK, DisableExternalAccess, ReadFrom

LEMMA ReportKeeps ==
  ASSUME AttachInv, Report \/ RefuseAttach
  PROVE  AttachInv'
  <1>1. /\ outcome'.result \in {"none", "refused"} /\ "result" \in DOMAIN outcome'
        /\ UNCHANGED <<secrets, env, externalAccess, catalog, connecting, session, moved>>
    BY Phases DEF Report, RefuseAttach
  <1>. QED  BY <1>1 DEF AttachInv, AttachTypeOK, ReadFrom

LEMMA AttachKeeps ==
  ASSUME AttachInv, NEW path, NEW name, Attach(path, name)
  PROVE  AttachInv'
  <1> DEFINE secret  == GetSecret(IF name # "" THEN name ELSE DefaultSecret)
             request == [path |-> path, secret |-> secret, explicit |-> name # "", env |-> env]
             string  == GetConnectionString(path.text, secret, env)
  <1>1. Unattached /\ MySQLAttach(request, string)
    BY DEF Attach
  <1> HIDE DEF secret, request, string
  <1>2. session = NoSession /\ connecting.phase = "idle"
    BY <1>1 DEF AttachInv, AttachTypeOK, Unattached
  <1>3. UNCHANGED <<secrets, env, externalAccess, session>>
    BY <1>1 DEF MySQLAttach
  <1>4. CASE /\ outcome' = [result |-> "refused", request |-> request]
             /\ UNCHANGED <<catalog, connecting, moved>>
    <2>1. outcome'.result = "refused" /\ "result" \in DOMAIN outcome'
      BY <1>4
    <2>. QED  BY <1>2, <1>3, <1>4, <2>1 DEF AttachInv, AttachTypeOK, ReadFrom
  <1>5. CASE /\ string # Invalid
             /\ catalog' = [string |-> string, default_schema |-> DefaultSchema(string)]
             /\ outcome' = [result |-> "pending", request |-> request]
             /\ connecting' = [phase |-> "first"]
             /\ moved' = FALSE
    <2>1. outcome'.result = "pending" /\ "result" \in DOMAIN outcome'
      BY <1>5
    <2>2. connecting'.phase = "first" /\ connecting' # Idle
      BY <1>5, Phases
    <2>3. catalog'.string = string /\ catalog' # NotAttached
          /\ catalog'.default_schema
               = Chosen(ParseConnectionParameters(catalog'.string, env'), "database")
      BY <1>3, <1>5, Phases DEF DefaultSchema
    <2>. QED  BY <1>2, <1>3, <1>5, <2>1, <2>2, <2>3 DEF AttachInv, AttachTypeOK, ReadFrom
  <1>. QED  BY <1>1, <1>4, <1>5 DEF MySQLAttach

LEMMA OpenKeeps ==
  ASSUME AttachInv, Open
  PROVE  AttachInv'
  <1>1. connecting'.phase = "first" /\ connecting' # Idle
    BY Phases DEF Open
  <1>. QED  BY <1>1 DEF AttachInv, AttachTypeOK, Open, ReadFrom

LEMMA FailKeeps ==
  ASSUME AttachInv, Fail, UNCHANGED <<secrets, env, externalAccess, moved>>
  PROVE  AttachInv'
  <1>1. connecting' = Idle /\ connecting'.phase = "idle" /\ UNCHANGED session
    BY Phases DEF Fail
  <1>2. CASE outcome.result = "pending"
    <2>1. catalog' = NotAttached /\ outcome' = [outcome EXCEPT !.result = "unreachable"]
      BY <1>2 DEF Fail
    <2>2. outcome'.result = "unreachable" /\ "result" \in DOMAIN outcome'
      BY <2>1 DEF AttachInv
    <2>3. session = NoSession
      BY <1>2 DEF AttachInv
    <2>. QED  BY <1>1, <2>1, <2>2, <2>3 DEF AttachInv, AttachTypeOK, ReadFrom
  <1>3. CASE outcome.result # "pending"
    <2>1. UNCHANGED <<catalog, outcome>>
      BY <1>3 DEF Fail
    <2>. QED  BY <1>1, <1>3, <2>1 DEF AttachInv, AttachTypeOK, ReadFrom
  <1>. QED  BY <1>2, <1>3

LEMMA ConnectedKeeps ==
  ASSUME AttachInv, UNCHANGED <<secrets, env, externalAccess, moved>>,
         catalog # NotAttached, NEW host, NEW params, NEW environment,
         ReadFrom(params, environment), ~moved => environment = env,
         \/ host = Chosen(params, "host")
         \/ host = <<"127.0.0.1">> /\ Chosen(params, "host") \in Localhost,
         Connected(host, params, environment)
  PROVE  AttachInv'
  <1>1. connecting' = Idle /\ connecting'.phase = "idle" /\ UNCHANGED catalog
    BY Phases DEF Connected
  <1>2. /\ session'.host = host /\ session'.params = params
        /\ session'.env = environment
    BY DEF Connected
  <1>3. /\ outcome'.result \in {"attached", outcome.result} /\ outcome'.result # "pending"
        /\ "result" \in DOMAIN outcome'
    BY DEF Connected, AttachInv
  <1>4. AttachTypeOK'
    BY <1>1, <1>3 DEF AttachInv, AttachTypeOK
  <1>5. /\ ReadFrom(session.params, session.env)' /\ (~moved' => session'.env = env')
        /\ \/ session'.host = Chosen(session'.params, "host")
           \/ /\ session'.host = <<"127.0.0.1">>
              /\ Chosen(session'.params, "host") \in Localhost
    BY <1>1, <1>2 DEF ReadFrom
  <1>6. catalog' # NotAttached /\ ~moved' =>
          catalog'.default_schema
            = Chosen(ParseConnectionParameters(catalog'.string, env'), "database")
    BY <1>1 DEF AttachInv
  <1>. QED  BY <1>1, <1>3, <1>4, <1>5, <1>6 DEF AttachInv

LEMMA ConnectKeeps ==
  ASSUME AttachInv, Connect
  PROVE  AttachInv'
  <1> DEFINE params == ParseConnectionParameters(catalog.string, env)
  <1>1. connecting.phase = "first" /\ TryHost(params)
        /\ UNCHANGED <<secrets, env, externalAccess, moved>>
    BY DEF Connect
  <1>2. catalog # NotAttached /\ ReadFrom(params, env)
    BY <1>1 DEF AttachInv, ReadFrom
  <1> HIDE DEF params
  <1>3. CASE Fail
    BY <1>1, <1>3, FailKeeps
  <1>4. CASE Connected(Chosen(params, "host"), params, env)
    BY <1>1, <1>2, <1>4, ConnectedKeeps
  <1>5. CASE /\ Chosen(params, "host") \in Localhost
             /\ connecting' = [phase |-> "retry", params |-> params, env |-> env]
             /\ UNCHANGED <<catalog, session, outcome>>
    <2>1. /\ connecting'.phase = "retry" /\ connecting'.params = params
          /\ connecting'.env = env /\ connecting' # Idle
      BY <1>5, Phases
    <2>2. ReadFrom(connecting.params, connecting.env)'
      BY <1>2, <1>5, <2>1 DEF ReadFrom
    <2>. QED  BY <1>1, <1>2, <1>5, <2>1, <2>2 DEF AttachInv, AttachTypeOK, ReadFrom
  <1>. QED  BY <1>1, <1>3, <1>4, <1>5 DEF TryHost

LEMMA RetryKeeps ==
  ASSUME AttachInv, Retry
  PROVE  AttachInv'
  <1>1. connecting.phase = "retry" /\ UNCHANGED <<secrets, env, externalAccess, moved>>
    BY DEF Retry
  <1>2. /\ catalog # NotAttached
        /\ ReadFrom(connecting.params, connecting.env) /\ (~moved => connecting.env = env)
        /\ Chosen(connecting.params, "host") \in Localhost
    BY <1>1 DEF AttachInv
  <1>3. CASE Fail
    BY <1>1, <1>3, FailKeeps
  <1>4. CASE Connected(<<"127.0.0.1">>, connecting.params, connecting.env)
    BY <1>1, <1>2, <1>4, ConnectedKeeps
  <1>. QED  BY <1>3, <1>4 DEF Retry

LEMMA DetachKeeps ==
  ASSUME AttachInv, Detach
  PROVE  AttachInv'
  <1>1. /\ catalog' = NotAttached /\ session' = NoSession /\ outcome' = NoOutcome /\ moved' = FALSE
        /\ connecting = Idle /\ UNCHANGED <<secrets, env, externalAccess, connecting>>
    BY DEF Detach
  <1>. QED  BY <1>1, Phases DEF AttachInv, AttachTypeOK

LEMMA AttachNextKeeps ==
  ASSUME AttachInv, AttachNext
  PROVE  AttachInv'
  BY CreateSecretKeeps, SetEnvironmentKeeps, DisableKeeps, ReportKeeps, AttachKeeps,
     OpenKeeps, ConnectKeeps, RetryKeeps, DetachKeeps DEF AttachNext

LEMMA FirstStatementKeeps ==
  ASSUME IInv, FirstStatement
  PROVE  IInv'
  <1>1. AttachInv'
    <2>1. /\ secrets' \in [SecretPlaces -> SecretContents \cup {NoSecret}]
          /\ \A option \in DOMAIN env' : env'[option] \in EnvironmentValues[option]
      BY DEF FirstStatement, NoOptions
    <2>2. /\ externalAccess' = TRUE /\ moved' = FALSE
          /\ catalog' = NotAttached /\ connecting' = Idle
          /\ session' = NoSession /\ outcome' = NoOutcome
      BY DEF FirstStatement
    <2>. QED  BY <2>1, <2>2, Phases DEF AttachInv, AttachTypeOK
  <1>2. CatalogInv'
    <2>1. cache = EmptySet /\ UNCHANGED <<cache, settings, changes, outdated>>
      BY DEF IInv, FirstStatement
    <2>2. PICK contents \in Contents :
            database' \in DOMAIN contents.schemas \cup {NoSchema} /\ server' = contents
      BY DEF FirstStatement
    <2>3. IsServer(server')
      BY <2>2, FirstContents
    <2>4. database' \in Schemas \cup {NoSchema}
      BY <2>2, <2>3 DEF IsServer
    <2>5. IsCache(cache') /\ Fits(settings', cache', server')
      BY <2>1, EmptyCache
    <2>. QED  BY <2>1, <2>3, <2>4, <2>5 DEF IInv, CatalogInv
  <1>3. phase' = "open"
    BY DEF FirstStatement
  <1>. QED  BY <1>1, <1>2, <1>3 DEF IInv

(***************************************************************************)
(* The invariant is inductive.                                             *)
(***************************************************************************)
LEMMA InitHolds == Init => IInv
  BY InitAttach, InitFits DEF Init, IInv, CatalogInit

LEMMA NextKeeps == IInv /\ [Next]_vars => IInv'
  <1> SUFFICES ASSUME IInv, [Next]_vars PROVE IInv'
    OBVIOUS
  <1>1. CASE phase = "attaching" /\ AttachNext /\ UNCHANGED <<catalogVars, phase>>
    <2>1. AttachInv'
      BY <1>1, AttachNextKeeps DEF IInv
    <2>2. CatalogInv'
      BY <1>1, StutterKeeps DEF IInv
    <2>3. UNCHANGED cache
      BY <1>1 DEF catalogVars
    <2>. QED  BY <1>1, <2>1, <2>2, <2>3 DEF IInv
  <1>2. CASE FirstStatement
    BY <1>2, FirstStatementKeeps
  <1>3. CASE phase = "open" /\ CatalogNext /\ UNCHANGED <<attachVars, phase>>
    <2>1. AttachInv'
      BY <1>3 DEF IInv, AttachInv, AttachTypeOK, ReadFrom, attachVars
    <2>2. CatalogInv'
      BY <1>3, CatalogNextKeeps DEF IInv
    <2>. QED  BY <1>3, <2>1, <2>2 DEF IInv
  <1>4. CASE UNCHANGED vars
    <2>1. AttachInv'
      BY <1>4 DEF IInv, AttachInv, AttachTypeOK, ReadFrom, vars, attachVars
    <2>2. CatalogInv'
      BY <1>4, StutterKeeps DEF IInv, vars
    <2>. QED  BY <1>4, <2>1, <2>2 DEF IInv, vars, catalogVars
  <1>. QED  BY <1>1, <1>2, <1>3, <1>4 DEF Next

THEOREM InvHolds == Spec => []IInv
  BY InitHolds, NextKeeps, PTL DEF Spec

(***************************************************************************)
(* Type correctness, of ATTACH and of the catalog.                         *)
(***************************************************************************)
THEOREM TypesHoldAlways == Spec => []TypeOK
  <1>1. IInv => TypeOK
    BY InvTypes DEF IInv, AttachInv, TypeOK
  <1>. QED  BY <1>1, InvHolds, PTL

(***************************************************************************)
(* The sets of schemas and of tables never have an entry the server does   *)
(* not have, nor miss one once they are loaded, until the server changes   *)
(* without the cache (MySQLSchemaSet, MySQLTableSet).                      *)
(***************************************************************************)
THEOREM CoherentAlways == Spec => []SchemasCoherent
  <1>1. IInv => SchemasCoherent
    BY InvCoherent DEF IInv
  <1>. QED  BY <1>1, InvHolds, PTL

(***************************************************************************)
(* A cached definition is the one a load under the current settings gives, *)
(* although CREATE TABLE enters DuckDB's own (MySQLTableSet::CreateTable). *)
(***************************************************************************)
THEOREM AsLoadedAlways == Spec => []CachedAsLoaded
  <1>1. IInv => CachedAsLoaded
    BY InvAsLoaded DEF IInv
  <1>. QED  BY <1>1, InvHolds, PTL

(***************************************************************************)
(* MySQLScan reads the ends of the range of every integer and boolean      *)
(* column as they are, whatever the settings and the declared width.       *)
(***************************************************************************)
THEOREM ReadsTrueAlways == Spec => []ScansReadTrue
  <1>1. IInv => ScansReadTrue
    BY InvScans DEF IInv
  <1>. QED  BY <1>1, InvHolds, PTL

(***************************************************************************)
(* mysql_query (FieldToLogicalType) and the catalog (TypeToLogicalType)    *)
(* give a column one type.                                                 *)
(***************************************************************************)
THEOREM QueryAgreesAlways == Spec => []QueryAgreesWithScan
  <1>1. IInv => QueryAgreesWithScan
    BY InvQuery DEF IInv
  <1>. QED  BY <1>1, InvHolds, PTL

(***************************************************************************)
(* An index a client sees in the schema MySQLIndexSet reads is there.      *)
(***************************************************************************)
THEOREM IndexesExistAlways == Spec => []IndexEntriesExist
  <1>1. IInv => IndexEntriesExist
    BY InvIndexes DEF IInv
  <1>. QED  BY <1>1, InvHolds, PTL

(***************************************************************************)
(* The schema unqualified names are looked up in is the one the server     *)
(* takes them for, whatever a string and the environment say.              *)
(***************************************************************************)
THEOREM DefaultIsSessionAlways == Spec => []DefaultIsSession
  <1>1. IInv => DefaultIsSession
    <2> SUFFICES ASSUME IInv, session # NoSession, ~moved
                 PROVE  Chosen(session.params, "database") = catalog.default_schema
      BY DEF DefaultIsSession
    <2>1. /\ catalog # NotAttached
          /\ session.params = ParseConnectionParameters(catalog.string, session.env)
          /\ session.env = env
      BY DEF IInv, AttachInv, ReadFrom
    <2>2. catalog.default_schema
            = Chosen(ParseConnectionParameters(catalog.string, env), "database")
      BY <2>1 DEF IInv, AttachInv
    <2>. QED  BY <2>1, <2>2
  <1>. QED  BY <1>1, InvHolds, PTL

(***************************************************************************)
(* Where the values of the sources reach the connection (SourcesInOrder,   *)
(* which the runs check), it goes to the host that was asked for: the      *)
(* second attempt of MySQLUtils::Connect never replaces another one.       *)
(***************************************************************************)
THEOREM ConnectsWhereToldAlways == Spec => [](SourcesInOrder => ConnectsWhereTold)
  <1>1. "host" \in Options
    <2>1. "host" \in DOMAIN OptionOf /\ OptionOf["host"] = "host"
      BY DEF OptionOf
    <2>. QED  BY <2>1 DEF Options
  <1>2. IInv => (SourcesInOrder => ConnectsWhereTold)
    <2> SUFFICES ASSUME IInv, SourcesInOrder, session # NoSession
                 PROVE  LET host == Source(outcome.request, session.env, "host") IN
                        \/ session.host = host
                        \/ host \in Localhost /\ session.host = <<"127.0.0.1">>
      BY DEF ConnectsWhereTold
    <2>1. Chosen(session.params, "host") = Source(outcome.request, session.env, "host")
      BY <1>1 DEF SourcesInOrder
    <2>. QED  BY <2>1 DEF IInv, AttachInv
  <1>. QED  BY <1>2, InvHolds, PTL
-----------------------------------------------------------------------------
(***************************************************************************)
(* The connection string.  What a number has when zero and every next one  *)
(* have it, every number up to a bound has.                                *)
(***************************************************************************)
LEMMA Climb ==
  ASSUME NEW S, S \subseteq Nat, 0 \in S, NEW m \in Nat,
         \A n \in Nat : n < m /\ n \in S => n + 1 \in S
  PROVE  \A n \in 0..m : n \in S
<1> DEFINE B == (0..m) \ S
           R == {x \in Nat \X Nat : x[1] < x[2]}
<1> SUFFICES ASSUME B # {} PROVE FALSE
  OBVIOUS
<1>1. IsWellFoundedOn(R, Nat)
  BY NatLessThanWellFounded DEF OpToRel, IsWellFoundedOn
<1>2. B \subseteq Nat OBVIOUS
<1>3. PICK x \in B : \A y \in B : <<y, x>> \notin R
  <2> HIDE DEF B, R
  <2> QED BY <1>1, <1>2, WFMin
<1>4. x # 0 /\ x - 1 \in 0..m /\ x - 1 \in Nat /\ x - 1 < m /\ (x - 1) + 1 = x
  OBVIOUS
<1>5. <<x - 1, x>> \in R BY <1>3, <1>4
<1>6. x - 1 \in S BY <1>3, <1>4, <1>5
<1> QED BY <1>3, <1>4, <1>6

(***************************************************************************)
(* ReadQuoted is what its recursive definition says.                       *)
(***************************************************************************)
ReadStep(dsn, rest, pos) ==
  IF pos > Len(dsn) THEN Error
  ELSE IF dsn[pos] = Quote THEN [found |-> TRUE, value |-> <<>>, pos |-> pos + 1]
  ELSE IF dsn[pos] # Backslash THEN Before(dsn[pos], rest[pos + 1])
  ELSE IF pos = Len(dsn) \/ dsn[pos + 1] \notin {Quote, Backslash} THEN Error
  ELSE Before(dsn[pos + 1], rest[pos + 2])

\* A step looks at what is read from the next two positions and no further.
LEMMA StepsAlike ==
  ASSUME NEW dsn, Len(dsn) \in Nat, NEW pos \in Nat, NEW f, NEW g,
         pos + 1 <= Len(dsn) + 1 => f[pos + 1] = g[pos + 1],
         pos + 2 <= Len(dsn) + 1 => f[pos + 2] = g[pos + 2]
  PROVE  ReadStep(dsn, f, pos) = ReadStep(dsn, g, pos)
<1>1. CASE pos > Len(dsn)
  BY <1>1 DEF ReadStep
<1>2. CASE pos = Len(dsn)
  BY <1>2 DEF ReadStep
<1>3. CASE pos < Len(dsn)
  <2>1. f[pos + 1] = g[pos + 1] /\ f[pos + 2] = g[pos + 2] BY <1>3
  <2> QED BY <2>1 DEF ReadStep
<1> QED BY <1>1, <1>2, <1>3

LEMMA ReadQuotedSteps ==
  ASSUME NEW C, NEW dsn \in Seq(C), NEW start \in 1..(Len(dsn) + 1)
  PROVE  \E rest : /\ ReadQuoted(dsn, start) = rest[start]
                   /\ \A pos \in start..(Len(dsn) + 1) : rest[pos] = ReadStep(dsn, rest, pos)
<1> DEFINE m == Len(dsn) + 1
           Is(f, k) == f = [pos \in (m - k)..m |-> ReadStep(dsn, f, pos)]
           S == {k \in Nat : k <= m - start => \E f : Is(f, k)}
<1>0. Len(dsn) \in Nat /\ m \in Nat /\ start \in Nat /\ m - start \in Nat
  BY LenProperties
<1>1. 0 \in S
  <2> DEFINE f == [pos \in (m - 0)..m |-> Error]
  <2>1. \A pos \in (m - 0)..m : pos > Len(dsn) BY <1>0
  <2>2. \A pos \in (m - 0)..m : ReadStep(dsn, f, pos) = Error BY <2>1 DEF ReadStep
  <2> HIDE DEF m
  <2>3. Is(f, 0) BY <2>2
  <2>4. \E h : Is(h, 0)
    <3> HIDE DEF f, Is
    <3> QED BY <2>3
  <2> HIDE DEF Is
  <2> QED BY <2>4
<1>2. \A k \in Nat : k < m - start /\ k \in S => k + 1 \in S
  <2> SUFFICES ASSUME NEW k \in Nat, k < m - start, k \in S PROVE k + 1 \in S
    OBVIOUS
  <2>1. PICK f : Is(f, k)
    <3> HIDE DEF Is
    <3> QED BY <1>0
  <2> DEFINE p == m - (k + 1)
             g == [pos \in p..m |-> IF pos = p THEN ReadStep(dsn, f, p) ELSE f[pos]]
  <2>2. p \in Nat /\ p + 1 = m - k /\ p < m BY <1>0
  <2> HIDE DEF m, p
  <2>3. /\ DOMAIN f = (p + 1)..m
        /\ \A pos \in (p + 1)..m : f[pos] = ReadStep(dsn, f, pos)
    BY <2>1, <2>2
  <2>4. DOMAIN g = p..m /\ g[p] = ReadStep(dsn, f, p)
    BY <1>0, <2>2
  <2>5. \A pos \in (p + 1)..m : g[pos] = f[pos]
    BY <1>0, <2>2
  <2>6. \A pos \in p..m : ReadStep(dsn, g, pos) = ReadStep(dsn, f, pos)
    <3> SUFFICES ASSUME NEW pos \in p..m
                 PROVE  ReadStep(dsn, g, pos) = ReadStep(dsn, f, pos)
      OBVIOUS
    <3> HIDE DEF g
    <3>1. pos \in Nat /\ m = Len(dsn) + 1 BY <1>0, <2>2 DEF m
    <3>2. pos + 1 <= m => g[pos + 1] = f[pos + 1] BY <1>0, <2>2, <2>5, <3>1
    <3>3. pos + 2 <= m => g[pos + 2] = f[pos + 2] BY <1>0, <2>2, <2>5, <3>1
    <3> QED BY <1>0, <3>1, <3>2, <3>3, StepsAlike
  <2>7. \A pos \in p..m : g[pos] = ReadStep(dsn, g, pos)
    <3> HIDE DEF g
    <3> QED BY <1>0, <2>2, <2>3, <2>4, <2>5, <2>6
  <2>8. g = [pos \in p..m |-> ReadStep(dsn, g, pos)]
    BY <2>4, <2>7
  <2>9. Is(g, k + 1)
    <3> HIDE DEF g
    <3> QED BY <2>8 DEF p
  <2>10. \E h : Is(h, k + 1)
    <3> HIDE DEF g, Is
    <3> QED BY <2>9
  <2> HIDE DEF Is
  <2> QED BY <2>10
<1>3. m - start \in S
  <2>1. \A n \in 0..(m - start) : n \in S
    <3>1. S \subseteq Nat OBVIOUS
    <3> HIDE DEF S, m
    <3> QED BY <1>0, <1>1, <1>2, <3>1, Climb
  <2> HIDE DEF S, m
  <2> QED BY <1>0, <2>1
<1>4. PICK f : Is(f, m - start)
  <2> HIDE DEF Is
  <2> QED BY <1>0, <1>3
<1>5. f = [pos \in start..m |-> ReadStep(dsn, f, pos)]
  <2>1. m - (m - start) = start BY <1>0
  <2> HIDE DEF m
  <2> QED BY <1>4, <2>1
<1> DEFINE e(rest) == [pos \in start..m |-> ReadStep(dsn, rest, pos)]
           r == CHOOSE rest : rest = e(rest)
<1>6. r = e(r)
  <2> HIDE DEF m
  <2> QED BY <1>5, Zenon
<1>7. ReadQuoted(dsn, start) = r[start]
  BY DEF ReadQuoted, ReadStep
<1>8. \A pos \in start..m : r[pos] = ReadStep(dsn, r, pos)
  <2> HIDE DEF r, m
  <2> QED BY <1>6
<1> HIDE DEF r
<1> QED BY <1>7, <1>8

(***************************************************************************)
(* A value in the text, each quote and backslash of it after a backslash,  *)
(* and a quote at its end, is read as it is: "place" says where each of    *)
(* its characters starts.                                                  *)
(***************************************************************************)
Spelled(dsn, value, place) ==
  /\ place \in [0..Len(value) -> Nat]
  /\ place[Len(value)] <= Len(dsn) /\ dsn[place[Len(value)]] = Quote
  /\ \A i \in 1..Len(value) :
       IF value[i] \in {Quote, Backslash}
       THEN /\ place[i] = place[i - 1] + 2
            /\ dsn[place[i - 1]] = Backslash /\ dsn[place[i - 1] + 1] = value[i]
       ELSE place[i] = place[i - 1] + 1 /\ dsn[place[i - 1]] = value[i]

Read(value, pos) == [found |-> TRUE, value |-> value, pos |-> pos]

LEMMA BeforeRead ==
  ASSUME NEW c, NEW value, NEW pos
  PROVE  Before(c, Read(value, pos)) = Read(<<c>> \o value, pos)
<1>1. Read(value, pos) # Error
  BY DEF Read, Error
<1> QED BY <1>1 DEF Before, Read

LEMMA QuotedIsRead ==
  ASSUME NEW C, NEW dsn \in Seq(C), NEW value \in Seq(C), NEW place,
         Spelled(dsn, value, place), place[0] > 0
  PROVE  ReadQuoted(dsn, place[0]) = Read(value, place[Len(value)] + 1)
<1> DEFINE n == Len(value)
           m == Len(dsn)
           start == place[0]
           end == place[n]
<1>1. /\ n \in Nat /\ m \in Nat /\ place \in [0..n -> Nat] /\ end \in Nat /\ start \in Nat
      /\ end <= m /\ dsn[end] = Quote
  BY LenProperties DEF Spelled
<1>2. \A i \in 1..n : place[i - 1] \in Nat /\ place[i] \in Nat /\ place[i - 1] < place[i]
  <2> SUFFICES ASSUME NEW i \in 1..n
               PROVE  place[i - 1] \in Nat /\ place[i] \in Nat /\ place[i - 1] < place[i]
    OBVIOUS
  <2>1. i \in 0..n /\ i - 1 \in 0..n BY <1>1
  <2>2. place[i] \in Nat /\ place[i - 1] \in Nat BY <1>1, <2>1
  <2> QED BY <2>2 DEF Spelled
<1>3. \A i \in 0..n : start <= place[i]
  <2> DEFINE S == {i \in Nat : i <= n => start <= place[i]}
  <2>1. 0 \in S /\ S \subseteq Nat BY <1>1
  <2>2. \A i \in Nat : i < n /\ i \in S => i + 1 \in S
    <3> SUFFICES ASSUME NEW i \in Nat, i < n, start <= place[i] PROVE start <= place[i + 1]
      BY <1>1
    <3>1. i + 1 \in 1..n /\ (i + 1) - 1 = i BY <1>1
    <3>2. place[i] < place[i + 1] /\ place[i] \in Nat /\ place[i + 1] \in Nat
      BY <1>2, <3>1
    <3> QED BY <1>1, <3>2
  <2>3. \A i \in 0..n : i \in S
    <3> HIDE DEF S, n
    <3> QED BY <1>1, <2>1, <2>2, Climb
  <2> QED BY <1>1, <2>3
<1>4. \A i \in 0..n : place[n - i] <= end
  <2> DEFINE S == {i \in Nat : i <= n => place[n - i] <= end}
  <2>1. 0 \in S /\ S \subseteq Nat BY <1>1
  <2>2. \A i \in Nat : i < n /\ i \in S => i + 1 \in S
    <3> SUFFICES ASSUME NEW i \in Nat, i < n, place[n - i] <= end
                 PROVE  place[n - (i + 1)] <= end
      BY <1>1
    <3>1. n - i \in 1..n /\ (n - i) - 1 = n - (i + 1) BY <1>1
    <3>2. /\ place[n - (i + 1)] < place[n - i] /\ place[n - (i + 1)] \in Nat
          /\ place[n - i] \in Nat
      BY <1>2, <3>1
    <3> QED BY <1>1, <3>2
  <2>3. \A i \in 0..n : i \in S
    <3> HIDE DEF S, n
    <3> QED BY <1>1, <2>1, <2>2, Climb
  <2> QED BY <1>1, <2>3
<1>5. start \in 1..(m + 1)
  <2>1. 0 \in 0..n /\ n \in 0..n BY <1>1
  <2>2. start <= end BY <1>3, <2>1
  <2> QED BY <1>1, <2>2
<1>6. PICK rest : /\ ReadQuoted(dsn, start) = rest[start]
                  /\ \A pos \in start..(m + 1) : rest[pos] = ReadStep(dsn, rest, pos)
  BY <1>5, ReadQuotedSteps
<1> DEFINE tail(i) == SubSeq(value, n - i + 1, n)
           S == {i \in Nat : i <= n => rest[place[n - i]] = Read(tail(i), end + 1)}
<1>7. 0 \in S
  <2>1. n - 0 = n /\ n \in 0..n /\ end \in start..(m + 1) /\ ~(end > m)
    BY <1>1, <1>3
  <2>2. rest[end] = Read(<<>>, end + 1)
    BY <1>1, <1>6, <2>1 DEF ReadStep, Read
  <2>3. tail(0) = <<>>
    <3>1. n + 1 \in Int /\ n \in Int /\ n < n + 1 /\ n - 0 + 1 = n + 1 BY <1>1
    <3> HIDE DEF n
    <3> QED BY <3>1, SubSeqEmpty
  <2> HIDE DEF tail, n
  <2> QED BY <2>1, <2>2, <2>3
<1>8. \A i \in Nat : i < n /\ i \in S => i + 1 \in S
  <2> SUFFICES ASSUME NEW i \in Nat, i < n, rest[place[n - i]] = Read(tail(i), end + 1)
               PROVE  rest[place[n - (i + 1)]] = Read(tail(i + 1), end + 1)
    BY <1>1
  <2> DEFINE k == n - i
             p == place[k - 1]
  <2>1. /\ k \in 1..n /\ k - 1 = n - (i + 1) /\ k \in 0..n /\ k - 1 \in 0..n
        /\ i + 1 \in 0..n /\ n - (i + 1) + 1 = k /\ n - i + 1 = k + 1
    BY <1>1
  <2>2. p \in Nat /\ place[k] \in Nat /\ p < place[k] /\ start <= p /\ place[k] <= end
    BY <1>2, <1>3, <1>4, <2>1
  <2>3. p \in start..(m + 1) /\ p < m /\ ~(p > m) /\ p # m
    BY <1>1, <2>2
  <2>4. tail(i + 1) = <<value[k]>> \o tail(i)
    <3> HIDE DEF n, k
    <3>1. SubSeq(value, k, n) = <<value[k]>> \o SubSeq(value, k + 1, n)
      <4>1. n \in k..n /\ n = Len(value) BY <2>1, <1>1 DEF n
      <4> QED BY <2>1, <4>1, SubSeqRecursiveFirst
    <3> QED BY <2>1, <3>1
  <2>5. rest[p] = Before(value[k], rest[place[k]])
    <3>1. rest[p] = ReadStep(dsn, rest, p) BY <1>6, <2>3
    <3>2. CASE value[k] \in {Quote, Backslash}
      <4>1. place[k] = p + 2 /\ dsn[p] = Backslash /\ dsn[p + 1] = value[k]
        BY <2>1, <3>2 DEF Spelled
      <4>2. Backslash # Quote BY DEF Backslash, Quote
      <4> HIDE DEF m, p, k
      <4> QED BY <2>3, <3>1, <3>2, <4>1, <4>2 DEF ReadStep, m
    <3>3. CASE value[k] \notin {Quote, Backslash}
      <4>1. place[k] = p + 1 /\ dsn[p] = value[k]
        BY <2>1, <3>3 DEF Spelled
      <4> HIDE DEF m, p, k
      <4> QED BY <2>3, <3>1, <3>3, <4>1 DEF ReadStep, m
    <3> QED BY <3>2, <3>3
  <2>6. rest[p] = Read(<<value[k]>> \o tail(i), end + 1)
    <3>1. rest[place[k]] = Read(tail(i), end + 1) OBVIOUS
    <3> HIDE DEF tail, p, end, k
    <3> QED BY <2>5, <3>1, BeforeRead
  <2> HIDE DEF tail, end
  <2> QED BY <2>1, <2>4, <2>6
<1>9. n \in S
  <2>1. \A i \in 0..n : i \in S
    <3>1. S \subseteq Nat OBVIOUS
    <3> HIDE DEF S, n
    <3> QED BY <1>1, <1>7, <1>8, <3>1, Climb
  <2> HIDE DEF S
  <2> QED BY <1>1, <2>1
<1>10. n - n = 0 /\ tail(n) = value
  <2>1. n - n + 1 = 1 /\ n - n = 0 BY <1>1
  <2>2. SubSeq(value, 1, Len(value)) = value BY SubSeqFull
  <2> QED BY <2>1, <2>2
<1>11. rest[place[n - n]] = Read(tail(n), end + 1)
  <2> HIDE DEF tail, end
  <2> QED BY <1>1, <1>9
<1> QED BY <1>6, <1>10, <1>11

(***************************************************************************)
(* The pieces of a text, one after the other: FlattenSeq is the end of a   *)
(* chain of texts, each the one before with one more piece.                *)
(***************************************************************************)
IsChain(S, n, ss, f) ==
  /\ f \in [0..n -> Seq(S)] /\ f[0] = <<>>
  /\ \A i \in 1..n : f[i] = f[i - 1] \o ss[i]

LEMMA SeqClosed ==
  ASSUME NEW S
  PROVE  <<>> \in Seq(S) /\ \A s, t \in Seq(S) : s \o t \in Seq(S) /\ <<>> \o s = s
<1>1. ASSUME NEW s \in Seq(S), NEW t \in Seq(S) PROVE s \o t \in Seq(S) /\ <<>> \o s = s
  BY ConcatProperties, ConcatEmptySeq
<1> QED BY <1>1, EmptySeq

LEMMA ChainExists ==
  ASSUME NEW S, NEW n \in Nat, NEW ss \in [1..n -> Seq(S)]
  PROVE  \E f : IsChain(S, n, ss, f)
<1> DEFINE T == Seq(S)
           Is(f, k) == /\ f \in [0..k -> T] /\ f[0] = <<>>
                       /\ \A i \in 1..k : f[i] = f[i - 1] \o ss[i]
           P == {k \in Nat : k <= n => \E f : Is(f, k)}
<1>1. <<>> \in T /\ \A s, t \in T : s \o t \in T
  BY SeqClosed
<1>2. \A i \in 1..n : ss[i] \in T
  OBVIOUS
<1> HIDE DEF T
<1>3. 0 \in P
  <2> DEFINE f == [i \in 0..0 |-> <<>>]
  <2>1. Is(f, 0) BY <1>1
  <2>2. \E h : Is(h, 0)
    <3> HIDE DEF f, Is
    <3> QED BY <2>1
  <2> HIDE DEF Is
  <2> QED BY <2>2
<1>4. \A k \in Nat : k < n /\ k \in P => k + 1 \in P
  <2> SUFFICES ASSUME NEW k \in Nat, k < n, k \in P PROVE k + 1 \in P
    OBVIOUS
  <2>0. PICK f : Is(f, k)
    <3> HIDE DEF Is
    <3> QED OBVIOUS
  <2> DEFINE g == [i \in 0..(k + 1) |-> IF i = k + 1 THEN f[k] \o ss[k + 1] ELSE f[i]]
  <2>1. k + 1 \in 1..n /\ f[k] \in T BY <2>0
  <2>2. f[k] \o ss[k + 1] \in T BY <1>1, <1>2, <2>1
  <2>3. g \in [0..(k + 1) -> T] /\ g[0] = <<>> BY <2>0, <2>2
  <2>4. /\ \A i \in 0..k : g[i] = f[i]
         /\ g[k + 1] = f[k] \o ss[k + 1]
    <3>1. \A i \in 0..k : i \in 0..(k + 1) /\ i # k + 1 OBVIOUS
    <3>2. k + 1 \in 0..(k + 1) OBVIOUS
    <3> HIDE DEF Is
    <3> QED BY <3>1, <3>2
  <2>5. \A i \in 1..(k + 1) : g[i] = g[i - 1] \o ss[i]
    <3> SUFFICES ASSUME NEW i \in 1..(k + 1) PROVE g[i] = g[i - 1] \o ss[i]
      OBVIOUS
    <3>1. CASE i = k + 1
      <4>1. i - 1 = k /\ k \in 0..(k + 1) /\ k # k + 1 BY <3>1
      <4>2. g[k] = f[k] /\ g[k + 1] = f[k] \o ss[k + 1]
        <5>1. k \in 0..k OBVIOUS
        <5> HIDE DEF g
        <5> QED BY <2>4, <5>1
      <4> HIDE DEF g
      <4> QED BY <3>1, <4>1, <4>2
    <3>2. CASE i # k + 1
      <4>1. i \in 1..k /\ i - 1 \in 0..k /\ i - 1 # k + 1 BY <3>2
      <4>2. g[i] = f[i] /\ g[i - 1] = f[i - 1]
        <5>1. i \in 0..k BY <4>1
        <5> HIDE DEF g
        <5> QED BY <2>4, <4>1, <5>1
      <4> HIDE DEF g
      <4> QED BY <2>0, <4>1, <4>2
    <3> QED BY <3>1, <3>2
  <2>6. Is(g, k + 1)
    <3> HIDE DEF g
    <3> QED BY <2>3, <2>5
  <2>7. \E h : Is(h, k + 1)
    <3> HIDE DEF g, Is
    <3> QED BY <2>6
  <2> HIDE DEF Is
  <2> QED BY <2>7
<1>5. n \in P
  <2>1. P \subseteq Nat OBVIOUS
  <2>2. \A k \in 0..n : k \in P
    <3> HIDE DEF P
    <3> QED BY <1>3, <1>4, <2>1, Climb
  <2> HIDE DEF P
  <2> QED BY <2>2
<1>6. \E f : Is(f, n)
  <2> HIDE DEF Is
  <2> QED BY <1>5
<1> QED BY <1>6 DEF IsChain, T

LEMMA Flattened ==
  ASSUME NEW S, NEW n \in Nat, NEW ss \in [1..n -> Seq(S)]
  PROVE  \E f : IsChain(S, n, ss, f) /\ FlattenSeq(ss) = f[n]
<1>1. Len(ss) = n
  BY SeqClosed
<1>2. PICK f : IsChain(S, n, ss, f)
  BY ChainExists
<1>3. CASE n = 0
  <2>1. FlattenSeq(ss) = ss BY <1>1, <1>3 DEF FlattenSeq
  <2>2. ss = <<>> BY <1>3
  <2> QED BY <1>2, <1>3, <2>1, <2>2 DEF IsChain
<1>4. CASE n # 0
  <2> DEFINE e(g) == [i \in 1..n |-> IF i = 1 THEN ss[i] ELSE g[i - 1] \o ss[i]]
             h == [i \in 1..n |-> f[i]]
             r == CHOOSE g : g = e(g)
             c == [i \in 0..n |-> IF i = 0 THEN <<>> ELSE r[i]]
  <2>1. \A i \in 1..n : ss[i] \in Seq(S)
    OBVIOUS
  <2>2. h = e(h)
    <3>1. \A i \in 1..n : f[i] = IF i = 1 THEN ss[i] ELSE h[i - 1] \o ss[i]
      <4> SUFFICES ASSUME NEW i \in 1..n
                   PROVE  f[i] = IF i = 1 THEN ss[i] ELSE h[i - 1] \o ss[i]
        OBVIOUS
      <4>1. f[i] = f[i - 1] \o ss[i] /\ f[0] = <<>> BY <1>2 DEF IsChain
      <4>2. CASE i = 1
        <5>1. <<>> \o ss[i] = ss[i] BY <2>1, SeqClosed
        <5> QED BY <4>1, <4>2, <5>1
      <4>3. CASE i # 1
        <5>1. i - 1 \in 1..n BY <4>3
        <5> QED BY <4>1, <4>3, <5>1
      <4> QED BY <4>2, <4>3
    <3> QED BY <3>1
  <2>3. r = e(r)
    <3> HIDE DEF h
    <3> QED BY <2>2, Zenon
  <2>4. FlattenSeq(ss) = r[n]
    BY <1>1, <1>4 DEF FlattenSeq
  <2> HIDE DEF r
  <2>5. \A i \in 1..n : r[i] = IF i = 1 THEN ss[i] ELSE r[i - 1] \o ss[i]
    BY <2>3
  <2>6. c[0] = <<>> /\ c[n] = r[n] /\ \A i \in 1..n : c[i] = c[i - 1] \o ss[i]
    <3>1. 0 \in 0..n /\ n \in 0..n /\ n # 0 BY <1>4
    <3>2. c[0] = <<>> /\ c[n] = r[n] BY <3>1
    <3> SUFFICES ASSUME NEW i \in 1..n PROVE c[i] = c[i - 1] \o ss[i]
      <4> HIDE DEF c
      <4> QED BY <3>2
    <3>3. c[i] = r[i] /\ i - 1 \in 0..n
      <4>1. i \in 0..n /\ i # 0 /\ i - 1 \in 0..n OBVIOUS
      <4> QED BY <4>1
    <3>4. CASE i = 1
      <4>1. <<>> \o ss[i] = ss[i] BY <2>1, SeqClosed
      <4>2. c[i - 1] = <<>> BY <3>4
      <4> QED BY <2>5, <3>3, <3>4, <4>1, <4>2
    <3>5. CASE i # 1
      <4>1. c[i - 1] = r[i - 1] BY <3>3, <3>5
      <4> QED BY <2>5, <3>3, <3>5, <4>1
    <3> QED BY <3>4, <3>5
  <2>7. \A i \in 0..n : c[i] \in Seq(S)
    <3> DEFINE G == {i \in Nat : i <= n => c[i] \in Seq(S)}
    <3> HIDE DEF c
    <3>1. 0 \in G /\ G \subseteq Nat BY <2>6, SeqClosed
    <3>2. \A i \in Nat : i < n /\ i \in G => i + 1 \in G
      <4> SUFFICES ASSUME NEW i \in Nat, i < n, c[i] \in Seq(S) PROVE c[i + 1] \in Seq(S)
        OBVIOUS
      <4>1. i + 1 \in 1..n /\ (i + 1) - 1 = i OBVIOUS
      <4>2. c[i + 1] = c[i] \o ss[i + 1] BY <2>6, <4>1
      <4> QED BY <2>1, <4>1, <4>2, SeqClosed
    <3>3. \A i \in 0..n : i \in G
      <4> HIDE DEF G
      <4> QED BY <3>1, <3>2, Climb
    <3> QED BY <3>3
  <2>8. c \in [0..n -> Seq(S)]
    BY <2>7
  <2>9. IsChain(S, n, ss, c)
    <3> HIDE DEF c
    <3> QED BY <2>6, <2>8 DEF IsChain
  <2>10. FlattenSeq(ss) = c[n] BY <2>4, <2>6
  <2> HIDE DEF c
  <2> QED BY <2>9, <2>10
<1> QED BY <1>3, <1>4

\* A text whose two parts are these.
Parts(text, a, b) ==
  /\ Len(a) \in Nat /\ Len(b) \in Nat /\ Len(text) = Len(a) + Len(b)
  /\ \A j \in 1..Len(a) : text[j] = a[j]
  /\ \A j \in 1..Len(b) : text[Len(a) + j] = b[j]

LEMMA ConcatParts ==
  ASSUME NEW S, NEW a \in Seq(S), NEW b \in Seq(S)
  PROVE  a \o b \in Seq(S) /\ Parts(a \o b, a, b)
<1>1. Len(a) \in Nat /\ Len(b) \in Nat BY LenProperties
<1>2. Len(a \o b) = Len(a) + Len(b) BY ConcatProperties
<1>3. \A j \in 1..(Len(a) + Len(b)) :
        (a \o b)[j] = IF j <= Len(a) THEN a[j] ELSE b[j - Len(a)]
  BY ConcatProperties
<1>4. \A j \in 1..Len(a) : (a \o b)[j] = a[j]
  <2>1. \A j \in 1..Len(a) : j \in 1..(Len(a) + Len(b)) /\ j <= Len(a) BY <1>1
  <2> QED BY <1>3, <2>1
<1>5. ASSUME NEW j \in 1..Len(b) PROVE (a \o b)[Len(a) + j] = b[j]
  <2>1. /\ Len(a) + j \in 1..(Len(a) + Len(b)) /\ ~(Len(a) + j <= Len(a))
        /\ (Len(a) + j) - Len(a) = j
    BY <1>1
  <2> QED BY <1>3, <2>1
<1>6. a \o b \in Seq(S) BY ConcatProperties
<1> QED BY <1>1, <1>2, <1>4, <1>5, <1>6 DEF Parts

Begins(a, text) ==
  /\ Len(a) \in Nat /\ Len(a) <= Len(text)
  /\ \A j \in 1..Len(a) : text[j] = a[j]

\* A text on the chain is the beginning of every later one.
LEMMA ChainGrows ==
  ASSUME NEW S, NEW n \in Nat, NEW ss \in [1..n -> Seq(S)], NEW f, IsChain(S, n, ss, f)
  PROVE  \A i \in 0..n : f[i] \in Seq(S) /\ Begins(f[i], f[n])
<1> DEFINE Starts(i, k) == /\ Len(f[i]) <= Len(f[k])
                           /\ \A j \in 1..Len(f[i]) : f[k][j] = f[i][j]
           All(k) == \A i \in 0..k : Starts(i, k)
           P == {k \in Nat : k <= n => All(k)}
<1>0. f \in [0..n -> Seq(S)] /\ \A i \in 1..n : f[i] = f[i - 1] \o ss[i]
  BY DEF IsChain
<1>1. \A i \in 0..n : f[i] \in Seq(S) /\ Len(f[i]) \in Nat
  <2> SUFFICES ASSUME NEW i \in 0..n PROVE f[i] \in Seq(S) /\ Len(f[i]) \in Nat
    OBVIOUS
  <2>1. f[i] \in Seq(S) BY <1>0
  <2> QED BY <2>1, LenProperties
<1>2. 0 \in P /\ P \subseteq Nat
  BY <1>1
<1>3. \A k \in Nat : k < n /\ k \in P => k + 1 \in P
  <2> SUFFICES ASSUME NEW k \in Nat, k < n, All(k) PROVE All(k + 1)
    <3> HIDE DEF All
    <3> QED OBVIOUS
  <2> SUFFICES ASSUME NEW i \in 0..(k + 1) PROVE Starts(i, k + 1)
    <3> HIDE DEF Starts
    <3> QED OBVIOUS
  <2>1. k + 1 \in 1..n /\ (k + 1) - 1 = k /\ k \in 0..n /\ k + 1 \in 0..n OBVIOUS
  <2>2. f[k + 1] = f[k] \o ss[k + 1] /\ f[k] \in Seq(S) /\ ss[k + 1] \in Seq(S)
    BY <1>0, <1>1, <2>1
  <2>3. /\ Len(f[k]) \in Nat /\ Len(f[k]) <= Len(f[k + 1]) /\ Len(f[k + 1]) \in Nat
        /\ \A j \in 1..Len(f[k]) : f[k + 1][j] = f[k][j]
    <3>1. Parts(f[k + 1], f[k], ss[k + 1])
      BY <2>2, ConcatParts
    <3> DEFINE x == Len(f[k])
               y == Len(ss[k + 1])
               z == Len(f[k + 1])
    <3>2. x \in Nat /\ y \in Nat /\ z = x + y /\ \A j \in 1..x : f[k + 1][j] = f[k][j]
      BY <3>1 DEF Parts
    <3> HIDE DEF x, y, z
    <3>3. x <= z /\ z \in Nat BY <3>2
    <3> QED BY <3>2, <3>3 DEF x, z
  <2>4. CASE i = k + 1
    BY <2>3, <2>4
  <2>5. CASE i # k + 1
    <3>1. i \in 0..k /\ i \in 0..n BY <2>5
    <3>2. Starts(i, k)
      <4> HIDE DEF Starts
      <4> QED BY <3>1
    <3>3. Len(f[i]) \in Nat BY <1>1, <3>1
    <3>4. Len(f[i]) <= Len(f[k + 1]) BY <2>3, <3>2, <3>3
    <3>5. \A j \in 1..Len(f[i]) : j \in 1..Len(f[k]) BY <2>3, <3>2, <3>3
    <3> QED BY <2>3, <3>2, <3>4, <3>5
  <2> QED BY <2>4, <2>5
<1>4. All(n)
  <2>1. \A k \in 0..n : k \in P
    <3> HIDE DEF P
    <3> QED BY <1>2, <1>3, Climb
  <2>2. n \in 0..n /\ n <= n OBVIOUS
  <2> HIDE DEF All
  <2> QED BY <2>1, <2>2
<1> QED BY <1>1, <1>4 DEF Begins

(***************************************************************************)
(* EscapeConnectionString writes a value the way ReadQuoted reads it.      *)
(***************************************************************************)
Escaped(c) == IF c \in {Quote, Backslash} THEN <<Backslash, c>> ELSE <<c>>

LEMMA Pieces ==
  ASSUME NEW C, Quote \in C, Backslash \in C, NEW value \in Seq(C)
  PROVE  /\ Len(value) \in Nat /\ DOMAIN value = 1..Len(value)
         /\ \A i \in 1..Len(value) : value[i] \in C
         /\ [i \in DOMAIN value |-> Escaped(value[i])] \in [1..Len(value) -> Seq(C)]
         /\ \A c \in C : Escaped(c) \in Seq(C)
<1>1. Len(value) \in Nat /\ DOMAIN value = 1..Len(value) /\ \A i \in 1..Len(value) : value[i] \in C
  BY LenProperties, ElementOfSeq
<1>2. ASSUME NEW c \in C PROVE Escaped(c) \in Seq(C)
  <2>1. <<c>> \in Seq(C) /\ <<Backslash, c>> \in Seq(C) OBVIOUS
  <2> QED BY <2>1 DEF Escaped
<1>3. \A i \in 1..Len(value) : Escaped(value[i]) \in Seq(C)
  BY <1>1, <1>2
<1> QED BY <1>1, <1>2, <1>3

\* Where the escaped value and each character of it stand in the whole text.
LEMMA Framed ==
  ASSUME NEW C, NEW q \in C, NEW before \in Seq(C), NEW F \in Seq(C), NEW after \in Seq(C),
         NEW dsn, dsn = before \o (<<q>> \o F \o <<q>>) \o after
  PROVE  /\ dsn \in Seq(C) /\ Len(dsn) \in Nat /\ Len(before) \in Nat /\ Len(F) \in Nat
         /\ Len(<<q>> \o F \o <<q>>) = Len(F) + 2
         /\ Len(before) + Len(F) + 2 <= Len(dsn)
         /\ dsn[Len(before) + 1] = q /\ dsn[Len(before) + Len(F) + 2] = q
         /\ \A j \in 1..Len(F) : dsn[Len(before) + 1 + j] = F[j]
<1> DEFINE Q == <<q>>
           a == Q \o F
           e == a \o Q
           d == before \o e
<1>1. Q \in Seq(C) /\ Len(Q) = 1 /\ Q[1] = q OBVIOUS
<1> HIDE DEF Q
<1>2. a \in Seq(C) /\ Parts(a, Q, F) BY <1>1, ConcatParts
<1> HIDE DEF a
<1>3. e \in Seq(C) /\ Parts(e, a, Q) BY <1>1, <1>2, ConcatParts
<1> HIDE DEF e
<1>4. d \in Seq(C) /\ Parts(d, before, e) BY <1>3, ConcatParts
<1> HIDE DEF d
<1>5. dsn = d \o after BY DEF d, e, a, Q
<1>6. dsn \in Seq(C) /\ Parts(dsn, d, after) BY <1>4, <1>5, ConcatParts
<1>7. Len(<<q>> \o F \o <<q>>) = Len(e) BY DEF e, a, Q
<1> SUFFICES /\ Len(dsn) \in Nat /\ Len(before) \in Nat /\ Len(F) \in Nat
             /\ Len(e) = Len(F) + 2
             /\ Len(before) + Len(F) + 2 <= Len(dsn)
             /\ dsn[Len(before) + 1] = q /\ dsn[Len(before) + Len(F) + 2] = q
             /\ \A j \in 1..Len(F) : dsn[Len(before) + 1 + j] = F[j]
  BY <1>6, <1>7
<1>8. /\ Len(F) \in Nat /\ Len(a) = 1 + Len(F) /\ a[1] = q
      /\ \A j \in 1..Len(F) : a[1 + j] = F[j]
  BY <1>1, <1>2 DEF Parts
<1>9. /\ Len(e) = Len(F) + 2 /\ e[1] = q /\ e[Len(F) + 2] = q
      /\ \A j \in 1..Len(F) : e[1 + j] = F[j]
  <2>1. 1 \in 1..Len(a) /\ 1 \in 1..Len(Q) /\ Len(a) + 1 = Len(F) + 2 BY <1>1, <1>8
  <2>2. \A j \in 1..Len(F) : 1 + j \in 1..Len(a) BY <1>8
  <2> QED BY <1>1, <1>3, <1>8, <2>1, <2>2 DEF Parts
<1>10. /\ Len(before) \in Nat /\ Len(after) \in Nat
       /\ Len(dsn) = Len(before) + Len(e) + Len(after)
       /\ \A j \in 1..Len(e) : dsn[Len(before) + j] = e[j]
  <2>1. /\ Len(before) \in Nat /\ Len(e) \in Nat /\ Len(d) = Len(before) + Len(e)
        /\ \A j \in 1..Len(e) : d[Len(before) + j] = e[j]
    BY <1>4 DEF Parts
  <2>2. \A j \in 1..Len(e) : Len(before) + j \in 1..Len(d) BY <2>1
  <2> QED BY <1>6, <2>1, <2>2 DEF Parts
<1>11. /\ 1 \in 1..Len(e) /\ Len(F) + 2 \in 1..Len(e)
       /\ Len(before) + (Len(F) + 2) = Len(before) + Len(F) + 2
       /\ \A j \in 1..Len(F) : 1 + j \in 1..Len(e)
                               /\ Len(before) + (1 + j) = Len(before) + 1 + j
  BY <1>8, <1>9, <1>10
<1>12. dsn[Len(before) + 1] = q /\ dsn[Len(before) + Len(F) + 2] = q
  BY <1>9, <1>10, <1>11
<1>13. \A j \in 1..Len(F) : dsn[Len(before) + 1 + j] = F[j]
  BY <1>9, <1>10, <1>11
<1>14. Len(dsn) \in Nat /\ Len(before) + Len(F) + 2 <= Len(dsn)
  BY <1>8, <1>9, <1>10
<1> QED BY <1>8, <1>9, <1>10, <1>12, <1>13, <1>14

SpelledFrom(dsn, value, start, end) ==
  \E place : Spelled(dsn, value, place) /\ place[0] = start /\ place[Len(value)] = end

LEMMA EscapedIsSpelled ==
  ASSUME NEW C, Quote \in C, Backslash \in C,
         NEW before \in Seq(C), NEW value \in Seq(C), NEW after \in Seq(C),
         NEW dsn, dsn = before \o EscapeConnectionString(value) \o after
  PROVE  /\ dsn \in Seq(C) /\ Len(before) \in Nat
         /\ Len(before) + 1 <= Len(dsn) /\ dsn[Len(before) + 1] = Quote
         /\ SpelledFrom(dsn, value, Len(before) + 2,
                        Len(before) + Len(EscapeConnectionString(value)))
<1> DEFINE n == Len(value)
           ss == [i \in DOMAIN value |-> Escaped(value[i])]
           F == FlattenSeq(ss)
           b == Len(before)
<1>1. /\ n \in Nat /\ DOMAIN value = 1..n /\ ss \in [1..n -> Seq(C)]
      /\ \A i \in 1..n : ss[i] = Escaped(value[i])
  BY Pieces
<1>2. EscapeConnectionString(value) = <<Quote>> \o F \o <<Quote>>
  BY DEF EscapeConnectionString, Escaped
<1> HIDE DEF ss, n
<1>3. PICK f : IsChain(C, n, ss, f) /\ F = f[n]
  BY <1>1, Flattened
<1>4. \A i \in 0..n : f[i] \in Seq(C) /\ Begins(f[i], f[n])
  <2>1. IsChain(C, n, ss, f) /\ n \in Nat /\ ss \in [1..n -> Seq(C)] BY <1>1, <1>3
  <2> HIDE DEF F
  <2> QED BY <2>1, ChainGrows
<1> HIDE DEF F
<1>5. F \in Seq(C) /\ n \in 0..n BY <1>1, <1>3, <1>4
<1>6. /\ dsn \in Seq(C) /\ Len(dsn) \in Nat /\ b \in Nat /\ Len(F) \in Nat
      /\ Len(EscapeConnectionString(value)) = Len(F) + 2
      /\ b + Len(F) + 2 <= Len(dsn)
      /\ dsn[b + 1] = Quote /\ dsn[b + Len(F) + 2] = Quote
      /\ \A j \in 1..Len(F) : dsn[b + 1 + j] = F[j]
  <2>1. dsn = before \o (<<Quote>> \o F \o <<Quote>>) \o after BY <1>2
  <2> QED BY <1>2, <1>5, <2>1, Framed
<1> HIDE DEF b
<1> DEFINE N == Len(F)
           l(i) == Len(f[i])
           w(i) == Len(ss[i])
           place == [i \in 0..n |-> b + 2 + l(i)]
<1>7. b \in Nat /\ N \in Nat /\ \A j \in 1..N : dsn[b + 1 + j] = F[j]
  BY <1>6
<1>8. \A i \in 0..n : l(i) \in Nat /\ l(i) <= N /\ \A j \in 1..l(i) : F[j] = f[i][j]
  BY <1>3, <1>4 DEF Begins
<1>9. ASSUME NEW i \in 1..n
      PROVE  /\ w(i) \in Nat /\ l(i) = l(i - 1) + w(i)
             /\ \A j \in 1..w(i) : f[i][l(i - 1) + j] = ss[i][j]
  <2>1. i - 1 \in 0..n BY <1>1
  <2>2. f[i] = f[i - 1] \o ss[i] /\ f[i - 1] \in Seq(C) /\ ss[i] \in Seq(C)
    BY <1>1, <1>3, <1>4, <2>1 DEF IsChain
  <2>3. Parts(f[i], f[i - 1], ss[i]) BY <2>2, ConcatParts
  <2> QED BY <2>3 DEF Parts
<1>10. place[0] = b + 2 /\ place[n] = b + N + 2 /\ place \in [0..n -> Nat]
  <2>1. 0 \in 0..n /\ n \in 0..n BY <1>1
  <2>2. l(0) = 0 BY <1>3 DEF IsChain
  <2>3. l(n) = N BY <1>3
  <2> HIDE DEF l, N
  <2>4. \A i \in 0..n : b + 2 + l(i) \in Nat BY <1>7, <1>8
  <2>5. place \in [0..n -> Nat] BY <2>4
  <2>6. place[0] = b + 2 + l(0) /\ place[n] = b + 2 + l(n) BY <2>1
  <2>7. b + 2 + 0 = b + 2 /\ b + 2 + N = b + N + 2 BY <1>7
  <2> QED BY <2>2, <2>3, <2>5, <2>6, <2>7
<1>11. \A i \in 0..n : place[i] = b + 2 + l(i)
  OBVIOUS
<1> HIDE DEF l, w, place, N
<1>12. ASSUME NEW i \in 1..n
       PROVE  /\ place[i - 1] \in Nat /\ place[i] = place[i - 1] + w(i)
              /\ \A j \in 1..w(i) : dsn[place[i - 1] + (j - 1)] = ss[i][j]
  <2>1. i - 1 \in 0..n /\ i \in 0..n BY <1>1
  <2>2. /\ l(i - 1) \in Nat /\ w(i) \in Nat /\ l(i) = l(i - 1) + w(i) /\ l(i) \in Nat
        /\ l(i) <= N
    BY <1>8, <1>9, <2>1
  <2>3. place[i] = b + 2 + l(i) /\ place[i - 1] = b + 2 + l(i - 1)
    BY <1>11, <2>1
  <2>4. ASSUME NEW j \in 1..w(i)
        PROVE  dsn[place[i - 1] + (j - 1)] = ss[i][j]
    <3>1. l(i - 1) + j \in 1..l(i) /\ l(i - 1) + j \in 1..N
      BY <1>7, <2>2
    <3>2. F[l(i - 1) + j] = ss[i][j] BY <1>8, <1>9, <2>1, <3>1
    <3>3. place[i - 1] + (j - 1) = b + 1 + (l(i - 1) + j)
      BY <1>7, <2>2, <2>3
    <3>4. dsn[b + 1 + (l(i - 1) + j)] = F[l(i - 1) + j]
      BY <1>7, <3>1
    <3> QED BY <3>2, <3>3, <3>4
  <2>5. place[i - 1] \in Nat /\ place[i] = place[i - 1] + w(i) BY <1>7, <2>2, <2>3
  <2> QED BY <2>4, <2>5
<1>13. \A i \in 1..n :
         IF value[i] \in {Quote, Backslash}
         THEN /\ place[i] = place[i - 1] + 2
              /\ dsn[place[i - 1]] = Backslash /\ dsn[place[i - 1] + 1] = value[i]
         ELSE place[i] = place[i - 1] + 1 /\ dsn[place[i - 1]] = value[i]
  <2> SUFFICES ASSUME NEW i \in 1..n
               PROVE  IF value[i] \in {Quote, Backslash}
                      THEN /\ place[i] = place[i - 1] + 2
                           /\ dsn[place[i - 1]] = Backslash
                           /\ dsn[place[i - 1] + 1] = value[i]
                      ELSE place[i] = place[i - 1] + 1 /\ dsn[place[i - 1]] = value[i]
    OBVIOUS
  <2>1. place[i - 1] \in Nat /\ place[i] = place[i - 1] + Len(ss[i])
        /\ \A j \in 1..Len(ss[i]) : dsn[place[i - 1] + (j - 1)] = ss[i][j]
    BY <1>12 DEF w
  <2>2. place[i - 1] + (1 - 1) = place[i - 1] /\ place[i - 1] + (2 - 1) = place[i - 1] + 1
    BY <2>1
  <2>3. CASE value[i] \in {Quote, Backslash}
    <3>1. ss[i] = <<Backslash, value[i]>> BY <1>1, <2>3 DEF Escaped
    <3>2. /\ Len(ss[i]) = 2 /\ ss[i][1] = Backslash /\ ss[i][2] = value[i]
          /\ 1 \in 1..Len(ss[i]) /\ 2 \in 1..Len(ss[i])
      BY <3>1
    <3> QED BY <2>1, <2>2, <2>3, <3>2
  <2>4. CASE value[i] \notin {Quote, Backslash}
    <3>1. ss[i] = <<value[i]>> BY <1>1, <2>4 DEF Escaped
    <3>2. Len(ss[i]) = 1 /\ ss[i][1] = value[i] /\ 1 \in 1..Len(ss[i])
      BY <3>1
    <3> QED BY <2>1, <2>2, <2>4, <3>2
  <2> QED BY <2>3, <2>4
<1>14. Spelled(dsn, value, place)
  <2>1. place[n] <= Len(dsn) /\ dsn[place[n]] = Quote BY <1>6, <1>10 DEF N
  <2> QED BY <1>10, <1>13, <2>1 DEF Spelled, n
<1>15. \E p : Spelled(dsn, value, p) /\ p[0] = b + 2 /\ p[n] = b + Len(EscapeConnectionString(value))
  <2>1. place[n] = b + Len(EscapeConnectionString(value)) BY <1>6, <1>10 DEF N
  <2> QED BY <1>10, <1>14, <2>1
<1>16. b + 1 <= Len(dsn) BY <1>6
<1> QED BY <1>6, <1>15, <1>16 DEF SpelledFrom, b, n

\* The first stop is this position when it is one.
LEMMA StartIsFirst ==
  ASSUME NEW dsn, NEW stops, Len(dsn) \in Nat, NEW pos \in 1..Len(dsn), dsn[pos] \in stops
  PROVE  FirstOf(dsn, pos, stops) = pos
<1> DEFINE found == {i \in pos..Len(dsn) : dsn[i] \in stops}
           Least(i) == i \in found /\ \A j \in found : i <= j
<1>1. Least(pos) OBVIOUS
<1>2. \A i : Least(i) => i = pos
  BY <1>1
<1>3. (CHOOSE i \in found : \A j \in found : i <= j) = pos
  BY <1>1, <1>2
<1> QED BY <1>1, <1>3 DEF FirstOf

(***************************************************************************)
(* A value EscapeConnectionString has written, wherever it stands in a     *)
(* connection string, is read back by ParseValue as it was, whatever       *)
(* quotes, backslashes and spaces it has, and the reading goes on right    *)
(* after it.                                                               *)
(***************************************************************************)
THEOREM EscapedIsReadBack ==
  ASSUME NEW C, Quote \in C, Backslash \in C,
         NEW before \in Seq(C), NEW value \in Seq(C), NEW after \in Seq(C)
  PROVE  ParseValue(before \o EscapeConnectionString(value) \o after, Len(before) + 1)
           = [found |-> TRUE, value |-> value,
              pos |-> Len(before) + Len(EscapeConnectionString(value)) + 1]
<1> DEFINE b == Len(before)
           e == Len(EscapeConnectionString(value))
<1> SUFFICES ASSUME NEW dsn, dsn = before \o EscapeConnectionString(value) \o after
             PROVE  ParseValue(dsn, b + 1) = [found |-> TRUE, value |-> value, pos |-> b + e + 1]
  BY Zenon
<1>1. /\ dsn \in Seq(C) /\ b \in Nat /\ b + 1 <= Len(dsn) /\ dsn[b + 1] = Quote
      /\ SpelledFrom(dsn, value, b + 2, b + e)
  BY EscapedIsSpelled
<1> HIDE DEF b, e
<1>2. PICK place : /\ Spelled(dsn, value, place)
                   /\ place[0] = b + 2 /\ place[Len(value)] = b + e
  BY <1>1 DEF SpelledFrom
<1>3. Len(dsn) \in Nat /\ DOMAIN dsn = 1..Len(dsn) /\ b + 1 \in 1..Len(dsn)
  BY <1>1, LenProperties
<1>4. FirstOf(dsn, b + 1, Range(dsn) \ {Space}) = b + 1
  <2>1. dsn[b + 1] \in Range(dsn) BY <1>3 DEF Range
  <2>2. Quote # Space BY DEF Quote, Space
  <2>3. dsn[b + 1] \in Range(dsn) \ {Space} BY <1>1, <2>1, <2>2
  <2> QED BY <1>3, <2>3, StartIsFirst
<1>5. ParseValue(dsn, b + 1) = ReadQuoted(dsn, b + 2)
  <2>1. ~(b + 1 > Len(dsn)) /\ (b + 1) + 1 = b + 2 BY <1>1, <1>3
  <2> QED BY <1>1, <1>4, <2>1 DEF ParseValue, ValueFrom
<1>6. ReadQuoted(dsn, place[0]) = Read(value, place[Len(value)] + 1)
  <2>1. place[0] > 0 BY <1>1, <1>2
  <2> QED BY <1>1, <1>2, <2>1, QuotedIsRead
<1> QED BY <1>2, <1>5, <1>6 DEF Read

\* The first stop is the next position when this one is none.
LEMMA NextIsFirst ==
  ASSUME NEW dsn, NEW stops, Len(dsn) \in Nat, NEW pos \in Nat, pos + 1 <= Len(dsn),
         dsn[pos] \notin stops, dsn[pos + 1] \in stops
  PROVE  FirstOf(dsn, pos, stops) = pos + 1
<1> DEFINE found == {i \in pos..Len(dsn) : dsn[i] \in stops}
           Least(i) == i \in found /\ \A j \in found : i <= j
<1>1. Least(pos + 1) OBVIOUS
<1>2. \A i : Least(i) => i = pos + 1
  BY <1>1
<1>3. (CHOOSE i \in found : \A j \in found : i <= j) = pos + 1
  BY <1>1, <1>2
<1> QED BY <1>1, <1>3 DEF FirstOf

\* Where the name and the equality sign stand in the whole text.
LEMMA WrittenName ==
  ASSUME NEW C, "=" \in C, NEW name \in C, NEW before \in Seq(C), NEW text \in Seq(C),
         NEW dsn, dsn = (before \o <<name, "=">>) \o text
  PROVE  /\ dsn \in Seq(C) /\ Len(before) \in Nat /\ Len(before) + 2 <= Len(dsn)
         /\ before \o <<name, "=">> \in Seq(C)
         /\ Len(before \o <<name, "=">>) = Len(before) + 2
         /\ dsn[Len(before) + 1] = name /\ dsn[Len(before) + 2] = "="
<1> DEFINE m == <<name, "=">>
           p == before \o m
           b == Len(before)
<1>1. m \in Seq(C) /\ Len(m) = 2 /\ m[1] = name /\ m[2] = "=" OBVIOUS
<1> HIDE DEF m
<1>2. p \in Seq(C) /\ Parts(p, before, m) BY <1>1, ConcatParts
<1> HIDE DEF p
<1>3. dsn = p \o text BY DEF p, m
<1>4. dsn \in Seq(C) /\ Parts(dsn, p, text) BY <1>2, <1>3, ConcatParts
<1>5. /\ b \in Nat /\ Len(p) = b + 2 /\ \A j \in 1..2 : p[b + j] = m[j]
  BY <1>1, <1>2 DEF Parts
<1>6. Len(text) \in Nat /\ Len(dsn) = Len(p) + Len(text) /\ \A j \in 1..Len(p) : dsn[j] = p[j]
  BY <1>4 DEF Parts
<1> HIDE DEF b
<1>7. b + 1 \in 1..Len(p) /\ b + 2 \in 1..Len(p) /\ 1 \in 1..2 /\ 2 \in 1..2
  BY <1>5
<1>8. dsn[b + 1] = name /\ dsn[b + 2] = "=" BY <1>1, <1>5, <1>6, <1>7
<1>9. b + 2 <= Len(dsn) BY <1>5, <1>6
<1> QED BY <1>2, <1>4, <1>5, <1>8, <1>9 DEF b, p, m

LEMMA EscapedText ==
  ASSUME NEW C, Quote \in C, Backslash \in C, NEW value \in Seq(C)
  PROVE  EscapeConnectionString(value) \in Seq(C)
<1> DEFINE ss == [i \in DOMAIN value |-> Escaped(value[i])]
           F == FlattenSeq(ss)
<1>1. Len(value) \in Nat /\ ss \in [1..Len(value) -> Seq(C)] BY Pieces
<1>2. EscapeConnectionString(value) = <<Quote>> \o F \o <<Quote>>
  BY DEF EscapeConnectionString, Escaped
<1> HIDE DEF ss
<1>3. PICK f : IsChain(C, Len(value), ss, f) /\ F = f[Len(value)]
  BY <1>1, Flattened
<1>4. F \in Seq(C)
  <2>1. Len(value) \in 0..Len(value) BY <1>1
  <2> QED BY <1>1, <1>3, <2>1 DEF IsChain
<1> HIDE DEF F
<1>5. <<Quote>> \in Seq(C) OBVIOUS
<1>6. <<Quote>> \o F \in Seq(C) BY <1>4, <1>5, ConcatParts
<1> QED BY <1>2, <1>5, <1>6, ConcatParts

\* What is read of the key.
LEMMA NameIsRead ==
  ASSUME NEW C, NEW dsn \in Seq(C), NEW b \in Nat, b + 2 <= Len(dsn),
         dsn[b + 1] \notin {Space, Quote, "="}, dsn[b + 2] = "="
  PROVE  ParseValue(dsn, b + 1) = [found |-> TRUE, value |-> <<dsn[b + 1]>>, pos |-> b + 2]
<1>1. /\ Len(dsn) \in Nat /\ DOMAIN dsn = 1..Len(dsn) /\ b + 1 \in 1..Len(dsn)
      /\ (b + 1) + 1 = b + 2 /\ b + 1 \in Nat /\ (b + 2) - 1 = b + 1 /\ ~(b + 1 > Len(dsn))
  BY LenProperties
<1>2. FirstOf(dsn, b + 1, Range(dsn) \ {Space}) = b + 1
  <2>1. dsn[b + 1] \in Range(dsn) \ {Space} BY <1>1 DEF Range
  <2> QED BY <1>1, <2>1, StartIsFirst
<1>3. FirstOf(dsn, b + 1, {"=", Space}) = b + 2
  BY <1>1, NextIsFirst
<1>4. SubSeq(dsn, b + 1, b + 1) = <<dsn[b + 1]>>
  <2> DEFINE k == b + 1
             c == dsn[k]
  <2>1. c \in C /\ k \in 1..Len(dsn) /\ k \in k..Len(dsn) /\ k \in Int /\ k + 1 \in Int /\ k < k + 1
    BY <1>1, ElementOfSeq
  <2>2. SubSeq(dsn, k, k) = <<c>> \o SubSeq(dsn, k + 1, k)
    <3> HIDE DEF k
    <3> QED BY <2>1, SubSeqRecursiveFirst
  <2>3. SubSeq(dsn, k + 1, k) = <<>>
    <3> HIDE DEF k
    <3> QED BY <2>1, SubSeqEmpty
  <2>4. <<c>> \o <<>> = <<c>>
    <3> HIDE DEF c
    <3>1. <<c>> \in Seq(C) BY <2>1
    <3> QED BY <3>1, ConcatEmptySeq
  <2> QED BY <2>2, <2>3, <2>4
<1> QED BY <1>1, <1>2, <1>3, <1>4 DEF ParseValue, ValueFrom

(***************************************************************************)
(* An option of a secret or of a URI, as WriteOption puts it into the      *)
(* connection string, is read by ParsePairs as one pair of its name and    *)
(* its value, and the reading goes on right after it ("rest").             *)
(***************************************************************************)
THEOREM WrittenOptionIsRead ==
  ASSUME NEW C, {Quote, Backslash, "="} \subseteq C,
         NEW name \in C \ {Space, Quote, "="},
         NEW before \in Seq(C), NEW value \in Seq(C), NEW after \in Seq(C), NEW rest,
         NEW dsn, dsn = before \o WriteOption(name, value) \o after
  PROVE  ParseAfterKey(dsn, ParseValue(dsn, Len(before) + 1), rest)
           = <<[key |-> <<name>>, value |-> value]>>
               \o rest[Len(before) + Len(WriteOption(name, value)) + 1]
<1> DEFINE w == <<name, "=">>
           e == EscapeConnectionString(value)
           b == Len(before)
           p == before \o w
<1>1. e \in Seq(C) /\ w \in Seq(C) /\ Len(w) = 2 BY EscapedText
<1>2. WriteOption(name, value) = w \o e BY DEF WriteOption
<1> HIDE DEF e, w
<1>3. e \o after \in Seq(C) /\ w \o e \in Seq(C) /\ p \in Seq(C) BY <1>1, ConcatParts
<1>4. dsn = p \o e \o after
  <2>1. ASSUME NEW x \in Seq(C), NEW y \in Seq(C), NEW z \in Seq(C)
        PROVE  (x \o y) \o z = x \o (y \o z)
    BY ConcatAssociative
  <2>2. before \o (w \o e) = (before \o w) \o e BY <1>1, <2>1, Zenon
  <2> QED BY <1>2, <2>2
<1>5. dsn = p \o (e \o after) BY <1>1, <1>3, <1>4, ConcatAssociative
<1>6. /\ dsn \in Seq(C) /\ b \in Nat /\ b + 2 <= Len(dsn) /\ p \in Seq(C) /\ Len(p) = b + 2
      /\ dsn[b + 1] = name /\ dsn[b + 2] = "="
  BY <1>3, <1>5, WrittenName DEF w
<1>7. Len(e) \in Nat /\ Len(WriteOption(name, value)) = Len(e) + 2
  <2>1. Parts(w \o e, w, e) BY <1>1, ConcatParts
  <2> QED BY <1>1, <1>2, <2>1 DEF Parts
<1> HIDE DEF b, p
<1> DEFINE key == [found |-> TRUE, value |-> <<name>>, pos |-> b + 2]
           got == [found |-> TRUE, value |-> value, pos |-> (b + 2) + Len(e) + 1]
<1>8. ParseValue(dsn, b + 1) = key BY <1>6, NameIsRead
<1>9. ParseValue(dsn, (b + 2) + 1) = got
  <2>1. ParseValue(p \o e \o after, Len(p) + 1)
          = [found |-> TRUE, value |-> value, pos |-> Len(p) + Len(e) + 1]
    BY <1>6, EscapedIsReadBack DEF e
  <2> QED BY <1>4, <1>6, <2>1
<1>10. key # Error /\ got # Error BY DEF Error
<1>11. (b + 2) + Len(e) + 1 = b + (Len(e) + 2) + 1 BY <1>6, <1>7
<1>12. ParseAfterValue(<<name>>, got, rest)
         = <<[key |-> <<name>>, value |-> value]>> \o rest[(b + 2) + Len(e) + 1]
  BY <1>10 DEF ParseAfterValue
<1>13. ParseAfterKey(dsn, key, rest) = ParseAfterValue(<<name>>, got, rest)
  <2>1. Len(dsn) \in Nat BY <1>6, LenProperties
  <2>2. ~(b + 2 > Len(dsn)) BY <1>6, <2>1
  <2> HIDE DEF got
  <2> QED BY <1>6, <1>9, <1>10, <2>2 DEF ParseAfterKey
<1> HIDE DEF key, got
<1> QED BY <1>7, <1>8, <1>11, <1>12, <1>13 DEF b
=============================================================================
