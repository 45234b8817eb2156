------------------------ MODULE MySQLCatalogSetProofs ------------------------
(***************************************************************************)
(* The schema cache.  First any number of clients: types, and the          *)
(* coherence of the cache when tables and views are created and looked up  *)
(* concurrently.  Then one client at a time and every statement (lookups,  *)
(* CREATE, DROP, ALTER, mysql_clear_cache), any number of names and        *)
(* definitions, and other programs that change the schema.                 *)
(***************************************************************************)
EXTENDS MySQLCatalogSet, TLAPS

Known   == Definitions \cup {Absent}
Entry   == Definitions \cup {Absent, NoColumns}
-----------------------------------------------------------------------------
LEMMA InitTyped == Init => TypeOK
<1> SUFFICES ASSUME Init PROVE TypeOK
  OBVIOUS
<1>1. tables \in Contents
  BY DEF Init
<1>2. Nothing \in [Names -> Entry]
  BY DEF Nothing, Entry
<1>3. (CHOOSE st \in Statements : TRUE) \in Statements
  BY ConstantsAssumption
<1>4. entries \in [Schemas -> [Names -> Entry]] /\ pending \in [Clients -> [Names -> Entry]]
  BY <1>2 DEF Init
<1>5. stmt \in [Clients -> Statements]
  BY <1>3 DEF Init
<1> QED BY <1>1, <1>4, <1>5 DEF Init, TypeOK, Entry

\* The statement of a client is one of StatementType.
LEMMA StatementOf ==
  ASSUME TypeOK, NEW c \in Clients
  PROVE  /\ stmt[c] \in Statements /\ stmt[c] \in StatementType
         /\ stmt[c].schema \in Schemas /\ stmt[c].name \in Names /\ stmt[c].to \in Names
         /\ Target(stmt[c]) \in Schemas
<1>1. stmt[c] \in Statements /\ stmt[c] \in StatementType
  BY ConstantsAssumption DEF TypeOK
<1>2. stmt[c].schema \in Schemas /\ stmt[c].name \in Names /\ stmt[c].to \in Names
  BY <1>1 DEF StatementType
<1> QED BY <1>1, <1>2, ConstantsAssumption DEF Target

\* SetTables keeps the types when the new schema has one.
LEMMA SetTablesTyped ==
  ASSUME TypeOK, NEW new \in Contents, SetTables(new)
  PROVE  tables' \in Contents /\ possible' \in [Clients -> SUBSET Known]
<1>1. \A c \in Clients : At(new, c) \in Known
  BY StatementOf DEF At, Contents, Known
<1>2. \A c \in Clients : possible[c] \subseteq Known
  BY DEF TypeOK, Known
<1> QED BY <1>1, <1>2 DEF SetTables

\* Putting a definition under a name keeps a schema well typed.
LEMMA PutTyped ==
  ASSUME NEW f \in Contents, NEW s \in Schemas, NEW n \in Names, NEW d \in Known
  PROVE  [f EXCEPT ![s][n] = d] \in Contents
  BY DEF Contents, Known

LEMMA DropTyped ==
  ASSUME TypeOK, NEW c \in Clients, NEW ifExists \in BOOLEAN, DropOnServer(stmt[c], ifExists)
  PROVE  tables' \in Contents /\ possible' \in [Clients -> SUBSET Known]
<1> DEFINE old == tables[DefaultSchema][stmt[c].name]
           new == [tables EXCEPT ![DefaultSchema][stmt[c].name] = AfterDrop(stmt[c], old)]
<1>1. old \in Known
  BY StatementOf, ConstantsAssumption DEF TypeOK, Contents, Known
<1>2. AfterDrop(stmt[c], old) \in Known
  BY <1>1 DEF AfterDrop, Known
<1>3. new \in Contents
  BY <1>2, StatementOf, ConstantsAssumption, PutTyped DEF TypeOK
<1> QED BY <1>3, SetTablesTyped DEF DropOnServer

LEMMA CreateTyped ==
  ASSUME TypeOK, NEW c \in Clients, stmt[c].kind = "create", CreateOnServer(stmt[c])
  PROVE  tables' \in Contents /\ possible' \in [Clients -> SUBSET Known]
<1> DEFINE old == tables[Target(stmt[c])][stmt[c].name]
           new == [tables EXCEPT ![Target(stmt[c])][stmt[c].name] = AfterCreate(stmt[c], old)]
<1>1. old \in Known
  BY StatementOf DEF TypeOK, Contents, Known
<1>2. AfterCreate(stmt[c], old) \in Known
  BY <1>1, StatementOf, ConstantsAssumption DEF AfterCreate, Known
<1>3. new \in Contents
  BY <1>2, StatementOf, PutTyped DEF TypeOK
<1> QED BY <1>3, SetTablesTyped DEF CreateOnServer

LEMMA AlterTyped ==
  ASSUME TypeOK, NEW c \in Clients, stmt[c].kind = "alter", AlterOnServer(stmt[c])
  PROVE  tables' \in Contents /\ possible' \in [Clients -> SUBSET Known]
<1> DEFINE st  == stmt[c]
           old == tables[DefaultSchema][st.name]
<1>1. old \in Known /\ Absent \in Known
  BY StatementOf, ConstantsAssumption DEF TypeOK, Contents, Known
<1>2. CASE st.to = st.name
  <2>1. st.definition \in Known
    BY <1>2, StatementOf, ConstantsAssumption DEF Known
  <2>2. [tables EXCEPT ![DefaultSchema][st.name] = st.definition] \in Contents
    BY <2>1, StatementOf, ConstantsAssumption, PutTyped DEF TypeOK
  <2> QED BY <1>2, <2>2, SetTablesTyped DEF AlterOnServer
<1>3. CASE st.to # st.name
  <2> DEFINE gone == [tables EXCEPT ![DefaultSchema][st.name] = Absent]
             new  == [tables EXCEPT ![DefaultSchema][st.name] = Absent,
                                    ![DefaultSchema][st.to] = old]
  <2>1. gone \in Contents
    BY <1>1, StatementOf, ConstantsAssumption, PutTyped DEF TypeOK
  <2>2. [gone EXCEPT ![DefaultSchema][st.to] = old] \in Contents
    BY <2>1, <1>1, StatementOf, ConstantsAssumption, PutTyped
  <2>3. new \in Contents
    BY <2>2
  <2> QED BY <1>3, <2>3, SetTablesTyped DEF AlterOnServer
<1> QED BY <1>2, <1>3

\* CreateEntry keeps the cache well typed.
LEMMA CreateEntryTyped ==
  ASSUME TypeOK, NEW s \in Schemas, NEW n \in Names, NEW d \in Entry, CreateEntry(s, n, d)
  PROVE  entries' \in [Schemas -> [Names -> Entry]]
  BY DEF CreateEntry, TypeOK, Entry

LEMMA GotoTyped ==
  ASSUME TypeOK, NEW c \in Clients,
         NEW where \in {"idle", "checking", "marking", "querying", "inserting",
                        "finding", "dropping", "erasing", "executing",
                        "refreshing", "caching", "clearing"},
         Goto(c, where)
  PROVE  pc' \in [Clients -> {"idle", "checking", "marking", "querying", "inserting",
                        "finding", "dropping", "erasing", "executing",
                        "refreshing", "caching", "clearing"}]
  BY DEF Goto, TypeOK

LEMMA RefusedTyped ==
  ASSUME TypeOK, NEW c \in Clients, NEW accepted, Refused(c, accepted),
         UNCHANGED <<cacheVars, stmt, outdated>>
  PROVE  TypeOK'
  BY GotoTyped DEF Refused, TypeOK, cacheVars, Contents
-----------------------------------------------------------------------------
LEMMA ClientTyped ==
  ASSUME TypeOK, NEW c \in Clients, Client(c)
  PROVE  TypeOK'
<1> DEFINE st == stmt[c]
<1>0. /\ st \in StatementType /\ st.schema \in Schemas /\ st.name \in Names
      /\ Absent \in Known /\ Known \subseteq Entry
  BY StatementOf DEF Known, Entry
<1>1. CASE Begin(c)
  <2>1. PICK s \in Statements :
          /\ stmt' = [stmt EXCEPT ![c] = s]
          /\ possible' = [possible EXCEPT ![c] = {tables[s.schema][s.name]}]
          /\ Goto(c, IF s.kind = "clear" THEN "clearing"
                     ELSE IF s.kind = "create" /\ s.view /\ s.conflict = "error"
                          THEN "executing" ELSE "checking")
    BY <1>1 DEF Begin
  <2>2. s.schema \in Schemas /\ s.name \in Names
    BY ConstantsAssumption DEF StatementType
  <2>3. tables[s.schema][s.name] \in Known
    BY <2>2 DEF TypeOK, Contents, Known
  <2>4. possible' \in [Clients -> SUBSET Known]
    BY <2>1, <2>3 DEF TypeOK, Known
  <2>5. stmt' \in [Clients -> Statements]
    BY <2>1 DEF TypeOK
  <2> QED BY <1>1, <2>1, <2>4, <2>5, GotoTyped DEF Begin, TypeOK, cacheVars, Contents, Known
<1>2. CASE Check(c)
  BY <1>2, GotoTyped DEF Check, TypeOK, cacheVars, Contents
<1>3. CASE Mark(c)
  BY <1>3, <1>0, GotoTyped DEF Mark, TypeOK, Contents
<1>4. CASE QueryEntries(c)
  <2>1. tables[st.schema] \in [Names -> Entry]
    BY <1>0 DEF TypeOK, Contents, Entry
  <2>2. pending' \in [Clients -> [Names -> Entry]]
    BY <1>4, <2>1 DEF QueryEntries, TypeOK, Entry
  <2> QED BY <1>4, <2>2, GotoTyped DEF QueryEntries, TypeOK, cacheVars, Contents, Entry
<1>5. CASE InsertEntry(c)
  <2>1. CASE \E n \in Names :
               /\ CreateEntry(st.schema, n, pending[c][n])
               /\ pending' = [pending EXCEPT ![c][n] = Absent]
               /\ UNCHANGED pc
    <3>1. PICK n \in Names :
               /\ CreateEntry(st.schema, n, pending[c][n])
               /\ pending' = [pending EXCEPT ![c][n] = Absent]
               /\ UNCHANGED pc
      BY <2>1
    <3>2. pending[c][n] \in Entry
      BY DEF TypeOK, Entry
    <3>3. entries' \in [Schemas -> [Names -> Entry]]
      BY <1>0, <3>1, <3>2, CreateEntryTyped
    <3>4. pending' \in [Clients -> [Names -> Entry]]
      BY <3>1 DEF TypeOK, Entry
    <3> QED BY <1>5, <3>1, <3>3, <3>4 DEF InsertEntry, TypeOK, Contents, Entry
  <2>2. CASE Goto(c, "finding") /\ UNCHANGED <<entries, pending>>
    BY <1>5, <2>2, GotoTyped DEF InsertEntry, TypeOK, Contents
  <2> QED BY <1>5, <2>1, <2>2 DEF InsertEntry
<1>6. CASE Find(c)
  BY <1>6, GotoTyped DEF Find, TypeOK, cacheVars, Contents
<1>7. CASE DropExisting(c)
  <2>1. CASE DropOnServer(st, TRUE) /\ Goto(c, "erasing") /\ UNCHANGED pending
    BY <1>7, <2>1, DropTyped, GotoTyped DEF DropExisting, TypeOK, cacheVars, Contents, Known
  <2> QED BY <1>7, <2>1, RefusedTyped DEF DropExisting
<1>8. CASE Erase(c)
  <2>1. entries' \in [Schemas -> [Names -> Entry]]
    BY <1>8, <1>0 DEF Erase, EraseEntry, TypeOK, Entry
  <2> QED BY <1>8, <2>1, GotoTyped DEF Erase, TypeOK, Contents, Entry
<1>9. CASE Execute(c)
  <2> USE DEF Execute
  <2>1. CASE /\ DropOnServer(st, st.conflict = "ignore")
             /\ Goto(c, "erasing") /\ UNCHANGED pending
    BY <1>9, <2>1, DropTyped, GotoTyped DEF TypeOK, cacheVars, Contents, Known
  <2>2. CASE /\ st.kind = "create"
             /\ CreateOnServer(st)
             /\ pending' = [pending EXCEPT ![c] = [Nothing EXCEPT ![st.name] = st.definition]]
             /\ Goto(c, IF st.view THEN "refreshing" ELSE "caching")
    <3>1. st.definition \in Entry
      BY <1>0 DEF StatementType, Entry
    <3>2. [Nothing EXCEPT ![st.name] = st.definition] \in [Names -> Entry]
      BY <3>1, <1>0 DEF Nothing, Known
    <3>3. pending' \in [Clients -> [Names -> Entry]]
      BY <2>2, <3>2 DEF TypeOK, Entry
    <3>4. tables' \in Contents /\ possible' \in [Clients -> SUBSET Known]
      BY <2>2, CreateTyped
    <3> QED BY <1>9, <2>2, <3>3, <3>4, GotoTyped DEF TypeOK, cacheVars, Known, Entry
  <2>3. CASE /\ st.kind = "alter" /\ AlterOnServer(st)
             /\ Goto(c, "clearing") /\ UNCHANGED pending
    BY <1>9, <2>3, AlterTyped, GotoTyped DEF TypeOK, cacheVars, Contents, Known
  <2>4. ASSUME NEW a, Refused(c, a) PROVE TypeOK'
    BY <1>9, <2>4, RefusedTyped
  <2> QED BY <1>9, <2>1, <2>2, <2>3, <2>4
<1>10. CASE Refresh(c)
  <2>1. At(tables, c) \in Entry /\ NoColumns \in Entry
    BY <1>0 DEF At, TypeOK, Contents, Entry
  <2>2. Nothing \in [Names -> Entry]
    BY DEF Nothing, Entry
  <2>3. pending' \in [Clients -> [Names -> Entry]]
    BY <1>10, <2>1, <2>2, <1>0 DEF Refresh, TypeOK, Entry
  <2> QED BY <1>10, <2>3, GotoTyped DEF Refresh, TypeOK, cacheVars, Contents, Entry
<1>11. CASE Cache(c)
  <2>1. pending[c][st.name] \in Entry /\ Nothing \in [Names -> Entry]
    BY <1>0 DEF TypeOK, Entry, Nothing
  <2>2. entries' \in [Schemas -> [Names -> Entry]]
    BY <1>11, <1>0, <2>1, CreateEntryTyped DEF Cache
  <2>3. pending' \in [Clients -> [Names -> Entry]]
    BY <1>11, <2>1 DEF Cache, TypeOK, Entry
  <2> QED BY <1>11, <2>2, <2>3, GotoTyped DEF Cache, TypeOK, Contents, Entry
<1>12. CASE Clear(c)
  <2> DEFINE cleared == IF st.kind = "clear" THEN Schemas ELSE {st.schema}
  <2>1. entries' = [s \in Schemas |-> IF s \in cleared THEN Nothing ELSE entries[s]]
    BY <1>12 DEF Clear
  <2>2. entries' \in [Schemas -> [Names -> Entry]]
    BY <2>1 DEF TypeOK, Entry, Nothing
  <2> QED BY <1>12, <2>2, GotoTyped DEF Clear, TypeOK, Contents, Entry
<1> QED BY <1>1, <1>2, <1>3, <1>4, <1>5, <1>6, <1>7, <1>8, <1>9, <1>10, <1>11, <1>12
        DEF Client

LEMMA NextTyped == TypeOK /\ [Next]_vars => TypeOK'
<1> SUFFICES ASSUME TypeOK, [Next]_vars PROVE TypeOK'
  OBVIOUS
<1>1. CASE External
  <2>1. PICK s \in Schemas, n \in Names : \E d \in Objects[n] \cup {Absent} :
          SetTables([tables EXCEPT ![s][n] = d])
    BY <1>1 DEF External
  <2>2. PICK d \in Objects[n] \cup {Absent} : SetTables([tables EXCEPT ![s][n] = d])
    BY <2>1
  <2>3. d \in Known
    BY ConstantsAssumption DEF Known
  <2>4. tables' \in Contents /\ possible' \in [Clients -> SUBSET Known]
    BY <2>2, <2>3, PutTyped, SetTablesTyped DEF TypeOK
  <2> QED BY <1>1, <2>4 DEF External, TypeOK, cacheVars, Known
<1>2. CASE \E c \in Clients : Client(c)
  BY <1>2, ClientTyped
<1>3. CASE UNCHANGED vars
  BY <1>3 DEF TypeOK, vars, Contents
<1> QED BY <1>1, <1>2, <1>3 DEF Next
-----------------------------------------------------------------------------
(***************************************************************************)
(* Clients that look up and create only, each view in the database of the  *)
(* session, with nobody else changing the schema and no failing load.      *)
(***************************************************************************)
OnlyCreates ==
  /\ \A st \in Statements :
       /\ st.kind \in {"lookup", "create"}
       /\ st.conflict = "error" \/ (st.view /\ st.conflict = "ignore")
       /\ st.view => st.schema = DefaultSchema
  /\ ~OtherClients
  /\ "load" \notin Faults

\* The steps such clients take.
Growing ==
  \A c \in Clients :
    /\ pc[c] \in {"idle", "checking", "marking", "querying", "inserting",
                  "finding", "executing", "refreshing", "caching"}
    /\ pc[c] \in {"executing", "refreshing", "caching"} => stmt[c].kind = "create"

\* What is cached is what the server has.
Faithful ==
  \A s \in Schemas, n \in Names : entries[s][n] \in {Absent, tables[s][n]}

\* What a client is about to enter is what the server has.
Carries ==
  \A c \in Clients :
    /\ pc[c] = "inserting" =>
         \A n \in Names : pending[c][n] \in {Absent, tables[stmt[c].schema][n]}
    /\ pc[c] \in {"refreshing", "caching"} =>
         /\ At(tables, c) # Absent
         /\ pending[c][stmt[c].name] = At(tables, c)

\* Client c is going to enter n into the set of s.
WillEnter(c, s, n) ==
  /\ stmt[c].schema = s
  /\ \/ pc[c] = "querying"
     \/ pc[c] = "inserting" /\ pending[c][n] # Absent
     \/ pc[c] \in {"refreshing", "caching"} /\ stmt[c].name = n

\* A loaded set has every table, or somebody is going to enter it.
Covered ==
  \A s \in Schemas, n \in Names :
    isLoaded[s] /\ tables[s][n] # Absent =>
      entries[s][n] # Absent \/ \E c \in Clients : WillEnter(c, s, n)

CacheInv == TypeOK /\ Growing /\ Faithful /\ Carries /\ Covered

LEMMA CacheInvInit == Init => Growing /\ Faithful /\ Carries /\ Covered
  BY DEF Init, Growing, Faithful, Carries, Covered, Nothing

(***************************************************************************)
(* A step of c that neither touches the server nor the cache, nor what c   *)
(* has promised to enter.                                                  *)
(***************************************************************************)
LEMMA QuietStep ==
  ASSUME CacheInv, NEW c \in Clients,
         NEW where \in {"idle", "checking", "marking", "finding", "executing"},
         Goto(c, where),
         pc[c] \in {"idle", "checking", "finding", "executing"},
         where = "executing" => stmt'[c].kind = "create",
         stmt' \in [Clients -> Statements],
         \A d \in Clients \ {c} : stmt'[d] = stmt[d],
         UNCHANGED <<tables, entries, isLoaded, pending>>
  PROVE  Growing' /\ Faithful' /\ Carries' /\ Covered'
<1>1. /\ pc'[c] = where
      /\ \A d \in Clients \ {c} : pc'[d] = pc[d] /\ stmt'[d] = stmt[d]
  BY DEF Goto, CacheInv, TypeOK
<1>2. Growing'
  BY <1>1 DEF CacheInv, Growing
<1>3. Faithful'
  BY DEF CacheInv, Faithful
<1>4. Carries'
  BY <1>1 DEF CacheInv, Carries, At
<1>5. \A d \in Clients, s \in Schemas, n \in Names :
        WillEnter(d, s, n) => WillEnter(d, s, n)'
  BY <1>1 DEF WillEnter
<1>6. Covered'
  BY <1>5 DEF CacheInv, Covered
<1> QED BY <1>2, <1>3, <1>4, <1>6

LEMMA MarkStep ==
  ASSUME CacheInv, NEW c \in Clients, Mark(c)
  PROVE  Growing' /\ Faithful' /\ Carries' /\ Covered'
<1>0. stmt[c].schema \in Schemas
  BY StatementOf DEF CacheInv
<1>1. /\ pc' = [pc EXCEPT ![c] = "querying"] /\ pc[c] = "marking"
      /\ isLoaded' = [isLoaded EXCEPT ![stmt[c].schema] = TRUE]
      /\ UNCHANGED <<tables, entries, stmt, pending>>
  BY DEF Mark, Goto
<1>2. Growing' /\ Faithful' /\ Carries'
  BY <1>1 DEF CacheInv, TypeOK, Growing, Faithful, Carries, At
<1>3. \A d \in Clients, s \in Schemas, n \in Names :
        WillEnter(d, s, n) => WillEnter(d, s, n)'
  BY <1>1 DEF WillEnter, CacheInv, TypeOK
<1>4. \A n \in Names : WillEnter(c, stmt[c].schema, n)'
  BY <1>1 DEF WillEnter, CacheInv, TypeOK
<1>5. Covered'
  BY <1>0, <1>1, <1>3, <1>4 DEF CacheInv, Covered, TypeOK
<1> QED BY <1>2, <1>5

LEMMA QueryStep ==
  ASSUME CacheInv, OnlyCreates, NEW c \in Clients, QueryEntries(c)
  PROVE  Growing' /\ Faithful' /\ Carries' /\ Covered'
<1>1. /\ pc' = [pc EXCEPT ![c] = "inserting"] /\ pc[c] = "querying"
      /\ pending' = [pending EXCEPT ![c] = tables[stmt[c].schema]]
      /\ UNCHANGED <<tables, entries, isLoaded, stmt>>
  BY DEF QueryEntries, Goto, OnlyCreates, cacheVars
<1>2. Growing' /\ Faithful' /\ Carries'
  BY <1>1 DEF CacheInv, TypeOK, Growing, Faithful, Carries, At
<1>3. \A d \in Clients, s \in Schemas, n \in Names :
        tables[s][n] # Absent /\ WillEnter(d, s, n) => WillEnter(d, s, n)'
  BY <1>1 DEF WillEnter, CacheInv, TypeOK
<1>4. Covered'
  BY <1>1, <1>3 DEF CacheInv, Covered
<1> QED BY <1>2, <1>4

LEMMA InsertStep ==
  ASSUME CacheInv, NEW c \in Clients, InsertEntry(c)
  PROVE  Growing' /\ Faithful' /\ Carries' /\ Covered'
<1>0. stmt[c].schema \in Schemas /\ pc[c] = "inserting"
  BY StatementOf DEF CacheInv, InsertEntry
<1>1. CASE \E n \in Names :
             /\ pending[c][n] # Absent
             /\ CreateEntry(stmt[c].schema, n, pending[c][n])
             /\ pending' = [pending EXCEPT ![c][n] = Absent]
             /\ UNCHANGED pc
  <2>1. PICK n \in Names :
             /\ pending[c][n] # Absent
             /\ CreateEntry(stmt[c].schema, n, pending[c][n])
             /\ pending' = [pending EXCEPT ![c][n] = Absent]
             /\ UNCHANGED <<pc, tables, isLoaded, stmt>>
    BY <1>1 DEF InsertEntry
  <2>2. pending[c][n] = tables[stmt[c].schema][n]
    BY <1>0, <2>1 DEF CacheInv, Carries
  <2>3. \A s \in Schemas, m \in Names :
          entries'[s][m] = IF s = stmt[c].schema /\ m = n /\ entries[s][m] = Absent
                           THEN tables[s][m] ELSE entries[s][m]
    BY <1>0, <2>1, <2>2 DEF CreateEntry, CacheInv, TypeOK
  <2>4. \A d \in Clients, m \in Names :
          pending'[d][m] = IF d = c /\ m = n THEN Absent ELSE pending[d][m]
    BY <2>1 DEF CacheInv, TypeOK
  <2>5. Growing'
    BY <2>1 DEF CacheInv, Growing
  <2>6. Faithful'
    BY <2>1, <2>3 DEF CacheInv, Faithful
  <2>7. Carries'
    <3> SUFFICES ASSUME NEW d \in Clients
                 PROVE  /\ pc[d] = "inserting" => \A m \in Names :
                             pending'[d][m] \in {Absent, tables[stmt[d].schema][m]}
                        /\ pc[d] \in {"refreshing", "caching"} =>
                             /\ At(tables, d) # Absent
                             /\ pending'[d][stmt[d].name] = At(tables, d)
      BY <2>1 DEF Carries, At
    <3>1. stmt[d].name \in Names
      BY StatementOf DEF CacheInv
    <3> QED BY <1>0, <2>4, <3>1 DEF CacheInv, Carries
  <2>8. \A d \in Clients, s \in Schemas, m \in Names :
          WillEnter(d, s, m) => WillEnter(d, s, m)' \/ entries'[s][m] # Absent
    <3> SUFFICES ASSUME NEW d \in Clients, NEW s \in Schemas, NEW m \in Names,
                        WillEnter(d, s, m), entries'[s][m] = Absent
                 PROVE  WillEnter(d, s, m)'
      OBVIOUS
    <3>1. ~(d = c /\ m = n)
      BY <2>1, <2>2, <2>3 DEF WillEnter
    <3> QED BY <2>1, <2>4, <3>1 DEF WillEnter
  <2>9. Covered'
    BY <2>1, <2>3, <2>8 DEF CacheInv, Covered
  <2> QED BY <2>5, <2>6, <2>7, <2>9
<1>2. CASE pending[c] = Nothing /\ Goto(c, "finding") /\ UNCHANGED <<entries, pending>>
  <2>1. /\ pc' = [pc EXCEPT ![c] = "finding"] /\ pending[c] = Nothing
        /\ UNCHANGED <<tables, entries, isLoaded, stmt, pending>>
    BY <1>2 DEF InsertEntry, Goto
  <2>2. Growing' /\ Faithful' /\ Carries'
    BY <2>1 DEF CacheInv, TypeOK, Growing, Faithful, Carries, At
  <2>3. \A d \in Clients, s \in Schemas, n \in Names :
          WillEnter(d, s, n) => WillEnter(d, s, n)'
    BY <1>0, <2>1 DEF WillEnter, CacheInv, TypeOK, Nothing
  <2>4. Covered'
    BY <2>1, <2>3 DEF CacheInv, Covered
  <2> QED BY <2>2, <2>4
<1> QED BY <1>1, <1>2 DEF InsertEntry

\* CREATE is only accepted where there is nothing of that name.
LEMMA ExecuteStep ==
  ASSUME CacheInv, OnlyCreates, NEW c \in Clients, Execute(c)
  PROVE  Growing' /\ Faithful' /\ Carries' /\ Covered'
<1> DEFINE st == stmt[c]
<1>0. /\ st \in Statements /\ st.schema \in Schemas /\ st.name \in Names
      /\ pc[c] = "executing" /\ st.kind = "create" /\ Target(st) = st.schema
  BY StatementOf DEF CacheInv, Execute, Growing, OnlyCreates, Target
<1>1. CASE /\ CreateOnServer(st)
           /\ pending' = [pending EXCEPT ![c] = [Nothing EXCEPT ![st.name] = st.definition]]
           /\ Goto(c, IF st.view THEN "refreshing" ELSE "caching")
  <2>1. tables[st.schema][st.name] = Absent
    BY <1>0, <1>1 DEF CreateOnServer, CreateAccepted, OnlyCreates
  <2>2. tables' = [tables EXCEPT ![st.schema][st.name] = st.definition]
    BY <1>0, <1>1, <2>1 DEF CreateOnServer, AfterCreate, SetTables
  <2>3. \A s \in Schemas, n \in Names :
          tables'[s][n] = IF s = st.schema /\ n = st.name THEN st.definition ELSE tables[s][n]
    BY <2>2, <1>0 DEF CacheInv, TypeOK, Contents
  <2>4. st.definition # Absent
    BY <1>0, ConstantsAssumption
  <2>5. pending'[c][st.name] = st.definition
    BY <1>0, <1>1 DEF CacheInv, TypeOK, Nothing
  <2>6. /\ pc'[c] \in {"refreshing", "caching"}
        /\ \A d \in Clients \ {c} : pc'[d] = pc[d] /\ pending'[d] = pending[d]
        /\ UNCHANGED <<entries, isLoaded, stmt>>
    BY <1>1 DEF Goto, CacheInv, TypeOK, Execute, cacheVars
  <2>7. Growing'
    BY <1>0, <2>6 DEF CacheInv, Growing
  <2>8. Faithful'
    BY <2>1, <2>3, <2>6 DEF CacheInv, Faithful
  <2>9. Carries'
    <3> SUFFICES ASSUME NEW d \in Clients
                 PROVE  /\ pc'[d] = "inserting" => \A n \in Names :
                             pending'[d][n] \in {Absent, tables'[stmt[d].schema][n]}
                        /\ pc'[d] \in {"refreshing", "caching"} =>
                             /\ tables'[stmt[d].schema][stmt[d].name] # Absent
                             /\ pending'[d][stmt[d].name] = tables'[stmt[d].schema][stmt[d].name]
      BY <2>6 DEF Carries, At
    <3>1. stmt[d].schema \in Schemas /\ stmt[d].name \in Names
      BY StatementOf DEF CacheInv
    <3>2. CASE d = c
      BY <1>0, <2>3, <2>4, <2>5, <2>6, <3>2
    <3>3. CASE d # c
      <4>1. /\ pc[d] = "inserting" => \A n \in Names :
                  pending[d][n] \in {Absent, tables[stmt[d].schema][n]}
            /\ pc[d] \in {"refreshing", "caching"} =>
                  /\ tables[stmt[d].schema][stmt[d].name] # Absent
                  /\ pending[d][stmt[d].name] = tables[stmt[d].schema][stmt[d].name]
        BY DEF CacheInv, Carries, At
      <4>2. \A n \in Names : tables[stmt[d].schema][n] # Absent =>
                              tables'[stmt[d].schema][n] = tables[stmt[d].schema][n]
        BY <2>1, <2>3, <3>1
      <4>3. pc'[d] = pc[d] /\ pending'[d] = pending[d]
        BY <2>6, <3>3
      <4> QED BY <3>1, <4>1, <4>2, <4>3
    <3> QED BY <3>2, <3>3
  <2>10. \A d \in Clients, s \in Schemas, n \in Names :
           WillEnter(d, s, n) => WillEnter(d, s, n)'
    <3> SUFFICES ASSUME NEW d \in Clients, NEW s \in Schemas, NEW n \in Names,
                        WillEnter(d, s, n)
                 PROVE  WillEnter(d, s, n)'
      OBVIOUS
    <3>1. d # c
      BY <1>0 DEF WillEnter
    <3> QED BY <2>6, <3>1 DEF WillEnter
  <2>11. WillEnter(c, st.schema, st.name)'
    BY <2>6 DEF WillEnter
  <2>12. Covered'
    BY <2>3, <2>6, <2>10, <2>11 DEF CacheInv, Covered
  <2> QED BY <2>7, <2>8, <2>9, <2>12
<1>2. ASSUME NEW a, Refused(c, a)
      PROVE  Growing' /\ Faithful' /\ Carries' /\ Covered'
  BY <1>0, <1>2, QuietStep DEF Refused, Execute, cacheVars, CacheInv, TypeOK
<1> QED BY <1>0, <1>1, <1>2 DEF Execute

LEMMA RefreshStep ==
  ASSUME CacheInv, OnlyCreates, NEW c \in Clients, Refresh(c)
  PROVE  Growing' /\ Faithful' /\ Carries' /\ Covered'
<1>0. stmt[c].name \in Names /\ pc[c] = "refreshing" /\ At(tables, c) # Absent
  BY StatementOf DEF CacheInv, Refresh, Carries
<1>1. /\ pc' = [pc EXCEPT ![c] = "caching"]
      /\ pending' = [pending EXCEPT ![c][stmt[c].name] = At(tables, c)]
      /\ UNCHANGED <<tables, entries, isLoaded, stmt>>
  BY <1>0 DEF Refresh, Goto, OnlyCreates, cacheVars
<1>2. pending'[c][stmt[c].name] = At(tables, c)
  BY <1>0, <1>1 DEF CacheInv, TypeOK
<1>3. \A d \in Clients \ {c} : pc'[d] = pc[d] /\ pending'[d] = pending[d]
  BY <1>1 DEF CacheInv, TypeOK
<1>4. pc'[c] = "caching"
  BY <1>1 DEF CacheInv, TypeOK
<1>5. Growing' /\ Faithful'
  BY <1>0, <1>1, <1>3, <1>4 DEF CacheInv, Growing, Faithful
<1>6. Carries'
  BY <1>0, <1>1, <1>2, <1>3, <1>4 DEF CacheInv, Carries, At
<1>7. \A d \in Clients, s \in Schemas, n \in Names :
        WillEnter(d, s, n) => WillEnter(d, s, n)'
  BY <1>0, <1>1, <1>3, <1>4 DEF WillEnter
<1>8. Covered'
  BY <1>1, <1>7 DEF CacheInv, Covered
<1> QED BY <1>5, <1>6, <1>8

LEMMA CacheStep ==
  ASSUME CacheInv, NEW c \in Clients, Cache(c)
  PROVE  Growing' /\ Faithful' /\ Carries' /\ Covered'
<1> DEFINE s0 == stmt[c].schema
           n0 == stmt[c].name
<1>0. /\ s0 \in Schemas /\ n0 \in Names /\ pc[c] = "caching"
      /\ tables[s0][n0] # Absent /\ pending[c][n0] = tables[s0][n0]
  BY StatementOf DEF CacheInv, Cache, Carries, At
<1>1. /\ pc' = [pc EXCEPT ![c] = "idle"]
      /\ pending' = [pending EXCEPT ![c] = Nothing]
      /\ CreateEntry(s0, n0, pending[c][n0])
      /\ UNCHANGED <<tables, isLoaded, stmt>>
  BY DEF Cache, Goto
<1>2. \A s \in Schemas, n \in Names :
        entries'[s][n] = IF s = s0 /\ n = n0 /\ entries[s][n] = Absent
                         THEN tables[s][n] ELSE entries[s][n]
  BY <1>0, <1>1 DEF CreateEntry, CacheInv, TypeOK
<1>3. /\ pc'[c] = "idle"
      /\ \A d \in Clients \ {c} : pc'[d] = pc[d] /\ pending'[d] = pending[d]
  BY <1>1 DEF CacheInv, TypeOK
<1>4. Growing' /\ Carries'
  BY <1>1, <1>3 DEF CacheInv, Growing, Carries, At
<1>5. Faithful'
  BY <1>1, <1>2 DEF CacheInv, Faithful
<1>6. \A d \in Clients, s \in Schemas, n \in Names :
        WillEnter(d, s, n) => WillEnter(d, s, n)' \/ entries'[s][n] # Absent
  <2> SUFFICES ASSUME NEW d \in Clients, NEW s \in Schemas, NEW n \in Names,
                      WillEnter(d, s, n), entries'[s][n] = Absent
               PROVE  WillEnter(d, s, n)'
    OBVIOUS
  <2>1. d # c
    BY <1>0, <1>2 DEF WillEnter
  <2> QED BY <1>1, <1>3, <2>1 DEF WillEnter
<1>7. Covered'
  BY <1>1, <1>2, <1>6 DEF CacheInv, Covered
<1> QED BY <1>4, <1>5, <1>7

LEMMA CacheInvStep ==
  ASSUME OnlyCreates, CacheInv, [Next]_vars
  PROVE  CacheInv'
<1>1. TypeOK'
  BY NextTyped DEF CacheInv
<1>2. Growing' /\ Faithful' /\ Carries' /\ Covered'
  <2>1. CASE UNCHANGED vars
    BY <2>1 DEF vars, CacheInv, Growing, Faithful, Carries, Covered, At, WillEnter
  <2>2. CASE Next
    <3>1. PICK c \in Clients : Client(c)
      BY <2>2 DEF Next, External, OnlyCreates
    <3>2. pc[c] \notin {"dropping", "erasing", "clearing"}
      BY DEF CacheInv, Growing
    <3>3. stmt[c] \in Statements /\ stmt[c].kind \in {"lookup", "create"}
          /\ stmt[c].conflict # "replace"
      BY StatementOf DEF CacheInv, OnlyCreates
    <3>4. CASE Begin(c)
      <4>1. PICK s \in Statements :
              /\ stmt' = [stmt EXCEPT ![c] = s]
              /\ Goto(c, IF s.kind = "create" /\ s.view /\ s.conflict = "error"
                         THEN "executing" ELSE "checking")
        BY <3>4 DEF Begin, OnlyCreates
      <4>2. /\ stmt' \in [Clients -> Statements] /\ stmt'[c] = s
            /\ \A d \in Clients \ {c} : stmt'[d] = stmt[d]
        BY <4>1 DEF CacheInv, TypeOK
      <4> QED BY <3>4, <4>1, <4>2, QuietStep DEF Begin, cacheVars
    <3>5. CASE Check(c)
      BY <3>5, QuietStep DEF Check, cacheVars, CacheInv, TypeOK
    <3>6. CASE Find(c)
      <4>1. \E where \in {"idle", "executing"} :
              Goto(c, where) /\ (where = "executing" => stmt[c].kind = "create")
        BY <3>3, <3>6 DEF Find
      <4>2. /\ UNCHANGED <<tables, entries, isLoaded, stmt, pending>>
            /\ stmt' \in [Clients -> Statements] /\ pc[c] = "finding"
        BY <3>6 DEF Find, cacheVars, CacheInv, TypeOK
      <4> QED BY <4>1, <4>2, QuietStep
    <3>7. CASE Mark(c)
      BY <3>7, MarkStep
    <3>8. CASE QueryEntries(c)
      BY <3>8, QueryStep
    <3>9. CASE InsertEntry(c)
      BY <3>9, InsertStep
    <3>10. CASE Execute(c)
      BY <3>10, ExecuteStep
    <3>11. CASE Refresh(c)
      BY <3>11, RefreshStep
    <3>12. CASE Cache(c)
      BY <3>12, CacheStep
    <3> QED BY <3>1, <3>2, <3>4, <3>5, <3>6, <3>7, <3>8, <3>9, <3>10, <3>11, <3>12
            DEF Client, DropExisting, Erase, Clear
  <2> QED BY <2>1, <2>2
<1> QED BY <1>1, <1>2 DEF CacheInv

LEMMA CacheInvCoherent == CacheInv => CacheCoherent
<1> SUFFICES ASSUME CacheInv, Quiet, NEW s \in Schemas
             PROVE  /\ \A n \in Names : entries[s][n] \in {Absent, tables[s][n]}
                    /\ isLoaded[s] => entries[s] = tables[s]
  BY DEF CacheCoherent
<1>1. \A n \in Names : entries[s][n] \in {Absent, tables[s][n]}
  BY DEF CacheInv, Faithful
<1>2. \A c \in Clients, n \in Names : ~WillEnter(c, s, n)
  BY DEF Quiet, WillEnter
<1>3. ASSUME isLoaded[s] PROVE entries[s] = tables[s]
  <2>1. \A n \in Names : entries[s][n] = tables[s][n]
    BY <1>1, <1>2, <1>3 DEF CacheInv, Covered
  <2>2. /\ entries[s] \in [Names -> Entry]
        /\ tables[s] \in [Names -> Known]
    BY DEF CacheInv, TypeOK, Contents, Entry, Known
  <2> QED BY <2>1, <2>2
<1> QED BY <1>1, <1>3
-----------------------------------------------------------------------------
(***************************************************************************)
(* Whatever clients do and whoever changes the schema, the sets hold       *)
(* definitions (mysql_catalog_set.cpp, mysql_table_set.cpp).               *)
(***************************************************************************)
THEOREM CacheTyped == Spec => []TypeOK
<1>1. Init => TypeOK
  BY InitTyped
<1>2. TypeOK /\ [Next]_vars => TypeOK'
  BY NextTyped
<1> QED BY <1>1, <1>2, PTL DEF Spec

(***************************************************************************)
(* Any number of clients may look up and create tables and views at once:  *)
(* although is_loaded is set before the entries are there and nothing      *)
(* orders a load with the CREATEs of others, the cache is the server's     *)
(* schema when they are done (GetEntry, LoadEntries and CreateEntry of     *)
(* mysql_catalog_set.cpp and mysql_table_set.cpp).                         *)
(***************************************************************************)
THEOREM CreatesKeepCacheCoherent ==
  ASSUME OnlyCreates
  PROVE  Spec => []CacheCoherent
<1>1. Init => CacheInv
  BY InitTyped, CacheInvInit DEF CacheInv
<1>2. CacheInv /\ [Next]_vars => CacheInv'
  BY CacheInvStep
<1>3. CacheInv => CacheCoherent
  BY CacheInvCoherent
<1> QED BY <1>1, <1>2, <1>3, PTL DEF Spec

-----------------------------------------------------------------------------
(* One client at a time.                                                   *)

(***************************************************************************)
(* What the statements must keep to.  They stay in the database of the     *)
(* session, which is where DROP, ALTER and CREATE VIEW go whatever schema  *)
(* they name, each name stands for one kind of object, and no load fails   *)
(* after is_loaded was set.                                                *)
(***************************************************************************)
OneAtATime ==
  /\ \E c \in Clients : Clients = {c}
  /\ "load" \notin Faults
  /\ \A st \in Statements :
       /\ st.schema = DefaultSchema
       /\ st.kind \in {"create", "drop"} => Objects[st.name] \subseteq Kind(st)
       /\ st.kind = "create" => st.definition \in Objects[st.name]
       /\ st.kind = "alter" /\ st.to = st.name => st.definition \in Objects[st.name]
       /\ st.kind = "alter" /\ st.to # st.name => Objects[st.name] \subseteq Objects[st.to]

Cached(n)   == entries[DefaultSchema][n]
OnServer(n) == tables[DefaultSchema][n]
Loaded      == isLoaded[DefaultSchema]

\* The sets of the other databases are never touched.
OnlyDefault ==
  \A s \in Schemas \ {DefaultSchema} : entries[s] = Nothing /\ ~isLoaded[s]

KindsKept ==
  \A s \in Schemas, n \in Names : tables[s][n] \in Objects[n] \cup {Absent}

\* The statements each step belongs to.
StepOf(c) ==
  /\ pc[c] = "dropping" => stmt[c].kind = "create"
  /\ pc[c] = "erasing" => stmt[c].kind \in {"create", "drop"}
  /\ pc[c] = "executing" => stmt[c].kind \in {"create", "drop", "alter"}
  /\ pc[c] \in {"refreshing", "caching"} => stmt[c].kind = "create"
  /\ pc[c] = "clearing" => stmt[c].kind \in {"alter", "clear"}

\* The name whose entry the statement of c is about to bring up to date.
Catching(c, n) ==
  pc[c] = "clearing" \/ (pc[c] \in {"erasing", "refreshing", "caching"} /\ n = stmt[c].name)

\* What is cached is what the server has, but for what c is about to erase.
Right(c) ==
  \A n \in Names :
    \/ Cached(n) \in {Absent, OnServer(n)}
    \/ pc[c] = "clearing"
    \/ pc[c] = "erasing" /\ n = stmt[c].name

\* A loaded set has all of it, when it is not being filled.
Complete(c) ==
  Loaded /\ pc[c] \notin {"querying", "inserting"} =>
    \A n \in Names : Cached(n) = OnServer(n) \/ Catching(c, n)

\* What c carries from one step to the next.
InHand(c) ==
  /\ pc[c] \in {"querying", "inserting", "finding", "dropping", "erasing"} => Loaded
  /\ pc[c] = "executing" /\ ~(stmt[c].kind = "create" /\ stmt[c].view) => Loaded
  /\ pc[c] = "inserting" =>
       \A n \in Names : /\ pending[c][n] \in {Absent, OnServer(n)}
                        /\ OnServer(n) \in {Cached(n), pending[c][n]}
  /\ pc[c] = "erasing" => OnServer(stmt[c].name) = Absent
  /\ pc[c] \in {"refreshing", "caching"} => OnServer(stmt[c].name) # Absent
  /\ pc[c] = "caching" =>
       OnServer(stmt[c].name) \in {Cached(stmt[c].name), pending[c][stmt[c].name]}
  /\ pc[c] # "idle" => At(tables, c) \in possible[c]

Local(c) == Right(c) /\ Complete(c) /\ InHand(c)

SerialInv ==
  /\ TypeOK /\ OnlyDefault /\ KindsKept
  /\ \A c \in Clients : StepOf(c)
  /\ ~outdated => \A c \in Clients : Local(c)

LEMMA SerialInit == Init => SerialInv
<1> SUFFICES ASSUME Init PROVE SerialInv
  OBVIOUS
<1>1. TypeOK
  BY InitTyped
<1>2. OnlyDefault /\ KindsKept
  BY DEF Init, OnlyDefault, KindsKept
<1>3. \A c \in Clients : StepOf(c)
  BY DEF Init, StepOf
<1>4. \A c \in Clients : Local(c)
  BY ConstantsAssumption DEF Init, Local, Right, Complete, InHand, Cached, OnServer, Loaded, Nothing
<1> QED BY <1>1, <1>2, <1>3, <1>4 DEF SerialInv

\* With one client, what holds for the one that steps holds for all.
LEMMA OneIsAll ==
  ASSUME OneAtATime, NEW c \in Clients, TypeOK', OnlyDefault', KindsKept',
         StepOf(c)', ~outdated' => Local(c)'
  PROVE  SerialInv'
<1>1. \A d \in Clients : d = c
  BY DEF OneAtATime
<1> QED BY <1>1 DEF SerialInv

\* The state a client of the one kind steps from.
Stepping(c) ==
  /\ OneAtATime /\ SerialInv /\ TypeOK'
  /\ stmt[c] \in Statements /\ stmt[c] \in StatementType
  /\ stmt[c].schema = DefaultSchema /\ DefaultSchema \in Schemas
  /\ stmt[c].name \in Names /\ stmt[c].to \in Names

LEMMA SteppingIt ==
  ASSUME OneAtATime, SerialInv, NEW c \in Clients, [Next]_vars
  PROVE  Stepping(c)
<1>1. TypeOK' /\ TypeOK
  BY NextTyped DEF SerialInv
<1>2. stmt[c] \in Statements /\ stmt[c] \in StatementType
      /\ stmt[c].name \in Names /\ stmt[c].to \in Names
  BY <1>1, StatementOf
<1>3. stmt[c].schema = DefaultSchema
  BY <1>2 DEF OneAtATime
<1> QED BY <1>1, <1>2, <1>3, ConstantsAssumption DEF Stepping

\* A step that moves the client along, in its statement or to a new one.
LEMMA MoveStep ==
  ASSUME NEW c \in Clients, Stepping(c), StepOf(c)',
         UNCHANGED <<tables, entries, isLoaded, outdated>>,
         ~outdated => Local(c)'
  PROVE  SerialInv'
<1>1. OnlyDefault' /\ KindsKept'
  BY DEF Stepping, SerialInv, OnlyDefault, KindsKept
<1> QED BY <1>1, OneIsAll DEF Stepping

LEMMA BeginSerial ==
  ASSUME NEW c \in Clients, Stepping(c), Begin(c)
  PROVE  SerialInv'
<1>1. PICK st \in Statements :
        /\ stmt' = [stmt EXCEPT ![c] = st]
        /\ possible' = [possible EXCEPT ![c] = {tables[st.schema][st.name]}]
        /\ Goto(c, IF st.kind = "clear" THEN "clearing"
                   ELSE IF st.kind = "create" /\ st.view /\ st.conflict = "error"
                        THEN "executing" ELSE "checking")
  BY DEF Begin
<1>2. /\ pc[c] = "idle" /\ UNCHANGED <<tables, entries, isLoaded, outdated>>
      /\ stmt'[c] = st /\ possible'[c] = {tables[st.schema][st.name]}
      /\ pc'[c] = IF st.kind = "clear" THEN "clearing"
                  ELSE IF st.kind = "create" /\ st.view /\ st.conflict = "error"
                       THEN "executing" ELSE "checking"
  BY <1>1 DEF Begin, cacheVars, Goto, Stepping, SerialInv, TypeOK
<1>3. StepOf(c)'
  BY <1>2 DEF StepOf
<1>4. ASSUME ~outdated PROVE Local(c)'
  <2>1. Local(c)
    BY <1>4 DEF Stepping, SerialInv
  <2>2. Right(c)'
    BY <1>2, <2>1 DEF Local, Right, Cached, OnServer
  <2>3. Complete(c)'
    BY <1>2, <2>1 DEF Local, Complete, Cached, OnServer, Loaded, Catching
  <2>4. InHand(c)'
    BY <1>2, <2>1 DEF InHand, At
  <2> QED BY <2>2, <2>3, <2>4 DEF Local
<1> QED BY <1>2, <1>3, <1>4, MoveStep

LEMMA CheckSerial ==
  ASSUME NEW c \in Clients, Stepping(c), Check(c)
  PROVE  SerialInv'
<1>1. /\ pc[c] = "checking" /\ UNCHANGED <<tables, entries, isLoaded, outdated, stmt, possible>>
      /\ pc'[c] = IF Loaded THEN "finding" ELSE "marking"
  BY DEF Check, cacheVars, Goto, Stepping, SerialInv, TypeOK, Loaded
<1>2. StepOf(c)'
  BY <1>1 DEF StepOf
<1>3. ASSUME ~outdated PROVE Local(c)'
  <2>1. Local(c)
    BY <1>3 DEF Stepping, SerialInv
  <2> QED BY <1>1, <2>1 DEF Local, Right, Complete, InHand, Cached, OnServer, Loaded, Catching, At
<1> QED BY <1>1, <1>2, <1>3, MoveStep

LEMMA MarkSerial ==
  ASSUME NEW c \in Clients, Stepping(c), Mark(c)
  PROVE  SerialInv'
<1>1. /\ pc[c] = "marking" /\ UNCHANGED <<tables, entries, outdated, stmt, possible>>
      /\ pc'[c] = "querying"
      /\ isLoaded' = [isLoaded EXCEPT ![DefaultSchema] = TRUE]
  BY DEF Mark, Goto, Stepping, SerialInv, TypeOK
<1>2. StepOf(c)'
  BY <1>1 DEF StepOf
<1>3. OnlyDefault' /\ KindsKept' /\ Loaded'
  BY <1>1 DEF Stepping, SerialInv, OnlyDefault, KindsKept, TypeOK, Loaded
<1>4. ASSUME ~outdated PROVE Local(c)'
  <2>1. Local(c)
    BY <1>4 DEF Stepping, SerialInv
  <2> QED BY <1>1, <1>3, <2>1 DEF Local, Right, Complete, InHand, Cached, OnServer, Catching, At
<1> QED BY <1>1, <1>2, <1>3, <1>4, OneIsAll DEF Stepping

LEMMA QuerySerial ==
  ASSUME NEW c \in Clients, Stepping(c), QueryEntries(c)
  PROVE  SerialInv'
<1>1. /\ pc[c] = "querying" /\ UNCHANGED <<tables, entries, isLoaded, outdated, stmt, possible>>
      /\ pc'[c] = "inserting" /\ pending'[c] = tables[DefaultSchema]
  BY DEF QueryEntries, cacheVars, Goto, Stepping, OneAtATime, SerialInv, TypeOK
<1>2. StepOf(c)'
  BY <1>1 DEF StepOf
<1>3. ASSUME ~outdated PROVE Local(c)'
  <2>1. Local(c)
    BY <1>3 DEF Stepping, SerialInv
  <2> QED BY <1>1, <2>1 DEF Local, Right, Complete, InHand, Cached, OnServer, Loaded, Catching, At
<1> QED BY <1>1, <1>2, <1>3, MoveStep

LEMMA FindSerial ==
  ASSUME NEW c \in Clients, Stepping(c), Find(c)
  PROVE  SerialInv'
<1>1. /\ pc[c] = "finding" /\ UNCHANGED <<tables, entries, isLoaded, outdated, stmt, possible>>
      /\ pc'[c] \in {"idle", "dropping", "executing"}
      /\ pc'[c] = "dropping" => stmt[c].kind = "create"
      /\ pc'[c] = "executing" => stmt[c].kind \in {"create", "drop", "alter"}
  BY DEF Find, cacheVars, Goto, Stepping, SerialInv, TypeOK
<1>2. StepOf(c)'
  BY <1>1 DEF StepOf
<1>3. ASSUME ~outdated PROVE Local(c)'
  <2>1. Local(c)
    BY <1>3 DEF Stepping, SerialInv
  <2> QED BY <1>1, <2>1 DEF Local, Right, Complete, InHand, Cached, OnServer, Loaded, Catching, At
<1> QED BY <1>1, <1>2, <1>3, MoveStep

LEMMA InsertSerial ==
  ASSUME NEW c \in Clients, Stepping(c), InsertEntry(c)
  PROVE  SerialInv'
<1>1. pc[c] = "inserting" /\ UNCHANGED <<tables, isLoaded, outdated, stmt, possible>>
  BY DEF InsertEntry
<1>2. CASE pending[c] = Nothing /\ Goto(c, "finding") /\ UNCHANGED <<entries, pending>>
  <2>1. pc'[c] = "finding"
    BY <1>2 DEF Goto, Stepping, SerialInv, TypeOK
  <2>2. StepOf(c)'
    BY <2>1 DEF StepOf
  <2>3. ASSUME ~outdated PROVE Local(c)'
    <3>1. Local(c)
      BY <2>3 DEF Stepping, SerialInv
    <3>2. \A n \in Names : Cached(n) = OnServer(n)
      BY <1>1, <1>2, <3>1 DEF Local, Right, InHand, Nothing
    <3> QED BY <1>1, <1>2, <2>1, <3>1, <3>2 DEF Local, Right, Complete, InHand, Cached, OnServer, Loaded, At
  <2> QED BY <1>1, <1>2, <2>2, <2>3, MoveStep
<1>3. ASSUME NEW n \in Names, pending[c][n] # Absent, CreateEntry(DefaultSchema, n, pending[c][n]),
             pending' = [pending EXCEPT ![c][n] = Absent], UNCHANGED pc
      PROVE  SerialInv'
  <2>1. /\ \A m \in Names : entries'[DefaultSchema][m] =
             IF m = n /\ Cached(n) = Absent THEN pending[c][n] ELSE Cached(m)
        /\ \A m \in Names : pending'[c][m] = IF m = n THEN Absent ELSE pending[c][m]
        /\ \A s \in Schemas \ {DefaultSchema} : entries'[s] = entries[s]
    BY <1>3 DEF CreateEntry, Cached, Stepping, SerialInv, TypeOK
  <2>2. OnlyDefault' /\ KindsKept' /\ StepOf(c)'
    BY <1>1, <1>3, <2>1 DEF Stepping, SerialInv, OnlyDefault, KindsKept, StepOf
  <2>3. ASSUME ~outdated PROVE Local(c)'
    <3>1. Local(c)
      BY <2>3 DEF Stepping, SerialInv
    <3>2. Right(c)'
      BY <1>1, <1>3, <2>1, <3>1 DEF Local, Right, InHand, Cached, OnServer
    <3>3. InHand(c)'
      BY <1>1, <1>3, <2>1, <3>1 DEF Local, Right, InHand, Cached, OnServer, Loaded, At
    <3> QED BY <1>1, <1>3, <3>2, <3>3 DEF Local, Complete
  <2> QED BY <1>1, <2>2, <2>3, OneIsAll DEF Stepping
<1> QED BY <1>2, <1>3 DEF InsertEntry, Stepping

\* A DROP that the server accepts leaves nothing of the name.
LEMMA DropSends ==
  ASSUME NEW c \in Clients, Stepping(c), pc[c] # "idle", stmt[c].kind \in {"create", "drop"},
         NEW ifExists, DropOnServer(stmt[c], ifExists)
  PROVE  /\ \A n \in Names : OnServer(n)' = IF n = stmt[c].name THEN Absent ELSE OnServer(n)
         /\ KindsKept'
         /\ Absent \in possible'[c]
<1>1. tables[DefaultSchema][stmt[c].name] \in Kind(stmt[c]) \cup {Absent}
  BY DEF Stepping, SerialInv, KindsKept, OneAtATime
<1>2. /\ tables' = [tables EXCEPT ![DefaultSchema][stmt[c].name] = Absent]
      /\ possible'[c] = possible[c] \cup {At(tables', c)}
  BY <1>1 DEF DropOnServer, SetTables, AfterDrop, At, Stepping
<1>3. \A n \in Names : OnServer(n)' = IF n = stmt[c].name THEN Absent ELSE OnServer(n)
  BY <1>2 DEF OnServer, Stepping, SerialInv, TypeOK, Contents
<1>4. KindsKept'
  BY <1>2 DEF KindsKept, Stepping, SerialInv, TypeOK, Contents
<1>5. At(tables', c) = Absent
  BY <1>3 DEF OnServer, At, Stepping
<1> QED BY <1>2, <1>3, <1>4, <1>5

\* After it the entry is all that is left to erase.
LEMMA DropSerial ==
  ASSUME NEW c \in Clients, Stepping(c), pc[c] \in {"dropping", "executing"},
         stmt[c].kind \in {"create", "drop"},
         pc[c] = "executing" => stmt[c].kind = "drop",
         NEW ifExists, DropOnServer(stmt[c], ifExists), Goto(c, "erasing"),
         UNCHANGED <<cacheVars, stmt, outdated>>
  PROVE  SerialInv'
<1>1. /\ pc'[c] = "erasing" /\ UNCHANGED <<entries, isLoaded, stmt, outdated>>
      /\ stmt[c].name \in Names /\ stmt[c].schema = DefaultSchema
  BY DEF Goto, Stepping, SerialInv, TypeOK, cacheVars
<1>2. /\ \A n \in Names : OnServer(n)' = IF n = stmt[c].name THEN Absent ELSE OnServer(n)
      /\ KindsKept' /\ Absent \in possible'[c]
  BY DropSends
<1>3. OnlyDefault' /\ StepOf(c)'
  BY <1>1 DEF Stepping, SerialInv, OnlyDefault, StepOf
<1>4. ASSUME ~outdated PROVE Local(c)'
  <2>1. Local(c) /\ Loaded
    BY <1>4 DEF Stepping, SerialInv, Local, InHand
  <2>2. Right(c)'
    BY <1>1, <1>2, <2>1 DEF Local, Right, Cached
  <2>3. Complete(c)'
    BY <1>1, <1>2, <2>1 DEF Local, Complete, Cached, Loaded, Catching
  <2>4. At(tables', c) = OnServer(stmt[c].name)'
    BY <1>1 DEF At, OnServer
  <2>5. InHand(c)'
    BY <1>1, <1>2, <2>1, <2>4 DEF InHand, Loaded, At
  <2> QED BY <2>2, <2>3, <2>5 DEF Local
<1> QED BY <1>1, <1>2, <1>3, <1>4, OneIsAll DEF Stepping

\* A command that fails ends the statement.
LEMMA RefusedSerial ==
  ASSUME NEW c \in Clients, Stepping(c), pc[c] \in {"dropping", "executing"},
         NEW accepted, Refused(c, accepted), UNCHANGED <<cacheVars, stmt, outdated>>
  PROVE  SerialInv'
<1>1. /\ pc'[c] = "idle"
      /\ UNCHANGED <<tables, entries, isLoaded, stmt, outdated>>
  BY DEF Refused, Goto, Stepping, SerialInv, TypeOK, cacheVars
<1>2. StepOf(c)'
  BY <1>1 DEF StepOf
<1>3. ASSUME ~outdated PROVE Local(c)'
  <2>1. Local(c)
    BY <1>3 DEF Stepping, SerialInv
  <2> QED BY <1>1, <2>1 DEF Local, Right, Complete, InHand, Cached, OnServer, Loaded, Catching, At
<1> QED BY <1>1, <1>2, <1>3, MoveStep

LEMMA DropExistingSerial ==
  ASSUME NEW c \in Clients, Stepping(c), DropExisting(c)
  PROVE  SerialInv'
<1>1. pc[c] = "dropping" /\ UNCHANGED <<cacheVars, stmt, outdated>>
  BY DEF DropExisting
<1>2. stmt[c].kind = "create"
  BY <1>1 DEF Stepping, SerialInv, StepOf
<1>3. CASE DropOnServer(stmt[c], TRUE) /\ Goto(c, "erasing")
  BY <1>1, <1>2, <1>3, DropSerial
<1>4. CASE Refused(c, DropAccepted(stmt[c], tables[DefaultSchema][stmt[c].name], TRUE))
  BY <1>1, <1>4, RefusedSerial
<1> QED BY <1>3, <1>4 DEF DropExisting

LEMMA EraseSerial ==
  ASSUME NEW c \in Clients, Stepping(c), Erase(c)
  PROVE  SerialInv'
<1>1. /\ pc[c] = "erasing" /\ UNCHANGED <<tables, isLoaded, stmt, possible, outdated>>
      /\ pc'[c] = IF stmt[c].kind = "drop" THEN "idle" ELSE "executing"
      /\ entries' = [entries EXCEPT ![DefaultSchema][stmt[c].name] = Absent]
  BY DEF Erase, EraseEntry, Goto, Stepping, SerialInv, TypeOK
<1>2. /\ \A n \in Names : Cached(n)' = IF n = stmt[c].name THEN Absent ELSE Cached(n)
      /\ \A s \in Schemas \ {DefaultSchema} : entries'[s] = entries[s]
  BY <1>1 DEF Cached, Stepping, SerialInv, TypeOK
<1>3. stmt[c].kind \in {"create", "drop"}
  BY <1>1 DEF Stepping, SerialInv, StepOf
<1>4. OnlyDefault' /\ KindsKept' /\ StepOf(c)'
  BY <1>1, <1>2, <1>3 DEF Stepping, SerialInv, OnlyDefault, KindsKept, StepOf
<1>5. ASSUME ~outdated PROVE Local(c)'
  <2>1. Local(c) /\ OnServer(stmt[c].name) = Absent /\ Loaded
    BY <1>1, <1>5 DEF Stepping, SerialInv, Local, InHand
  <2>2. Right(c)'
    BY <1>1, <1>2, <2>1 DEF Local, Right, OnServer
  <2>3. Complete(c)'
    BY <1>1, <1>2, <2>1 DEF Local, Complete, OnServer, Loaded, Catching
  <2>4. InHand(c)'
    BY <1>1, <2>1 DEF Local, InHand, Loaded, At
  <2> QED BY <2>2, <2>3, <2>4 DEF Local
<1> QED BY <1>1, <1>4, <1>5, OneIsAll DEF Stepping

\* A CREATE that the server accepts leaves an object of the name: the new
\* one where there was none.
LEMMA CreateSends ==
  ASSUME NEW c \in Clients, Stepping(c), pc[c] # "idle", stmt[c].kind = "create",
         CreateOnServer(stmt[c]), UNCHANGED stmt
  PROVE  /\ \A n \in Names : OnServer(n)' =
              IF n = stmt[c].name /\ OnServer(n) = Absent THEN stmt[c].definition ELSE OnServer(n)
         /\ KindsKept'
         /\ OnServer(stmt[c].name)' \in possible'[c]
<1>1. Target(stmt[c]) = DefaultSchema
  BY DEF Target, Stepping
<1>2. /\ tables' = [tables EXCEPT ![DefaultSchema][stmt[c].name] =
                      IF OnServer(stmt[c].name) = Absent THEN stmt[c].definition ELSE OnServer(stmt[c].name)]
      /\ possible'[c] = possible[c] \cup {At(tables', c)}
  BY <1>1 DEF CreateOnServer, SetTables, AfterCreate, OnServer
<1>3. \A n \in Names : OnServer(n)' =
        IF n = stmt[c].name /\ OnServer(n) = Absent THEN stmt[c].definition ELSE OnServer(n)
  BY <1>2 DEF OnServer, Stepping, SerialInv, TypeOK, Contents
<1>4. stmt[c].definition \in Objects[stmt[c].name]
  BY DEF Stepping, OneAtATime
<1>5. KindsKept'
  BY <1>2, <1>4 DEF KindsKept, OnServer, Stepping, SerialInv, TypeOK, Contents
<1>6. At(tables', c) = OnServer(stmt[c].name)'
  BY DEF OnServer, At, Stepping
<1> QED BY <1>2, <1>3, <1>5, <1>6

LEMMA CreateSerial ==
  ASSUME NEW c \in Clients, Stepping(c), pc[c] = "executing", stmt[c].kind = "create",
         CreateOnServer(stmt[c]),
         pending' = [pending EXCEPT ![c] = [Nothing EXCEPT ![stmt[c].name] = stmt[c].definition]],
         Goto(c, IF stmt[c].view THEN "refreshing" ELSE "caching"),
         UNCHANGED <<cacheVars, stmt, outdated>>
  PROVE  SerialInv'
<1>1. /\ pc'[c] = IF stmt[c].view THEN "refreshing" ELSE "caching"
      /\ pending'[c][stmt[c].name] = stmt[c].definition
      /\ UNCHANGED <<entries, isLoaded, stmt, outdated>>
      /\ stmt[c].name \in Names /\ stmt[c].schema = DefaultSchema
  BY DEF Goto, Stepping, SerialInv, TypeOK, cacheVars, Nothing
<1>2. /\ \A n \in Names : OnServer(n)' =
           IF n = stmt[c].name /\ OnServer(n) = Absent THEN stmt[c].definition ELSE OnServer(n)
      /\ KindsKept' /\ OnServer(stmt[c].name)' \in possible'[c]
  BY CreateSends
<1>3. OnlyDefault' /\ StepOf(c)'
  BY <1>1 DEF Stepping, SerialInv, OnlyDefault, StepOf
<1>4. stmt[c].definition # Absent
  BY ConstantsAssumption DEF Stepping
<1>5. ASSUME ~outdated PROVE Local(c)'
  <2>1. Local(c)
    BY <1>5 DEF Stepping, SerialInv
  <2>2. Right(c)'
    BY <1>1, <1>2, <2>1 DEF Local, Right, Cached
  <2>3. Complete(c)'
    BY <1>1, <1>2, <2>1 DEF Local, Complete, Cached, Loaded, Catching
  <2>4. ~stmt[c].view => Cached(stmt[c].name) = OnServer(stmt[c].name)
    BY <1>1, <2>1 DEF Local, Complete, InHand, Catching
  <2>5. At(tables', c) = OnServer(stmt[c].name)'
    BY <1>1 DEF At, OnServer
  <2>6. InHand(c)'
    BY <1>1, <1>2, <1>4, <2>4, <2>5 DEF InHand, Cached, At
  <2> QED BY <2>2, <2>3, <2>6 DEF Local
<1> QED BY <1>1, <1>2, <1>3, <1>5, OneIsAll DEF Stepping

\* ALTER leaves the names it does not speak of alone.
LEMMA AlterSends ==
  ASSUME NEW c \in Clients, Stepping(c), pc[c] # "idle", stmt[c].kind = "alter",
         AlterOnServer(stmt[c])
  PROVE  KindsKept' /\ At(tables', c) \in possible'[c]
<1>1. PICK new : SetTables(new)
  BY DEF AlterOnServer
<1>2. At(tables', c) \in possible'[c]
  BY <1>1 DEF SetTables
<1>3. CASE stmt[c].to = stmt[c].name
  <2>1. stmt[c].definition \in Objects[stmt[c].name]
    BY <1>3 DEF Stepping, OneAtATime
  <2>2. tables' = [tables EXCEPT ![DefaultSchema][stmt[c].name] = stmt[c].definition]
    BY <1>3 DEF AlterOnServer, SetTables
  <2>3. KindsKept'
    BY <2>1, <2>2 DEF KindsKept, Stepping, SerialInv, TypeOK, Contents
  <2> QED BY <1>2, <2>3
<1>4. CASE stmt[c].to # stmt[c].name
  <2>1. /\ tables' = [tables EXCEPT ![DefaultSchema][stmt[c].name] = Absent,
                                    ![DefaultSchema][stmt[c].to] = tables[DefaultSchema][stmt[c].name]]
        /\ tables[DefaultSchema][stmt[c].name] \in BaseTables
    BY <1>4 DEF AlterOnServer, SetTables
  <2>2. tables[DefaultSchema][stmt[c].name] \in Objects[stmt[c].to] \cup {Absent}
    BY <1>4 DEF Stepping, OneAtATime, SerialInv, KindsKept
  <2>3. KindsKept'
    BY <2>1, <2>2 DEF KindsKept, Stepping, SerialInv, TypeOK, Contents
  <2> QED BY <1>2, <2>3
<1> QED BY <1>3, <1>4

LEMMA AlterSerial ==
  ASSUME NEW c \in Clients, Stepping(c), pc[c] = "executing", stmt[c].kind = "alter",
         AlterOnServer(stmt[c]), Goto(c, "clearing"),
         UNCHANGED <<cacheVars, stmt, outdated>>
  PROVE  SerialInv'
<1>1. pc'[c] = "clearing" /\ UNCHANGED <<entries, isLoaded, stmt, outdated>>
  BY DEF Goto, Stepping, SerialInv, TypeOK, cacheVars
<1>2. KindsKept' /\ At(tables', c) \in possible'[c]
  BY AlterSends
<1>3. OnlyDefault' /\ StepOf(c)'
  BY <1>1 DEF Stepping, SerialInv, OnlyDefault, StepOf
<1>4. Local(c)'
  <2>1. Right(c)'
    BY <1>1 DEF Right
  <2>2. Complete(c)'
    BY <1>1 DEF Complete, Catching
  <2>3. InHand(c)'
    BY <1>1, <1>2 DEF InHand, At
  <2> QED BY <2>1, <2>2, <2>3 DEF Local
<1> QED BY <1>1, <1>2, <1>3, <1>4, OneIsAll DEF Stepping

LEMMA ExecuteSerial ==
  ASSUME NEW c \in Clients, Stepping(c), Execute(c)
  PROVE  SerialInv'
<1>1. pc[c] = "executing" /\ UNCHANGED <<cacheVars, stmt, outdated>>
  BY DEF Execute
<1>2. CASE /\ stmt[c].kind = "drop"
           /\ DropOnServer(stmt[c], stmt[c].conflict = "ignore")
           /\ Goto(c, "erasing")
  BY <1>1, <1>2, DropSerial
<1>3. CASE /\ stmt[c].kind = "create"
           /\ CreateOnServer(stmt[c])
           /\ pending' = [pending EXCEPT ![c] = [Nothing EXCEPT ![stmt[c].name] = stmt[c].definition]]
           /\ Goto(c, IF stmt[c].view THEN "refreshing" ELSE "caching")
  BY <1>1, <1>3, CreateSerial
<1>4. CASE stmt[c].kind = "alter" /\ AlterOnServer(stmt[c]) /\ Goto(c, "clearing")
  BY <1>1, <1>4, AlterSerial
<1>5. ASSUME NEW accepted, Refused(c, accepted)
      PROVE  SerialInv'
  BY <1>1, <1>5, RefusedSerial
<1> QED BY <1>2, <1>3, <1>4, <1>5 DEF Execute

LEMMA RefreshSerial ==
  ASSUME NEW c \in Clients, Stepping(c), Refresh(c)
  PROVE  SerialInv'
<1>1. /\ pc[c] = "refreshing"
      /\ UNCHANGED <<tables, entries, isLoaded, outdated, stmt, possible>>
      /\ pc'[c] = "caching"
      /\ pending'[c][stmt[c].name] = IF At(tables, c) = Absent THEN NoColumns ELSE At(tables, c)
  BY DEF Refresh, cacheVars, Goto, Stepping, OneAtATime, SerialInv, TypeOK
<1>2. StepOf(c)'
  BY <1>1 DEF StepOf, Stepping, SerialInv
<1>3. ASSUME ~outdated PROVE Local(c)'
  <2>1. Local(c)
    BY <1>3 DEF Stepping, SerialInv
  <2>2. At(tables, c) = OnServer(stmt[c].name)
    BY DEF At, OnServer, Stepping
  <2>3. Right(c)' /\ Complete(c)'
    BY <1>1, <2>1 DEF Local, Right, Complete, Cached, OnServer, Loaded, Catching
  <2>4. InHand(c)'
    BY <1>1, <2>1, <2>2 DEF Local, InHand, OnServer, At
  <2> QED BY <2>3, <2>4 DEF Local
<1> QED BY <1>1, <1>2, <1>3, MoveStep

LEMMA CacheSerial ==
  ASSUME NEW c \in Clients, Stepping(c), Cache(c)
  PROVE  SerialInv'
<1>1. /\ pc[c] = "caching" /\ UNCHANGED <<tables, isLoaded, stmt, possible, outdated>>
      /\ pc'[c] = "idle"
      /\ entries' = [entries EXCEPT ![DefaultSchema][stmt[c].name] =
                       IF @ = Absent THEN pending[c][stmt[c].name] ELSE @]
  BY DEF Cache, CreateEntry, Goto, Stepping, SerialInv, TypeOK
<1>2. /\ \A n \in Names : Cached(n)' =
           IF n = stmt[c].name /\ Cached(n) = Absent THEN pending[c][n] ELSE Cached(n)
      /\ \A s \in Schemas \ {DefaultSchema} : entries'[s] = entries[s]
  BY <1>1 DEF Cached, Stepping, SerialInv, TypeOK
<1>3. OnlyDefault' /\ KindsKept' /\ StepOf(c)'
  BY <1>1, <1>2 DEF Stepping, SerialInv, OnlyDefault, KindsKept, StepOf
<1>4. ASSUME ~outdated PROVE Local(c)'
  <2>1. Local(c)
    BY <1>4 DEF Stepping, SerialInv
  <2>2. /\ OnServer(stmt[c].name) # Absent
        /\ OnServer(stmt[c].name) \in {Cached(stmt[c].name), pending[c][stmt[c].name]}
    BY <1>1, <2>1 DEF Local, InHand
  <2>3. Right(c)
    BY <2>1 DEF Local
  <2>4. Cached(stmt[c].name)' = OnServer(stmt[c].name)
    BY <1>1, <1>2, <2>2, <2>3 DEF Right, Stepping
  <2>5. Right(c)'
    BY <1>1, <1>2, <2>3, <2>4 DEF Right, OnServer
  <2>6. Complete(c)'
    BY <1>1, <1>2, <2>1, <2>4 DEF Local, Complete, OnServer, Loaded, Catching
  <2>7. InHand(c)'
    BY <1>1 DEF InHand
  <2> QED BY <2>5, <2>6, <2>7 DEF Local
<1> QED BY <1>1, <1>3, <1>4, OneIsAll DEF Stepping

LEMMA ClearSerial ==
  ASSUME NEW c \in Clients, Stepping(c), Clear(c)
  PROVE  SerialInv'
<1>1. /\ pc'[c] = "idle" /\ UNCHANGED <<tables, stmt>>
      /\ entries'[DefaultSchema] = Nothing /\ ~isLoaded'[DefaultSchema]
      /\ \A s \in Schemas \ {DefaultSchema} :
           /\ entries'[s] \in {Nothing, entries[s]}
           /\ isLoaded'[s] => isLoaded[s]
  BY DEF Clear, Goto, Stepping, SerialInv, TypeOK
<1>2. OnlyDefault' /\ KindsKept' /\ StepOf(c)'
  BY <1>1 DEF Stepping, SerialInv, OnlyDefault, KindsKept, StepOf
<1>3. Local(c)'
  BY <1>1 DEF Local, Right, Complete, InHand, Cached, Loaded, Nothing
<1> QED BY <1>2, <1>3, OneIsAll DEF Stepping

\* From then on the cache may lag behind, until it is cleared.
LEMMA ExternalSerial ==
  ASSUME OneAtATime, SerialInv, TypeOK', External
  PROVE  SerialInv'
<1>1. outdated' /\ UNCHANGED <<entries, isLoaded, pc, stmt>>
  BY DEF External, cacheVars
<1>2. PICK s \in Schemas, n \in Names : \E d \in Objects[n] \cup {Absent} :
        tables' = [tables EXCEPT ![s][n] = d]
  BY DEF External, SetTables
<1>3. KindsKept'
  BY <1>2 DEF SerialInv, KindsKept, TypeOK, Contents
<1>4. OnlyDefault' /\ \A c \in Clients : StepOf(c)'
  BY <1>1 DEF SerialInv, OnlyDefault, StepOf
<1> QED BY <1>1, <1>3, <1>4 DEF SerialInv

LEMMA SerialStep ==
  ASSUME OneAtATime, SerialInv, [Next]_vars
  PROVE  SerialInv'
<1>1. TypeOK'
  BY NextTyped DEF SerialInv
<1>2. CASE External
  BY <1>1, <1>2, ExternalSerial
<1>3. ASSUME NEW c \in Clients, Client(c)
      PROVE  SerialInv'
  <2>1. Stepping(c)
    BY SteppingIt
  <2>2. CASE Begin(c)        BY <2>1, <2>2, BeginSerial
  <2>3. CASE Check(c)        BY <2>1, <2>3, CheckSerial
  <2>4. CASE Mark(c)         BY <2>1, <2>4, MarkSerial
  <2>5. CASE QueryEntries(c) BY <2>1, <2>5, QuerySerial
  <2>6. CASE InsertEntry(c)  BY <2>1, <2>6, InsertSerial
  <2>7. CASE Find(c)         BY <2>1, <2>7, FindSerial
  <2>8. CASE DropExisting(c) BY <2>1, <2>8, DropExistingSerial
  <2>9. CASE Erase(c)        BY <2>1, <2>9, EraseSerial
  <2>10. CASE Execute(c)     BY <2>1, <2>10, ExecuteSerial
  <2>11. CASE Refresh(c)     BY <2>1, <2>11, RefreshSerial
  <2>12. CASE Cache(c)       BY <2>1, <2>12, CacheSerial
  <2>13. CASE Clear(c)       BY <2>1, <2>13, ClearSerial
  <2> QED
    BY <1>3, <2>2, <2>3, <2>4, <2>5, <2>6, <2>7, <2>8, <2>9, <2>10, <2>11, <2>12, <2>13 DEF Client
<1>4. CASE UNCHANGED vars
  BY <1>4 DEF vars, cacheVars, SerialInv, TypeOK, OnlyDefault, KindsKept, StepOf, Local, Right,
              Complete, InHand, Cached, OnServer, Loaded, Catching, At
<1> QED BY <1>2, <1>3, <1>4 DEF Next

LEMMA SerialAlways == ASSUME OneAtATime PROVE Spec => []SerialInv
<1>1. Init => SerialInv
  BY SerialInit
<1>2. OneAtATime /\ SerialInv /\ [Next]_vars => SerialInv'
  BY SerialStep
<1> QED BY <1>1, <1>2, PTL DEF Spec
-----------------------------------------------------------------------------
(***************************************************************************)
(* Between the statements of the one client, what is cached is what the    *)
(* server has and a loaded set has all of it, until the schema is changed  *)
(* elsewhere (README.md, "Schema Cache"); every statement is allowed for.  *)
(***************************************************************************)
THEOREM OneClientKeepsCacheCoherent == ASSUME OneAtATime PROVE Spec => []CacheCoherent
<1>1. OneAtATime /\ SerialInv => CacheCoherent
  <2> SUFFICES ASSUME OneAtATime, SerialInv, Quiet, ~outdated, NEW s \in Schemas
               PROVE  /\ \A n \in Names : entries[s][n] \in {Absent, tables[s][n]}
                      /\ isLoaded[s] => entries[s] = tables[s]
    BY DEF CacheCoherent
  <2>1. CASE s # DefaultSchema
    BY <2>1 DEF SerialInv, OnlyDefault, Nothing
  <2>2. CASE s = DefaultSchema
    <3>1. PICK c \in Clients : Local(c) /\ pc[c] = "idle"
      BY DEF SerialInv, Quiet, OneAtATime
    <3>2. \A n \in Names : Cached(n) \in {Absent, OnServer(n)}
      BY <3>1 DEF Local, Right
    <3>3. Loaded => \A n \in Names : Cached(n) = OnServer(n)
      BY <3>1 DEF Local, Complete, Catching
    <3>4. /\ entries[DefaultSchema] = [n \in Names |-> Cached(n)]
          /\ tables[DefaultSchema] = [n \in Names |-> OnServer(n)]
      BY ConstantsAssumption DEF SerialInv, TypeOK, Contents, Cached, OnServer
    <3>5. Loaded => entries[DefaultSchema] = tables[DefaultSchema]
      BY <3>3, <3>4
    <3> QED BY <2>2, <3>2, <3>5 DEF Cached, OnServer, Loaded
  <2> QED BY <2>1, <2>2
<1>2. Spec => []SerialInv
  BY SerialAlways
<1> QED BY <1>1, <1>2, PTL

(***************************************************************************)
(* The lookup of the one client finds what its name stands for on the      *)
(* server: it never misses a table that exists and never finds one that    *)
(* is gone (mysql_catalog_set.cpp, GetEntry).                              *)
(***************************************************************************)
THEOREM OneClientFindsRecent == ASSUME OneAtATime PROVE Spec => []LookupsAreRecent
<1>1. OneAtATime /\ SerialInv => LookupsAreRecent
  <2> SUFFICES ASSUME OneAtATime, SerialInv, NEW c \in Clients, pc[c] = "finding", ~outdated
               PROVE  At(entries, c) \in possible[c]
    BY DEF LookupsAreRecent
  <2>1. Local(c) /\ stmt[c].schema = DefaultSchema /\ stmt[c].name \in Names
    BY StatementOf DEF SerialInv, OneAtATime
  <2>2. Cached(stmt[c].name) = OnServer(stmt[c].name)
    BY <2>1 DEF Local, Complete, InHand, Catching
  <2> QED BY <2>1, <2>2 DEF Local, InHand, Cached, OnServer, At
<1>2. Spec => []SerialInv
  BY SerialAlways
<1> QED BY <1>1, <1>2, PTL

(***************************************************************************)
(* The one client erases an entry only after the table or view is gone     *)
(* from the server (README.md, "DROP TABLE").                              *)
(***************************************************************************)
THEOREM OneClientErasesGone == ASSUME OneAtATime PROVE Spec => []ErasedIsGone
<1>1. OneAtATime /\ SerialInv => ErasedIsGone
  <2> SUFFICES ASSUME OneAtATime, SerialInv, NEW c \in Clients, pc[c] = "erasing", ~outdated
               PROVE  At(tables, c) = Absent
    BY DEF ErasedIsGone
  <2>1. Local(c) /\ stmt[c].schema = DefaultSchema
    BY StatementOf DEF SerialInv, OneAtATime
  <2> QED BY <2>1 DEF Local, InHand, OnServer, At
<1>2. Spec => []SerialInv
  BY SerialAlways
<1> QED BY <1>1, <1>2, PTL
=============================================================================
