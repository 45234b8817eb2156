---------------------------- MODULE MySQLDatabase ----------------------------
(***************************************************************************)
(* An attached database from ATTACH on: MySQLAttach until a connection is  *)
(* open, MySQLCatalog from there.  Of what ATTACH computed the statements  *)
(* use two things only, the default schema of the catalog and the database *)
(* of their connection; the rest is forgotten when the first of them runs. *)
(***************************************************************************)
EXTENDS MySQLAttach, MySQLCatalog

VARIABLE phase  \* "attaching", or "open" once statements run

vars == <<attachVars, catalogVars, phase>>

TypeOK ==
  /\ AttachTypeOK
  /\ CatalogTypeOK
  /\ phase \in {"attaching", "open"}

Init == AttachInit /\ CatalogInit /\ phase = "attaching"

\* The name of a schema as the text of an option.
SchemaName(text) == IF text = <<>> THEN NoSchema ELSE text[1]

(***************************************************************************)
(* A transaction has opened a connection, to a database the server has.    *)
(***************************************************************************)
FirstStatement ==
  /\ phase = "attaching" /\ session # NoSession
  /\ phase' = "open"
  /\ default_schema' = SchemaName(catalog.default_schema)
  /\ database' = SchemaName(Chosen(session.params, "database"))
  /\ \E contents \in Contents :
       /\ database' \in DOMAIN contents.schemas \cup {NoSchema}
       /\ server' = contents
  /\ secrets' = [place \in SecretPlaces |-> NoSecret]
  /\ env' = NoOptions
  /\ externalAccess' = TRUE
  /\ catalog' = NotAttached /\ connecting' = Idle
  /\ session' = NoSession /\ outcome' = NoOutcome
  /\ moved' = FALSE
  /\ UNCHANGED <<cache, settings, changes, outdated>>

Next ==
  \/ /\ phase = "attaching" /\ AttachNext
     /\ UNCHANGED <<catalogVars, phase>>
  \/ FirstStatement
  \/ /\ phase = "open" /\ CatalogNext
     /\ UNCHANGED <<attachVars, phase>>

Spec == Init /\ [][Next]_vars
=============================================================================
