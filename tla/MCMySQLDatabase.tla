--------------------------- MODULE MCMySQLDatabase ---------------------------
(***************************************************************************)
(* The constants of run "catalog": paths in every form, with values that   *)
(* hold the characters the forms give a meaning to, and one column of      *)
(* every kind the types tell apart.                                        *)
(***************************************************************************)
EXTENDS MySQLDatabase

\* Passwords: quotes and backslashes, an escape that is none, delimiters.
Values ==
  {<<"\\", "\"", "=">>, <<" ", "%", "2", "5">>, <<"?">>, <<":", "@">>}

UriEscapes ==
  [c \in {"%", "@", ":", "?", "=", " "} |->
     CASE c = "%" -> <<"%", "2", "5">> [] c = "@" -> <<"%", "4", "0">>
       [] c = ":" -> <<"%", "3", "A">> [] c = "?" -> <<"%", "3", "F">>
       [] c = "=" -> <<"%", "3", "D">> [] c = " " -> <<"%", "2", "0">>]

Backslashes == [c \in {"\\", "\""} |-> <<"\\", c>>]

Encode(value, escapes) ==
  FlattenSeq([i \in DOMAIN value |->
    IF value[i] \in DOMAIN escapes THEN escapes[value[i]] ELSE <<value[i]>>])

\* A value as a URI, and between quotes, is to have it.
InUri(value)  == Encode(value, UriEscapes)
Quoted(value) == <<"\"">> \o Encode(value, Backslashes) \o <<"\"">>

DSN(given, text) == [given |-> given, uri |-> FALSE, text |-> text]
URI(given, text) == [given |-> given, uri |-> TRUE, text |-> text]

MCPaths ==
  {DSN("host" :> <<"h1">> @@ "password" :> v,
       <<" ", "host", "=", "h1", " ", "passwd", "=">> \o Quoted(v)) :
     v \in Values}
  \cup
  {URI("user" :> <<"u">> @@ "password" :> v @@ "host" :> <<"h1">> @@ "port" :> <<"3306">>
         @@ "database" :> <<"mysqlscanner">> @@ "socket" :> v,
       <<"mysql://", "u", ":">> \o InUri(v)
         \o <<"@", "h1", ":", "3306", "/", "mysqlscanner", "?", "socket", "=">> \o InUri(v)) :
     v \in Values}
  \cup
  {DSN(NoOptions, <<" ">>),
   DSN("host" :> <<"localhost">> @@ "database" :> <<"mysqlscanner">>,
       <<"db", "=", "mysqlscanner", " ", "host", "=", " ", "localhost", " ">>),
   DSN("port" :> <<"65354">>, <<"port", "=", "65354">>),
   URI("user" :> <<"u">> @@ "host" :> <<>> @@ "database" :> <<"other">>,
       <<"u", "@", "/", "other">>),
   URI(NoOptions, <<"mysql://">>),
   URI("host" :> <<"h1">> @@ "ssl_ca" :> <<"a">>,
       <<"h1", "?", "ssl-ca", "=", "a", "&", "ssl-ca", "=", "b">>)}
  \cup
  {DSN(Malformed, text) : text \in
     {<<"host", "=">>, <<"host", "=", "\"">>, <<"host", "=", "\"", "\\", "a", "\"">>,
      <<"unknown", "=", "a">>, <<"host", "=", "a", " ", "host", "=", "a">>,
      <<"ssl_mode", "=", "a">>}}
  \cup
  {URI(Malformed, text) : text \in
     {<<"mysql://", "a", "=", "b">>, <<"h1", "?", "socket">>,
      <<"mysql://", "u", "/", "p", "@", "h1">>}}

MCSecretContents ==
  {"user" :> <<"v">> @@ "password" :> <<"\"", " ", "\\", "\\">> @@ "host" :> <<"h2">>,
   "database" :> <<"mysqlscanner">> @@ "port" :> <<"65354">>,
   "port" :> <<"3306">>}

MCSecretPlaces ==
  {<<"__default_mysql", "memory">>, <<"s", "memory">>, <<"s", "local_file">>}

MCEnvironmentValues ==
  "password" :> {<<"e">>} @@ "database" :> {<<"mysqlscanner">>} @@ "port" :> {<<"65353">>, <<"65535">>}

MCDuckTypes ==
  {Type("BOOLEAN"), Type("UTINYINT"), Type("TIMESTAMP"), Type("HUGEINT"),
   Type("BLOB"), Type("LIST"), Decimal(18, 3)}

MCConstraints ==
  {{}, {"NOT NULL"}, {"UNIQUE"}, {"PRIMARY KEY"}, {"NOT NULL", "PRIMARY KEY"}}

MCServerColumns ==
  {Plain("tinyint"), Column("tinyint", 1, FALSE), Unsigned("tinyint"),
   Unsigned("bigint"), Plain("mediumint"), Column("bit", 1, FALSE),
   Column("bit", 8, FALSE), DecimalColumn(10, 0), DecimalColumn(18, 3),
   DecimalColumn(40, 2), Plain("datetime"), Plain("timestamp"), Plain("blob"),
   Plain("json"), Plain("time"), Plain("enum")}

MCLaterColumns == {Column("bit", 1, FALSE)}
==============================================================================
