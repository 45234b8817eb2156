------------------------- MODULE MySQLConnectionString -------------------------
(***************************************************************************)
(* The connection string of an attached database: how it is written from   *)
(* the path of ATTACH and a secret (storage/mysql_catalog.cpp), and how    *)
(* every connection reads it (mysql_utils.cpp).                            *)
(*                                                                         *)
(* A text is a sequence of characters.  A word that is only ever compared  *)
(* as a whole (the name of an option, a number, a scheme) is one of them.  *)
(* Option names are taken to be in lower case already.                     *)
(***************************************************************************)
EXTENDS Naturals, Sequences, SequencesExt

Space     == " "
Quote     == "\""
Backslash == "\\"

\* Instead of the options of a string that cannot be read, and of a text.
Error == [error |-> TRUE]
Invalid == <<"invalid text">>

\* The option each accepted key sets.
OptionOf ==
  [host |-> "host", user |-> "user", passwd |-> "password", password |-> "password",
   db |-> "database", database |-> "database", port |-> "port",
   socket |-> "socket", unix_socket |-> "socket",
   compress |-> "compress", compression |-> "compress",
   ssl_mode |-> "ssl_mode", ssl_ca |-> "ssl_ca", ssl_capath |-> "ssl_capath",
   ssl_cert |-> "ssl_cert", ssl_cipher |-> "ssl_cipher", ssl_crl |-> "ssl_crl",
   ssl_crlpath |-> "ssl_crlpath", ssl_key |-> "ssl_key"]

Options == {OptionOf[key] : key \in DOMAIN OptionOf}

\* The options that are read from the environment when they are not set.
EnvironmentOptions ==
  {"host", "password", "user", "database", "socket", "port", "compress"}

\* The options a secret has, in the order GetConnectionString adds them.
SecretOptions ==
  <<"user", "password", "host", "port", "database", "socket", "ssl_mode", "ssl_ca",
    "ssl_capath", "ssl_cert", "ssl_cipher", "ssl_crl", "ssl_crlpath", "ssl_key">>
-----------------------------------------------------------------------------
\* Mutant of EscapeConnectionString: a backslash is not escaped.
EscapeQuotesOnly(input) ==
  <<Quote>> \o FlattenSeq([i \in DOMAIN input |->
     IF input[i] = Quote THEN <<Backslash, Quote>> ELSE <<input[i]>>]) \o <<Quote>>

EscapeConnectionString(input) ==
  <<Quote>> \o FlattenSeq([i \in DOMAIN input |->
     IF input[i] \in {Quote, Backslash} THEN <<Backslash, input[i]>> ELSE <<input[i]>>])
  \o <<Quote>>

\* The first position from "pos" on whose character is in "stops".
FirstOf(dsn, pos, stops) ==
  LET found == {i \in pos..Len(dsn) : dsn[i] \in stops}
  IN IF found = {} THEN Len(dsn) + 1 ELSE CHOOSE i \in found : \A j \in found : i <= j

\* What is read of a value, with a character before it.
Before(character, rest) ==
  IF rest = Error THEN Error ELSE [rest EXCEPT !.value = <<character>> \o @]

\* The rest of a quoted value, from "start" on.
ReadQuoted(dsn, start) ==
  LET rest[pos \in start..(Len(dsn) + 1)] ==
        IF pos > Len(dsn) THEN Error
        ELSE IF dsn[pos] = Quote THEN [found |-> TRUE, value |-> <<>>, pos |-> pos + 1]
        ELSE IF dsn[pos] # Backslash THEN Before(dsn[pos], rest[pos + 1])
        ELSE IF pos = Len(dsn) \/ dsn[pos + 1] \notin {Quote, Backslash} THEN Error
        ELSE Before(dsn[pos + 1], rest[pos + 2])
  IN rest[start]

\* A value that starts at "start": quoted, or up to a space or an equality sign.
ValueFrom(dsn, start) ==
  IF start > Len(dsn) THEN [found |-> FALSE, value |-> <<>>, pos |-> start]
  ELSE IF dsn[start] = Quote THEN ReadQuoted(dsn, start + 1)
  ELSE LET stop == FirstOf(dsn, start, {"=", Space})
       IN [found |-> TRUE, value |-> SubSeq(dsn, start, stop - 1), pos |-> stop]

\* The next key or value, if there is one, with the position after it.
ParseValue(dsn, pos) == ValueFrom(dsn, FirstOf(dsn, pos, Range(dsn) \ {Space}))

(***************************************************************************)
(* The words that are numbers.  The bound of the code is 65353.            *)
(***************************************************************************)
Number == [n \in {"0", "3306", "65353", "65354", "65535"} |->
             CASE n = "0" -> 0 [] n = "3306" -> 3306 [] n = "65353" -> 65353
               [] n = "65354" -> 65354 [] n = "65535" -> 65535]

PORT_MAX == 65353

ValidPort(value) ==
  Len(value) = 1 /\ value[1] \in DOMAIN Number /\ Number[value[1]] <= PORT_MAX

\* Is the value accepted for the key?
ValidValue(key, value) ==
  CASE key = "port" -> ValidPort(value)
    [] key = "compression" -> value \in {<<"required">>, <<"disabled">>, <<"preferred">>}
    [] key = "ssl_mode" -> value \in {<<"disabled">>, <<"required">>, <<"verify_ca">>,
                                      <<"verify_identity">>, <<"preferred">>}
    [] OTHER -> TRUE

\* The pairs of a key and a value in a connection string; what is none, and
\* ends the reading, is Error.
ParseAfterValue(key, value, rest) ==
  IF value = Error \/ ~value.found THEN <<Error>>
  ELSE <<[key |-> key, value |-> value.value]>> \o rest[value.pos]

ParseAfterKey(dsn, key, rest) ==
  IF key = Error THEN <<Error>>
  ELSE IF ~key.found THEN <<>>
  ELSE IF key.pos > Len(dsn) \/ dsn[key.pos] # "=" THEN <<Error>>
  ELSE ParseAfterValue(key.value, ParseValue(dsn, key.pos + 1), rest)

ParsePairs(dsn) ==
  LET from[pos \in 1..(Len(dsn) + 1)] ==
        IF pos > Len(dsn) THEN <<>> ELSE ParseAfterKey(dsn, ParseValue(dsn, pos), from)
  IN from[1]

(***************************************************************************)
(* The options after one more pair.  A key is refused when an option of    *)
(* its own name is already set: of a key and its alias the one that is the *)
(* option's name must not come second.  The compression "preferred" leaves *)
(* what an earlier "compress" has chosen.                                  *)
(***************************************************************************)
SetOption(set, pair) ==
  LET name == pair.key[1]
      read == OptionOf[name] :> pair.value
      kept == name = "compression" /\ pair.value = <<"preferred">>
  IN IF set = Error \/ pair = Error THEN Error
     ELSE IF Len(pair.key) # 1 \/ name \notin DOMAIN OptionOf \ DOMAIN set THEN Error
     ELSE IF ~ValidValue(name, pair.value) THEN Error
     ELSE IF kept THEN set @@ read ELSE read @@ set

NoOptions == [option \in {} |-> <<>>]

ParseOptions(dsn) == FoldLeft(SetOption, NoOptions, ParsePairs(dsn))

WithEnvironment(set, env) ==
  IF set = Error THEN Error
  ELSE IF "port" \in DOMAIN env \ DOMAIN set /\ ~ValidPort(env["port"]) THEN Error
  ELSE set @@ env

\* What a connection is opened with; options without a value are not in it.
ParseConnectionParameters(dsn, env) == WithEnvironment(ParseOptions(dsn), env)
-----------------------------------------------------------------------------
(***************************************************************************)
(* Percent escapes, by their two digits.  The entry of a colon is a        *)
(* semicolon.                                                              *)
(***************************************************************************)
UrlEscapes ==
  (<<"2", "0">> :> Space) @@ (<<"2", "2">> :> "\"") @@ (<<"2", "5">> :> "%")
  @@ (<<"5", "C">> :> Backslash) @@ (<<"2", "F">> :> "/") @@ (<<"3", "F">> :> "?")
  @@ (<<"3", "A">> :> ";") @@ (<<"4", "0">> :> "@") @@ (<<"3", "D">> :> "=")
  @@ (<<"2", "6">> :> "&")

UnescapePercentage(input) ==
  LET escape(i) == <<input[i + 1], input[i + 2]>>
      from[i \in 1..(Len(input) + 1)] ==
        IF i > Len(input) THEN <<>>
        ELSE IF i + 2 <= Len(input) /\ input[i] = "%" /\ escape(i) \in DOMAIN UrlEscapes
        THEN <<UrlEscapes[escape(i)]>> \o from[i + 3]
        ELSE <<input[i]>> \o from[i + 1]
  IN from[1]

Delimiters == {":", "@", "/", "?", "=", "&"}
End == "end"

OpenToken == [value |-> <<>>, delimiter |-> End]

ParseURITokens(text) ==
  LET marks  == {i \in DOMAIN text : text[i] \in Delimiters}
      count  == Cardinality(marks) + 1
      ends   == SetToSortSeq(marks, <) \o <<Len(text) + 1>>
      start(k) == IF k = 1 THEN 1 ELSE ends[k - 1] + 1
  IN [k \in 1..count |->
        [value |-> UnescapePercentage(SubSeq(text, start(k), ends[k] - 1)),
         delimiter |-> IF k < count THEN text[ends[k]] ELSE End]]

(***************************************************************************)
(* The names of the first "count" tokens:                                  *)
(*   [user[:[password]]@]host[:port][/schema]                              *)
(***************************************************************************)
GetAttributeNames(tokens, count) ==
  LET delimiter(i) == tokens[i].delimiter
      login == IF count = 1 THEN <<>>
               ELSE IF delimiter(1) = "@" THEN <<"user">>
               ELSE IF delimiter(2) = "@" THEN <<"user", "passwd">>
               ELSE <<>>
      host  == Len(login) + 1
      port  == count > host /\ delimiter(host) = ":"
      last  == host + (IF port THEN 1 ELSE 0)
      names == login \o <<"host">> \o (IF port THEN <<"port">> ELSE <<>>)
  IN IF Len(login) = 2 /\ delimiter(1) # ":" THEN Invalid
     ELSE IF count = last THEN names
     ELSE IF count = last + 1 /\ delimiter(last) = "/" THEN Append(names, "db")
     ELSE Invalid

UriAttributes ==
  [x \in {"socket", "compression"} |-> x] @@
  ("ssl-mode" :> "ssl_mode") @@ ("ssl-ca" :> "ssl_ca") @@ ("ssl-capath" :> "ssl_capath") @@
  ("ssl-cert" :> "ssl_cert") @@ ("ssl-cipher" :> "ssl_cipher") @@ ("ssl-crl" :> "ssl_crl") @@
  ("ssl-crlpath" :> "ssl_crlpath") @@ ("ssl-key" :> "ssl_key")

\* ParseAttributes throws unless the tokens are known names and values in turn.
AttributesAreValid(tokens, first) ==
  LET names == {i \in first..Len(tokens) : (i - first) % 2 = 0}
  IN \A i \in names :
       /\ i < Len(tokens)
       /\ tokens[i].delimiter = "=" /\ tokens[i + 1].delimiter \in {End, "&"}
       /\ Len(tokens[i].value) = 1 /\ tokens[i].value[1] \in DOMAIN UriAttributes

ParseAttributes(tokens, first) ==
  [k \in 1..((Len(tokens) - first + 1) \div 2) |->
     [name |-> UriAttributes[tokens[first + 2 * (k - 1)].value[1]],
      value |-> tokens[first + 2 * k - 1].value]]

ParseMainAttributes(tokens, names) ==
  [i \in DOMAIN names |-> [name |-> names[i], value |-> tokens[i].value]]

\* The token after the question mark.
AttributeStart(tokens) ==
  LET marks == {i \in DOMAIN tokens : tokens[i].delimiter = "?"}
  IN IF marks = {} THEN Len(tokens) + 1
     ELSE (CHOOSE i \in marks : \A j \in marks : i <= j) + 1

WriteOption(name, value) == <<name, "=">> \o EscapeConnectionString(value)

\* Of several values of one name the first is written.
WriteOptions(values) ==
  FlattenSeq([i \in DOMAIN values |->
    IF \E j \in 1..(i - 1) : values[j].name = values[i].name THEN <<>>
    ELSE WriteOption(values[i].name, values[i].value) \o <<Space>>])

(***************************************************************************)
(* A URI becomes a connection string of its values.  A text that is no URI *)
(* stays as it is unless it has the scheme of one; one whose attributes    *)
(* are no pairs is refused in either case.                                 *)
(***************************************************************************)
ConvertTokens(text, scheme, tokens, first, names) ==
  IF tokens = <<OpenToken>> THEN <<>>
  ELSE IF ~AttributesAreValid(tokens, first) THEN Invalid
  ELSE IF names = Invalid THEN (IF scheme THEN Invalid ELSE text)
  ELSE WriteOptions(ParseMainAttributes(tokens, names) \o ParseAttributes(tokens, first))

ConvertParts(text, scheme, tokens, first) ==
  ConvertTokens(text, scheme, tokens, first, GetAttributeNames(tokens, first - 1))

ConvertURI(text, scheme, tokens) ==
  ConvertParts(text, scheme, tokens, AttributeStart(tokens))

TryConvertURI(text) ==
  IF text = <<>> THEN text
  ELSE LET scheme == text[1] \in {"mysql://", "mysqlx://"}
       IN ConvertURI(text, scheme, ParseURITokens(IF scheme THEN Tail(text) ELSE text))
-----------------------------------------------------------------------------
Trim(text) ==
  LET inside == {i \in DOMAIN text : text[i] # Space}
  IN IF inside = {} THEN <<>>
     ELSE SubSeq(text, CHOOSE i \in inside : \A j \in inside : i <= j,
                       CHOOSE i \in inside : \A j \in inside : i >= j)

\* Mutant of AddConnectionOption: an option the path has is added again.
AddAgain(secret, option, existing) ==
  IF option \in DOMAIN secret THEN WriteOption(option, secret[option]) \o <<Space>> ELSE <<>>

AddConnectionOption(secret, option, existing) ==
  IF option \in DOMAIN existing \/ option \notin DOMAIN secret THEN <<>>
  ELSE WriteOption(option, secret[option]) \o <<Space>>

(***************************************************************************)
(* The path of ATTACH, converted from a URI, after the options of the      *)
(* secret it does not set itself.  "NoSecret" stands for none.  What it    *)
(* sets is found by reading it as a connection does, environment and all:  *)
(* a port there that is none raises here, even if the secret has a port.   *)
(***************************************************************************)
NoSecret == [secret |-> FALSE]

AddedOptions(secret, existing) ==
  FlattenSeq([i \in DOMAIN SecretOptions |->
    AddConnectionOption(secret, SecretOptions[i], existing)])

JoinOptions(added, text) ==
  IF added # <<>> /\ text # <<>> THEN added \o <<Space>> \o text ELSE added \o text

WithSecret(text, secret, env) ==
  IF ParseConnectionParameters(text, env) = Error THEN Invalid
  ELSE JoinOptions(AddedOptions(secret, ParseOptions(text)), text)

ConnectionStringOf(text, secret, env) ==
  IF text = Invalid \/ secret = NoSecret THEN text
  ELSE WithSecret(text, secret, env)

GetConnectionString(path, secret, env) ==
  ConnectionStringOf(TryConvertURI(Trim(path)), secret, env)
=============================================================================
