------------------------------ MODULE MySQLTypes ------------------------------
(***************************************************************************)
(* The types of columns on both sides (src/src/mysql_utils.cpp): what      *)
(* CREATE TABLE makes of a DuckDB type, what a column of MySQL is loaded   *)
(* as, what mysql_query makes of the metadata of a result, and how         *)
(* MySQLScan casts the values it receives.                                 *)
(***************************************************************************)
EXTENDS Naturals

\* A LogicalType of DuckDB: its id, for DECIMAL its width and scale.
Type(id) == [id |-> id, width |-> 0, scale |-> 0]

Decimal(width, scale) == [id |-> "DECIMAL", width |-> width, scale |-> scale]

\* Only a DECIMAL has a width, of 1 to 38 digits, and a scale.
IsLogicalType(type) ==
  IF type.id = "DECIMAL"
  THEN /\ type = Decimal(type.width, type.scale)
       /\ type.width \in 1..38 /\ type.scale \in 0..type.width
  ELSE type = Type(type.id)

\* The types MySQL has one of its own for, and keeps as they are.
SharedIds ==
  {"BOOLEAN", "TINYINT", "SMALLINT", "INTEGER", "BIGINT", "UTINYINT",
   "USMALLINT", "UINTEGER", "UBIGINT", "FLOAT", "DOUBLE", "BLOB", "DATE",
   "DECIMAL", "TIMESTAMP", "TIMESTAMP_TZ", "VARCHAR"}

\* ToMySQLType throws for these.
UnsupportedIds == {"LIST", "STRUCT", "MAP", "UNION"}

\* The other types it is given.
ConvertedIds ==
  {"TIMESTAMP_S", "TIMESTAMP_MS", "TIMESTAMP_NS", "HUGEINT", "UHUGEINT",
   "TIME", "INTERVAL", "UUID", "ENUM", "BIT"}

ToMySQLType(type) ==
  IF type.id \in SharedIds THEN type
  ELSE IF type.id \in {"TIMESTAMP_S", "TIMESTAMP_MS", "TIMESTAMP_NS"} THEN Type("TIMESTAMP")
  ELSE IF type.id = "HUGEINT" THEN Type("DOUBLE")
  ELSE Type("VARCHAR")

(***************************************************************************)
(* The word a type is written as in CREATE TABLE; LogicalType::ToString    *)
(* otherwise.  ALTER TABLE ... ADD COLUMN writes ToString for all of them.  *)
(***************************************************************************)
LogicalTypeToString(type) ==
  [word |-> IF type.id = "TIMESTAMP_TZ" THEN "TIMESTAMP WITH TIME ZONE" ELSE type.id,
   width |-> type.width, scale |-> type.scale]

TypeToString(type) ==
  LET words == [VARCHAR |-> "TEXT", UTINYINT |-> "TINYINT UNSIGNED",
                USMALLINT |-> "SMALLINT UNSIGNED", UINTEGER |-> "INTEGER UNSIGNED",
                UBIGINT |-> "BIGINT UNSIGNED", TIMESTAMP |-> "DATETIME",
                TIMESTAMP_TZ |-> "TIMESTAMP"]
  IN IF type.id \in DOMAIN words
     THEN [LogicalTypeToString(type) EXCEPT !.word = words[type.id]]
     ELSE LogicalTypeToString(type)
-----------------------------------------------------------------------------
(***************************************************************************)
(* MySQLTypeData: the row information_schema.columns has for a column.  Of *)
(* column_type only the display width (0 for none) and UNSIGNED are told   *)
(* apart.                                                                  *)
(***************************************************************************)
Column(name, width, unsigned) ==
  [typeName |-> name, width |-> width, unsigned |-> unsigned,
   precision |-> 0, scale |-> 0]

\* The name may be any.
IsTypeData(column) ==
  /\ column = [typeName |-> column.typeName, width |-> column.width,
                unsigned |-> column.unsigned, precision |-> column.precision,
                scale |-> column.scale]
  /\ column.width \in Nat /\ column.unsigned \in BOOLEAN
  /\ column.precision \in Nat /\ column.scale \in Nat

DecimalColumn(precision, scale) ==
  [typeName |-> "decimal", width |-> 0, unsigned |-> FALSE,
   precision |-> precision, scale |-> scale]

Plain(name)    == Column(name, 0, FALSE)
Unsigned(name) == Column(name, 0, TRUE)

Refused == Plain("")

(***************************************************************************)
(* The column MySQL makes of a declaration.  A syntax error for the names  *)
(* it does not know, for VARCHAR without a length and for a scale or       *)
(* precision beyond its limits.                                            *)
(***************************************************************************)
Declared(text) ==
  LET plain == [TINYINT |-> "tinyint", SMALLINT |-> "smallint", INTEGER |-> "int",
                BIGINT |-> "bigint", FLOAT |-> "float", DOUBLE |-> "double",
                BLOB |-> "blob", DATE |-> "date", DATETIME |-> "datetime",
                TIMESTAMP |-> "timestamp", TEXT |-> "text", TIME |-> "time",
                ENUM |-> "enum"]
  IN IF text.word \in DOMAIN plain THEN Plain(plain[text.word])
     ELSE IF text.word = "BOOLEAN" THEN Column("tinyint", 1, FALSE)
     ELSE IF text.word = "TINYINT UNSIGNED" THEN Unsigned("tinyint")
     ELSE IF text.word = "SMALLINT UNSIGNED" THEN Unsigned("smallint")
     ELSE IF text.word = "INTEGER UNSIGNED" THEN Unsigned("int")
     ELSE IF text.word = "BIGINT UNSIGNED" THEN Unsigned("bigint")
     ELSE IF text.word = "BIT" THEN Column("bit", 1, FALSE)
     ELSE IF text.word = "DECIMAL" /\ text.scale <= 30 THEN DecimalColumn(text.width, text.scale)
     ELSE Refused

\* mysql_tinyint1_as_boolean and mysql_bit1_as_boolean
Settings == [tinyint1 : BOOLEAN, bit1 : BOOLEAN]

SignedType   == [tinyint |-> "TINYINT", smallint |-> "SMALLINT", mediumint |-> "INTEGER",
                 int |-> "INTEGER", bigint |-> "BIGINT"]
UnsignedType == [tinyint |-> "UTINYINT", smallint |-> "USMALLINT", mediumint |-> "UINTEGER",
                 int |-> "UINTEGER", bigint |-> "UBIGINT"]
BinaryNames ==
  {"blob", "tinyblob", "mediumblob", "longblob", "binary", "varbinary", "geometry",
   "point", "linestring", "polygon", "multipoint", "multilinestring", "multipolygon",
   "geomcollection", "bit"}

\* What a column of MySQL is loaded as.
TypeToLogicalType(settings, column) ==
  LET others == [float |-> "FLOAT", double |-> "DOUBLE", date |-> "DATE",
                 timestamp |-> "TIMESTAMP_TZ", year |-> "INTEGER", datetime |-> "TIMESTAMP"]
      name == column.typeName
      one  == column.width = 1 /\ ~column.unsigned
  IN IF \/ name = "tinyint" /\ one /\ settings.tinyint1
        \/ name = "bit" /\ one /\ settings.bit1
     THEN Type("BOOLEAN")
     ELSE IF name \in DOMAIN SignedType
     THEN Type(IF column.unsigned THEN UnsignedType[name] ELSE SignedType[name])
     ELSE IF name = "decimal"
     THEN IF column.precision \in 1..38 THEN Decimal(column.precision, column.scale)
          ELSE Type("DOUBLE")
     ELSE IF name \in DOMAIN others THEN Type(others[name])
     ELSE IF name \in BinaryNames THEN Type("BLOB")
     ELSE Type("VARCHAR")
-----------------------------------------------------------------------------
(***************************************************************************)
(* MYSQL_FIELD, the metadata of a column of a stored result.  "maxLength"  *)
(* is the width of its widest value, 0 for an empty result; the length of  *)
(* a DECIMAL has room for a sign and, with a scale, for a point.           *)
(***************************************************************************)
FieldOf(column, maxLength) ==
  LET types == [tinyint |-> "TINY", smallint |-> "SHORT", mediumint |-> "INT24",
                int |-> "LONG", bigint |-> "LONGLONG", float |-> "FLOAT",
                double |-> "DOUBLE", decimal |-> "NEWDECIMAL", timestamp |-> "TIMESTAMP",
                date |-> "DATE", time |-> "TIME", datetime |-> "DATETIME", year |-> "YEAR",
                bit |-> "BIT", json |-> "JSON", geometry |-> "GEOMETRY",
                text |-> "BLOB", blob |-> "BLOB"]
  IN [type |-> IF column.typeName \in DOMAIN types THEN types[column.typeName] ELSE "STRING",
      length |-> column.precision + (IF column.scale > 0 THEN 1 ELSE 0)
                                  + (IF column.unsigned THEN 0 ELSE 1),
      decimals |-> column.scale,
      maxLength |-> maxLength,
      binary |-> column.typeName \in BinaryNames,
      unsigned |-> column.unsigned]

\* Mutant of FieldToLogicalType: BINARY_FLAG is not looked at.
TextAlways(settings, field) ==
  LET names == [TINY |-> "tinyint", SHORT |-> "smallint", INT24 |-> "mediumint",
                LONG |-> "int", LONGLONG |-> "bigint", FLOAT |-> "float",
                DOUBLE |-> "double", DECIMAL |-> "decimal", NEWDECIMAL |-> "decimal",
                TIMESTAMP |-> "timestamp", DATE |-> "date", TIME |-> "time",
                DATETIME |-> "datetime", YEAR |-> "year", BIT |-> "bit",
                GEOMETRY |-> "geometry"]
      name == IF field.type \in DOMAIN names THEN names[field.type] ELSE "varchar"
  IN TypeToLogicalType(settings,
       [typeName |-> name, width |-> field.maxLength, unsigned |-> field.unsigned,
        precision |-> 0, scale |-> 0])

\* The row mysql_query makes of a field, and what it takes the column for.
FieldTypeData(field) ==
  LET names == [TINY |-> "tinyint", SHORT |-> "smallint", INT24 |-> "mediumint",
                LONG |-> "int", LONGLONG |-> "bigint", FLOAT |-> "float",
                DOUBLE |-> "double", DECIMAL |-> "decimal", NEWDECIMAL |-> "decimal",
                TIMESTAMP |-> "timestamp", DATE |-> "date", TIME |-> "time",
                DATETIME |-> "datetime", YEAR |-> "year", BIT |-> "bit",
                GEOMETRY |-> "geometry", NULL |-> "null", SET |-> "set", ENUM |-> "enum"]
      name == IF field.type \in DOMAIN names THEN names[field.type]
              ELSE IF field.type \notin {"BLOB", "STRING", "VAR_STRING"} THEN "__unknown_type"
              ELSE IF field.binary THEN "blob" ELSE "varchar"
      decimal == name = "decimal"
  IN [typeName |-> name, width |-> field.maxLength, unsigned |-> field.unsigned,
      precision |-> IF decimal THEN field.length - 2 ELSE 0,
      scale |-> IF decimal THEN field.decimals ELSE 0]

FieldToLogicalType(settings, field) == TypeToLogicalType(settings, FieldTypeData(field))
-----------------------------------------------------------------------------
(***************************************************************************)
(* The values that tell integer types apart: -(2^bits), and 2^bits - 1     *)
(* (0 and 1 among them).                                                   *)
(***************************************************************************)
Value(negative, bits) == [negative |-> negative, bits |-> bits]

Zero == Value(FALSE, 0)
One  == Value(FALSE, 1)

Width == [bit |-> 1, tinyint |-> 8, smallint |-> 16, mediumint |-> 24, int |-> 32, bigint |-> 64]

\* The values of a column at the ends of its range.
Extremes(column) ==
  LET w == Width[column.typeName] IN
  {Zero, One} \cup
  (IF column.unsigned \/ column.typeName = "bit" THEN {Value(FALSE, w)}
                      ELSE {Value(TRUE, w - 1), Value(FALSE, w - 1)})

\* Does an integer type of DuckDB hold the value?
Holds(type, v) ==
  LET signed   == [TINYINT |-> 7, SMALLINT |-> 15, INTEGER |-> 31, BIGINT |-> 63]
      unsigned == [UTINYINT |-> 8, USMALLINT |-> 16, UINTEGER |-> 32, UBIGINT |-> 64]
  IN IF type.id \in DOMAIN signed THEN v.bits <= signed[type.id]
     ELSE ~v.negative /\ v.bits <= unsigned[type.id]

\* MySQLScan casts the text of an integer; a failed cast leaves a NULL and
\* is not reported.
ScanInteger(type, v) == IF Holds(type, v) THEN v ELSE "NULL"

\* The text of a value of a TINYINT(1), and of a BIT(1), to its first
\* character.
Text(column, v) ==
  IF column.typeName = "bit" THEN IF v = Zero THEN "zero byte" ELSE "one byte"
  ELSE IF v.negative THEN "-"
  ELSE IF v = Zero THEN "0" ELSE "1"

\* Mutant of CastBoolFromMySQL: a zero byte counts as a character.
DigitsOnly(text) == text \notin {"0", "-"}

\* CastBoolFromMySQL looks at the first character; negative numbers are false.
CastBoolFromMySQL(text) == text \notin {"zero byte", "0", "-"}
=============================================================================
