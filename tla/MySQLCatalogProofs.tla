-------------------------- MODULE MySQLCatalogProofs --------------------------
(***************************************************************************)
(* The catalog for any schemas, tables, indexes and columns: what CREATE   *)
(* TABLE makes of a type comes back as that type, a scan reads the values  *)
(* of a column, and the cache says of the server what a load would say.    *)
(***************************************************************************)
EXTENDS MySQLCatalog, SequenceTheorems, TLAPS

(***************************************************************************)
(* Types.  What a column is loaded as, by the kind of its name.            *)
(***************************************************************************)
OtherNames == {"float", "double", "date", "timestamp", "year", "datetime"}

LEMMA LoadInteger ==
  ASSUME NEW set, NEW c, c.unsigned \in BOOLEAN, c.typeName \in DOMAIN SignedType,
         ~(c.typeName = "tinyint" /\ c.width = 1 /\ ~c.unsigned /\ set.tinyint1)
  PROVE  TypeToLogicalType(set, c)
           = Type(IF c.unsigned THEN UnsignedType[c.typeName] ELSE SignedType[c.typeName])
  BY DEF TypeToLogicalType, SignedType

LEMMA LoadBoolean ==
  ASSUME NEW set, NEW c, c.width = 1, ~c.unsigned,
         \/ c.typeName = "tinyint" /\ set.tinyint1
         \/ c.typeName = "bit" /\ set.bit1
  PROVE  TypeToLogicalType(set, c) = Type("BOOLEAN")
  BY DEF TypeToLogicalType

LEMMA LoadDecimal ==
  ASSUME NEW set, NEW c, c.typeName = "decimal"
  PROVE  TypeToLogicalType(set, c)
           = IF c.precision \in 1..38 THEN Decimal(c.precision, c.scale) ELSE Type("DOUBLE")
  BY DEF TypeToLogicalType, SignedType

LEMMA LoadOther ==
  ASSUME NEW set, NEW c
  PROVE  /\ c.typeName = "float" => TypeToLogicalType(set, c) = Type("FLOAT")
         /\ c.typeName = "double" => TypeToLogicalType(set, c) = Type("DOUBLE")
         /\ c.typeName = "date" => TypeToLogicalType(set, c) = Type("DATE")
         /\ c.typeName = "timestamp" => TypeToLogicalType(set, c) = Type("TIMESTAMP_TZ")
         /\ c.typeName = "year" => TypeToLogicalType(set, c) = Type("INTEGER")
         /\ c.typeName = "datetime" => TypeToLogicalType(set, c) = Type("TIMESTAMP")
  BY DEF TypeToLogicalType, SignedType

LEMMA LoadBinary ==
  ASSUME NEW set, NEW c, c.typeName \in BinaryNames,
         ~(c.typeName = "bit" /\ c.width = 1 /\ ~c.unsigned /\ set.bit1)
  PROVE  TypeToLogicalType(set, c) = Type("BLOB")
  BY DEF TypeToLogicalType, SignedType, BinaryNames

LEMMA LoadText ==
  ASSUME NEW set, NEW c,
         c.typeName \notin DOMAIN SignedType \cup OtherNames \cup BinaryNames \cup {"decimal"}
  PROVE  TypeToLogicalType(set, c) = Type("VARCHAR")
  BY DEF TypeToLogicalType, SignedType, BinaryNames, OtherNames

(***************************************************************************)
(* The metadata of a result has room for what information_schema says of   *)
(* the column, but for the widths.                                         *)
(***************************************************************************)
LEMMA FieldNames ==
  ASSUME NEW c, IsTypeData(c), NEW maxLength \in Nat
  PROVE  LET r == FieldTypeData(FieldOf(c, maxLength)) IN
         /\ r.unsigned = c.unsigned
         /\ c.typeName \in DOMAIN SignedType \cup OtherNames \cup {"bit", "geometry"}
              => r.typeName = c.typeName
         /\ c.typeName \in BinaryNames \ {"bit", "geometry"} => r.typeName = "blob"
         /\ c.typeName \notin DOMAIN SignedType \cup OtherNames \cup BinaryNames \cup {"decimal"}
              => r.typeName \in {"varchar", "time", "__unknown_type", "blob"} \ BinaryNames
  <1> DEFINE f == FieldOf(c, maxLength)
             r == FieldTypeData(f)
  <1>1. f.unsigned = c.unsigned /\ f.binary = (c.typeName \in BinaryNames)
    BY DEF FieldOf
  <1>2. r.unsigned = c.unsigned
    BY <1>1 DEF FieldTypeData
  <1>3. ASSUME c.typeName \in DOMAIN SignedType \cup OtherNames \cup {"bit", "geometry"}
        PROVE  r.typeName = c.typeName
    BY <1>3, SMTT(30) DEF FieldTypeData, FieldOf, SignedType, OtherNames
  <1>4. ASSUME c.typeName \in BinaryNames \ {"bit", "geometry"}
        PROVE  r.typeName = "blob"
    <2>1. f.binary
      BY <1>1, <1>4
    <2>2. f.type \in {"BLOB", "STRING"}
      BY <1>4, SMTT(30) DEF FieldOf, BinaryNames
    <2>. QED  BY <2>1, <2>2 DEF FieldTypeData
  <1>5. ASSUME c.typeName \notin DOMAIN SignedType \cup OtherNames \cup BinaryNames
                                 \cup {"decimal"}
        PROVE  r.typeName \in {"varchar", "time", "__unknown_type", "blob"} \ BinaryNames
    <2>1. ~f.binary
      BY <1>1, <1>5
    <2>2. f.type \in {"STRING", "TIME", "JSON", "BLOB"}
      <3>1. c.typeName \notin {"tinyint", "smallint", "mediumint", "int", "bigint", "float",
               "double", "decimal", "timestamp", "date", "datetime", "year", "bit", "geometry"}
        BY <1>5 DEF SignedType, OtherNames, BinaryNames
      <3>2. CASE c.typeName \in {"time", "json", "text", "blob"}
        BY <3>2 DEF FieldOf
      <3>3. CASE c.typeName \notin {"time", "json", "text", "blob"}
        BY <3>1, <3>3 DEF FieldOf
      <3>. QED  BY <3>2, <3>3
    <2>. QED  BY <2>1, <2>2 DEF FieldTypeData, BinaryNames
  <1>. QED  BY <1>2, <1>3, <1>4, <1>5

LEMMA FieldDecimal ==
  ASSUME NEW c, IsTypeData(c), NEW maxLength \in Nat,
         c.typeName = "decimal", c.scale # 0, ~c.unsigned
  PROVE  LET r == FieldTypeData(FieldOf(c, maxLength)) IN
         r.typeName = "decimal" /\ r.precision = c.precision /\ r.scale = c.scale
  <1> DEFINE f == FieldOf(c, maxLength)
  <1>1. f.type = "NEWDECIMAL" /\ f.length = c.precision + 2 /\ f.decimals = c.scale
    BY DEF FieldOf, IsTypeData
  <1>. QED  BY <1>1 DEF FieldTypeData, IsTypeData

(***************************************************************************)
(* With the boolean settings off, mysql_query gives any column the type it *)
(* is loaded as, but for decimals without a scale or a sign.               *)
(***************************************************************************)
LEMMA QueryTypesAgree ==
  ASSUME NEW set \in Settings, ~set.tinyint1, ~set.bit1,
         NEW c, IsTypeData(c), NEW maxLength \in Nat,
         ~(c.typeName = "decimal" /\ (c.scale = 0 \/ c.unsigned))
  PROVE  FieldToLogicalType(set, FieldOf(c, maxLength)) = TypeToLogicalType(set, c)
  <1> DEFINE r == FieldTypeData(FieldOf(c, maxLength))
  <1>0. FieldToLogicalType(set, FieldOf(c, maxLength)) = TypeToLogicalType(set, r)
    BY DEF FieldToLogicalType
  <1>00. c.unsigned \in BOOLEAN /\ r.unsigned = c.unsigned
    BY FieldNames DEF IsTypeData
  <1> HIDE DEF r
  <1>1. CASE c.typeName \in DOMAIN SignedType
    <2>1. r.typeName = c.typeName
      BY <1>1, FieldNames DEF r
    <2>. QED  BY <1>0, <1>00, <1>1, <2>1, LoadInteger
  <1>2. CASE c.typeName \in OtherNames
    <2>1. r.typeName = c.typeName
      BY <1>2, FieldNames DEF r
    <2>. QED  BY <1>0, <1>2, <2>1, LoadOther DEF OtherNames
  <1>3. CASE c.typeName \in BinaryNames
    <2>1. r.typeName \in {"bit", "geometry", "blob"}
      BY <1>3, FieldNames DEF r
    <2>2. r.typeName \in BinaryNames
      BY <2>1 DEF BinaryNames
    <2>. QED  BY <1>0, <1>3, <2>2, LoadBinary
  <1>4. CASE c.typeName = "decimal"
    <2>1. r.typeName = "decimal" /\ r.precision = c.precision /\ r.scale = c.scale
      BY <1>4, FieldDecimal DEF r
    <2>. QED  BY <1>0, <1>4, <2>1, LoadDecimal
  <1>5. CASE c.typeName \notin DOMAIN SignedType \cup OtherNames \cup BinaryNames \cup {"decimal"}
    <2>1. r.typeName \in {"varchar", "time", "__unknown_type", "blob"} \ BinaryNames
      BY <1>5, FieldNames DEF r
    <2>2. r.typeName \notin DOMAIN SignedType \cup OtherNames \cup BinaryNames \cup {"decimal"}
      BY <2>1 DEF SignedType, OtherNames
    <2>. QED  BY <1>0, <1>5, <2>2, LoadText
  <1>. QED  BY <1>1, <1>2, <1>3, <1>4, <1>5

(***************************************************************************)
(* The round trip of a type: what ToMySQLType makes of it is what a load   *)
(* makes of the column MySQL declares for it.                              *)
(***************************************************************************)
LEMMA ConvertedType ==
  ASSUME NEW type, IsLogicalType(type)
  PROVE  LET my == ToMySQLType(type) IN
         IsLogicalType(my) /\ my.id \in SharedIds
  <1>1. CASE type.id \in SharedIds
    BY <1>1 DEF ToMySQLType
  <1>2. CASE type.id \notin SharedIds
    <2>1. \E id \in {"TIMESTAMP", "DOUBLE", "VARCHAR"} : ToMySQLType(type) = Type(id)
      BY <1>2 DEF ToMySQLType
    <2>. QED  BY <2>1 DEF IsLogicalType, SharedIds, Type
  <1>. QED  BY <1>1, <1>2

\* The column for a type of each id, and what it is loaded as.
ComesBack(type, set) ==
  LET column == Declared(TypeToString(type)) IN
  /\ IsTypeData(column)
  /\ \/ column = Refused
     \/ TypeToLogicalType(set, column) = type
     \/ type = Type("BOOLEAN") /\ ~set.tinyint1 /\ column = Column("tinyint", 1, FALSE)

LEMMA DeclaredTypes ==
  /\ Declared(TypeToString(Type("TINYINT"))) = Plain("tinyint")
  /\ Declared(TypeToString(Type("SMALLINT"))) = Plain("smallint")
  /\ Declared(TypeToString(Type("INTEGER"))) = Plain("int")
  /\ Declared(TypeToString(Type("BIGINT"))) = Plain("bigint")
  /\ Declared(TypeToString(Type("UTINYINT"))) = Unsigned("tinyint")
  /\ Declared(TypeToString(Type("USMALLINT"))) = Unsigned("smallint")
  /\ Declared(TypeToString(Type("UINTEGER"))) = Unsigned("int")
  /\ Declared(TypeToString(Type("UBIGINT"))) = Unsigned("bigint")
  /\ Declared(TypeToString(Type("FLOAT"))) = Plain("float")
  /\ Declared(TypeToString(Type("DOUBLE"))) = Plain("double")
  /\ Declared(TypeToString(Type("DATE"))) = Plain("date")
  /\ Declared(TypeToString(Type("TIMESTAMP"))) = Plain("datetime")
  /\ Declared(TypeToString(Type("TIMESTAMP_TZ"))) = Plain("timestamp")
  /\ Declared(TypeToString(Type("BLOB"))) = Plain("blob")
  /\ Declared(TypeToString(Type("VARCHAR"))) = Plain("text")
  /\ Declared(TypeToString(Type("BOOLEAN"))) = Column("tinyint", 1, FALSE)
  <1> USE DEF Declared, TypeToString, LogicalTypeToString, Type
  <1>1. Declared(TypeToString(Type("TINYINT"))) = Plain("tinyint")
    OBVIOUS
  <1>2. Declared(TypeToString(Type("SMALLINT"))) = Plain("smallint")
    OBVIOUS
  <1>3. Declared(TypeToString(Type("INTEGER"))) = Plain("int")
    OBVIOUS
  <1>4. Declared(TypeToString(Type("BIGINT"))) = Plain("bigint")
    OBVIOUS
  <1>5. Declared(TypeToString(Type("UTINYINT"))) = Unsigned("tinyint")
    OBVIOUS
  <1>6. Declared(TypeToString(Type("USMALLINT"))) = Unsigned("smallint")
    OBVIOUS
  <1>7. Declared(TypeToString(Type("UINTEGER"))) = Unsigned("int")
    OBVIOUS
  <1>8. Declared(TypeToString(Type("UBIGINT"))) = Unsigned("bigint")
    OBVIOUS
  <1>9. Declared(TypeToString(Type("FLOAT"))) = Plain("float")
    OBVIOUS
  <1>10. Declared(TypeToString(Type("DOUBLE"))) = Plain("double")
    OBVIOUS
  <1>11. Declared(TypeToString(Type("DATE"))) = Plain("date")
    OBVIOUS
  <1>12. Declared(TypeToString(Type("TIMESTAMP"))) = Plain("datetime")
    OBVIOUS
  <1>13. Declared(TypeToString(Type("TIMESTAMP_TZ"))) = Plain("timestamp")
    OBVIOUS
  <1>14. Declared(TypeToString(Type("BLOB"))) = Plain("blob")
    OBVIOUS
  <1>15. Declared(TypeToString(Type("VARCHAR"))) = Plain("text")
    OBVIOUS
  <1>16. Declared(TypeToString(Type("BOOLEAN"))) = Column("tinyint", 1, FALSE)
    OBVIOUS
  <1> HIDE DEF Declared, TypeToString, LogicalTypeToString, Type
  <1>. QED
    BY <1>1, <1>2, <1>3, <1>4, <1>5, <1>6, <1>7, <1>8, <1>9,
       <1>10, <1>11, <1>12, <1>13, <1>14, <1>15, <1>16

LEMMA IntegerComesBack ==
  ASSUME NEW set, NEW id, NEW name \in DOMAIN SignedType, NEW unsigned \in BOOLEAN,
         id = IF unsigned THEN UnsignedType[name] ELSE SignedType[name],
         Declared(TypeToString(Type(id))) = Column(name, 0, unsigned)
  PROVE  ComesBack(Type(id), set)
  <1> DEFINE column == Column(name, 0, unsigned)
  <1>1. /\ IsTypeData(column) /\ column.width = 0
        /\ column.typeName = name /\ column.unsigned = unsigned
    BY DEF Column, IsTypeData, SignedType
  <1> HIDE DEF column
  <1>2. TypeToLogicalType(set, column) = Type(id)
    BY <1>1, LoadInteger
  <1>. QED  BY <1>1, <1>2 DEF ComesBack, column

LEMMA IntegersComeBack ==
  ASSUME NEW set, NEW id \in {"TINYINT", "SMALLINT", "INTEGER", "BIGINT",
                              "UTINYINT", "USMALLINT", "UINTEGER", "UBIGINT"}
  PROVE  ComesBack(Type(id), set)
  <1>1. ASSUME NEW name \in DOMAIN SignedType,
               \/ id = SignedType[name] /\ Declared(TypeToString(Type(id))) = Plain(name)
               \/ id = UnsignedType[name] /\ Declared(TypeToString(Type(id))) = Unsigned(name)
        PROVE  ComesBack(Type(id), set)
    BY <1>1, IntegerComesBack DEF Plain, Unsigned
  <1>2. \A name \in {"tinyint", "smallint", "int", "bigint"} : name \in DOMAIN SignedType
    BY DEF SignedType
  <1>3. CASE id = "TINYINT"
    <2>. SignedType["tinyint"] = "TINYINT"
      BY DEF SignedType
    <2>. QED  BY <1>1, <1>2, <1>3, DeclaredTypes
  <1>4. CASE id = "SMALLINT"
    <2>. SignedType["smallint"] = "SMALLINT"
      BY DEF SignedType
    <2>. QED  BY <1>1, <1>2, <1>4, DeclaredTypes
  <1>5. CASE id = "INTEGER"
    <2>. SignedType["int"] = "INTEGER"
      BY DEF SignedType
    <2>. QED  BY <1>1, <1>2, <1>5, DeclaredTypes
  <1>6. CASE id = "BIGINT"
    <2>. SignedType["bigint"] = "BIGINT"
      BY DEF SignedType
    <2>. QED  BY <1>1, <1>2, <1>6, DeclaredTypes
  <1>7. CASE id = "UTINYINT"
    <2>. UnsignedType["tinyint"] = "UTINYINT"
      BY DEF UnsignedType
    <2>. QED  BY <1>1, <1>2, <1>7, DeclaredTypes
  <1>8. CASE id = "USMALLINT"
    <2>. UnsignedType["smallint"] = "USMALLINT"
      BY DEF UnsignedType
    <2>. QED  BY <1>1, <1>2, <1>8, DeclaredTypes
  <1>9. CASE id = "UINTEGER"
    <2>. UnsignedType["int"] = "UINTEGER"
      BY DEF UnsignedType
    <2>. QED  BY <1>1, <1>2, <1>9, DeclaredTypes
  <1>10. CASE id = "UBIGINT"
    <2>. UnsignedType["bigint"] = "UBIGINT"
      BY DEF UnsignedType
    <2>. QED  BY <1>1, <1>2, <1>10, DeclaredTypes
  <1>. QED  BY <1>3, <1>4, <1>5, <1>6, <1>7, <1>8, <1>9, <1>10

LEMMA PlainData ==
  ASSUME NEW name
  PROVE  IsTypeData(Plain(name)) /\ Plain(name).typeName = name
  BY DEF Plain, Column, IsTypeData

LEMMA OthersComeBack ==
  ASSUME NEW set, NEW id \in {"FLOAT", "DOUBLE", "DATE", "TIMESTAMP", "TIMESTAMP_TZ",
                              "BLOB", "VARCHAR"}
  PROVE  ComesBack(Type(id), set)
  <1>1. ASSUME NEW name, Declared(TypeToString(Type(id))) = Plain(name),
               TypeToLogicalType(set, Plain(name)) = Type(id)
        PROVE  ComesBack(Type(id), set)
    BY <1>1, PlainData DEF ComesBack
  <1>2. CASE id = "FLOAT"
    BY <1>1, <1>2, DeclaredTypes, PlainData, LoadOther
  <1>3. CASE id = "DOUBLE"
    BY <1>1, <1>3, DeclaredTypes, PlainData, LoadOther
  <1>4. CASE id = "DATE"
    BY <1>1, <1>4, DeclaredTypes, PlainData, LoadOther
  <1>5. CASE id = "TIMESTAMP"
    BY <1>1, <1>5, DeclaredTypes, PlainData, LoadOther
  <1>6. CASE id = "TIMESTAMP_TZ"
    BY <1>1, <1>6, DeclaredTypes, PlainData, LoadOther
  <1>7. CASE id = "BLOB"
    <2>1. "blob" \in BinaryNames
      BY DEF BinaryNames
    <2>2. TypeToLogicalType(set, Plain("blob")) = Type("BLOB")
      BY <2>1, PlainData, LoadBinary
    <2>. QED  BY <1>1, <1>7, <2>2, DeclaredTypes
  <1>8. CASE id = "VARCHAR"
    <2>1. "text" \notin DOMAIN SignedType \cup OtherNames \cup BinaryNames \cup {"decimal"}
      BY DEF SignedType, OtherNames, BinaryNames
    <2>2. TypeToLogicalType(set, Plain("text")) = Type("VARCHAR")
      BY <2>1, PlainData, LoadText
    <2>. QED  BY <1>1, <1>8, <2>2, DeclaredTypes
  <1>. QED  BY <1>2, <1>3, <1>4, <1>5, <1>6, <1>7, <1>8

LEMMA BooleanComesBack ==
  ASSUME NEW set
  PROVE  ComesBack(Type("BOOLEAN"), set)
  <1> DEFINE column == Column("tinyint", 1, FALSE)
  <1>1. Declared(TypeToString(Type("BOOLEAN"))) = column
    BY DeclaredTypes
  <1>2. IsTypeData(column) /\ column.typeName = "tinyint" /\ column.width = 1 /\ ~column.unsigned
    BY DEF Column, IsTypeData
  <1> HIDE DEF column
  <1>3. set.tinyint1 => TypeToLogicalType(set, column) = Type("BOOLEAN")
    BY <1>2, LoadBoolean
  <1>. QED  BY <1>1, <1>2, <1>3 DEF ComesBack, column

LEMMA DecimalComesBack ==
  ASSUME NEW set, NEW w \in 1..38, NEW scale \in Nat
  PROVE  ComesBack(Decimal(w, scale), set)
  <1> DEFINE type == Decimal(w, scale)
             column == Declared(TypeToString(type))
  <1>1. column = IF scale <= 30 THEN DecimalColumn(w, scale) ELSE Refused
    BY DEF Declared, TypeToString, LogicalTypeToString, Decimal
  <1> HIDE DEF column
  <1>2. IsTypeData(column)
    <2>1. IsTypeData(Refused)
      BY PlainData DEF Refused
    <2>2. IsTypeData(DecimalColumn(w, scale))
      BY DEF DecimalColumn, Column, IsTypeData
    <2>. QED  BY <1>1, <2>1, <2>2
  <1>3. scale <= 30 => TypeToLogicalType(set, column) = type
    BY <1>1, LoadDecimal DEF DecimalColumn
  <1>. QED  BY <1>1, <1>2, <1>3 DEF ComesBack, column

LEMMA TypesComeBack ==
  ASSUME NEW set, NEW type, IsLogicalType(type)
  PROVE  ComesBack(ToMySQLType(type), set)
  <1> DEFINE my == ToMySQLType(type)
  <1>1. IsLogicalType(my) /\ my.id \in SharedIds
    BY ConvertedType
  <1> HIDE DEF my
  <1>2. CASE my.id = "DECIMAL"
    <2>1. my = Decimal(my.width, my.scale) /\ my.width \in 1..38 /\ my.scale \in Nat
      BY <1>1, <1>2 DEF IsLogicalType
    <2>. QED  BY <2>1, DecimalComesBack DEF my
  <1>3. CASE my.id # "DECIMAL"
    <2>1. my = Type(my.id)
      BY <1>1, <1>3 DEF IsLogicalType
    <2> DEFINE id == my.id
    <2>2. \/ id \in {"TINYINT", "SMALLINT", "INTEGER", "BIGINT", "UTINYINT", "USMALLINT",
                     "UINTEGER", "UBIGINT"}
          \/ id \in {"FLOAT", "DOUBLE", "DATE", "TIMESTAMP", "TIMESTAMP_TZ", "BLOB", "VARCHAR"}
          \/ id = "BOOLEAN"
      BY <1>1, <1>3 DEF SharedIds
    <2> HIDE DEF id
    <2>3. ComesBack(Type(id), set)
      BY <2>2, IntegersComeBack, OthersComeBack, BooleanComesBack
    <2>. QED  BY <2>1, <2>3 DEF my, id
  <1>. QED  BY <1>2, <1>3
-----------------------------------------------------------------------------
(***************************************************************************)
(* The invariant of the catalog.  Its parts are about any cache "c", any   *)
(* server "v" and any settings "set", for what statements make of them     *)
(* before they are the next state's.                                       *)
(***************************************************************************)
IsColumns(columns) ==
  /\ columns \in Seq({columns[i] : i \in DOMAIN columns})
  /\ Len(columns) \in 1..MaxColumns
  /\ \A i \in DOMAIN columns : IsTypeData(columns[i].type)

IsIndex(index, schemas) ==
  /\ index = [schema |-> index.schema, table |-> index.table, name |-> index.name]
  /\ index.schema \in DOMAIN schemas /\ index.table \in DOMAIN schemas[index.schema]
  /\ index.name \in Indexes

IsServer(v) ==
  /\ v = [schemas |-> v.schemas, indexes |-> v.indexes]
  /\ DOMAIN v.schemas \subseteq Schemas
  /\ \A s \in DOMAIN v.schemas : \A t \in DOMAIN v.schemas[s] :
       t \in Tables /\ IsColumns(v.schemas[s][t])
  /\ \A index \in v.indexes : IsIndex(index, v.schemas)

IsSet(set, names) ==
  /\ set = [loaded |-> set.loaded, entries |-> set.entries]
  /\ set.loaded \in BOOLEAN /\ DOMAIN set.entries \subseteq names

IsSchema(entry) ==
  /\ entry = [tables |-> entry.tables, indexes |-> entry.indexes]
  /\ IsSet(entry.tables, Tables) /\ IsSet(entry.indexes, Indexes)

IsCache(c) ==
  /\ IsSet(c, Schemas)
  /\ \A s \in DOMAIN c.entries : IsSchema(c.entries[s])

\* A definition is what loading a table with these columns would give.
AsLoaded(set, cached, columns) ==
  /\ DOMAIN cached.columns = DOMAIN columns
  /\ \A i \in DOMAIN columns :
       \/ cached.columns[i] =
            TableColumn(TypeToLogicalType(set, columns[i].type), columns[i].notNull)
       \/ /\ cached.made /\ cached.columns[i].type = Type("BOOLEAN") /\ ~set.tinyint1
          /\ columns[i].type = Column("tinyint", 1, FALSE)

\* A set of tables says what the server has; all of it when it is loaded.
TablesFit(set, tables, onServer) ==
  /\ DOMAIN tables.entries \subseteq DOMAIN onServer
  /\ tables.loaded => DOMAIN tables.entries = DOMAIN onServer
  /\ \A t \in DOMAIN tables.entries : AsLoaded(set, tables.entries[t], onServer[t])

CacheFits(set, c, v) ==
  /\ DOMAIN c.entries \subseteq DOMAIN v.schemas
  /\ c.loaded => DOMAIN c.entries = DOMAIN v.schemas
  /\ \A s \in DOMAIN c.entries : TablesFit(set, c.entries[s].tables, v.schemas[s])

IndexesExist(c, v) ==
  IndexSchema \in DOMAIN c.entries =>
    \A n \in DOMAIN c.entries[IndexSchema].indexes.entries :
      [schema |-> IndexSchema, table |-> c.entries[IndexSchema].indexes.entries[n],
       name |-> n] \in v.indexes

Fits(set, c, v) == CacheFits(set, c, v) /\ IndexesExist(c, v)

CatalogInv ==
  /\ IsServer(server) /\ IsCache(cache)
  /\ database \in Schemas \cup {NoSchema} /\ settings \in Settings
  /\ changes \in 0..MaxChanges /\ outdated \in BOOLEAN
  /\ ~outdated => Fits(settings, cache, server)

LEMMA Inserted ==
  ASSUME NEW f, NEW g
  PROVE  /\ DOMAIN Insert(f, g) = DOMAIN f \cup DOMAIN g
         /\ \A x \in DOMAIN f : Insert(f, g)[x] = f[x]
         /\ \A x \in DOMAIN g \ DOMAIN f : Insert(f, g)[x] = g[x]
  BY DEF Insert

LEMMA InsertedOne ==
  ASSUME NEW f, NEW x, NEW value
  PROVE  /\ DOMAIN InsertOne(f, x, value) = DOMAIN f \cup {x}
         /\ \A y \in DOMAIN f : InsertOne(f, x, value)[y] = f[y]
         /\ x \notin DOMAIN f => InsertOne(f, x, value)[x] = value
  BY DEF InsertOne, Insert

LEMMA PutOne ==
  ASSUME NEW f, NEW x, NEW value
  PROVE  /\ DOMAIN Put(f, x, value) = DOMAIN f \cup {x}
         /\ Put(f, x, value)[x] = value
         /\ \A y \in DOMAIN f \ {x} : Put(f, x, value)[y] = f[y]
  BY DEF Put

LEMMA EmptySets ==
  /\ DOMAIN None = {}
  /\ ~EmptySet.loaded /\ EmptySet.entries = None
  /\ \A names : IsSet(EmptySet, names)
  /\ IsSchema(EmptySchema)
  /\ EmptySchema.tables = EmptySet /\ EmptySchema.indexes = EmptySet
  BY DEF None, EmptySet, EmptySchema, IsSet, IsSchema

LEMMA LoadedSet ==
  ASSUME NEW names, NEW set, IsSet(set, names), NEW rows, DOMAIN rows \subseteq names
  PROVE  /\ IsSet(Load(set, rows), names)
         /\ Load(set, rows).loaded
         /\ DOMAIN Load(set, rows).entries = DOMAIN set.entries \cup DOMAIN rows
         /\ \A x \in DOMAIN set.entries : Load(set, rows).entries[x] = set.entries[x]
         /\ \A x \in DOMAIN rows \ DOMAIN set.entries : Load(set, rows).entries[x] = rows[x]
  <1> DEFINE d == Load(set, rows)
  <1>1. d = [loaded |-> TRUE, entries |-> Insert(set.entries, rows)]
    BY DEF Load
  <1>2. d.loaded /\ d.entries = Insert(set.entries, rows)
    BY <1>1
  <1> HIDE DEF d
  <1>3. /\ DOMAIN d.entries = DOMAIN set.entries \cup DOMAIN rows
        /\ \A x \in DOMAIN set.entries : d.entries[x] = set.entries[x]
        /\ \A x \in DOMAIN rows \ DOMAIN set.entries : d.entries[x] = rows[x]
    <2> DEFINE e == Insert(set.entries, rows)
    <2>1. /\ DOMAIN e = DOMAIN set.entries \cup DOMAIN rows
          /\ \A x \in DOMAIN set.entries : e[x] = set.entries[x]
          /\ \A x \in DOMAIN rows \ DOMAIN set.entries : e[x] = rows[x]
      BY Inserted
    <2> HIDE DEF e
    <2>. QED  BY <1>2, <2>1 DEF e
  <1>4. d = [loaded |-> d.loaded, entries |-> d.entries]
    BY <1>1
  <1>5. d.loaded \in BOOLEAN
    BY <1>1
  <1>. QED  BY <1>2, <1>3, <1>4, <1>5 DEF d, IsSet

LEMMA SchemaOf ==
  ASSUME NEW tables, IsSet(tables, Tables), NEW indexes, IsSet(indexes, Indexes)
  PROVE  IsSchema([tables |-> tables, indexes |-> indexes])
  <1> DEFINE e == [tables |-> tables, indexes |-> indexes]
  <1>1. e.tables = tables /\ e.indexes = indexes
    OBVIOUS
  <1>2. e = [tables |-> e.tables, indexes |-> e.indexes]
    OBVIOUS
  <1> HIDE DEF e
  <1>3. IsSchema(e)
    BY <1>1, <1>2 DEF IsSchema
  <1>. QED  BY <1>3 DEF e

LEMMA WithTables ==
  ASSUME NEW c, IsCache(c), NEW s \in DOMAIN c.entries, NEW tables, IsSet(tables, Tables)
  PROVE  LET d == [c EXCEPT !.entries[s].tables = tables] IN
         /\ IsCache(d) /\ d.loaded = c.loaded /\ DOMAIN d.entries = DOMAIN c.entries
         /\ d.entries[s].tables = tables /\ d.entries[s].indexes = c.entries[s].indexes
         /\ \A x \in DOMAIN c.entries \ {s} : d.entries[x] = c.entries[x]
  <1> DEFINE d == [c EXCEPT !.entries[s].tables = tables]
  <1>1. /\ d.loaded = c.loaded /\ DOMAIN d.entries = DOMAIN c.entries
        /\ d = [loaded |-> d.loaded, entries |-> d.entries]
        /\ \A x \in DOMAIN c.entries \ {s} : d.entries[x] = c.entries[x]
    BY DEF IsCache, IsSet
  <1>2. d.entries[s] = [tables |-> tables, indexes |-> c.entries[s].indexes]
    <2> DEFINE e == c.entries[s]
    <2>1. e = [tables |-> e.tables, indexes |-> e.indexes]
      BY DEF IsCache, IsSchema
    <2>2. d.entries[s] = [e EXCEPT !.tables = tables]
      BY DEF IsCache, IsSet
    <2> HIDE DEF e, d
    <2>3. [e EXCEPT !.tables = tables] = [tables |-> tables, indexes |-> e.indexes]
      BY <2>1
    <2>. QED  BY <2>2, <2>3 DEF e
  <1> HIDE DEF d
  <1>3. IsSchema(d.entries[s])
    <2>1. IsSet(c.entries[s].tables, Tables) /\ IsSet(c.entries[s].indexes, Indexes)
      BY DEF IsCache, IsSchema
    <2>. QED  BY <1>2, <2>1, SchemaOf
  <1>4. IsCache(d)
    BY <1>1, <1>3 DEF IsCache, IsSet
  <1>. QED  BY <1>1, <1>2, <1>4 DEF d

LEMMA WithIndexes ==
  ASSUME NEW c, IsCache(c), NEW s \in DOMAIN c.entries, NEW indexes, IsSet(indexes, Indexes)
  PROVE  LET d == [c EXCEPT !.entries[s].indexes = indexes] IN
         /\ IsCache(d) /\ d.loaded = c.loaded /\ DOMAIN d.entries = DOMAIN c.entries
         /\ d.entries[s].tables = c.entries[s].tables /\ d.entries[s].indexes = indexes
         /\ \A x \in DOMAIN c.entries \ {s} : d.entries[x] = c.entries[x]
  <1> DEFINE d == [c EXCEPT !.entries[s].indexes = indexes]
  <1>1. /\ d.loaded = c.loaded /\ DOMAIN d.entries = DOMAIN c.entries
        /\ d = [loaded |-> d.loaded, entries |-> d.entries]
        /\ \A x \in DOMAIN c.entries \ {s} : d.entries[x] = c.entries[x]
    BY DEF IsCache, IsSet
  <1>2. d.entries[s] = [tables |-> c.entries[s].tables, indexes |-> indexes]
    <2> DEFINE e == c.entries[s]
    <2>1. e = [tables |-> e.tables, indexes |-> e.indexes]
      BY DEF IsCache, IsSchema
    <2>2. d.entries[s] = [e EXCEPT !.indexes = indexes]
      BY DEF IsCache, IsSet
    <2> HIDE DEF e, d
    <2>3. [e EXCEPT !.indexes = indexes] = [tables |-> e.tables, indexes |-> indexes]
      BY <2>1
    <2>. QED  BY <2>2, <2>3 DEF e
  <1> HIDE DEF d
  <1>3. IsSchema(d.entries[s])
    <2>1. IsSet(c.entries[s].tables, Tables) /\ IsSet(c.entries[s].indexes, Indexes)
      BY DEF IsCache, IsSchema
    <2>. QED  BY <1>2, <2>1, SchemaOf
  <1>4. IsCache(d)
    BY <1>1, <1>3 DEF IsCache, IsSet
  <1>. QED  BY <1>1, <1>2, <1>4 DEF d

LEMMA LoadSchemasFits ==
  ASSUME IsServer(server), IsCache(cache)
  PROVE  /\ IsCache(LoadSchemas) /\ LoadSchemas.loaded
         /\ Fits(settings, cache, server) => Fits(settings, LoadSchemas, server)
  <1> DEFINE rows == [s \in DOMAIN server.schemas |-> EmptySchema]
             d == LoadSchemas
  <1>1. CASE cache.loaded
    BY <1>1 DEF LoadSchemas
  <1>2. CASE ~cache.loaded
    <2>1. d = Load(cache, rows)
      BY <1>2 DEF LoadSchemas
    <2>2. IsSet(cache, Schemas) /\ DOMAIN rows \subseteq Schemas
      BY DEF IsCache, IsServer
    <2> DEFINE old == cache.entries
    <2>3. IsSet(d, Schemas) /\ d.loaded
      BY <2>1, <2>2, LoadedSet
    <2>4. /\ DOMAIN d.entries = DOMAIN old \cup DOMAIN server.schemas
          /\ \A s \in DOMAIN old : d.entries[s] = old[s]
          /\ \A s \in DOMAIN server.schemas \ DOMAIN old : d.entries[s] = EmptySchema
      <3>1. DOMAIN rows = DOMAIN server.schemas /\ \A s \in DOMAIN rows : rows[s] = EmptySchema
        OBVIOUS
      <3> HIDE DEF rows, d
      <3>. QED  BY <2>1, <2>2, <3>1, LoadedSet
    <2> HIDE DEF d
    <2>5. IsCache(d)
      BY <2>3, <2>4, EmptySets DEF IsCache
    <2>6. ASSUME Fits(settings, cache, server)
          PROVE  Fits(settings, d, server)
      <3>1. \A s \in DOMAIN server.schemas : TablesFit(settings, EmptySet, server.schemas[s])
        BY EmptySets DEF TablesFit
      <3>2. CacheFits(settings, d, server)
        BY <2>4, <2>6, <3>1, EmptySets DEF Fits, CacheFits
      <3>3. IndexesExist(d, server)
        BY <2>4, <2>6, EmptySets DEF Fits, IndexesExist
      <3>. QED  BY <3>2, <3>3 DEF Fits
    <2>. QED  BY <2>3, <2>5, <2>6 DEF d
  <1>. QED  BY <1>1, <1>2

LEMMA ColumnsOfServer ==
  ASSUME IsServer(server), NEW s, NEW t \in DOMAIN ServerTables(s)
  PROVE  /\ s \in DOMAIN server.schemas /\ t \in DOMAIN server.schemas[s] /\ t \in Tables
         /\ ServerTables(s)[t] = server.schemas[s][t] /\ IsColumns(server.schemas[s][t])
  BY EmptySets DEF ServerTables, IsServer

LEMMA LoadedTableAgrees ==
  ASSUME NEW columns
  PROVE  AsLoaded(settings, LoadedTable(columns), columns)
  BY DEF AsLoaded, LoadedTable, Definition, LoadColumn, TableColumn

LEMMA LoadTablesFits ==
  ASSUME IsServer(server), NEW c, IsCache(c), NEW s \in DOMAIN c.entries
  PROVE  LET d == LoadTables(c, s) IN
         /\ IsCache(d) /\ d.loaded = c.loaded /\ DOMAIN d.entries = DOMAIN c.entries
         /\ d.entries[s].tables.loaded
         /\ Fits(settings, c, server) => Fits(settings, d, server)
  <1> DEFINE d == LoadTables(c, s)
             old == c.entries[s].tables
             rows == [t \in DOMAIN ServerTables(s) |-> LoadedTable(ServerTables(s)[t])]
             tables == Load(old, rows)
  <1>1. CASE old.loaded
    BY <1>1 DEF LoadTables
  <1>2. CASE ~old.loaded
    <2>1. d = [c EXCEPT !.entries[s].tables = tables]
      BY <1>2 DEF LoadTables
    <2>2. s \in Schemas /\ IsSet(old, Tables)
      BY DEF IsCache, IsSet, IsSchema
    <2>3. /\ DOMAIN rows = DOMAIN ServerTables(s)
          /\ \A t \in DOMAIN rows : rows[t] = LoadedTable(ServerTables(s)[t])
      OBVIOUS
    <2> HIDE DEF rows
    <2>4. DOMAIN rows \subseteq Tables
      BY <2>2, <2>3, ColumnsOfServer
    <2>5. /\ IsSet(tables, Tables) /\ tables.loaded
          /\ DOMAIN tables.entries = DOMAIN old.entries \cup DOMAIN rows
          /\ \A t \in DOMAIN old.entries : tables.entries[t] = old.entries[t]
          /\ \A t \in DOMAIN rows \ DOMAIN old.entries : tables.entries[t] = rows[t]
      BY <2>2, <2>4, LoadedSet
    <2> HIDE DEF tables
    <2>6. /\ IsCache(d) /\ d.loaded = c.loaded /\ DOMAIN d.entries = DOMAIN c.entries
          /\ d.entries[s].tables = tables /\ d.entries[s].indexes = c.entries[s].indexes
          /\ \A x \in DOMAIN c.entries \ {s} : d.entries[x] = c.entries[x]
      BY <2>1, <2>5, WithTables
    <2> HIDE DEF d
    <2>7. ASSUME Fits(settings, c, server)
          PROVE  Fits(settings, d, server)
      <3>1. s \in DOMAIN server.schemas /\ TablesFit(settings, old, server.schemas[s])
        BY <2>7 DEF Fits, CacheFits
      <3>2. ServerTables(s) = server.schemas[s]
        BY <3>1 DEF ServerTables
      <3>3. DOMAIN tables.entries = DOMAIN server.schemas[s]
        BY <2>3, <2>5, <3>1, <3>2 DEF TablesFit
      <3>4. ASSUME NEW t \in DOMAIN tables.entries
            PROVE  AsLoaded(settings, tables.entries[t], server.schemas[s][t])
        <4>1. CASE t \in DOMAIN old.entries
          <5>1. tables.entries[t] = old.entries[t]
            BY <2>5, <4>1
          <5>. QED  BY <3>1, <4>1, <5>1 DEF TablesFit
        <4>2. CASE t \notin DOMAIN old.entries
          <5>1. tables.entries[t] = LoadedTable(server.schemas[s][t])
            BY <2>3, <2>5, <3>2, <3>3, <4>2
          <5>. QED  BY <5>1, LoadedTableAgrees
        <4>. QED  BY <4>1, <4>2
      <3>5. TablesFit(settings, tables, server.schemas[s])
        BY <3>3, <3>4 DEF TablesFit
      <3>6. CacheFits(settings, d, server)
        BY <2>6, <2>7, <3>5 DEF Fits, CacheFits
      <3>7. IndexesExist(d, server)
        BY <2>6, <2>7 DEF Fits, IndexesExist
      <3>. QED  BY <3>6, <3>7 DEF Fits
    <2>. QED  BY <2>5, <2>6, <2>7 DEF d
  <1>. QED  BY <1>1, <1>2

LEMMA LoadIndexesFits ==
  ASSUME IsServer(server), NEW c, IsCache(c), NEW s \in DOMAIN c.entries,
         NEW d \in LoadIndexes(c, s)
  PROVE  /\ IsCache(d) /\ d.loaded = c.loaded /\ DOMAIN d.entries = DOMAIN c.entries
         /\ Fits(settings, c, server) => Fits(settings, d, server)
  <1> DEFINE old   == c.entries[s].indexes
             rows  == {i \in server.indexes : i.schema = IndexSchema}
             names == {i.name : i \in rows}
             choices == {f \in [names -> Tables] :
                          \A n \in names : \E i \in rows : i.name = n /\ i.table = f[n]}
  <1>1. CASE old.loaded
    <2>1. d = c
      BY <1>1 DEF LoadIndexes
    <2>. QED  BY <2>1
  <1>2. CASE ~old.loaded
    <2>1. PICK f \in choices : d = [c EXCEPT !.entries[s].indexes = Load(@, f)]
      BY <1>2 DEF LoadIndexes
    <2> DEFINE indexes == Load(old, f)
    <2>2. d = [c EXCEPT !.entries[s].indexes = indexes]
      BY <2>1
    <2>3. IsSet(old, Indexes)
      BY DEF IsCache, IsSchema
    <2>4. DOMAIN f = names /\ names \subseteq Indexes
      BY <2>1 DEF IsServer, IsIndex
    <2>5. /\ IsSet(indexes, Indexes)
          /\ DOMAIN indexes.entries = DOMAIN old.entries \cup DOMAIN f
          /\ \A n \in DOMAIN old.entries : indexes.entries[n] = old.entries[n]
          /\ \A n \in DOMAIN f \ DOMAIN old.entries : indexes.entries[n] = f[n]
      BY <2>3, <2>4, LoadedSet
    <2>6. \A n \in DOMAIN f :
            [schema |-> IndexSchema, table |-> f[n], name |-> n] \in server.indexes
      <3>1. SUFFICES ASSUME NEW n \in names
                     PROVE  [schema |-> IndexSchema, table |-> f[n], name |-> n]
                              \in server.indexes
        BY <2>4
      <3>2. PICK i \in rows : i.name = n /\ i.table = f[n]
        BY <2>1
      <3>3. i = [schema |-> i.schema, table |-> i.table, name |-> i.name]
        BY <3>2 DEF IsServer, IsIndex
      <3>. QED  BY <3>2, <3>3
    <2> HIDE DEF indexes, choices, names, rows
    <2>7. /\ IsCache(d) /\ d.loaded = c.loaded /\ DOMAIN d.entries = DOMAIN c.entries
          /\ d.entries[s].tables = c.entries[s].tables /\ d.entries[s].indexes = indexes
          /\ \A x \in DOMAIN c.entries \ {s} : d.entries[x] = c.entries[x]
      BY <2>2, <2>5, WithIndexes
    <2>8. ASSUME Fits(settings, c, server)
          PROVE  Fits(settings, d, server)
      <3>1. CacheFits(settings, d, server)
        BY <2>7, <2>8 DEF Fits, CacheFits
      <3>2. CASE s # IndexSchema
        BY <2>7, <2>8, <3>1, <3>2 DEF Fits, IndexesExist
      <3>3. CASE s = IndexSchema
        <4>1. \A n \in DOMAIN old.entries :
                [schema |-> IndexSchema, table |-> old.entries[n], name |-> n] \in server.indexes
          BY <2>8, <3>3 DEF Fits, IndexesExist
        <4>2. ASSUME NEW n \in DOMAIN indexes.entries
              PROVE  [schema |-> IndexSchema, table |-> indexes.entries[n], name |-> n]
                       \in server.indexes
          BY <2>5, <2>6, <4>1
        <4>3. IndexesExist(d, server)
          BY <2>7, <3>3, <4>2 DEF IndexesExist
        <4>. QED  BY <3>1, <4>3 DEF Fits
      <3>. QED  BY <3>2, <3>3
    <2>. QED  BY <2>7, <2>8
  <1>. QED  BY <1>1, <1>2

LEMMA ColumnSequence ==
  ASSUME NEW n \in Nat, NEW f, f = [i \in 1..n |-> f[i]]
  PROVE  f \in Seq({f[i] : i \in DOMAIN f}) /\ Len(f) = n /\ DOMAIN f = 1..n
  <1> DEFINE S == {f[i] : i \in DOMAIN f}
  <1>1. DOMAIN f = 1..n
    OBVIOUS
  <1>2. \A i \in 1..n : f[i] \in S
    BY <1>1
  <1> HIDE DEF S
  <1>3. f \in [1..n -> S]
    BY <1>2
  <1>4. f \in Seq(S)
    BY <1>3, SeqDef
  <1>5. Len(f) = n
    BY <1>1, <1>4, LenProperties
  <1>. QED  BY <1>1, <1>4, <1>5 DEF S

LEMMA SomeColumns == MaxColumns \in Nat \ {0}
  BY CatalogAssumption DEF CatalogAssumption

LEMMA OneColumn ==
  ASSUME NEW column, IsTypeData(column.type)
  PROVE  IsColumns(<<column>>)
  <1> DEFINE f == <<column>>
  <1>1. f = [i \in 1..1 |-> f[i]] /\ f[1] = column /\ 1 \in Nat
    OBVIOUS
  <1> HIDE DEF f
  <1>2. f \in Seq({f[i] : i \in DOMAIN f}) /\ Len(f) = 1 /\ DOMAIN f = 1..1
    BY <1>1, ColumnSequence
  <1>3. IsColumns(f)
    BY <1>1, <1>2, SomeColumns DEF IsColumns
  <1>. QED  BY <1>3 DEF f

LEMMA OneMore ==
  ASSUME NEW columns, IsColumns(columns), Len(columns) < MaxColumns,
         NEW column, IsTypeData(column.type)
  PROVE  IsColumns(Append(columns, column))
  <1> DEFINE f == Append(columns, column)
             n == Len(columns)
             S == {columns[i] : i \in DOMAIN columns} \cup {column}
  <1>1. columns \in Seq({columns[i] : i \in DOMAIN columns}) /\ n \in 1..MaxColumns
    BY DEF IsColumns
  <1>2. columns \in Seq(S) /\ column \in S
    BY <1>1, SeqMonotonic
  <1> HIDE DEF S
  <1>3. /\ f \in Seq(S) /\ Len(f) = n + 1 /\ f[n + 1] = column
        /\ \A i \in 1..n : f[i] = columns[i]
    BY <1>2, AppendProperties
  <1>4. DOMAIN columns = 1..n /\ DOMAIN f = 1..(n + 1)
    BY <1>2, <1>3, LenProperties
  <1>5. n \in Nat /\ n + 1 \in 1..MaxColumns
    BY <1>1, SomeColumns
  <1> HIDE DEF f
  <1>6. f = [i \in 1..(n + 1) |-> f[i]]
    BY <1>3, <1>4, <1>5, SeqDef
  <1>7. f \in Seq({f[i] : i \in DOMAIN f})
    BY <1>5, <1>6, ColumnSequence
  <1>8. \A i \in DOMAIN columns : IsTypeData(columns[i].type)
    BY DEF IsColumns
  <1>9. \A i \in DOMAIN f : IsTypeData(f[i].type)
    <2>1. SUFFICES ASSUME NEW i \in 1..(n + 1)
                   PROVE  IsTypeData(f[i].type)
      BY <1>4
    <2>2. CASE i = n + 1
      BY <1>3, <2>2 DEF f
    <2>3. CASE i \in 1..n
      BY <1>3, <1>4, <1>8, <2>3 DEF f
    <2>. QED  BY <1>5, <2>2, <2>3
  <1>10. Len(f) = n + 1
    BY <1>3 DEF f
  <1>11. IsColumns(f)
    BY <1>5, <1>7, <1>9, <1>10 DEF IsColumns
  <1>. QED  BY <1>11 DEF f

(***************************************************************************)
(* What CREATE TABLE enters is what a load of the table it has made says.  *)
(***************************************************************************)
LEMMA CreatedAgrees ==
  ASSUME NEW column, IsLogicalType(column.type),
         column.constraints \subseteq {"NOT NULL", "UNIQUE", "PRIMARY KEY"},
         NEW made, made = Made(ColumnToSQL(column)), made.type # Refused,
         NEW set \in Settings
  PROVE  /\ IsTypeData(made.type)
         /\ \/ Entered(column) = TableColumn(TypeToLogicalType(set, made.type), made.notNull)
            \/ /\ Entered(column).type = Type("BOOLEAN") /\ ~set.tinyint1
               /\ made.type = Column("tinyint", 1, FALSE)
  <1> DEFINE my == ToMySQLType(column.type)
             words == ColumnToSQL(column).words
             keys  == {"NOT NULL", "PRIMARY KEY"}
  <1>1. ColumnToSQL(column).type = TypeToString(my)
    BY DEF ColumnToSQL
  <1>2. /\ made.type = Declared(TypeToString(my))
        /\ made.notNull = (words \cap keys # {})
    <2>1. made.type \in {Refused, Declared(TypeToString(my))}
      BY <1>1 DEF Made, TableColumn
    <2>2. made.notNull = (words \cap keys # {})
      BY DEF Made, TableColumn
    <2>. QED  BY <2>1, <2>2
  <1>3. (words \cap keys # {}) = (column.constraints \cap keys # {})
    <2>1. words = IF "PRIMARY KEY" \in column.constraints
                  THEN column.constraints \ {"NOT NULL"} ELSE column.constraints
      BY DEF ColumnToSQL
    <2>. QED  BY <2>1
  <1>4. Entered(column) = TableColumn(my, made.notNull) /\ Entered(column).type = my
    BY <1>2, <1>3 DEF Entered, TableColumn
  <1>5. ComesBack(my, set)
    BY TypesComeBack
  <1> HIDE DEF my
  <1>. QED  BY <1>2, <1>4, <1>5 DEF ComesBack

LEMMA ErasedFits ==
  ASSUME IsServer(server), NEW c, IsCache(c), NEW s
  PROVE  LET v == WithoutSchema(s)
             d == EraseEntry(c, s)
         IN /\ IsServer(v) /\ s \notin DOMAIN v.schemas
            /\ IsCache(d)
            /\ Fits(settings, c, server) => Fits(settings, d, v)
  <1> DEFINE v == WithoutSchema(s)
             d == EraseEntry(c, s)
  <1>1. /\ v = [schemas |-> v.schemas, indexes |-> v.indexes]
        /\ DOMAIN v.schemas = DOMAIN server.schemas \ {s}
        /\ \A x \in DOMAIN v.schemas : v.schemas[x] = server.schemas[x]
        /\ v.indexes = {i \in server.indexes : i.schema # s}
    BY DEF WithoutSchema
  <1>2. /\ d = [loaded |-> d.loaded, entries |-> d.entries] /\ d.loaded = c.loaded
        /\ DOMAIN d.entries = DOMAIN c.entries \ {s}
        /\ \A x \in DOMAIN d.entries : d.entries[x] = c.entries[x]
    BY DEF EraseEntry, IsCache, IsSet
  <1> HIDE DEF v, d
  <1>3. IsServer(v)
    <2>1. ASSUME NEW index \in v.indexes
          PROVE  IsIndex(index, v.schemas)
      BY <1>1 DEF IsServer, IsIndex
    <2>2. \A x \in DOMAIN v.schemas : \A t \in DOMAIN v.schemas[x] :
            t \in Tables /\ IsColumns(v.schemas[x][t])
      BY <1>1 DEF IsServer
    <2>. QED  BY <1>1, <2>1, <2>2 DEF IsServer
  <1>4. IsCache(d)
    BY <1>2 DEF IsCache, IsSet
  <1>5. ASSUME Fits(settings, c, server)
        PROVE  Fits(settings, d, v)
    <2>1. CacheFits(settings, d, v)
      BY <1>1, <1>2, <1>5 DEF Fits, CacheFits
    <2>2. IndexesExist(d, v)
      BY <1>1, <1>2, <1>5 DEF Fits, IndexesExist
    <2>. QED  BY <2>1, <2>2 DEF Fits
  <1>. QED  BY <1>1, <1>3, <1>4, <1>5 DEF v, d

LEMMA CreatedSchemaFits ==
  ASSUME NEW v, IsServer(v), NEW c, IsCache(c), NEW s \in Schemas, s \notin DOMAIN v.schemas
  PROVE  LET w == [v EXCEPT !.schemas = Put(@, s, None)]
             d == [c EXCEPT !.entries = InsertOne(@, s, EmptySchema)]
         IN /\ IsServer(w) /\ IsCache(d)
            /\ Fits(settings, c, v) => Fits(settings, d, w)
  <1> DEFINE w == [v EXCEPT !.schemas = Put(@, s, None)]
             d == [c EXCEPT !.entries = InsertOne(@, s, EmptySchema)]
             schemas == Put(v.schemas, s, None)
             entries == InsertOne(c.entries, s, EmptySchema)
  <1>1. /\ DOMAIN schemas = DOMAIN v.schemas \cup {s} /\ schemas[s] = None
        /\ \A x \in DOMAIN v.schemas \ {s} : schemas[x] = v.schemas[x]
    BY DEF Put
  <1>2. /\ DOMAIN entries = DOMAIN c.entries \cup {s}
        /\ \A x \in DOMAIN c.entries : entries[x] = c.entries[x]
        /\ s \notin DOMAIN c.entries => entries[s] = EmptySchema
    BY InsertedOne
  <1> HIDE DEF schemas, entries
  <1>3. w = [schemas |-> schemas, indexes |-> v.indexes]
    BY DEF IsServer, schemas
  <1>4. d = [loaded |-> c.loaded, entries |-> entries]
    BY DEF IsCache, IsSet, entries
  <1>5. /\ w = [schemas |-> w.schemas, indexes |-> w.indexes]
        /\ w.schemas = schemas /\ w.indexes = v.indexes
    BY <1>3
  <1>6. /\ d = [loaded |-> d.loaded, entries |-> d.entries]
        /\ d.loaded = c.loaded /\ d.entries = entries
    BY <1>4
  <1> HIDE DEF w, d
  <1>7. IsServer(w)
    <2>1. ASSUME NEW index \in w.indexes
          PROVE  IsIndex(index, w.schemas)
      BY <1>1, <1>5 DEF IsServer, IsIndex
    <2>2. \A x \in DOMAIN w.schemas : \A t \in DOMAIN w.schemas[x] :
            t \in Tables /\ IsColumns(w.schemas[x][t])
      BY <1>1, <1>5, EmptySets DEF IsServer
    <2>3. DOMAIN w.schemas \subseteq Schemas
      BY <1>1, <1>5 DEF IsServer
    <2>. QED  BY <1>5, <2>1, <2>2, <2>3 DEF IsServer
  <1>8. IsCache(d)
    <2>1. \A x \in DOMAIN entries : IsSchema(entries[x])
      BY <1>2, EmptySets DEF IsCache
    <2>. QED  BY <1>2, <1>6, <2>1 DEF IsCache, IsSet
  <1>9. ASSUME Fits(settings, c, v)
        PROVE  Fits(settings, d, w)
    <2>0. s \notin DOMAIN c.entries /\ d.entries[s] = EmptySchema
      BY <1>2, <1>6, <1>9 DEF Fits, CacheFits
    <2>1. TablesFit(settings, d.entries[s].tables, w.schemas[s])
      BY <1>1, <1>5, <2>0, EmptySets DEF TablesFit
    <2>2. CacheFits(settings, d, w)
      BY <1>1, <1>2, <1>5, <1>6, <1>9, <2>0, <2>1 DEF Fits, CacheFits
    <2>3. IndexesExist(d, w)
      BY <1>2, <1>5, <1>6, <1>9, <2>0, EmptySets DEF Fits, IndexesExist
    <2>. QED  BY <2>2, <2>3 DEF Fits
  <1>. QED  BY <1>7, <1>8, <1>9 DEF w, d

LEMMA LookedUp ==
  ASSUME CatalogInv, NEW s, Finds(s)
  PROVE  LET c == LoadTables(LoadSchemas, Named(s)) IN
         /\ IsCache(LoadSchemas) /\ IsCache(c)
         /\ Named(s) \in DOMAIN LoadSchemas.entries /\ Named(s) \in DOMAIN c.entries
         /\ Named(s) \in Schemas
         /\ c.entries[Named(s)].tables.loaded
         /\ ~outdated => Fits(settings, LoadSchemas, server) /\ Fits(settings, c, server)
  <1>1. IsCache(LoadSchemas) /\ (~outdated => Fits(settings, LoadSchemas, server))
    BY LoadSchemasFits DEF CatalogInv
  <1>2. Named(s) \in DOMAIN LoadSchemas.entries
    BY DEF Finds
  <1>3. Named(s) \in Schemas
    BY <1>1, <1>2 DEF IsCache, IsSet
  <1>. QED  BY <1>1, <1>2, <1>3, LoadTablesFits DEF CatalogInv

LEMMA Changed ==
  ASSUME CatalogInv, Change
  PROVE  changes' \in 0..MaxChanges
  <1>1. MaxChanges \in Nat
    BY CatalogAssumption DEF CatalogAssumption
  <1>2. changes \in 0..MaxChanges /\ changes < MaxChanges /\ changes' = changes + 1
    BY DEF CatalogInv, Change
  <1>. QED  BY <1>1, <1>2
-----------------------------------------------------------------------------
(***************************************************************************)
(* The invariant holds after every statement.                              *)
(***************************************************************************)
LEMMA LooksUpKeeps ==
  ASSUME CatalogInv, NEW c, IsCache(c), ~outdated => Fits(settings, c, server), LooksUp(c)
  PROVE  CatalogInv'
  BY DEF CatalogInv, LooksUp

LEMMA MissSchemaKeeps ==
  ASSUME CatalogInv, NEW s, MissSchema(s)
  PROVE  CatalogInv'
  <1> DEFINE c == IF Named(s) = NoSchema THEN cache ELSE LoadSchemas
  <1>1. IsCache(c) /\ (~outdated => Fits(settings, c, server))
    BY LoadSchemasFits DEF CatalogInv
  <1>2. LooksUp(c)
    BY DEF MissSchema
  <1> HIDE DEF c
  <1>. QED  BY <1>1, <1>2, LooksUpKeeps

LEMMA UseTablesKeeps ==
  ASSUME CatalogInv, NEW s, UseTables(s)
  PROVE  CatalogInv'
  <1> DEFINE c == LoadTables(LoadSchemas, Named(s))
  <1>1. Finds(s) /\ LooksUp(c)
    BY DEF UseTables
  <1>2. IsCache(c) /\ (~outdated => Fits(settings, c, server))
    BY <1>1, LookedUp
  <1> HIDE DEF c
  <1>. QED  BY <1>1, <1>2, LooksUpKeeps

LEMMA UseIndexesKeeps ==
  ASSUME CatalogInv, NEW s, UseIndexes(s)
  PROVE  CatalogInv'
  <1>1. PICK c \in LoadIndexes(LoadSchemas, Named(s)) : Finds(s) /\ LooksUp(c)
    BY DEF UseIndexes
  <1>2. IsCache(c) /\ (~outdated => Fits(settings, c, server))
    BY <1>1, LookedUp, LoadIndexesFits DEF CatalogInv
  <1>. QED  BY <1>1, <1>2, LooksUpKeeps

LEMMA CreateSchemaKeeps ==
  ASSUME CatalogInv, NEW s \in Schemas, NEW replace \in BOOLEAN, CreateSchema(s, replace)
  PROVE  CatalogInv'
  <1> DEFINE v == IF replace THEN WithoutSchema(s) ELSE server
             c == IF replace THEN EraseEntry(cache, s) ELSE cache
  <1>1. IsServer(v) /\ IsCache(c) /\ (~outdated => Fits(settings, c, v))
    BY ErasedFits DEF CatalogInv
  <1>2. \/ /\ s \notin DOMAIN v.schemas
           /\ server' = [v EXCEPT !.schemas = Put(@, s, None)]
           /\ cache' = [c EXCEPT !.entries = InsertOne(@, s, EmptySchema)]
        \/ server' = v /\ cache' = c
    BY DEF CreateSchema
  <1>3. changes' \in 0..MaxChanges
    BY Changed DEF CreateSchema
  <1>4. UNCHANGED <<database, settings, outdated>>
    BY DEF CreateSchema
  <1> HIDE DEF v, c
  <1>5. IsServer(server') /\ IsCache(cache') /\ (~outdated => Fits(settings, cache', server'))
    BY <1>1, <1>2, CreatedSchemaFits
  <1>. QED  BY <1>3, <1>4, <1>5 DEF CatalogInv

LEMMA DropSchemaKeeps ==
  ASSUME CatalogInv, NEW s \in Schemas, NEW ifExists, DropSchema(s, ifExists)
  PROVE  CatalogInv'
  <1>1. IsServer(server') /\ IsCache(cache') /\ (~outdated => Fits(settings, cache', server'))
    BY ErasedFits DEF CatalogInv, DropSchema
  <1>2. changes' \in 0..MaxChanges
    BY Changed DEF DropSchema
  <1>. QED  BY <1>1, <1>2 DEF CatalogInv, DropSchema

LEMMA ChangedTables ==
  ASSUME IsServer(server), NEW s \in DOMAIN server.schemas, NEW tables,
         DOMAIN server.schemas[s] \subseteq DOMAIN tables,
         \A t \in DOMAIN tables : t \in Tables /\ IsColumns(tables[t])
  PROVE  LET w == [server EXCEPT !.schemas[s] = tables] IN
         /\ IsServer(w) /\ w.indexes = server.indexes
         /\ DOMAIN w.schemas = DOMAIN server.schemas /\ w.schemas[s] = tables
         /\ \A x \in DOMAIN server.schemas \ {s} : w.schemas[x] = server.schemas[x]
  <1> DEFINE w == [server EXCEPT !.schemas[s] = tables]
  <1>1. /\ w = [schemas |-> w.schemas, indexes |-> w.indexes] /\ w.indexes = server.indexes
        /\ DOMAIN w.schemas = DOMAIN server.schemas /\ w.schemas[s] = tables
        /\ \A x \in DOMAIN server.schemas \ {s} : w.schemas[x] = server.schemas[x]
    BY DEF IsServer
  <1> HIDE DEF w
  <1>2. ASSUME NEW index \in w.indexes
        PROVE  IsIndex(index, w.schemas)
    <2>1. /\ index = [schema |-> index.schema, table |-> index.table, name |-> index.name]
          /\ index.schema \in DOMAIN server.schemas
          /\ index.table \in DOMAIN server.schemas[index.schema] /\ index.name \in Indexes
      BY <1>1 DEF IsServer, IsIndex
    <2>2. index.table \in DOMAIN w.schemas[index.schema]
      BY <1>1, <2>1
    <2>. QED  BY <1>1, <2>1, <2>2 DEF IsIndex
  <1>3. \A x \in DOMAIN w.schemas : \A t \in DOMAIN w.schemas[x] :
          t \in Tables /\ IsColumns(w.schemas[x][t])
    BY <1>1 DEF IsServer
  <1>4. IsServer(w)
    BY <1>1, <1>2, <1>3 DEF IsServer
  <1>. QED  BY <1>1, <1>4 DEF w

\* A cache with one more entry in the set of tables of a schema.
WithTable(c, s, t, definition) ==
  [c EXCEPT !.entries[s].tables.entries = InsertOne(@, t, definition)]

LEMMA EnteredTable ==
  ASSUME NEW c, IsCache(c), NEW s \in DOMAIN c.entries, NEW t \in Tables, NEW definition
  PROVE  /\ IsCache(WithTable(c, s, t, definition))
         /\ LET d == WithTable(c, s, t, definition)
                old == c.entries[s].tables
                new == d.entries[s].tables
            IN
            /\ d.loaded = c.loaded /\ DOMAIN d.entries = DOMAIN c.entries
            /\ \A x \in DOMAIN c.entries \ {s} : d.entries[x] = c.entries[x]
            /\ d.entries[s].indexes = c.entries[s].indexes
            /\ new.loaded = old.loaded /\ DOMAIN new.entries = DOMAIN old.entries \cup {t}
            /\ \A x \in DOMAIN old.entries : new.entries[x] = old.entries[x]
            /\ t \notin DOMAIN old.entries => new.entries[t] = definition
  <1> DEFINE d == WithTable(c, s, t, definition)
             old == c.entries[s].tables
             new == d.entries[s].tables
  <1> DEFINE entries == InsertOne(old.entries, t, definition)
             tables == [old EXCEPT !.entries = entries]
  <1>1. d = [c EXCEPT !.entries[s].tables = tables]
    BY DEF WithTable
  <1>2. IsSet(old, Tables)
    BY DEF IsCache, IsSchema
  <1>3. /\ DOMAIN entries = DOMAIN old.entries \cup {t}
        /\ \A x \in DOMAIN old.entries : entries[x] = old.entries[x]
        /\ t \notin DOMAIN old.entries => entries[t] = definition
    BY InsertedOne
  <1> HIDE DEF entries
  <1>4. tables = [loaded |-> old.loaded, entries |-> entries]
    BY <1>2 DEF IsSet
  <1> HIDE DEF tables
  <1>5. IsSet(tables, Tables) /\ tables.loaded = old.loaded /\ tables.entries = entries
    BY <1>2, <1>3, <1>4 DEF IsSet
  <1> DEFINE e == [c EXCEPT !.entries[s].tables = tables]
  <1>6. /\ IsCache(e) /\ e.loaded = c.loaded /\ DOMAIN e.entries = DOMAIN c.entries
        /\ e.entries[s].tables = tables /\ e.entries[s].indexes = c.entries[s].indexes
        /\ \A x \in DOMAIN c.entries \ {s} : e.entries[x] = c.entries[x]
    BY <1>5, WithTables
  <1>7. d = e
    BY <1>1
  <1> HIDE DEF e
  <1>. QED  BY <1>3, <1>5, <1>6, <1>7

LEMMA CreateTableKeeps ==
  ASSUME CatalogInv, NEW s, NEW t \in Tables, NEW columns \in Columns, NEW ifNotExists,
         CreateTable(s, t, columns, ifNotExists)
  PROVE  CatalogInv'
  <1> DEFINE schema == Named(s)
             c      == LoadTables(LoadSchemas, schema)
             made   == [i \in DOMAIN columns |-> Made(ColumnToSQL(columns[i]))]
             definition == Definition([i \in DOMAIN columns |-> Entered(columns[i])], TRUE)
             entered == WithTable(c, schema, t, definition)
  <1>1. /\ Finds(s) /\ schema \in DOMAIN server.schemas
        /\ \A i \in DOMAIN made : made[i].type # Refused
        /\ cache' = entered
        /\ UNCHANGED <<database, settings, outdated>>
    BY DEF CreateTable, WithTable
  <1>2. \/ /\ t \notin DOMAIN ServerTables(schema)
           /\ server' = [server EXCEPT !.schemas[schema] = Put(@, t, made)]
        \/ t \in DOMAIN ServerTables(schema) /\ UNCHANGED server
    BY DEF CreateTable
  <1>3. changes' \in 0..MaxChanges
    BY Changed DEF CreateTable
  <1>4. /\ IsCache(c) /\ schema \in DOMAIN c.entries /\ c.entries[schema].tables.loaded
        /\ ~outdated => Fits(settings, c, server)
    BY <1>1, LookedUp
  <1>5. IsServer(server) /\ settings \in Settings /\ outdated \in BOOLEAN
        /\ database \in Schemas \cup {NoSchema}
    BY DEF CatalogInv
  <1>6. ServerTables(schema) = server.schemas[schema]
    BY <1>1 DEF ServerTables
  <1>7. IsColumns(made) /\ AsLoaded(settings, definition, made)
    <2>1. PICK column : /\ columns = <<column>> /\ column.type \in DuckTypes
                        /\ column.constraints \in Constraints
      BY DEF Columns
    <2>2. /\ IsLogicalType(column.type)
          /\ column.constraints \subseteq {"NOT NULL", "UNIQUE", "PRIMARY KEY"}
      BY <2>1, CatalogAssumption DEF CatalogAssumption
    <2> DEFINE one == Made(ColumnToSQL(column))
    <2>3. DOMAIN columns = 1..1 /\ columns[1] = column
      BY <2>1
    <2>4. made = [i \in 1..1 |-> made[i]] /\ made[1] = one /\ DOMAIN made = 1..1
      BY <2>3
    <2>5. /\ DOMAIN definition.columns = 1..1 /\ definition.columns[1] = Entered(column)
          /\ definition.made
      BY <2>3 DEF Definition
    <2> HIDE DEF one, made, definition
    <2>6. one.type # Refused
      BY <1>1, <2>4
    <2>7. /\ IsTypeData(one.type)
          /\ \/ Entered(column) = TableColumn(TypeToLogicalType(settings, one.type), one.notNull)
             \/ /\ Entered(column).type = Type("BOOLEAN") /\ ~settings.tinyint1
                /\ one.type = Column("tinyint", 1, FALSE)
      BY <1>5, <2>2, <2>6, CreatedAgrees DEF one
    <2>8. made \in Seq({made[i] : i \in DOMAIN made}) /\ Len(made) = 1
      BY <2>4, ColumnSequence
    <2>9. IsColumns(made)
      BY <2>4, <2>7, <2>8, SomeColumns DEF IsColumns
    <2>10. AsLoaded(settings, definition, made)
      <3>1. SUFFICES ASSUME NEW i \in DOMAIN made
                     PROVE  \/ definition.columns[i] =
                                 TableColumn(TypeToLogicalType(settings, made[i].type), made[i].notNull)
                            \/ /\ definition.made /\ definition.columns[i].type = Type("BOOLEAN")
                               /\ ~settings.tinyint1
                               /\ made[i].type = Column("tinyint", 1, FALSE)
        BY <2>4, <2>5 DEF AsLoaded
      <3>2. made[i] = one /\ definition.columns[i] = Entered(column)
        BY <2>4, <2>5
      <3>. QED  BY <2>5, <2>7, <3>2
    <2>. QED  BY <2>9, <2>10
  <1> DEFINE old == c.entries[schema].tables
             new == entered.entries[schema].tables
  <1> HIDE DEF schema, c, made, definition
  <1>8. /\ IsCache(entered) /\ entered.loaded = c.loaded
        /\ DOMAIN entered.entries = DOMAIN c.entries
        /\ \A x \in DOMAIN c.entries \ {schema} : entered.entries[x] = c.entries[x]
        /\ entered.entries[schema].indexes = c.entries[schema].indexes
        /\ new.loaded = old.loaded /\ DOMAIN new.entries = DOMAIN old.entries \cup {t}
        /\ \A x \in DOMAIN old.entries : new.entries[x] = old.entries[x]
        /\ t \notin DOMAIN old.entries => new.entries[t] = definition
    <2>1. schema \in DOMAIN c.entries /\ IsCache(c)
      BY <1>4
    <2>2. IsCache(WithTable(c, schema, t, definition))
      BY <2>1, EnteredTable
    <2>. QED  BY <2>1, EnteredTable
  <1> HIDE DEF entered
  <1>9. IndexesExist(c, server) => IndexesExist(entered, server)
    BY <1>8 DEF IndexesExist
  <1>10. CASE t \in DOMAIN ServerTables(schema) /\ UNCHANGED server
    <2>1. ASSUME ~outdated
          PROVE  Fits(settings, entered, server)
      <3>1. Fits(settings, c, server)
        BY <1>4, <2>1
      <3>2. TablesFit(settings, old, server.schemas[schema])
        BY <1>4, <3>1 DEF Fits, CacheFits
      <3>3. t \in DOMAIN old.entries
        BY <1>4, <1>6, <1>10, <3>2 DEF TablesFit
      <3>4. TablesFit(settings, new, server.schemas[schema])
        BY <1>8, <3>2, <3>3 DEF TablesFit
      <3>5. CacheFits(settings, entered, server)
        BY <1>8, <3>1, <3>4 DEF Fits, CacheFits
      <3>. QED  BY <1>9, <3>1, <3>5 DEF Fits
    <2>. QED  BY <1>1, <1>3, <1>5, <1>8, <1>10, <2>1 DEF CatalogInv
  <1>11. CASE /\ t \notin DOMAIN ServerTables(schema)
              /\ server' = [server EXCEPT !.schemas[schema] = Put(@, t, made)]
    <2> DEFINE tables == Put(server.schemas[schema], t, made)
    <2>1. /\ DOMAIN tables = DOMAIN server.schemas[schema] \cup {t} /\ tables[t] = made
          /\ \A x \in DOMAIN server.schemas[schema] \ {t} :
               tables[x] = server.schemas[schema][x]
      BY DEF Put
    <2>2. server' = [server EXCEPT !.schemas[schema] = tables]
      BY <1>11
    <2> HIDE DEF tables
    <2>3. \A x \in DOMAIN tables : x \in Tables /\ IsColumns(tables[x])
      BY <1>1, <1>5, <1>7, <2>1 DEF IsServer
    <2>4. /\ IsServer(server') /\ server'.indexes = server.indexes
          /\ DOMAIN server'.schemas = DOMAIN server.schemas /\ server'.schemas[schema] = tables
          /\ \A x \in DOMAIN server.schemas \ {schema} : server'.schemas[x] = server.schemas[x]
      BY <1>1, <1>5, <2>1, <2>2, <2>3, ChangedTables
    <2>5. ASSUME ~outdated
          PROVE  Fits(settings, entered, server')
      <3>1. Fits(settings, c, server)
        BY <1>4, <2>5
      <3>2. TablesFit(settings, old, server.schemas[schema])
        BY <1>4, <3>1 DEF Fits, CacheFits
      <3>3. DOMAIN old.entries = DOMAIN server.schemas[schema] /\ t \notin DOMAIN old.entries
        BY <1>4, <1>6, <1>11, <3>2 DEF TablesFit
      <3>4. TablesFit(settings, new, tables)
        BY <1>7, <1>8, <2>1, <3>2, <3>3 DEF TablesFit
      <3>5. CacheFits(settings, entered, server')
        BY <1>8, <2>4, <3>1, <3>4 DEF Fits, CacheFits
      <3>6. IndexesExist(entered, server')
        BY <1>9, <2>4, <3>1 DEF Fits, IndexesExist
      <3>. QED  BY <3>5, <3>6 DEF Fits
    <2>. QED  BY <1>1, <1>3, <1>5, <1>8, <2>4, <2>5 DEF CatalogInv
  <1>. QED  BY <1>2, <1>10, <1>11

LEMMA DeclaredData ==
  ASSUME NEW type, IsLogicalType(type)
  PROVE  IsTypeData(Declared(LogicalTypeToString(type)))
  <1> DEFINE text == LogicalTypeToString(type)
  <1>1. /\ text.word = IF type.id = "TIMESTAMP_TZ" THEN "TIMESTAMP WITH TIME ZONE" ELSE type.id
        /\ text.width = type.width /\ text.scale = type.scale
    BY DEF LogicalTypeToString
  <1> HIDE DEF text
  <1>2. \/ \E name : Declared(text) = Column(name, 0, FALSE)
        \/ \E name : Declared(text) = Column(name, 0, TRUE)
        \/ \E name : Declared(text) = Column(name, 1, FALSE)
        \/ text.word = "DECIMAL" /\ text.scale <= 30
           /\ Declared(text) = DecimalColumn(text.width, text.scale)
    BY DEF Declared, Plain, Unsigned, Refused
  <1>3. \A name : /\ IsTypeData(Column(name, 0, FALSE)) /\ IsTypeData(Column(name, 0, TRUE))
                  /\ IsTypeData(Column(name, 1, FALSE))
    BY DEF Column, IsTypeData
  <1>4. text.word = "DECIMAL" => IsTypeData(DecimalColumn(text.width, text.scale))
    <2>1. SUFFICES ASSUME type.id = "DECIMAL" PROVE IsTypeData(DecimalColumn(type.width, type.scale))
      BY <1>1
    <2>2. type.width \in Nat /\ type.scale \in Nat
      BY <2>1 DEF IsLogicalType
    <2>. QED  BY <2>2 DEF DecimalColumn, IsTypeData
  <1>. QED  BY <1>2, <1>3, <1>4 DEF text

LEMMA AddColumnKeeps ==
  ASSUME CatalogInv, NEW s, NEW t \in Tables, NEW type \in DuckTypes, AddColumn(s, t, type)
  PROVE  CatalogInv'
  <1> DEFINE schema == Named(s)
             c      == LoadTables(LoadSchemas, schema)
             column == TableColumn(Declared(LogicalTypeToString(type)), FALSE)
             tables == [server.schemas[database] EXCEPT ![t] = Append(@, column)]
             d      == [c EXCEPT !.entries[schema].tables = EmptySet]
  <1>1. /\ Finds(s) /\ t \in DOMAIN ServerTables(database)
        /\ Len(ServerTables(database)[t]) < MaxColumns
        /\ server' = [server EXCEPT !.schemas[database][t] = Append(@, column)]
        /\ cache' = d /\ outdated' = (outdated \/ schema # database)
        /\ UNCHANGED <<database, settings>>
    BY DEF AddColumn
  <1>2. changes' \in 0..MaxChanges
    BY Changed DEF AddColumn
  <1>3. IsServer(server) /\ settings \in Settings /\ outdated \in BOOLEAN
        /\ database \in Schemas \cup {NoSchema}
    BY DEF CatalogInv
  <1>4. /\ database \in DOMAIN server.schemas /\ t \in DOMAIN server.schemas[database]
        /\ ServerTables(database)[t] = server.schemas[database][t]
        /\ IsColumns(server.schemas[database][t])
    BY <1>1, <1>3, ColumnsOfServer
  <1>5. IsTypeData(column.type)
    <2>1. IsLogicalType(type)
      BY CatalogAssumption DEF CatalogAssumption
    <2>. QED  BY <2>1, DeclaredData DEF TableColumn
  <1>6. server' = [server EXCEPT !.schemas[database] = tables]
    BY <1>1
  <1> HIDE DEF column
  <1>7. /\ DOMAIN tables = DOMAIN server.schemas[database]
        /\ \A x \in DOMAIN tables : x \in Tables /\ IsColumns(tables[x])
    <2>1. IsColumns(Append(server.schemas[database][t], column))
      BY <1>1, <1>4, <1>5, OneMore
    <2>. QED  BY <1>3, <1>4, <2>1 DEF IsServer
  <1> HIDE DEF tables
  <1>8. /\ IsServer(server') /\ server'.indexes = server.indexes
        /\ DOMAIN server'.schemas = DOMAIN server.schemas
        /\ \A x \in DOMAIN server.schemas \ {database} : server'.schemas[x] = server.schemas[x]
    BY <1>3, <1>4, <1>6, <1>7, ChangedTables
  <1>9. /\ IsCache(c) /\ schema \in DOMAIN c.entries
        /\ ~outdated => Fits(settings, c, server)
    BY <1>1, LookedUp
  <1> HIDE DEF c, schema
  <1>10. /\ IsCache(d) /\ d.loaded = c.loaded /\ DOMAIN d.entries = DOMAIN c.entries
         /\ d.entries[schema].tables = EmptySet
         /\ d.entries[schema].indexes = c.entries[schema].indexes
         /\ \A x \in DOMAIN c.entries \ {schema} : d.entries[x] = c.entries[x]
    <2>1. IsSet(EmptySet, Tables)
      BY EmptySets
    <2>. QED  BY <1>9, <2>1, WithTables
  <1> HIDE DEF d
  <1>11. ASSUME ~outdated'
         PROVE  Fits(settings, d, server')
    <2>1. schema = database /\ Fits(settings, c, server)
      BY <1>1, <1>9, <1>11
    <2>2. TablesFit(settings, EmptySet, server'.schemas[schema])
      BY EmptySets DEF TablesFit
    <2>3. CacheFits(settings, d, server')
      BY <1>8, <1>10, <2>1, <2>2 DEF Fits, CacheFits
    <2>4. IndexesExist(d, server')
      BY <1>8, <1>10, <2>1 DEF Fits, IndexesExist
    <2>. QED  BY <2>3, <2>4 DEF Fits
  <1>. QED  BY <1>1, <1>2, <1>3, <1>8, <1>10, <1>11 DEF CatalogInv

LEMMA CreateIndexKeeps ==
  ASSUME CatalogInv, NEW s, NEW t \in Tables, NEW name \in Indexes, CreateIndex(s, t, name)
  PROVE  CatalogInv'
  <1> DEFINE c == LoadTables(LoadSchemas, Named(s))
             index == [schema |-> database, table |-> t, name |-> name]
  <1>1. /\ Finds(s) /\ t \in DOMAIN ServerTables(database)
        /\ server' = [server EXCEPT !.indexes = @ \cup {index}]
        /\ cache' = c /\ UNCHANGED <<database, settings, outdated>>
    BY DEF CreateIndex
  <1>2. changes' \in 0..MaxChanges
    BY Changed DEF CreateIndex
  <1>3. IsServer(server)
    BY DEF CatalogInv
  <1>4. database \in DOMAIN server.schemas /\ t \in DOMAIN server.schemas[database]
    BY <1>1, <1>3, ColumnsOfServer
  <1>5. IsIndex(index, server.schemas)
    BY <1>4 DEF IsIndex
  <1> HIDE DEF index
  <1>6. /\ server' = [schemas |-> server'.schemas, indexes |-> server'.indexes]
        /\ server'.schemas = server.schemas /\ server'.indexes = server.indexes \cup {index}
    BY <1>1, <1>3 DEF IsServer
  <1>7. IsServer(server')
    BY <1>3, <1>5, <1>6 DEF IsServer
  <1>8. IsCache(c) /\ (~outdated => Fits(settings, c, server))
    BY <1>1, LookedUp
  <1> HIDE DEF c
  <1>9. ~outdated => Fits(settings, c, server')
    BY <1>6, <1>8 DEF Fits, CacheFits, IndexesExist
  <1>. QED  BY <1>1, <1>2, <1>7, <1>8, <1>9 DEF CatalogInv

LEMMA DropIndexKeeps ==
  ASSUME CatalogInv, NEW s, NEW name \in Indexes, DropIndex(s, name)
  PROVE  CatalogInv'
  <1> DEFINE schema == Named(s)
  <1>1. PICK c \in LoadIndexes(LoadSchemas, schema) :
          LET old     == c.entries[schema].indexes
              index   == [schema |-> database, table |-> old.entries[name], name |-> name]
              others  == [n \in DOMAIN old.entries \ {name} |-> old.entries[n]]
          IN /\ server' = [server EXCEPT !.indexes = @ \ {index}]
             /\ cache' = [c EXCEPT !.entries[schema].indexes.entries = others]
             /\ outdated' = (outdated \/ schema # database)
             /\ UNCHANGED <<database, settings>>
    BY DEF DropIndex
  <1> DEFINE old     == c.entries[schema].indexes
             index   == [schema |-> database, table |-> old.entries[name], name |-> name]
             others  == [n \in DOMAIN old.entries \ {name} |-> old.entries[n]]
             indexes == [old EXCEPT !.entries = others]
             d       == [c EXCEPT !.entries[schema].indexes = indexes]
  <1>2. Finds(s) /\ changes' \in 0..MaxChanges
    BY Changed DEF DropIndex
  <1>3. IsServer(server) /\ settings \in Settings /\ outdated \in BOOLEAN
        /\ database \in Schemas \cup {NoSchema}
    BY DEF CatalogInv
  <1>4. /\ server' = [schemas |-> server'.schemas, indexes |-> server'.indexes]
        /\ server'.schemas = server.schemas /\ server'.indexes = server.indexes \ {index}
    BY <1>1, <1>3 DEF IsServer
  <1>5. IsServer(server')
    BY <1>3, <1>4 DEF IsServer
  <1>6. cache' = d
    BY <1>1
  <1>7. /\ IsCache(c) /\ schema \in DOMAIN c.entries
        /\ ~outdated => Fits(settings, c, server)
    <2>1. /\ IsCache(LoadSchemas) /\ schema \in DOMAIN LoadSchemas.entries
          /\ ~outdated => Fits(settings, LoadSchemas, server)
      BY <1>2, LookedUp
    <2>. QED  BY <1>1, <1>3, <2>1, LoadIndexesFits
  <1> HIDE DEF schema
  <1>8. IsSet(old, Indexes)
    BY <1>7 DEF IsCache, IsSchema
  <1>9. /\ DOMAIN others = DOMAIN old.entries \ {name}
        /\ \A n \in DOMAIN others : others[n] = old.entries[n]
    OBVIOUS
  <1> HIDE DEF others
  <1>10. indexes = [loaded |-> old.loaded, entries |-> others]
    BY <1>8 DEF IsSet
  <1> HIDE DEF indexes
  <1>11. IsSet(indexes, Indexes) /\ indexes.entries = others
    BY <1>8, <1>9, <1>10 DEF IsSet
  <1>12. /\ IsCache(d) /\ d.loaded = c.loaded /\ DOMAIN d.entries = DOMAIN c.entries
         /\ d.entries[schema].tables = c.entries[schema].tables
         /\ d.entries[schema].indexes = indexes
         /\ \A x \in DOMAIN c.entries \ {schema} : d.entries[x] = c.entries[x]
    BY <1>7, <1>11, WithIndexes
  <1> HIDE DEF d
  <1>13. ASSUME ~outdated'
         PROVE  Fits(settings, d, server')
    <2>1. schema = database /\ Fits(settings, c, server)
      BY <1>1, <1>7, <1>13 DEF schema
    <2>2. CacheFits(settings, d, server')
      BY <1>4, <1>12, <2>1 DEF Fits, CacheFits
    <2>3. IndexesExist(d, server')
      <3>1. SUFFICES ASSUME IndexSchema \in DOMAIN d.entries,
                            NEW n \in DOMAIN d.entries[IndexSchema].indexes.entries
                     PROVE  [schema |-> IndexSchema,
                             table |-> d.entries[IndexSchema].indexes.entries[n],
                             name |-> n] \in server'.indexes
        BY DEF IndexesExist
      <3> DEFINE there == [schema |-> IndexSchema,
                           table |-> c.entries[IndexSchema].indexes.entries[n], name |-> n]
      <3>2. CASE schema = IndexSchema
        <4>1. n \in DOMAIN old.entries /\ n # name /\ others[n] = old.entries[n]
          BY <1>9, <1>11, <1>12, <3>1, <3>2
        <4>2. there \in server.indexes
          BY <1>12, <2>1, <3>1, <3>2, <4>1 DEF Fits, IndexesExist
        <4>3. there # index
          BY <4>1
        <4>. QED  BY <1>4, <1>11, <1>12, <3>2, <4>1, <4>2, <4>3
      <3>3. CASE schema # IndexSchema
        <4>1. there \in server.indexes
          BY <1>12, <2>1, <3>1, <3>3 DEF Fits, IndexesExist
        <4>2. there # index
          BY <2>1, <3>3
        <4>. QED  BY <1>4, <1>12, <3>1, <3>3, <4>1, <4>2
      <3>. QED  BY <3>2, <3>3
    <2>. QED  BY <2>2, <2>3 DEF Fits
  <1>. QED  BY <1>1, <1>2, <1>3, <1>5, <1>6, <1>12, <1>13 DEF CatalogInv, schema

LEMMA EmptyCache ==
  IsCache(EmptySet) /\ \A set, v : Fits(set, EmptySet, v)
  BY EmptySets DEF IsCache, Fits, CacheFits, IndexesExist

LEMMA ClearCacheKeeps ==
  ASSUME CatalogInv, ClearCache
  PROVE  CatalogInv'
  BY EmptyCache DEF CatalogInv, ClearCache

LEMMA SetKeeps ==
  ASSUME CatalogInv, NEW setting \in {"tinyint1", "bit1"}, NEW value \in BOOLEAN,
         Set(setting, value)
  PROVE  CatalogInv'
  <1>1. settings' \in Settings
    BY DEF CatalogInv, Set, Settings
  <1>. QED  BY <1>1, EmptyCache DEF CatalogInv, Set

LEMMA ExternalKeeps ==
  ASSUME CatalogInv, External
  PROVE  CatalogInv'
  <1>1. IsServer(server) /\ IsCache(cache)
    BY DEF CatalogInv
  <1>2. IsServer(server')
    <2>1. CASE \E s \in Schemas \ DOMAIN server.schemas :
                 server' = [server EXCEPT !.schemas = Put(@, s, None)]
      <3>1. PICK s \in Schemas \ DOMAIN server.schemas :
              server' = [server EXCEPT !.schemas = Put(@, s, None)]
        BY <2>1
      <3>2. IsServer([server EXCEPT !.schemas = Put(@, s, None)])
        BY <1>1, CreatedSchemaFits
      <3>. QED  BY <3>1, <3>2
    <2>2. CASE \E s \in DOMAIN server.schemas : server' = WithoutSchema(s)
      BY <1>1, <2>2, ErasedFits
    <2>3. CASE \E s \in DOMAIN server.schemas, t \in Tables, column \in LaterColumns :
                 server' = [server EXCEPT
                              !.schemas[s] = Put(@, t, <<TableColumn(column, TRUE)>>)]
      <3>1. PICK s \in DOMAIN server.schemas, t \in Tables, column \in LaterColumns :
              server' = [server EXCEPT !.schemas[s] = Put(@, t, <<TableColumn(column, TRUE)>>)]
        BY <2>3
      <3> DEFINE columns == <<TableColumn(column, TRUE)>>
                 tables  == Put(server.schemas[s], t, columns)
      <3>2. IsColumns(columns)
        <4>1. IsTypeData(TableColumn(column, TRUE).type)
          BY CatalogAssumption DEF CatalogAssumption, TableColumn
        <4>. QED  BY <4>1, OneColumn
      <3>3. server' = [server EXCEPT !.schemas[s] = tables]
        BY <3>1
      <3> HIDE DEF columns
      <3>4. /\ DOMAIN server.schemas[s] \subseteq DOMAIN tables
            /\ \A x \in DOMAIN tables : x \in Tables /\ IsColumns(tables[x])
        BY <1>1, <3>2 DEF IsServer, Put
      <3> HIDE DEF tables
      <3>. QED  BY <1>1, <3>3, <3>4, ChangedTables
    <2>. QED  BY <2>1, <2>2, <2>3 DEF External
  <1>3. changes' \in 0..MaxChanges
    BY Changed DEF External
  <1>. QED  BY <1>1, <1>2, <1>3 DEF CatalogInv, External

LEMMA CatalogNextKeeps ==
  ASSUME CatalogInv, CatalogNext
  PROVE  CatalogInv'
  <1>1. ASSUME NEW s \in Schemas \cup {NoSchema},
               \/ MissSchema(s) \/ UseTables(s) \/ UseIndexes(s)
               \/ \E t \in Tables :
                    \/ \E columns \in Columns, ifNotExists \in BOOLEAN :
                         CreateTable(s, t, columns, ifNotExists)
                    \/ \E type \in DuckTypes : AddColumn(s, t, type)
                    \/ \E name \in Indexes : CreateIndex(s, t, name)
               \/ \E name \in Indexes : DropIndex(s, name)
        PROVE  CatalogInv'
    BY <1>1, MissSchemaKeeps, UseTablesKeeps, UseIndexesKeeps, CreateTableKeeps,
       AddColumnKeeps, CreateIndexKeeps, DropIndexKeeps
  <1>2. ASSUME NEW s \in Schemas, NEW flag \in BOOLEAN,
               CreateSchema(s, flag) \/ DropSchema(s, flag)
        PROVE  CatalogInv'
    BY <1>2, CreateSchemaKeeps, DropSchemaKeeps
  <1>3. ASSUME NEW setting \in {"tinyint1", "bit1"}, NEW value \in BOOLEAN,
               Set(setting, value)
        PROVE  CatalogInv'
    BY <1>3, SetKeeps
  <1>. QED  BY <1>1, <1>2, <1>3, ClearCacheKeeps, ExternalKeeps DEF CatalogNext

LEMMA StutterKeeps ==
  ASSUME CatalogInv, UNCHANGED catalogVars
  PROVE  CatalogInv'
  BY DEF CatalogInv, catalogVars

\* The server as other programs left it, before a statement runs.
LEMMA FirstContents ==
  ASSUME NEW contents \in Contents
  PROVE  IsServer(contents)
  <1>1. PICK column \in ServerColumns :
          contents = [schemas |-> Put(None, IndexSchema,
                                      [t \in Tables |-> <<TableColumn(column, FALSE)>>]),
                      indexes |-> {}]
    BY DEF Contents
  <1> DEFINE columns == <<TableColumn(column, FALSE)>>
             tables == [t \in Tables |-> columns]
             schemas == Put(None, IndexSchema, tables)
  <1>2. IsColumns(columns)
    <2>1. IsTypeData(TableColumn(column, FALSE).type)
      BY CatalogAssumption DEF CatalogAssumption, TableColumn
    <2>. QED  BY <2>1, OneColumn
  <1> HIDE DEF columns
  <1>3. \A t \in DOMAIN tables : t \in Tables /\ IsColumns(tables[t])
    BY <1>2
  <1>4. contents = [schemas |-> schemas, indexes |-> {}]
    BY <1>1 DEF columns
  <1> HIDE DEF tables
  <1>5. DOMAIN schemas = {IndexSchema} /\ schemas[IndexSchema] = tables
    BY EmptySets DEF Put
  <1> HIDE DEF schemas
  <1>6. /\ contents = [schemas |-> contents.schemas, indexes |-> contents.indexes]
        /\ contents.schemas = schemas /\ contents.indexes = {}
    BY <1>4
  <1>7. IndexSchema \in Schemas
    BY CatalogAssumption DEF CatalogAssumption
  <1>. QED  BY <1>3, <1>5, <1>6, <1>7 DEF IsServer

LEMMA InitFits ==
  ASSUME CatalogInit
  PROVE  CatalogInv
  <1>1. IsServer(server)
    BY EmptySets DEF CatalogInit, IsServer
  <1>2. changes \in 0..MaxChanges
    <2>1. MaxChanges \in Nat
      BY CatalogAssumption DEF CatalogAssumption
    <2>. QED  BY <2>1 DEF CatalogInit
  <1>. QED  BY <1>1, <1>2, EmptyCache DEF CatalogInit, CatalogInv, Settings

(***************************************************************************)
(* What the invariant says: the properties of MySQLCatalog.                *)
(***************************************************************************)
LEMMA InvTypes ==
  ASSUME CatalogInv
  PROVE  CatalogTypeOK
  <1>1. /\ DOMAIN server.schemas \subseteq Schemas
        /\ \A s \in DOMAIN server.schemas : \A t \in DOMAIN server.schemas[s] :
             t \in Tables /\ Len(server.schemas[s][t]) \in 1..MaxColumns
        /\ \A i \in server.indexes :
             i.schema \in DOMAIN server.schemas /\ i.table \in DOMAIN server.schemas[i.schema]
    BY DEF CatalogInv, IsServer, IsColumns, IsIndex
  <1>2. /\ cache.loaded \in BOOLEAN /\ DOMAIN cache.entries \subseteq Schemas
        /\ \A s \in DOMAIN cache.entries :
             /\ DOMAIN cache.entries[s].tables.entries \subseteq Tables
             /\ DOMAIN cache.entries[s].indexes.entries \subseteq Indexes
    BY DEF CatalogInv, IsCache, IsSchema, IsSet
  <1>. QED  BY <1>1, <1>2 DEF CatalogInv, CatalogTypeOK

LEMMA InvCoherent ==
  ASSUME CatalogInv
  PROVE  SchemasCoherent
  BY DEF CatalogInv, Fits, CacheFits, TablesFit, SchemasCoherent

LEMMA InvAsLoaded ==
  ASSUME CatalogInv
  PROVE  CachedAsLoaded
  <1>1. SUFFICES ASSUME NEW s \in CachedSchemas, NEW t \in CachedTables(s)
                 PROVE  LET cached == Cached(s, t)
                            loaded == LoadedTable(server.schemas[s][t])
                        IN /\ DOMAIN cached.columns = DOMAIN loaded.columns
                           /\ \A i \in DOMAIN loaded.columns :
                                \/ cached.columns[i] = loaded.columns[i]
                                \/ StaysBoolean(cached, i, server.schemas[s][t][i])
    BY DEF CachedAsLoaded
  <1>2. ~outdated /\ s \in DOMAIN cache.entries
    BY DEF CachedSchemas
  <1>3. AsLoaded(settings, Cached(s, t), server.schemas[s][t])
    BY <1>2 DEF CatalogInv, Fits, CacheFits, TablesFit, CachedTables, Cached
  <1> DEFINE cached  == Cached(s, t)
             columns == server.schemas[s][t]
  <1>4. /\ DOMAIN LoadedTable(columns).columns = DOMAIN columns
        /\ \A i \in DOMAIN columns : LoadedTable(columns).columns[i] = LoadColumn(columns[i])
    BY DEF LoadedTable, Definition
  <1>5. \A i \in DOMAIN columns : LoadColumn(columns[i]) =
          TableColumn(TypeToLogicalType(settings, columns[i].type), columns[i].notNull)
    BY DEF LoadColumn, TableColumn
  <1> HIDE DEF cached, columns
  <1>6. \A i \in DOMAIN columns :
          cached.columns[i] = LoadColumn(columns[i]) \/ StaysBoolean(cached, i, columns[i])
    BY <1>3, <1>5 DEF AsLoaded, StaysBoolean, cached, columns
  <1>7. DOMAIN cached.columns = DOMAIN columns
    BY <1>3 DEF AsLoaded, cached, columns
  <1>. QED  BY <1>4, <1>6, <1>7 DEF cached, columns

LEMMA InvIndexes ==
  ASSUME CatalogInv
  PROVE  IndexEntriesExist
  BY DEF CatalogInv, Fits, IndexesExist, IndexEntriesExist

LEMMA InvQuery ==
  ASSUME CatalogInv
  PROVE  QueryAgreesWithScan
  <1>1. SUFFICES ASSUME ~settings.tinyint1, ~settings.bit1,
                        NEW s \in DOMAIN server.schemas, NEW t \in DOMAIN server.schemas[s],
                        NEW i \in DOMAIN server.schemas[s][t], NEW maxLength \in 0..2
                 PROVE  LET column == server.schemas[s][t][i].type IN
                        \/ column.typeName = "decimal" /\ (column.scale = 0 \/ column.unsigned)
                        \/ FieldToLogicalType(settings, FieldOf(column, maxLength))
                             = TypeToLogicalType(settings, column)
    BY DEF QueryAgreesWithScan
  <1>2. IsTypeData(server.schemas[s][t][i].type)
    BY DEF CatalogInv, IsServer, IsColumns
  <1>3. settings \in Settings /\ maxLength \in Nat
    BY DEF CatalogInv
  <1>. QED  BY <1>1, <1>2, <1>3, QueryTypesAgree

LEMMA ExtremeBits ==
  ASSUME NEW c, c.typeName \in DOMAIN SignedType, NEW v \in Extremes(c)
  PROVE  /\ v.bits \in Nat
         /\ IF c.unsigned THEN ~v.negative /\ v.bits <= Width[c.typeName]
                          ELSE v.bits <= Width[c.typeName] - 1
  <1> DEFINE w == Width[c.typeName]
  <1>1. w \in {8, 16, 24, 32, 64}
    BY DEF SignedType, Width
  <1>2. c.typeName # "bit"
    BY DEF SignedType
  <1>3. v \in {Zero, One} \cup IF c.unsigned THEN {Value(FALSE, w)}
                               ELSE {Value(TRUE, w - 1), Value(FALSE, w - 1)}
    BY <1>2 DEF Extremes
  <1> HIDE DEF w
  <1>4. ASSUME NEW negative, NEW bits
        PROVE  Value(negative, bits).negative = negative /\ Value(negative, bits).bits = bits
    BY DEF Value
  <1>5. ~Zero.negative /\ Zero.bits = 0 /\ ~One.negative /\ One.bits = 1
    BY DEF Zero, One, Value
  <1>6. ASSUME c.unsigned
        PROVE  v.bits \in Nat /\ ~v.negative /\ v.bits <= w
    <2>1. v = Zero \/ v = One \/ v = Value(FALSE, w)
      BY <1>3, <1>6
    <2>2. ~Value(FALSE, w).negative /\ Value(FALSE, w).bits = w
      BY DEF Value
    <2>3. w \in Nat /\ 0 <= w /\ 1 <= w /\ w <= w
      BY <1>1
    <2>4. CASE v = Zero
      BY <1>5, <2>3, <2>4
    <2>5. CASE v = One
      BY <1>5, <2>3, <2>5
    <2>6. CASE v = Value(FALSE, w)
      BY <2>2, <2>3, <2>6
    <2>. QED  BY <2>1, <2>4, <2>5, <2>6
  <1>7. ASSUME ~c.unsigned
        PROVE  v.bits \in Nat /\ v.bits <= w - 1
    <2>1. v = Zero \/ v = One \/ v = Value(TRUE, w - 1) \/ v = Value(FALSE, w - 1)
      BY <1>3, <1>7
    <2>2. Value(TRUE, w - 1).bits = w - 1 /\ Value(FALSE, w - 1).bits = w - 1
      BY DEF Value
    <2>3. w - 1 \in Nat /\ 0 <= w - 1 /\ 1 <= w - 1 /\ w - 1 <= w - 1
      BY <1>1
    <2>4. CASE v = Zero
      BY <1>5, <2>3, <2>4
    <2>5. CASE v = One
      BY <1>5, <2>3, <2>5
    <2>6. CASE v = Value(TRUE, w - 1) \/ v = Value(FALSE, w - 1)
      BY <2>2, <2>3, <2>6
    <2>. QED  BY <2>1, <2>4, <2>5, <2>6
  <1>. QED  BY <1>6, <1>7 DEF w

LEMMA TypesHold ==
  ASSUME NEW name \in DOMAIN SignedType, NEW v, NEW unsigned \in BOOLEAN,
         v.bits \in Nat,
         IF unsigned THEN ~v.negative /\ v.bits <= Width[name] ELSE v.bits <= Width[name] - 1
  PROVE  Holds(Type(IF unsigned THEN UnsignedType[name] ELSE SignedType[name]), v)
  <1>1. ASSUME NEW id
        PROVE  Type(id).id = id
    BY DEF Type
  <1>2. CASE unsigned
    <2>1. UnsignedType[name] \in {"UTINYINT", "USMALLINT", "UINTEGER", "UBIGINT"}
      BY DEF SignedType, UnsignedType
    <2>2. Width[name] <= [UTINYINT |-> 8, USMALLINT |-> 16, UINTEGER |-> 32, UBIGINT |-> 64]
                           [UnsignedType[name]]
      BY DEF SignedType, UnsignedType, Width
    <2>. QED  BY <1>1, <1>2, <2>1, <2>2 DEF Holds, SignedType, Width
  <1>3. CASE ~unsigned
    <2>1. SignedType[name] \in {"TINYINT", "SMALLINT", "INTEGER", "BIGINT"}
      BY DEF SignedType
    <2>2. Width[name] - 1 <= [TINYINT |-> 7, SMALLINT |-> 15, INTEGER |-> 31, BIGINT |-> 63]
                               [SignedType[name]]
      BY DEF SignedType, Width
    <2>. QED  BY <1>1, <1>3, <2>1, <2>2 DEF Holds, SignedType, Width
  <1>. QED  BY <1>2, <1>3

LEMMA BooleansRead ==
  ASSUME NEW c, c.width = 1, ~c.unsigned, c.typeName \in {"tinyint", "bit"},
         NEW v \in Extremes(c)
  PROVE  CastBoolFromMySQL(Text(c, v)) = (v # Zero /\ ~v.negative)
  <1>1. /\ ~Zero.negative /\ ~One.negative /\ One # Zero
        /\ Value(TRUE, 7).negative /\ Value(TRUE, 7) # Zero
        /\ ~Value(FALSE, 7).negative /\ Value(FALSE, 7) # Zero
        /\ Value(FALSE, 1) = One
    BY DEF Zero, One, Value
  <1>2. CASE c.typeName = "bit"
    <2>1. v \in {Zero, One}
      <3>1. Width[c.typeName] = 1
        BY <1>2 DEF Width
      <3>2. v \in {Zero, One} \cup {Value(FALSE, 1)}
        BY <1>2, <3>1 DEF Extremes
      <3>. QED  BY <1>1, <3>2
    <2>. QED  BY <1>1, <1>2, <2>1 DEF Text, CastBoolFromMySQL
  <1>3. CASE c.typeName = "tinyint"
    <2>1. v \in {Zero, One, Value(TRUE, 7), Value(FALSE, 7)}
      <3>1. Width[c.typeName] = 8 /\ c.typeName # "bit" /\ 8 - 1 = 7
        BY <1>3 DEF Width
      <3>2. v \in {Zero, One} \cup {Value(TRUE, 7), Value(FALSE, 7)}
        BY <3>1 DEF Extremes
      <3>. QED  BY <3>2
    <2>. QED  BY <1>1, <1>3, <2>1 DEF Text, CastBoolFromMySQL
  <1>. QED  BY <1>2, <1>3

LEMMA WidthNames ==
  /\ DOMAIN Width = DOMAIN SignedType \cup {"bit"}
  /\ "bit" \notin DOMAIN SignedType /\ "bit" \in BinaryNames
  /\ ~IsInteger(Type("BOOLEAN")) /\ ~IsInteger(Type("BLOB"))
  /\ Type("BOOLEAN") # Type("BLOB")
  <1>1. DOMAIN Width = DOMAIN SignedType \cup {"bit"} /\ "bit" \notin DOMAIN SignedType
    BY DEF Width, SignedType
  <1>2. "bit" \in BinaryNames
    BY DEF BinaryNames
  <1>3. {SignedType[name] : name \in DOMAIN SignedType}
          \subseteq {"TINYINT", "SMALLINT", "INTEGER", "BIGINT"}
    BY DEF SignedType
  <1>4. {UnsignedType[name] : name \in DOMAIN UnsignedType}
          \subseteq {"UTINYINT", "USMALLINT", "UINTEGER", "UBIGINT"}
    BY DEF UnsignedType
  <1>5. Type("BOOLEAN").id = "BOOLEAN" /\ Type("BLOB").id = "BLOB"
    BY DEF Type
  <1>6. ~IsInteger(Type("BOOLEAN")) /\ ~IsInteger(Type("BLOB"))
    BY <1>3, <1>4, <1>5 DEF IsInteger
  <1>7. Type("BOOLEAN") # Type("BLOB")
    BY <1>5
  <1>. QED  BY <1>1, <1>2, <1>6, <1>7

LEMMA IntegersAreNoBooleans ==
  ASSUME NEW name \in DOMAIN SignedType, NEW unsigned \in BOOLEAN
  PROVE  Type(IF unsigned THEN UnsignedType[name] ELSE SignedType[name]) # Type("BOOLEAN")
  <1>1. \A id : Type(id).id = id
    BY DEF Type
  <1>2. UnsignedType[name] # "BOOLEAN" /\ SignedType[name] # "BOOLEAN"
    BY DEF SignedType, UnsignedType
  <1>. QED  BY <1>1, <1>2

(***************************************************************************)
(* A column whose type is the one it is loaded as is read as it is.        *)
(***************************************************************************)
LEMMA LoadedReads ==
  ASSUME NEW set, NEW c, IsTypeData(c), c.typeName \in DOMAIN Width,
         NEW v \in Extremes(c)
  PROVE  LET type == TypeToLogicalType(set, c) IN
         /\ IsInteger(type) => ScanInteger(type, v) = v
         /\ type = Type("BOOLEAN") =>
              CastBoolFromMySQL(Text(c, v)) = (v # Zero /\ ~v.negative)
  <1> DEFINE type == TypeToLogicalType(set, c)
  <1>0. c.unsigned \in BOOLEAN
    BY DEF IsTypeData
  <1>1. CASE \/ c.typeName = "tinyint" /\ c.width = 1 /\ ~c.unsigned /\ set.tinyint1
             \/ c.typeName = "bit" /\ c.width = 1 /\ ~c.unsigned /\ set.bit1
    <2>1. type = Type("BOOLEAN")
      BY <1>1, LoadBoolean
    <2>2. CastBoolFromMySQL(Text(c, v)) = (v # Zero /\ ~v.negative)
      BY <1>1, BooleansRead
    <2>. QED  BY <2>1, <2>2, WidthNames
  <1>2. CASE /\ c.typeName = "bit"
             /\ ~(c.typeName = "bit" /\ c.width = 1 /\ ~c.unsigned /\ set.bit1)
    <2>1. type = Type("BLOB")
      BY <1>2, LoadBinary, WidthNames
    <2>. QED  BY <2>1, WidthNames
  <1>3. CASE /\ c.typeName \in DOMAIN SignedType
             /\ ~(c.typeName = "tinyint" /\ c.width = 1 /\ ~c.unsigned /\ set.tinyint1)
    <2> DEFINE integer == Type(IF c.unsigned THEN UnsignedType[c.typeName]
                               ELSE SignedType[c.typeName])
    <2>1. type = integer
      BY <1>0, <1>3, LoadInteger
    <2>2. /\ v.bits \in Nat
          /\ IF c.unsigned THEN ~v.negative /\ v.bits <= Width[c.typeName]
                           ELSE v.bits <= Width[c.typeName] - 1
      BY <1>3, ExtremeBits
    <2>3. Holds(integer, v)
      BY <1>0, <1>3, <2>2, TypesHold
    <2>4. integer # Type("BOOLEAN")
      BY <1>0, <1>3, IntegersAreNoBooleans
    <2>. QED  BY <2>1, <2>3, <2>4 DEF ScanInteger
  <1>. QED  BY <1>1, <1>2, <1>3, WidthNames

LEMMA InvScans ==
  ASSUME CatalogInv
  PROVE  ScansReadTrue
  <1>1. SUFFICES ASSUME NEW s \in CachedSchemas, NEW t \in CachedTables(s),
                        NEW i \in DOMAIN Cached(s, t).columns,
                        server.schemas[s][t][i].type.typeName \in DOMAIN Width,
                        NEW v \in Extremes(server.schemas[s][t][i].type)
                 PROVE  LET type   == Cached(s, t).columns[i].type
                            column == server.schemas[s][t][i].type
                        IN /\ IsInteger(type) => ScanInteger(type, v) = v
                           /\ type = Type("BOOLEAN") =>
                                CastBoolFromMySQL(Text(column, v)) = (v # Zero /\ ~v.negative)
    BY DEF ScansReadTrue
  <1> DEFINE type    == Cached(s, t).columns[i].type
             columns == server.schemas[s][t]
             column  == columns[i].type
  <1>2. ~outdated /\ s \in DOMAIN cache.entries
    BY DEF CachedSchemas
  <1>3. AsLoaded(settings, Cached(s, t), columns)
    BY <1>2 DEF CatalogInv, Fits, CacheFits, TablesFit, CachedTables, Cached
  <1>4. IsColumns(columns)
    BY <1>2 DEF CatalogInv, IsServer, Fits, CacheFits, TablesFit, CachedTables
  <1>5. i \in DOMAIN columns /\ IsTypeData(column)
    BY <1>3, <1>4 DEF AsLoaded, IsColumns
  <1>6. \/ type = TypeToLogicalType(settings, column)
        \/ type = Type("BOOLEAN") /\ column = Column("tinyint", 1, FALSE)
    <2> DEFINE loaded == TypeToLogicalType(settings, column)
    <2>1. TableColumn(loaded, columns[i].notNull).type = loaded
      BY DEF TableColumn
    <2> HIDE DEF loaded
    <2>2. \/ Cached(s, t).columns[i] = TableColumn(loaded, columns[i].notNull)
          \/ type = Type("BOOLEAN") /\ column = Column("tinyint", 1, FALSE)
      BY <1>3, <1>5 DEF AsLoaded, loaded
    <2>. QED  BY <2>1, <2>2 DEF loaded
  <1> HIDE DEF type, columns
  <1>7. CASE type = TypeToLogicalType(settings, column)
    BY <1>1, <1>5, <1>7, LoadedReads DEF type, columns
  <1>8. CASE type = Type("BOOLEAN") /\ column = Column("tinyint", 1, FALSE)
    <2>1. column.width = 1 /\ ~column.unsigned /\ column.typeName \in {"tinyint", "bit"}
      BY <1>8 DEF Column
    <2>2. CastBoolFromMySQL(Text(column, v)) = (v # Zero /\ ~v.negative)
      BY <1>1, <2>1, BooleansRead DEF columns
    <2>3. ~IsInteger(type)
      BY <1>8, WidthNames
    <2>. QED  BY <2>2, <2>3 DEF type, columns
  <1>. QED  BY <1>6, <1>7, <1>8
=============================================================================
