--------------------------- MODULE MCMySQLPushdown ---------------------------
(***************************************************************************)
(* Plans for MySQLPushdown over one table of two columns and five rows.    *)
(***************************************************************************)
EXTENDS MySQLPushdown, SequencesExt

CONSTANTS here, there   \* two attached databases

Databases == {here, there}

Table ==
  <<[a |-> 1, b |-> 2], [a |-> NULL, b |-> 1], [a |-> 2, b |-> 2],
    [a |-> 2, b |-> NULL], [a |-> 3, b |-> 1]>>

TheTable == [t |-> Table]

\* A tree put behind n other nodes.
Behind(n, tree) ==
  [i \in DOMAIN tree |-> [tree[i] EXCEPT !.children = [k \in DOMAIN @ |-> @[k] + n]]]

\* Filters: the children of a conjunction are a set of places.
Leaf(type) == <<[type |-> type]>>
Compare(type, n) == <<[type |-> "CONSTANT_COMPARISON", comparison |-> type, constant |-> n]>>
Optional(f) == Append(f, [type |-> "OPTIONAL_FILTER", child |-> Len(f)])

\* Of two leaves or optional filters over one, and of three leaves.
Pair(type, f, g) ==
  LET behind == [i \in DOMAIN g |-> IF "child" \in DOMAIN g[i]
                                   THEN [g[i] EXCEPT !.child = @ + Len(f)] ELSE g[i]]
  IN f \o behind \o <<[type |-> type, children |-> {Len(f), Len(f) + Len(g)}]>>

Leaves ==
  {Compare(type, 2) : type \in {"COMPARE_EQUAL", "COMPARE_NOTEQUAL", "COMPARE_LESSTHAN",
      "COMPARE_GREATERTHAN", "COMPARE_LESSTHANOREQUALTO", "COMPARE_GREATERTHANOREQUALTO"}}
    \cup {Leaf("IS_NULL"), Leaf("IS_NOT_NULL"), <<[type |-> "IN_FILTER", values |-> {1, 3}]>>}

Dynamic == Leaf("DYNAMIC_FILTER")

\* A DYNAMIC_FILTER is never a disjunct.
Filters ==
  LET hints == {Dynamic, Optional(Dynamic)}
      pairs(type) == {Pair(type, f, g) : f \in Leaves, g \in Leaves}
  IN Leaves \cup hints \cup pairs("CONJUNCTION_AND") \cup pairs("CONJUNCTION_OR")
       \cup {Pair("CONJUNCTION_AND", h, f) : h \in hints, f \in Leaves \cup hints}
       \cup {Pair("CONJUNCTION_OR", Pair("CONJUNCTION_AND", f, g), Leaf("IS_NULL")) :
               f \in Leaves, g \in Leaves}

Get(function, t, catalog, column_ids, filters) ==
  <<[op |-> "get", function |-> function, table_index |-> t, catalog |-> catalog, table |-> "t",
     names |-> <<"a", "b">>, column_ids |-> column_ids, filters |-> filters,
     limit |-> <<>>, streaming |-> "UNINITIALIZED", children |-> <<>>]>>

Scan(t, catalog)  == Get("mysql_scan", t, catalog, <<2, 1>>, <<>>)
QueryOf(t, catalog) == Get("mysql_query", t, catalog, <<1, 2>>, <<>>)

\* The names of the columns of a plan.
Names(p) ==
  LET names[i \in DOMAIN p] ==
        CASE p[i].op = "get"        ->
               [k \in DOMAIN p[i].column_ids |->
                  IF p[i].column_ids[k] = 0 THEN "rowid" ELSE p[i].names[p[i].column_ids[k]]]
          [] p[i].op = "projection" -> [k \in DOMAIN p[i].select_list |-> p[i].select_list[k].name]
          [] OTHER                  -> names[p[i].children[1]]
  IN Root(names)

\* The pushed filters, one on a column or one on each, and pruned columns.
FilterPlans ==
  {Get("mysql_scan", 1, here, ids, <<f>>) : ids \in {<<1>>, <<2>>, <<2, 0>>, <<2, 1>>}, f \in Filters}
    \cup {Get("mysql_scan", 1, here, <<2, 1>>, <<f, g>>) : f \in Leaves, g \in Leaves}

Column(p, k) == [type |-> "BOUND_REF", index |-> k, name |-> Names(p)[k]]
Constant(n) == [type |-> "VALUE_CONSTANT", value |-> n]
Plus(p, k, n) == [type |-> "FUNCTION", index |-> k, name |-> Names(p)[k], value |-> n]

Projection(list, p) == Append(p, [op |-> "projection", select_list |-> list, children |-> <<Len(p)>>])
Project(p) == Projection(Reverse([k \in DOMAIN Names(p) |-> Column(p, k)]), p)

Unset == [type |-> "UNSET", value |-> 0]
Value(n) == [type |-> "CONSTANT_VALUE", value |-> n]
Computed(n) == [type |-> "EXPRESSION_VALUE", value |-> n]

Limit(n, m, p) == Append(p, [op |-> "limit", limit_val |-> n, offset_val |-> m, children |-> <<Len(p)>>])
FilterOn(k, f, p) ==
  Append(p, [op |-> "filter", index |-> k, name |-> Names(p)[k], filter |-> f, children |-> <<Len(p)>>])
Filter(f, p)   == FilterOn(1, f, p)
Union(p, q)    ==
  p \o Behind(Len(p), q) \o <<[op |-> "union", children |-> <<Len(p), Len(p) + Len(q)>>]>>

Limits(n, m, plans) == {Limit(x, y, p) : x \in n, y \in m, p \in plans}

\* LIMIT and OFFSET.  An OFFSET alone stays away from a scan that would take it.
LimitsOn(plans) ==
  Limits({Value(2), Computed(2)}, {Unset, Value(1), Computed(1)}, plans)
    \cup Limits({Value(0), Value(9)}, {Unset, Value(9)}, plans)

On(plans) ==
  {Project(p) : p \in plans} \cup {Filter(Compare("COMPARE_GREATERTHAN", 1), p) : p \in plans}

Sources == {Scan(1, here), Get("mysql_scan", 1, here, <<1>>, <<Compare("COMPARE_LESSTHAN", 3)>>)}

LimitPlans ==
  LET once == LimitsOn(Sources \cup On(Sources) \cup On(On(Sources)))
      alone == Limit(Unset, Value(2), Filter(Compare("COMPARE_GREATERTHAN", 1), Scan(1, here)))
  IN {alone, Limit(Unset, Computed(2), Scan(1, here))} \cup once \cup On(once) \cup LimitsOn({Limit(Value(3), Value(1), s) : s \in Sources})

\* Two sources, of one database or of two, each with or without a LIMIT.
UnionPlans ==
  LET lefts  == {Scan(1, here), QueryOf(1, here), Limit(Value(2), Value(1), Scan(1, here))}
      rights == {Get("local", 2, there, <<1, 2>>, <<>>)}
                  \cup UNION {{Scan(2, c), QueryOf(2, c), Limit(Value(2), Value(1), Scan(2, c))} : c \in Databases}
      unions == {Union(p, q) : p \in lefts, q \in rights}
  IN unions \cup {Limit(Value(3), Unset, u) : u \in unions}

-----------------------------------------------------------------------------
(* DELETE and UPDATE: a scan with pushed filters or filters above it.      *)

TargetScan(columns, filters) == Get("mysql_scan", 1, here, columns \o <<0>>, filters)

Selections ==
  LET above1 == Compare("COMPARE_GREATERTHAN", 1)
      scans == {TargetScan(<<2, 1>>, filters) : filters \in {<<>>} \cup {<<f>> : f \in Leaves}}
  IN scans \cup {FilterOn(2, above1, FilterOn(3, Leaf("IS_NOT_NULL"), Project(s))) : s \in scans}
       \cup {Filter(above1, s) : s \in scans}

Delete(p, return_chunk) ==
  Append(p, [op |-> "delete", catalog |-> here, table |-> "t", return_chunk |-> return_chunk,
             children |-> <<Len(p)>>])
Update(columns, expressions, list, p) ==
  Append(Projection(list, p),
         [op |-> "update", catalog |-> here, table |-> "t", return_chunk |-> FALSE,
          columns |-> columns, expressions |-> expressions, children |-> <<Len(p) + 1>>])

\* a = a + 1; a = b, b = 7; b = DEFAULT, a = 1: no expression reads a column
\* that was assigned before.
Updates(p) ==
  LET place(n) == CHOOSE k \in DOMAIN Names(p) : Names(p)[k] = n IN
  {Update(<<"a">>, <<1>>, <<Plus(p, place("a"), 1)>>, p),
   Update(<<"a", "b">>, <<2, 1>>, <<Constant(7), Column(p, place("b"))>>, p),
   Update(<<"b", "a">>, <<VALUE_DEFAULT, 1>>, <<Constant(1)>>, p)}

WritePlans ==
  {Delete(p, FALSE) : p \in Selections} \cup UNION {Updates(p) : p \in Selections}
    \cup {Delete(Union(Scan(1, here), Scan(2, here)), FALSE), Delete(Scan(1, here), TRUE),
          Delete(Filter(Dynamic, Limit(Value(1), Unset, Filter(Dynamic, Scan(1, here)))), FALSE)}

CheckedPlans == FilterPlans \cup LimitPlans \cup UnionPlans \cup WritePlans

\* UPDATE t SET a = b, b = a
ColumnSwap ==
  {Update(<<"a", "b">>, <<1, 2>>, <<Column(Scan(1, here), 1), Column(Scan(1, here), 2)>>, Scan(1, here))}
=============================================================================
