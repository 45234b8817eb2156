------------------------- MODULE MySQLPushdownProofs -------------------------
(***************************************************************************)
(* Queries over MySQL tables have the rows of the plan that was bound,     *)
(* UPDATE and DELETE leave the rows the plan means, and no command is      *)
(* refused, for any plans, filters and contents.                           *)
(*                                                                         *)
(* The argument goes from the text of a SELECT up: a pushed filter keeps   *)
(* the rows it keeps in DuckDB (FilterIsPushedAsItIs), so that a SELECT    *)
(* returns what the scan owes the plan, up to the LIMIT in its text        *)
(* (SelectIsScan); a plan whose scans return that has the rows of the plan *)
(* the LIMIT stood in (PushedLimitsAreTheSame); and the steps of an        *)
(* execution keep what every scan has returned and will return to what it  *)
(* owes (StatementInv).  A write is followed row by row: its conditions    *)
(* are those of the operators between the scan and it (RowIsSeen), its     *)
(* assignments the expressions of the plan (UpdatedIs).                    *)
(***************************************************************************)
EXTENDS MySQLPushdown, SequenceTheorems, FiniteSetTheorems, WellFoundedInduction, TLAPS

\* Induction up to m, from the well-foundedness of < on the naturals.
LEMMA Climb ==
  ASSUME NEW S, S \subseteq Nat, 0 \in S, NEW m \in Nat,
         \A n \in Nat : n < m /\ n \in S => n + 1 \in S
  PROVE  \A n \in 0..m : n \in S
<1> DEFINE B == (0..m) \ S
           R == {x \in Nat \X Nat : x[1] < x[2]}
<1> SUFFICES ASSUME B # {} PROVE FALSE
  OBVIOUS
<1>1. IsWellFoundedOn(R, Nat)
  BY NatLessThanWellFounded DEF OpToRel, IsWellFoundedOn
<1>2. B \subseteq Nat OBVIOUS
<1>3. PICK x \in B : \A y \in B : <<y, x>> \notin R
  <2> HIDE DEF B, R
  <2> QED BY <1>1, <1>2, WFMin
<1>4. x # 0 /\ x - 1 \in 0..m /\ x - 1 \in Nat /\ x - 1 < m /\ (x - 1) + 1 = x
  OBVIOUS
<1>5. <<x - 1, x>> \in R BY <1>3, <1>4
<1>6. x - 1 \in S BY <1>3, <1>4, <1>5
<1> QED BY <1>3, <1>4, <1>6

\* Strong induction over the places of a sequence.
LEMMA FromThoseBefore ==
  ASSUME NEW S, NEW n \in Nat,
         \A i \in 1..n : (\A j \in 1..n : j < i => j \in S) => i \in S
  PROVE  \A i \in 1..n : i \in S
<1> DEFINE R == {x \in Nat \X Nat : x[1] < x[2]}
           B == (1..n) \ S
<1> SUFFICES ASSUME B # {} PROVE FALSE
  OBVIOUS
<1>1. IsWellFoundedOn(R, Nat)
  BY NatLessThanWellFounded DEF OpToRel, IsWellFoundedOn
<1>2. B \subseteq Nat OBVIOUS
<1>3. PICK x \in B : \A y \in B : <<y, x>> \notin R
  <2> HIDE DEF B, R
  <2> QED BY <1>1, <1>2, WFMin
<1>4. \A j \in 1..n : j < x => j \in S
  <2> SUFFICES ASSUME NEW j \in 1..n, j < x, j \notin S PROVE FALSE
    OBVIOUS
  <2>1. j \in B /\ <<j, x>> \in R BY <1>3
  <2> QED BY <1>3, <2>1
<1>5. x \in 1..n /\ x \notin S BY <1>3
<1> QED BY <1>4, <1>5

\* A sequence is the function of its places.
LEMMA SequenceFacts ==
  ASSUME NEW s, IsSequence(s)
  PROVE  /\ Len(s) \in Nat /\ DOMAIN s = 1..Len(s)
         /\ s = [i \in 1..Len(s) |-> s[i]]
         /\ s # <<>> => Len(s) > 0
<1> DEFINE S == {s[k] : k \in DOMAIN s}
<1>1. s \in Seq(S) BY DEF IsSequence
<1> HIDE DEF S
<1> QED BY <1>1, LenProperties, EmptySeq

\* A function of the places 1..n is a sequence.
LEMMA SequenceMade ==
  ASSUME NEW n \in Nat, NEW s, DOMAIN s = 1..n, s = [i \in 1..n |-> s[i]]
  PROVE  IsSequence(s) /\ Len(s) = n
<1> DEFINE S == {s[k] : k \in DOMAIN s}
<1>1. s \in [1..n -> S] OBVIOUS
<1> HIDE DEF S
<1>2. s \in Seq(S) /\ Len(s) = n BY <1>1, LenProperties
<1> QED BY <1>2 DEF IsSequence, S

\* What is said of each place of a sequence in terms of those before it,
\* some function does.
Backwards(a, n, X, D) ==
  /\ X # {} /\ D \in [a..n -> [[a..n -> X] -> X]]
  /\ \A i \in a..n : \A f, g \in [a..n -> X] :
       (\A j \in a..n : j < i => f[j] = g[j]) => D[i][f] = D[i][g]

Followed(a, n, X, D) == \E f \in [a..n -> X] : \A i \in a..n : f[i] = D[i][f]

\* A recursive definition that only looks at earlier places has a solution.
LEMMA RecursionHolds ==
  ASSUME NEW a \in Nat, NEW n \in Nat, NEW X, NEW D, Backwards(a, n, X, D)
  PROVE  Followed(a, n, X, D)
<1> USE DEF Backwards
<1> DEFINE Upto(f, k) == \A i \in a..n : i < k => f[i] = D[i][f]
           S == {k \in Nat : \E f \in [a..n -> X] : Upto(f, k)}
<1>1. 0 \in S
  <2>1. PICK x \in X : TRUE OBVIOUS
  <2>2. [i \in a..n |-> x] \in [a..n -> X] BY <2>1
  <2>3. Upto([i \in a..n |-> x], 0) OBVIOUS
  <2> HIDE DEF Upto
  <2> QED BY <2>2, <2>3
<1>2. ASSUME NEW k \in Nat, k < n + 1, k \in S
      PROVE  k + 1 \in S
  <2>1. PICK f \in [a..n -> X] : Upto(f, k) BY <1>2
  <2> DEFINE g == [i \in a..n |-> IF i = k THEN D[i][f] ELSE f[i]]
  <2>2. g \in [a..n -> X] BY <2>1
  <2>3. \A i \in a..n : i < k + 1 => D[i][g] = D[i][f]
    <3> SUFFICES ASSUME NEW i \in a..n, i < k + 1 PROVE D[i][g] = D[i][f]
      OBVIOUS
    <3>1. \A j \in a..n : j < i => g[j] = f[j] BY <1>2
    <3> HIDE DEF g
    <3> QED BY <2>1, <2>2, <3>1
  <2>4. Upto(g, k + 1) BY <1>2, <2>1, <2>3
  <2> HIDE DEF g, Upto
  <2> QED BY <2>2, <2>4
<1>3. n + 1 \in S
  <2>1. S \subseteq Nat OBVIOUS
  <2> HIDE DEF S
  <2>2. n + 1 \in Nat /\ n + 1 \in 0..(n + 1) OBVIOUS
  <2>3. \A k \in Nat : k < n + 1 /\ k \in S => k + 1 \in S BY <1>2
  <2> DEFINE m == n + 1
  <2> HIDE DEF m
  <2>4. \A k \in 0..m : k \in S BY <1>1, <2>1, <2>2, <2>3, Climb DEF m
  <2> QED BY <2>2, <2>4 DEF m
<1> QED BY <1>3 DEF Followed

Truths == {"true", "false", "unknown"}

\* The connectives give truth values.
LEMMA Connectives ==
  /\ \A S : And3(S) \in Truths /\ Or3(S) \in Truths
  /\ Known(TRUE) = "true" /\ Known(FALSE) = "false"
  /\ \A x, y : (IF x = y THEN "unknown" ELSE "true") \in Truths
BY DEF And3, Or3, Known, Truths

\* The truth of a filter at each of its places.
LEMMA TruthsOfFilter ==
  ASSUME NEW name, NEW filter, FilterIsBound(name, filter), NEW v
  PROVE  \E t :
           /\ \A k \in 1..Len(filter) : t[k] = FilterTruth(filter[k], v, t)
           /\ Passes(filter, v) <=> t[Len(filter)] = "true"
<1> DEFINE n == Len(filter)
           D == [k \in 1..n |-> [f \in [1..n -> Truths] |-> FilterTruth(filter[k], v, f)]]
<1>1. n \in Nat /\ DOMAIN filter = 1..n /\ n \in 1..n
  BY SequenceFacts DEF FilterIsBound
<1>2. \A k \in 1..n :
        /\ filter[k].type \in {"IS_NULL", "IS_NOT_NULL", "CONSTANT_COMPARISON", "IN_FILTER",
                               "CONJUNCTION_AND", "CONJUNCTION_OR", "OPTIONAL_FILTER",
                               "DYNAMIC_FILTER"}
        /\ filter[k].type \in {"CONJUNCTION_AND", "CONJUNCTION_OR"} =>
             \A c \in filter[k].children : c \in 1..n /\ c < k
        /\ filter[k].type = "OPTIONAL_FILTER" => filter[k].child \in 1..n /\ filter[k].child < k
  BY <1>1 DEF FilterIsBound
<1> HIDE DEF n
<1>3. \A k \in 1..n : \A f \in [1..n -> Truths] : FilterTruth(filter[k], v, f) \in Truths
  <2> SUFFICES ASSUME NEW k \in 1..n, NEW f \in [1..n -> Truths]
               PROVE  FilterTruth(filter[k], v, f) \in Truths
    OBVIOUS
  <2>1. \A b : (IF b THEN "true" ELSE "false") \in Truths BY DEF Truths
  <2>2. And3({f[c] : c \in filter[k].children}) \in Truths
        /\ Or3({f[c] : c \in filter[k].children}) \in Truths
    BY Connectives
  <2>3. filter[k].type = "OPTIONAL_FILTER" => f[filter[k].child] \in Truths
    BY <1>2
  <2>4. "true" \in Truths /\ "unknown" \in Truths BY DEF Truths
  <2> QED BY <1>2, <2>1, <2>2, <2>3, <2>4 DEF FilterTruth, Known
<1>4. \A k \in 1..n : \A f, g \in [1..n -> Truths] :
        (\A j \in 1..n : j < k => f[j] = g[j]) =>
          FilterTruth(filter[k], v, f) = FilterTruth(filter[k], v, g)
  <2> SUFFICES ASSUME NEW k \in 1..n, NEW f \in [1..n -> Truths], NEW g \in [1..n -> Truths],
                      \A j \in 1..n : j < k => f[j] = g[j]
               PROVE  FilterTruth(filter[k], v, f) = FilterTruth(filter[k], v, g)
    OBVIOUS
  <2>1. filter[k].type \in {"CONJUNCTION_AND", "CONJUNCTION_OR"} =>
          {f[c] : c \in filter[k].children} = {g[c] : c \in filter[k].children}
    BY <1>2
  <2>2. filter[k].type = "OPTIONAL_FILTER" => f[filter[k].child] = g[filter[k].child]
    BY <1>2
  <2> QED BY <1>2, <2>1, <2>2 DEF FilterTruth
<1>5. D \in [1..n -> [[1..n -> Truths] -> Truths]] BY <1>3
<1>6. \A k \in 1..n : \A f \in [1..n -> Truths] : D[k][f] = FilterTruth(filter[k], v, f)
  OBVIOUS
<1>7. Followed(1, n, Truths, D)
  <2>1. Truths # {} BY DEF Truths
  <2>2. Backwards(1, n, Truths, D) BY <1>4, <1>5, <1>6, <2>1 DEF Backwards
  <2> HIDE DEF D
  <2> QED BY <1>1, <2>2, RecursionHolds
<1>8. PICK f \in [1..n -> Truths] : \A k \in 1..n : f[k] = FilterTruth(filter[k], v, f)
  <2> HIDE DEF D
  <2> QED BY <1>6, <1>7 DEF Followed
<1> DEFINE e(truth) == [k \in DOMAIN filter |-> FilterTruth(filter[k], v, truth)]
           t == CHOOSE truth : truth = e(truth)
<1>9. f = e(f) BY <1>1, <1>8
<1>10. t = e(t)
  <2> HIDE DEF e
  <2> QED BY <1>9
<1>11. /\ DOMAIN t = 1..n
       /\ \A k \in 1..n : t[k] = FilterTruth(filter[k], v, t)
  <2> HIDE DEF t
  <2> QED BY <1>1, <1>10
<1>12. Passes(filter, v) <=> t[n] = "true"
  <2>1. Len(t) = n
    <3>1. t = [k \in 1..n |-> t[k]]
      <4> HIDE DEF t
      <4> QED BY <1>1, <1>10
    <3> HIDE DEF t
    <3> QED BY <1>1, <1>11, <3>1, SequenceMade
  <2>2. Passes(filter, v) <=> Root(t) = "true" BY DEF Passes
  <2> HIDE DEF t
  <2> QED BY <2>1, <2>2 DEF Root
<1> HIDE DEF t
<1> QED BY <1>11, <1>12 DEF n

(***************************************************************************)
(* The conditions a filter is pushed as, one for each of its places: what  *)
(* the recursive definition says of them, and whose children are before    *)
(* them as well.                                                           *)
(***************************************************************************)
\* TransformFilter satisfies its recursive definition.
LEMMA ConditionsOfFilter ==
  ASSUME NEW name, NEW filter, FilterIsBound(name, filter)
  PROVE  LET c == TransformFilter(name, filter)
             n == Len(filter)
         IN /\ IsSequence(c) /\ Len(c) = n
            /\ \A k \in 1..n : c[k] = TransformNode(name, filter[k], c)
<1> DEFINE n == Len(filter)
<1>1. n \in Nat /\ DOMAIN filter = 1..n /\ n \in 1..n
  BY SequenceFacts DEF FilterIsBound
<1>2. \A k \in 1..n :
        /\ filter[k].type \in {"IS_NULL", "IS_NOT_NULL", "CONSTANT_COMPARISON", "IN_FILTER",
                               "CONJUNCTION_AND", "CONJUNCTION_OR", "OPTIONAL_FILTER",
                               "DYNAMIC_FILTER"}
        /\ filter[k].type \in {"CONJUNCTION_AND", "CONJUNCTION_OR"} =>
             \A c \in filter[k].children : c \in 1..n /\ c < k
        /\ filter[k].type = "OPTIONAL_FILTER" => filter[k].child \in 1..n /\ filter[k].child < k
  BY <1>1 DEF FilterIsBound
<1> HIDE DEF n
<1> DEFINE Leaf(k) == TransformNode(name, filter[k], <<>>)
           X == {Leaf(k) : k \in 1..n} \cup {Empty}
                  \cup {[op |-> o, children |-> s] : o \in {"AND", "OR"}, s \in SUBSET (1..n)}
           D == [k \in 1..n |-> [f \in [1..n -> X] |-> TransformNode(name, filter[k], f)]]
<1> HIDE DEF Leaf
<1>a. /\ \A k \in 1..n : Leaf(k) \in X
      /\ Empty \in X
      /\ \A s \in SUBSET (1..n) : [op |-> "AND", children |-> s] \in X /\ [op |-> "OR", children |-> s] \in X
  <2>1. \A s \in SUBSET (1..n) : [op |-> "AND", children |-> s] \in X /\ [op |-> "OR", children |-> s] \in X
    <3> HIDE DEF X
    <3> SUFFICES ASSUME NEW s \in SUBSET (1..n)
                 PROVE  [op |-> "AND", children |-> s] \in X /\ [op |-> "OR", children |-> s] \in X
      OBVIOUS
    <3>1. "AND" \in {"AND", "OR"} /\ "OR" \in {"AND", "OR"} OBVIOUS
    <3> QED BY <3>1 DEF X
  <2>2. \A k \in 1..n : Leaf(k) \in X OBVIOUS
  <2>3. Empty \in X OBVIOUS
  <2> HIDE DEF X
  <2> QED BY <2>1, <2>2, <2>3
<1> HIDE DEF X, D
<1>3. \A k \in 1..n : \A f \in [1..n -> X] : TransformNode(name, filter[k], f) \in X
  <2> SUFFICES ASSUME NEW k \in 1..n, NEW f \in [1..n -> X]
               PROVE  TransformNode(name, filter[k], f) \in X
    OBVIOUS
  <2>1. CASE filter[k].type = "CONJUNCTION_AND"
    <3>1. TransformNode(name, filter[k], f) = Joined("AND", filter[k].children, f)
      BY <2>1 DEF TransformNode
    <3> DEFINE s == {c \in filter[k].children : f[c] # Empty}
    <3>2. s \subseteq 1..n BY <1>2, <2>1
    <3>3. [op |-> "AND", children |-> s] \in X BY <1>a, <3>2
    <3> QED BY <1>a, <3>1, <3>3 DEF Joined
  <2>2. CASE filter[k].type = "CONJUNCTION_OR"
    <3>1. TransformNode(name, filter[k], f) = Joined("OR", filter[k].children, f)
      BY <2>2 DEF TransformNode
    <3> DEFINE s == {c \in filter[k].children : f[c] # Empty}
    <3>2. s \subseteq 1..n BY <1>2, <2>2
    <3>3. [op |-> "OR", children |-> s] \in X BY <1>a, <3>2
    <3> QED BY <1>a, <3>1, <3>3 DEF Joined
  <2>3. CASE filter[k].type = "OPTIONAL_FILTER"
    <3>1. TransformNode(name, filter[k], f) = f[filter[k].child]
      BY <2>3 DEF TransformNode
    <3> QED BY <1>2, <2>3, <3>1
  <2>4. CASE filter[k].type \in {"IS_NULL", "IS_NOT_NULL", "CONSTANT_COMPARISON", "IN_FILTER",
                                 "DYNAMIC_FILTER"}
    <3>1. TransformNode(name, filter[k], f) = Leaf(k)
      BY <2>4 DEF TransformNode, Leaf
    <3> QED BY <1>a, <3>1
  <2> QED BY <1>2, <2>1, <2>2, <2>3, <2>4
<1>4. ASSUME NEW k \in 1..n, NEW f, NEW g, \A j \in 1..n : j < k => f[j] = g[j]
      PROVE  TransformNode(name, filter[k], f) = TransformNode(name, filter[k], g)
  <2>1. filter[k].type \in {"CONJUNCTION_AND", "CONJUNCTION_OR"} =>
          {c \in filter[k].children : f[c] # Empty} = {c \in filter[k].children : g[c] # Empty}
    BY <1>2, <1>4
  <2>2. filter[k].type = "OPTIONAL_FILTER" => f[filter[k].child] = g[filter[k].child]
    BY <1>2, <1>4
  <2> QED BY <1>2, <2>1, <2>2 DEF TransformNode, Joined
<1>5. D \in [1..n -> [[1..n -> X] -> X]] BY <1>3 DEF D
<1>6. \A k \in 1..n : \A f \in [1..n -> X] : D[k][f] = TransformNode(name, filter[k], f)
  BY DEF D
<1>7. Followed(1, n, X, D)
  <2>1. X # {} BY <1>a
  <2>2. \A k \in 1..n : \A f, g \in [1..n -> X] :
          (\A j \in 1..n : j < k => f[j] = g[j]) => D[k][f] = D[k][g]
    <3> SUFFICES ASSUME NEW k \in 1..n, NEW f \in [1..n -> X], NEW g \in [1..n -> X],
                        \A j \in 1..n : j < k => f[j] = g[j]
                 PROVE  D[k][f] = D[k][g]
      OBVIOUS
    <3>1. TransformNode(name, filter[k], f) = TransformNode(name, filter[k], g)
      BY <1>4
    <3> QED BY <1>6, <3>1
  <2>3. Backwards(1, n, X, D) BY <1>5, <2>1, <2>2 DEF Backwards
  <2> QED BY <1>1, <2>3, RecursionHolds
<1>8. PICK f \in [1..n -> X] : \A k \in 1..n : f[k] = TransformNode(name, filter[k], f)
  BY <1>6, <1>7 DEF Followed
<1> DEFINE e(conditions) == [k \in DOMAIN filter |-> TransformNode(name, filter[k], conditions)]
           c == CHOOSE conditions : conditions = e(conditions)
<1>9. f = e(f) BY <1>1, <1>8
<1>10. c = e(c)
  <2> HIDE DEF e
  <2> QED BY <1>9
<1>11. c = TransformFilter(name, filter) BY DEF TransformFilter
<1> HIDE DEF c
<1>12. /\ DOMAIN c = 1..n
       /\ \A k \in 1..n : c[k] = TransformNode(name, filter[k], c)
  BY <1>1, <1>10
<1>13. c = [k \in 1..n |-> c[k]]
  BY <1>1, <1>10
<1> QED BY <1>1, <1>11, <1>12, <1>13, SequenceMade DEF n

ConditionIsTree(c) ==
  /\ IsSequence(c) /\ c # <<>>
  /\ \A k \in DOMAIN c : c[k].op \in {"AND", "OR"} => c[k].children \subseteq 1..(k - 1)

\* The truth of a condition at each of its places.
LEMMA TruthsOfCondition ==
  ASSUME NEW c, ConditionIsTree(c), NEW row
  PROVE  \E h :
           /\ \A k \in 1..Len(c) : h[k] = ConditionTruth(c[k], row, h)
           /\ Holds(c, row) <=> h[Len(c)] = "true"
<1> DEFINE n == Len(c)
           D == [k \in 1..n |-> [f \in [1..n -> Truths] |-> ConditionTruth(c[k], row, f)]]
<1>1. n \in Nat /\ DOMAIN c = 1..n /\ n \in 1..n
  BY SequenceFacts DEF ConditionIsTree
<1>2. \A k \in 1..n : c[k].op \in {"AND", "OR"} =>
        \A j \in c[k].children : j \in 1..n /\ j < k
  BY <1>1 DEF ConditionIsTree
<1> HIDE DEF n, D
<1>3. \A k \in 1..n : \A f \in [1..n -> Truths] : ConditionTruth(c[k], row, f) \in Truths
  <2> SUFFICES ASSUME NEW k \in 1..n, NEW f \in [1..n -> Truths]
               PROVE  ConditionTruth(c[k], row, f) \in Truths
    OBVIOUS
  <2>1. \A b : (IF b THEN "true" ELSE "false") \in Truths BY DEF Truths
  <2>2. And3({f[j] : j \in c[k].children}) \in Truths
        /\ Or3({f[j] : j \in c[k].children}) \in Truths
    BY Connectives
  <2>3. "true" \in Truths /\ "unknown" \in Truths BY DEF Truths
  <2> QED BY <2>1, <2>2, <2>3 DEF ConditionTruth, Known
<1>4. \A k \in 1..n : \A f, g \in [1..n -> Truths] :
        (\A j \in 1..n : j < k => f[j] = g[j]) =>
          ConditionTruth(c[k], row, f) = ConditionTruth(c[k], row, g)
  <2> SUFFICES ASSUME NEW k \in 1..n, NEW f \in [1..n -> Truths], NEW g \in [1..n -> Truths],
                      \A j \in 1..n : j < k => f[j] = g[j]
               PROVE  ConditionTruth(c[k], row, f) = ConditionTruth(c[k], row, g)
    OBVIOUS
  <2>1. c[k].op \in {"AND", "OR"} =>
          {f[j] : j \in c[k].children} = {g[j] : j \in c[k].children}
    BY <1>2
  <2> QED BY <2>1 DEF ConditionTruth
<1>5. D \in [1..n -> [[1..n -> Truths] -> Truths]] BY <1>3 DEF D
<1>6. \A k \in 1..n : \A f \in [1..n -> Truths] : D[k][f] = ConditionTruth(c[k], row, f)
  BY DEF D
<1>7. Followed(1, n, Truths, D)
  <2>1. Truths # {} BY DEF Truths
  <2>2. \A k \in 1..n : \A f, g \in [1..n -> Truths] :
          (\A j \in 1..n : j < k => f[j] = g[j]) => D[k][f] = D[k][g]
    <3> SUFFICES ASSUME NEW k \in 1..n, NEW f \in [1..n -> Truths], NEW g \in [1..n -> Truths],
                        \A j \in 1..n : j < k => f[j] = g[j]
                 PROVE  D[k][f] = D[k][g]
      OBVIOUS
    <3>1. ConditionTruth(c[k], row, f) = ConditionTruth(c[k], row, g) BY <1>4
    <3>2. D[k][f] = ConditionTruth(c[k], row, f) /\ D[k][g] = ConditionTruth(c[k], row, g)
      BY <1>6
    <3> QED BY <3>1, <3>2
  <2>3. Backwards(1, n, Truths, D) BY <1>5, <2>1, <2>2 DEF Backwards
  <2> QED BY <1>1, <2>3, RecursionHolds
<1>8. PICK f \in [1..n -> Truths] : \A k \in 1..n : f[k] = ConditionTruth(c[k], row, f)
  BY <1>6, <1>7 DEF Followed
<1> DEFINE e(truth) == [k \in DOMAIN c |-> ConditionTruth(c[k], row, truth)]
           t == CHOOSE truth : truth = e(truth)
<1>9. f = e(f) BY <1>1, <1>8
<1>10. t = e(t)
  <2> HIDE DEF e
  <2> QED BY <1>9
<1>11. Holds(c, row) <=> Root(t) = "true" BY DEF Holds
<1> HIDE DEF t
<1>12. /\ DOMAIN t = 1..n
       /\ \A k \in 1..n : t[k] = ConditionTruth(c[k], row, t)
  BY <1>1, <1>10
<1>13. t = [k \in 1..n |-> t[k]] BY <1>1, <1>10
<1>14. Len(t) = n BY <1>1, <1>12, <1>13, SequenceMade
<1> QED BY <1>11, <1>12, <1>14 DEF n, Root

\* TransformFilter makes a tree of conditions: each node names earlier ones.
LEMMA ConditionsAreTrees ==
  ASSUME NEW name, NEW filter, FilterIsBound(name, filter)
  PROVE  ConditionIsTree(TransformFilter(name, filter))
<1> DEFINE c == TransformFilter(name, filter)
           n == Len(filter)
           S == {k \in 1..n : c[k].op \in {"AND", "OR"} => c[k].children \subseteq 1..(k - 1)}
<1>1. /\ n \in Nat /\ DOMAIN filter = 1..n /\ n \in 1..n
      /\ \A k \in 1..n :
           /\ filter[k].type \in {"IS_NULL", "IS_NOT_NULL", "CONSTANT_COMPARISON", "IN_FILTER",
                                  "CONJUNCTION_AND", "CONJUNCTION_OR", "OPTIONAL_FILTER",
                                  "DYNAMIC_FILTER"}
           /\ filter[k].type = "CONSTANT_COMPARISON" =>
                filter[k].comparison \in {"COMPARE_EQUAL", "COMPARE_NOTEQUAL", "COMPARE_LESSTHAN",
                  "COMPARE_GREATERTHAN", "COMPARE_LESSTHANOREQUALTO", "COMPARE_GREATERTHANOREQUALTO"}
           /\ filter[k].type \in {"CONJUNCTION_AND", "CONJUNCTION_OR"} =>
                filter[k].children \subseteq 1..(k - 1)
           /\ filter[k].type = "OPTIONAL_FILTER" => filter[k].child \in 1..(k - 1)
  BY SequenceFacts DEF FilterIsBound
<1>2. /\ IsSequence(c) /\ Len(c) = n
      /\ \A k \in 1..n : c[k] = TransformNode(name, filter[k], c)
  BY ConditionsOfFilter
<1>3. DOMAIN c = 1..n /\ c # <<>> BY <1>1, <1>2, SequenceFacts
<1> HIDE DEF c, n
<1>4. ASSUME NEW k \in 1..n, \A j \in 1..n : j < k => j \in S
      PROVE  k \in S
  <2>1. CASE filter[k].type \in {"CONJUNCTION_AND", "CONJUNCTION_OR"}
    <3>1. c[k] \in {Joined("AND", filter[k].children, c), Joined("OR", filter[k].children, c)}
      BY <1>2, <2>1 DEF TransformNode
    <3>2. c[k].op \in {"AND", "OR"} => c[k].children \subseteq filter[k].children
      BY <3>1 DEF Joined, Empty
    <3> QED BY <1>1, <2>1, <3>2
  <2>2. CASE filter[k].type = "OPTIONAL_FILTER"
    <3>1. c[k] = c[filter[k].child] BY <1>2, <2>2 DEF TransformNode
    <3>2. filter[k].child \in 1..n /\ filter[k].child < k BY <1>1, <2>2
    <3>3. c[k].op \in {"AND", "OR"} => c[k].children \subseteq 1..(filter[k].child - 1)
      BY <1>4, <3>1, <3>2
    <3>4. 1..(filter[k].child - 1) \subseteq 1..(k - 1) BY <1>1, <3>2
    <3> QED BY <3>3, <3>4
  <2>3. CASE filter[k].type \notin {"CONJUNCTION_AND", "CONJUNCTION_OR", "OPTIONAL_FILTER"}
    <3>1. CASE filter[k].type = "CONSTANT_COMPARISON"
      <4>1. c[k].op = TransformComparison(filter[k].comparison)
        BY <1>2, <3>1 DEF TransformNode
      <4> QED BY <1>1, <3>1, <4>1 DEF TransformComparison
    <3>2. CASE filter[k].type # "CONSTANT_COMPARISON"
      <4>1. c[k].op \notin {"AND", "OR"}
        BY <1>1, <1>2, <2>3, <3>2 DEF TransformNode, Empty
      <4> QED BY <4>1
    <3> QED BY <3>1, <3>2
  <2> QED BY <2>1, <2>2, <2>3
<1>5. \A k \in 1..n : k \in S
  <2> HIDE DEF S
  <2> QED BY <1>1, <1>4, FromThoseBefore
<1> QED BY <1>2, <1>3, <1>5 DEF ConditionIsTree, c

(***************************************************************************)
(* A filter that is pushed keeps the rows it keeps, and one that is not    *)
(* keeps them all.                                                         *)
(***************************************************************************)
THEOREM FilterIsPushedAsItIs ==
  ASSUME NEW name, NEW filter, FilterIsBound(name, filter), NEW row
  PROVE  LET c == TransformFilter(name, filter)
         IN /\ Root(c) # Empty => (Holds(c, row) <=> Passes(filter, row[name]))
            /\ Root(c) = Empty => Passes(filter, row[name])
<1> DEFINE c == TransformFilter(name, filter)
           n == Len(filter)
           v == row[name]
<1>1. /\ n \in Nat /\ DOMAIN filter = 1..n /\ n \in 1..n
      /\ \A k \in 1..n :
           /\ filter[k].type \in {"IS_NULL", "IS_NOT_NULL", "CONSTANT_COMPARISON", "IN_FILTER",
                                  "CONJUNCTION_AND", "CONJUNCTION_OR", "OPTIONAL_FILTER",
                                  "DYNAMIC_FILTER"}
           /\ filter[k].type = "CONSTANT_COMPARISON" =>
                filter[k].comparison \in {"COMPARE_EQUAL", "COMPARE_NOTEQUAL", "COMPARE_LESSTHAN",
                  "COMPARE_GREATERTHAN", "COMPARE_LESSTHANOREQUALTO", "COMPARE_GREATERTHANOREQUALTO"}
           /\ filter[k].type \in {"CONJUNCTION_AND", "CONJUNCTION_OR"} =>
                filter[k].children \subseteq 1..(k - 1)
           /\ filter[k].type = "OPTIONAL_FILTER" => filter[k].child \in 1..(k - 1)
           /\ filter[k].type = "CONJUNCTION_OR" =>
                filter[k].children # {} /\ \A j \in filter[k].children : c[j] # Empty
  BY SequenceFacts DEF FilterIsBound
<1>2. /\ Len(c) = n
      /\ \A k \in 1..n : c[k] = TransformNode(name, filter[k], c)
  BY ConditionsOfFilter
<1>3. PICK t : /\ \A k \in 1..n : t[k] = FilterTruth(filter[k], v, t)
               /\ Passes(filter, v) <=> t[n] = "true"
  BY TruthsOfFilter
<1>4. PICK h : /\ \A k \in 1..n : h[k] = ConditionTruth(c[k], row, h)
               /\ Holds(c, row) <=> h[n] = "true"
  <2> HIDE DEF c, n
  <2>1. ConditionIsTree(c) BY ConditionsAreTrees DEF c
  <2> QED BY <1>2, <2>1, TruthsOfCondition
<1> DEFINE S == {k \in 1..n : IF c[k] = Empty THEN t[k] = "true" ELSE h[k] = t[k]}
<1> HIDE DEF c, n, v
<1>5. ASSUME NEW k \in 1..n, \A j \in 1..n : j < k => j \in S
      PROVE  k \in S
  <2> HIDE DEF S
  <2>a. \A j \in 1..n : j < k => IF c[j] = Empty THEN t[j] = "true" ELSE h[j] = t[j]
    BY <1>5 DEF S
  <2>0. ASSUME IF c[k] = Empty THEN t[k] = "true" ELSE h[k] = t[k]
        PROVE  k \in S
    BY <2>0 DEF S
  <2>1. CASE filter[k].type = "CONJUNCTION_AND"
    <3> DEFINE kids == filter[k].children
               some == {j \in kids : c[j] # Empty}
    <3>1. \A j \in kids : j \in 1..n /\ j < k BY <1>1, <2>1
    <3>2. t[k] = And3({t[j] : j \in kids}) BY <1>3, <2>1 DEF FilterTruth
    <3>3. c[k] = IF some = {} THEN Empty ELSE [op |-> "AND", children |-> some]
      BY <1>2, <2>1 DEF TransformNode, Joined
    <3>4. \A j \in kids : IF c[j] = Empty THEN t[j] = "true" ELSE h[j] = t[j]
      BY <2>a, <3>1
    <3>5. CASE some = {}
      <4>1. \A j \in kids : t[j] = "true" BY <3>4, <3>5
      <4>2. And3({t[j] : j \in kids}) = "true" BY <4>1 DEF And3
      <4> QED BY <2>0, <3>2, <3>3, <3>5, <4>2
    <3>6. CASE some # {}
      <4>1. h[k] = And3({h[j] : j \in some})
        <5>1. c[k].op = "AND" /\ c[k].children = some BY <3>3, <3>6
        <5> HIDE DEF some
        <5> QED BY <1>4, <5>1 DEF ConditionTruth
      <4>2. c[k] # Empty BY <3>3, <3>6 DEF Empty
      <4>3. \A x \in {"false", "unknown"} : x \in {h[j] : j \in some} <=> x \in {t[j] : j \in kids}
        BY <3>4
      <4>4. And3({h[j] : j \in some}) = And3({t[j] : j \in kids})
        <5> HIDE DEF some, kids
        <5> QED BY <4>3 DEF And3
      <4> QED BY <2>0, <3>2, <4>1, <4>2, <4>4
    <3> QED BY <3>5, <3>6
  <2>2. CASE filter[k].type = "CONJUNCTION_OR"
    <3> DEFINE kids == filter[k].children
               some == {j \in kids : c[j] # Empty}
    <3>1. kids # {} /\ \A j \in kids : j \in 1..n /\ j < k /\ c[j] # Empty BY <1>1, <2>2
    <3>2. t[k] = Or3({t[j] : j \in kids}) BY <1>3, <2>2 DEF FilterTruth
    <3>3. some = kids BY <3>1
    <3>4. c[k] = [op |-> "OR", children |-> kids]
      BY <1>2, <2>2, <3>1, <3>3 DEF TransformNode, Joined
    <3>5. \A j \in kids : h[j] = t[j]
      BY <2>a, <3>1
    <3>6. h[k] = Or3({h[j] : j \in kids})
      <4>1. c[k].op = "OR" /\ c[k].children = kids BY <3>4
      <4> HIDE DEF kids
      <4> QED BY <1>4, <4>1 DEF ConditionTruth
    <3>7. c[k] # Empty BY <3>4 DEF Empty
    <3>8. {h[j] : j \in kids} = {t[j] : j \in kids} BY <3>5
    <3> QED BY <2>0, <3>2, <3>6, <3>7, <3>8
  <2>3. CASE filter[k].type = "OPTIONAL_FILTER"
    <3>1. c[k] = c[filter[k].child] BY <1>2, <2>3 DEF TransformNode
    <3>2. filter[k].child \in 1..n /\ filter[k].child < k BY <1>1, <2>3
    <3>3. t[k] = t[filter[k].child] BY <1>3, <2>3 DEF FilterTruth
    <3>4. \A f : ConditionTruth(c[k], row, f) = ConditionTruth(c[filter[k].child], row, f)
      BY <3>1
    <3>5. h[k] = h[filter[k].child] BY <1>4, <3>2, <3>4
    <3> QED BY <2>a, <2>0, <3>1, <3>2, <3>3, <3>5
  <2>4. CASE filter[k].type = "CONSTANT_COMPARISON"
    <3>1. c[k] = [op |-> TransformComparison(filter[k].comparison), column |-> name,
                  constant |-> filter[k].constant]
      BY <1>2, <2>4 DEF TransformNode
    <3>2. t[k] = IF v = NULL THEN "unknown"
                 ELSE Known(Compares(filter[k].comparison, v, filter[k].constant))
      BY <1>3, <2>4 DEF FilterTruth
    <3>3. h[k] = ConditionTruth(c[k], row, h) BY <1>4
    <3>4. /\ c[k].op \in {"=", "!=", "<", ">", "<=", ">="}
          /\ CompareTruth(c[k], v) = Compares(filter[k].comparison, v, filter[k].constant)
      BY <1>1, <2>4, <3>1 DEF CompareTruth, Compares, TransformComparison
    <3>5. h[k] = IF v = NULL THEN "unknown" ELSE Known(CompareTruth(c[k], v))
      <4>1. row[c[k].column] = v BY <3>1 DEF v
      <4>2. c[k].op \notin {"empty", "IS_NULL", "IS_NOT_NULL", "AND", "OR", "DuckDB_text"}
        BY <3>4
      <4> HIDE DEF v
      <4> QED BY <3>3, <4>1, <4>2 DEF ConditionTruth
    <3>6. c[k] # Empty BY <3>4 DEF Empty
    <3> QED BY <2>0, <3>2, <3>4, <3>5, <3>6
  <2>5. CASE filter[k].type = "IN_FILTER"
    <3>1. c[k] = [op |-> "IN", column |-> name, values |-> filter[k].values]
      BY <1>2, <2>5 DEF TransformNode
    <3>2. t[k] = IF v = NULL THEN "unknown" ELSE Known(v \in filter[k].values)
      BY <1>3, <2>5 DEF FilterTruth
    <3>3. h[k] = ConditionTruth(c[k], row, h) BY <1>4
    <3>4. h[k] = IF v = NULL THEN "unknown" ELSE Known(v \in filter[k].values)
      BY <3>1, <3>3 DEF ConditionTruth, CompareTruth, v
    <3>5. c[k] # Empty BY <3>1 DEF Empty
    <3> QED BY <2>0, <3>2, <3>4, <3>5
  <2>6. CASE filter[k].type = "IS_NULL"
    <3>1. c[k] = [op |-> "IS_NULL", column |-> name]
      BY <1>2, <2>6 DEF TransformNode
    <3>2. t[k] = Known(v = NULL) BY <1>3, <2>6 DEF FilterTruth
    <3>3. h[k] = ConditionTruth(c[k], row, h) BY <1>4
    <3>4. c[k].op = "IS_NULL" /\ row[c[k].column] = v BY <3>1 DEF v
    <3>5. h[k] = t[k] BY <3>2, <3>3, <3>4 DEF ConditionTruth
    <3>6. c[k] # Empty BY <3>4 DEF Empty
    <3> QED BY <2>0, <3>5, <3>6
  <2>8. CASE filter[k].type = "IS_NOT_NULL"
    <3>1. c[k] = [op |-> "IS_NOT_NULL", column |-> name]
      BY <1>2, <2>8 DEF TransformNode
    <3>2. t[k] = Known(v # NULL) BY <1>3, <2>8 DEF FilterTruth
    <3>3. h[k] = ConditionTruth(c[k], row, h) BY <1>4
    <3>4. c[k].op = "IS_NOT_NULL" /\ row[c[k].column] = v BY <3>1 DEF v
    <3>5. h[k] = t[k] BY <3>2, <3>3, <3>4 DEF ConditionTruth
    <3>6. c[k] # Empty BY <3>4 DEF Empty
    <3> QED BY <2>0, <3>5, <3>6
  <2>7. CASE filter[k].type = "DYNAMIC_FILTER"
    <3>1. c[k] = Empty BY <1>2, <2>7 DEF TransformNode
    <3>2. t[k] = "true" BY <1>3, <2>7 DEF FilterTruth
    <3> QED BY <2>0, <3>1, <3>2
  <2> QED BY <1>1, <2>1, <2>2, <2>3, <2>4, <2>5, <2>6, <2>7, <2>8
<1>6. n \in S
  <2> HIDE DEF S
  <2>1. \A k \in 1..n : k \in S BY <1>1, <1>5, FromThoseBefore
  <2> QED BY <1>1, <2>1
<1>7. Root(c) = c[n] BY <1>2 DEF Root
<1>8. IF c[n] = Empty THEN t[n] = "true" ELSE h[n] = t[n] BY <1>6
<1> QED BY <1>3, <1>4, <1>7, <1>8 DEF c, v

-----------------------------------------------------------------------------
(* Rows.                                                                   *)

\* Keep makes a sequence, no longer than the rows, of rows that were there.
LEMMA KeepIsSequence ==
  ASSUME NEW rows, IsSequence(rows), NEW places
  PROVE  /\ IsSequence(Keep(rows, places))
         /\ Len(Keep(rows, places)) <= Len(rows)
         /\ \A k \in DOMAIN Keep(rows, places) : \E i \in DOMAIN rows : Keep(rows, places)[k] = rows[i]
<1> DEFINE n == Len(rows)
           R == {rows[i] : i \in DOMAIN rows}
           X == Seq(R)
           Step(f, i) == IF i = 0 THEN <<>>
                         ELSE IF i \in places THEN Append(f[i - 1], rows[i]) ELSE f[i - 1]
           D == [i \in 0..n |-> [f \in [0..n -> X] |-> Step(f, i)]]
<1>1. n \in Nat /\ DOMAIN rows = 1..n BY SequenceFacts
<1>2. <<>> \in X /\ \A s \in X, x \in R : Append(s, x) \in X
  BY EmptySeq, AppendProperties
<1>3. \A i \in 1..n : rows[i] \in R /\ i - 1 \in 0..n /\ i - 1 < i BY <1>1
<1> HIDE DEF n, R, X, D
<1>4. \A i \in 0..n : \A f \in [0..n -> X] : Step(f, i) \in X
  <2> SUFFICES ASSUME NEW i \in 0..n, NEW f \in [0..n -> X] PROVE Step(f, i) \in X
    OBVIOUS
  <2>1. CASE i = 0 BY <1>2, <2>1
  <2>2. CASE i # 0
    <3>1. i \in 1..n BY <1>1, <2>2
    <3>2. f[i - 1] \in X /\ rows[i] \in R BY <1>3, <3>1
    <3> QED BY <1>2, <2>2, <3>2
  <2> QED BY <2>1, <2>2
<1>5. D \in [0..n -> [[0..n -> X] -> X]] BY <1>4 DEF D
<1>6. \A i \in 0..n : \A f \in [0..n -> X] : D[i][f] = Step(f, i)
  BY DEF D
<1>7. Followed(0, n, X, D)
  <2>1. \A i \in 0..n : \A f, g \in [0..n -> X] :
          (\A j \in 0..n : j < i => f[j] = g[j]) => D[i][f] = D[i][g]
    <3> SUFFICES ASSUME NEW i \in 0..n, NEW f \in [0..n -> X], NEW g \in [0..n -> X],
                        \A j \in 0..n : j < i => f[j] = g[j]
                 PROVE  D[i][f] = D[i][g]
      OBVIOUS
    <3>1. i # 0 => f[i - 1] = g[i - 1] BY <1>1, <1>3
    <3>2. D[i][f] = Step(f, i) /\ D[i][g] = Step(g, i) BY <1>6
    <3> QED BY <3>1, <3>2
  <2>2. X # {} BY <1>2
  <2>3. Backwards(0, n, X, D) BY <1>5, <2>1, <2>2 DEF Backwards
  <2> QED BY <1>1, <2>3, RecursionHolds
<1>8. PICK f \in [0..n -> X] : \A i \in 0..n : f[i] = Step(f, i)
  BY <1>6, <1>7 DEF Followed
<1> DEFINE e(kept) == [i \in 0..n |-> Step(kept, i)]
           t == CHOOSE kept : kept = e(kept)
<1>9. f = e(f) BY <1>1, <1>8
<1>10. t = e(t)
  <2> HIDE DEF e
  <2> QED BY <1>9
<1>11. Keep(rows, places) = t[n] BY DEF Keep, n
<1> HIDE DEF t
<1>12. \A i \in 0..n : t[i] = Step(t, i) BY <1>10
<1> DEFINE S == {i \in Nat : t[i] \in X /\ Len(t[i]) <= i}
<1>13. 0 \in S
  <2>1. t[0] = <<>> BY <1>1, <1>12
  <2>2. Len(<<>>) = 0 OBVIOUS
  <2> QED BY <1>2, <2>1, <2>2
<1>14. ASSUME NEW i \in Nat, i < n, i \in S PROVE i + 1 \in S
  <2>1. i + 1 \in 0..n /\ i + 1 # 0 /\ (i + 1) - 1 = i /\ i + 1 \in 1..n BY <1>1, <1>14
  <2>2. t[i + 1] = IF i + 1 \in places THEN Append(t[i], rows[i + 1]) ELSE t[i]
    BY <1>12, <2>1
  <2>3. t[i] \in Seq(R) /\ Len(t[i]) <= i /\ Len(t[i]) \in Nat BY <1>14, LenProperties DEF X
  <2>4. rows[i + 1] \in R BY <1>3, <2>1
  <2>5. Append(t[i], rows[i + 1]) \in Seq(R) /\ Len(Append(t[i], rows[i + 1])) = Len(t[i]) + 1
    BY <2>3, <2>4, AppendProperties
  <2>6. t[i + 1] \in X /\ Len(t[i + 1]) <= i + 1
    BY <2>2, <2>3, <2>5 DEF X
  <2> QED BY <2>6
<1>15. t[n] \in Seq(R) /\ Len(t[n]) <= n
  <2>1. S \subseteq Nat OBVIOUS
  <2> HIDE DEF S
  <2>2. \A i \in 0..n : i \in S BY <1>1, <1>13, <1>14, <2>1, Climb
  <2>3. n \in S BY <1>1, <2>2
  <2> QED BY <2>3 DEF S, X
<1>16. \A k \in DOMAIN t[n] : t[n][k] \in R
  BY <1>15, ElementOfSeq, LenProperties
<1>17. IsSequence(t[n])
  <2>1. Len(t[n]) \in Nat /\ DOMAIN t[n] = 1..Len(t[n]) /\ t[n] = [k \in 1..Len(t[n]) |-> t[n][k]]
    BY <1>15, LenProperties
  <2> QED BY <2>1, SequenceMade
<1> QED BY <1>11, <1>15, <1>16, <1>17 DEF n, R

-----------------------------------------------------------------------------
(* LIMIT and OFFSET keep a window of the rows.                             *)

LimitIs(l) == l.limit_val.value \in Nat /\ l.offset_val.value \in Nat

Start(l) == IF l.offset_val.type = "UNSET" THEN 0 ELSE l.offset_val.value

Width(l, n) ==
  LET left == IF Start(l) > n THEN 0 ELSE n - Start(l)
  IN IF l.limit_val.type # "UNSET" /\ l.limit_val.value < left THEN l.limit_val.value ELSE left

Window(l, rows) == [i \in 1..Width(l, Len(rows)) |-> rows[i + Start(l)]]

\* What LIMIT and OFFSET leave lies within the rows.
LEMMA WidthFits ==
  ASSUME NEW l, LimitIs(l), NEW n \in Nat
  PROVE  /\ Start(l) \in Nat /\ Width(l, n) \in Nat
         /\ \A i \in 1..Width(l, n) : i + Start(l) \in 1..n
BY DEF LimitIs, Start, Width

\* OFFSET, place by place.
LEMMA SkipIs ==
  ASSUME NEW rows, IsSequence(rows), NEW k \in Nat
  PROVE  LET m == IF k > Len(rows) THEN 0 ELSE Len(rows) - k
         IN Skip(rows, k) = [i \in 1..m |-> rows[i + k]]
<1> DEFINE n == Len(rows)
           m == IF k > n THEN 0 ELSE n - k
<1>1. n \in Nat BY SequenceFacts
<1>2. Skip(rows, k) = [i \in 1..((1 + n) - (k + 1)) |-> rows[(i + (k + 1)) - 1]]
  BY DEF Skip
<1> HIDE DEF n
<1>3. 1..((1 + n) - (k + 1)) = 1..m BY <1>1
<1>4. \A i \in 1..m : (i + (k + 1)) - 1 = i + k BY <1>1
<1> QED BY <1>2, <1>3, <1>4 DEF n

\* LIMIT, place by place.
LEMMA TakeIs ==
  ASSUME NEW rows, IsSequence(rows), NEW k \in Nat
  PROVE  LET m == IF k < Len(rows) THEN k ELSE Len(rows)
         IN Take(rows, k) = [i \in 1..m |-> rows[i]]
<1> DEFINE n == Len(rows)
           m == IF k < n THEN k ELSE n
<1>1. n \in Nat BY SequenceFacts
<1>2. Take(rows, k) = [i \in 1..((1 + m) - 1) |-> rows[(i + 1) - 1]]
  BY DEF Take
<1> HIDE DEF n
<1>3. 1..((1 + m) - 1) = 1..m BY <1>1
<1>4. \A i \in 1..m : (i + 1) - 1 = i BY <1>1
<1> QED BY <1>2, <1>3, <1>4 DEF n

\* LIMIT and OFFSET together leave a window of the rows.
LEMMA LimitedIsWindow ==
  ASSUME NEW l, LimitIs(l), NEW rows, IsSequence(rows)
  PROVE  /\ Limited(l, rows) = Window(l, rows)
         /\ IsSequence(Limited(l, rows))
<1> DEFINE n == Len(rows)
           k == Start(l)
           m == IF k > n THEN 0 ELSE n - k
           skipped == [i \in 1..m |-> rows[i + k]]
<1>1. n \in Nat /\ k \in Nat /\ m \in Nat /\ rows = [i \in 1..n |-> rows[i]]
  BY SequenceFacts, WidthFits
<1>2. (IF l.offset_val.type = "UNSET" THEN rows ELSE Skip(rows, l.offset_val.value)) = skipped
  <2>1. CASE l.offset_val.type = "UNSET"
    <3>1. k = 0 BY <2>1 DEF Start
    <3> HIDE DEF n, k
    <3>2. m = n /\ \A i \in 1..n : i + k = i BY <1>1, <3>1
    <3> QED BY <1>1, <2>1, <3>2
  <2>2. CASE l.offset_val.type # "UNSET"
    <3>1. k = l.offset_val.value BY <2>2 DEF Start
    <3>2. Skip(rows, k) = skipped BY <1>1, SkipIs
    <3> HIDE DEF k
    <3> QED BY <2>2, <3>1, <3>2
  <2> QED BY <2>1, <2>2
<1> HIDE DEF n, k
<1>3. IsSequence(skipped) /\ Len(skipped) = m
  <2>1. DOMAIN skipped = 1..m /\ skipped = [i \in 1..m |-> skipped[i]] OBVIOUS
  <2> HIDE DEF skipped, m
  <2> QED BY <1>1, <2>1, SequenceMade
<1>4. Limited(l, rows) = IF l.limit_val.type = "UNSET" THEN skipped
                         ELSE Take(skipped, l.limit_val.value)
  BY <1>2 DEF Limited
<1> DEFINE w == Width(l, n)
<1>5. w \in Nat BY <1>1, WidthFits
<1>6. Limited(l, rows) = [i \in 1..w |-> rows[i + k]]
  <2>1. CASE l.limit_val.type = "UNSET"
    <3>1. w = m BY <2>1 DEF Width, k
    <3> QED BY <1>4, <2>1, <3>1
  <2>2. CASE l.limit_val.type # "UNSET"
    <3>1. l.limit_val.value \in Nat BY DEF LimitIs
    <3>2. w = IF l.limit_val.value < m THEN l.limit_val.value ELSE m BY <2>2 DEF Width, k
    <3>3. Take(skipped, l.limit_val.value) = [i \in 1..w |-> skipped[i]]
      <4> HIDE DEF skipped, m, w
      <4> QED BY <1>3, <3>1, <3>2, TakeIs
    <3>4. \A i \in 1..w : i \in 1..m BY <1>1, <3>1, <3>2
    <3>5. \A i \in 1..w : skipped[i] = rows[i + k] BY <3>4
    <3> HIDE DEF skipped, w
    <3> QED BY <1>4, <2>2, <3>3, <3>5
  <2> QED BY <2>1, <2>2
<1>7. Limited(l, rows) = Window(l, rows)
  BY <1>6 DEF Window, k, n
<1>8. IsSequence(Limited(l, rows))
  <2> DEFINE s == Limited(l, rows)
  <2>1. DOMAIN s = 1..w /\ s = [i \in 1..w |-> s[i]] BY <1>6
  <2> HIDE DEF s, w
  <2> QED BY <1>5, <2>1, SequenceMade DEF s
<1> QED BY <1>7, <1>8

-----------------------------------------------------------------------------
(* What a SELECT returns is what the scan owes the plan, with the LIMIT    *)
(* above it if that was pushed.                                            *)

\* The WHERE clause of a SELECT holds on the rows that pass all pushed filters.
LEMMA MatchingIsPassing ==
  ASSUME NEW get, GetIsBound(get), NEW row
  PROVE  Matches(TransformFilters(get), row) <=>
           \A k \in DOMAIN get.filters :
             Passes(get.filters[k], row[get.names[get.column_ids[k]]])
<1> DEFINE name(k) == get.names[get.column_ids[k]]
           c(k) == TransformFilter(name(k), get.filters[k])
           passes(k) == Passes(get.filters[k], row[name(k)])
<1>1. \A k \in DOMAIN get.filters : FilterIsBound(name(k), get.filters[k])
  BY DEF GetIsBound
<1>2. \A k \in DOMAIN get.filters :
        IF Root(c(k)) # Empty THEN Holds(c(k), row) <=> passes(k) ELSE passes(k)
  <2> HIDE DEF name
  <2> QED BY <1>1, FilterIsPushedAsItIs
<1>3. \A x : x \in TransformFilters(get) <=>
               \E k \in DOMAIN get.filters : x = c(k) /\ Root(x) # Empty
  BY DEF TransformFilters
<1>4. Matches(TransformFilters(get), row) <=>
        \A k \in DOMAIN get.filters : Root(c(k)) # Empty => Holds(c(k), row)
  <2> HIDE DEF c
  <2> QED BY <1>3 DEF Matches
<1>5. (\A k \in DOMAIN get.filters : Root(c(k)) # Empty => Holds(c(k), row))
        <=> \A k \in DOMAIN get.filters : passes(k)
  <2> HIDE DEF c, passes
  <2> QED BY <1>2
<1> QED BY <1>4, <1>5

\* The rows of a scan: those that pass, of each the columns that are read.
Column(get, k, row) ==
  IF get.column_ids[k] = COLUMN_IDENTIFIER_ROW_ID THEN NULL ELSE row[get.names[get.column_ids[k]]]

\* The rows a scan owes its plan are the matching ones, column by column.
LEMMA ScanIs ==
  ASSUME NEW get, GetIsBound(get), NEW rows, IsSequence(rows)
  PROVE  LET m == Matching(TransformFilters(get), rows)
         IN /\ IsSequence(m) /\ IsSequence(ScanOf(get, rows)) /\ Len(ScanOf(get, rows)) = Len(m)
            /\ ScanOf(get, rows) =
                 [i \in 1..Len(m) |-> [k \in DOMAIN get.column_ids |-> Column(get, k, m[i])]]
<1> DEFINE m == Matching(TransformFilters(get), rows)
           passing == Keep(rows, {i \in DOMAIN rows : \A k \in DOMAIN get.filters :
                               Passes(get.filters[k], rows[i][get.names[get.column_ids[k]]])})
           s == ScanOf(get, rows)
<1>1. m = passing
  BY MatchingIsPassing DEF Matching
<1>2. IsSequence(m) /\ Len(m) \in Nat /\ DOMAIN m = 1..Len(m)
  <2>1. IsSequence(m) BY KeepIsSequence DEF Matching
  <2> HIDE DEF m
  <2> QED BY <2>1, SequenceFacts
<1>3. s = [i \in DOMAIN passing |->
             [k \in DOMAIN get.column_ids |-> Column(get, k, passing[i])]]
  BY DEF ScanOf, Column
<1> HIDE DEF m, passing, s
<1>4. s = [i \in 1..Len(m) |-> [k \in DOMAIN get.column_ids |-> Column(get, k, m[i])]]
  BY <1>1, <1>2, <1>3
<1>5. DOMAIN s = 1..Len(m) /\ s = [i \in 1..Len(m) |-> s[i]]
  BY <1>4
<1>6. IsSequence(s) /\ Len(s) = Len(m)
  BY <1>2, <1>5, SequenceMade
<1> QED BY <1>2, <1>4, <1>6 DEF m, s

\* Concatenations of at most one element each.
LEMMA ShortConcats ==
  ASSUME NEW a, NEW b
  PROVE  <<a>> \o <<b>> = <<a, b>> /\ <<a>> \o <<>> = <<a>> /\ <<>> \o <<b>> = <<b>>
         /\ <<>> \o <<>> = <<>>
<1>1. <<a>> \in Seq({a, b}) /\ <<b>> \in Seq({a, b}) OBVIOUS
<1>2. <<a>> \o <<>> = <<a>> /\ <<>> \o <<b>> = <<b>> BY <1>1, ConcatEmptySeq
<1>3. <<>> \o <<>> = <<>> BY ConcatEmptySeq, EmptySeq
<1>4. Append(<<a>>, b) = <<a>> \o <<b>> BY <1>1, AppendIsConcat
<1>5. Append(<<a>>, b) = <<a, b>>
  <2> DEFINE s == <<a>>
             t == <<a, b>>
             u == Append(s, b)
  <2>1. s \in Seq({a, b}) /\ Len(s) = 1 /\ s[1] = a OBVIOUS
  <2>2. t \in Seq({a, b}) /\ Len(t) = 2 /\ t[1] = a /\ t[2] = b OBVIOUS
  <2> HIDE DEF s, t
  <2> DEFINE S == {a, b}
  <2>b. b \in S OBVIOUS
  <2>c. s \in Seq(S) /\ t \in Seq(S) BY <2>1, <2>2
  <2> HIDE DEF S
  <2>d. /\ u \in Seq(S) /\ Len(u) = Len(s) + 1
        /\ \A i \in 1..Len(s) : u[i] = s[i]
        /\ u[Len(s) + 1] = b
    BY <2>b, <2>c, AppendProperties
  <2>3. u[1] = a /\ Len(u) = 2 /\ u[2] = b BY <2>1, <2>d
  <2> HIDE DEF u
  <2>5. \A i \in 1..Len(u) : u[i] = t[i] BY <2>2, <2>3
  <2>6. u = t BY <2>2, <2>3, <2>5, <2>c, <2>d, SeqEqual
  <2> QED BY <2>6 DEF s, t, u
<1> QED BY <1>2, <1>3, <1>4, <1>5

\* The four texts LIMIT and OFFSET can have.
LEMMA LimitTextIs ==
  ASSUME NEW l
  PROVE  LET t == LimitText(l)
             n == [word |-> "LIMIT", value |-> l.limit_val.value]
             m == [word |-> "OFFSET", value |-> l.offset_val.value]
         IN t = IF l.limit_val.type = "UNSET"
                THEN IF l.offset_val.type = "UNSET" THEN <<>> ELSE <<m>>
                ELSE IF l.offset_val.type = "UNSET" THEN <<n>> ELSE <<n, m>>
<1> DEFINE n == [word |-> "LIMIT", value |-> l.limit_val.value]
           m == [word |-> "OFFSET", value |-> l.offset_val.value]
           x == IF l.limit_val.type = "UNSET" THEN <<>> ELSE <<n>>
           y == IF l.offset_val.type = "UNSET" THEN <<>> ELSE <<m>>
<1>1. LimitText(l) = x \o y BY DEF LimitText
<1> HIDE DEF n, m
<1>2. x \o y = IF l.limit_val.type = "UNSET"
               THEN IF l.offset_val.type = "UNSET" THEN <<>> ELSE <<m>>
               ELSE IF l.offset_val.type = "UNSET" THEN <<n>> ELSE <<n, m>>
  BY ShortConcats
<1> QED BY <1>1, <1>2 DEF n, m

\* OFFSET 0 leaves all rows.
LEMMA SkipNothing ==
  ASSUME NEW rows, IsSequence(rows)
  PROVE  Skip(rows, 0) = rows
<1> DEFINE n == Len(rows)
<1>1. n \in Nat /\ rows = [i \in 1..n |-> rows[i]] BY SequenceFacts
<1>2. PICK k \in Nat : k = 0 OBVIOUS
<1>3. Skip(rows, k) = [i \in 1..(IF k > n THEN 0 ELSE n - k) |-> rows[i + k]] BY SkipIs
<1> HIDE DEF n
<1>4. (IF k > n THEN 0 ELSE n - k) = n /\ \A i \in 1..n : i + k = i BY <1>1, <1>2
<1>5. Skip(rows, k) = rows BY <1>1, <1>3, <1>4
<1> QED BY <1>2, <1>5

\* The result of a SELECT the grammar accepts is the window of the matching rows.
LEMMA AcceptedRows ==
  ASSUME NEW statement, NEW l, LimitIs(l), statement.limit = LimitText(l), Accepts(statement),
         NEW contents, IsSequence(contents[statement.table]),
         NEW m, m = Matching(statement.where, contents[statement.table])
  PROVE  /\ IsSequence(m)
         /\ Rows(statement, contents) =
              [i \in 1..Width(l, Len(m)) |->
                 [k \in DOMAIN statement.columns |->
                    IF statement.columns[k] = NULL THEN NULL
                    ELSE m[i + Start(l)][statement.columns[k]]]]
<1> DEFINE t == statement.limit
           offset == IF Len(t) = 2 THEN t[2].value ELSE 0
           limited == IF t = <<>> THEN m ELSE Take(Skip(m, offset), t[1].value)
<1>1. IsSequence(m) /\ m = [i \in 1..Len(m) |-> m[i]] /\ Len(m) \in Nat
  <2>1. IsSequence(m) BY KeepIsSequence DEF Matching
  <2> QED BY <2>1, SequenceFacts
<1>2. limited = Limited(l, m)
  <2>1. CASE l.limit_val.type = "UNSET" /\ l.offset_val.type = "UNSET"
    <3>1. t = <<>> BY <2>1, LimitTextIs
    <3> QED BY <2>1, <3>1 DEF Limited
  <2>2. CASE l.limit_val.type = "UNSET" /\ l.offset_val.type # "UNSET"
    <3>1. t = <<[word |-> "OFFSET", value |-> l.offset_val.value]>> BY <2>2, LimitTextIs
    <3>2. Len(t) = 1 /\ t[1].word = "OFFSET" /\ t # <<>> BY <3>1
    <3> QED BY <3>2 DEF Accepts
  <2>3. CASE l.limit_val.type # "UNSET" /\ l.offset_val.type = "UNSET"
    <3>1. t = <<[word |-> "LIMIT", value |-> l.limit_val.value]>> BY <2>3, LimitTextIs
    <3>2. Len(t) = 1 /\ t[1].value = l.limit_val.value /\ t # <<>> BY <3>1
    <3>3. Skip(m, 0) = m BY <1>1, SkipNothing
    <3>4. limited = Take(Skip(m, 0), l.limit_val.value) BY <3>2
    <3> QED BY <2>3, <3>3, <3>4 DEF Limited
  <2>4. CASE l.limit_val.type # "UNSET" /\ l.offset_val.type # "UNSET"
    <3>1. t = <<[word |-> "LIMIT", value |-> l.limit_val.value],
                [word |-> "OFFSET", value |-> l.offset_val.value]>> BY <2>4, LimitTextIs
    <3>2. Len(t) = 2 /\ t[1].value = l.limit_val.value /\ t[2].value = l.offset_val.value
          /\ t # <<>>
      BY <3>1
    <3>4. limited = Take(Skip(m, l.offset_val.value), l.limit_val.value) BY <3>2
    <3> QED BY <2>4, <3>4 DEF Limited
  <2> QED BY <2>1, <2>2, <2>3, <2>4
<1>3. Rows(statement, contents) =
        [i \in DOMAIN limited |->
           [k \in DOMAIN statement.columns |->
              IF statement.columns[k] = NULL THEN NULL ELSE limited[i][statement.columns[k]]]]
  BY DEF Rows
<1> HIDE DEF limited
<1>4. limited = [i \in 1..Width(l, Len(m)) |-> m[i + Start(l)]]
  <2>1. Limited(l, m) = Window(l, m) BY <1>1, LimitedIsWindow
  <2> QED BY <1>2, <2>1 DEF Window
<1> DEFINE w == Width(l, Len(m))
<1>5. DOMAIN limited = 1..w /\ \A i \in 1..w : limited[i] = m[i + Start(l)]
  BY <1>4
<1> HIDE DEF w
<1>6. Rows(statement, contents) =
        [i \in 1..w |->
           [k \in DOMAIN statement.columns |->
              IF statement.columns[k] = NULL THEN NULL
              ELSE m[i + Start(l)][statement.columns[k]]]]
  BY <1>3, <1>5
<1> QED BY <1>1, <1>6 DEF w

\* A scan as it was bound, but for its streaming and its LIMIT.
SameScan(get, g) ==
  /\ g.table_index = get.table_index /\ g.catalog = get.catalog /\ g.function = get.function
  /\ g.op = get.op /\ g.table = get.table /\ g.names = get.names
  /\ g.column_ids = get.column_ids /\ g.filters = get.filters

\* The SELECT of a scan returns what the LIMIT pushed into it leaves of the scan.
LEMMA SelectIsScan ==
  ASSUME NEW get, GetIsBound(get), NEW g, SameScan(get, g),
         NEW l, LimitIs(l), g.limit = LimitText(l), Accepts(Select(g)),
         NEW contents, IsSequence(contents[get.table])
  PROVE  Rows(Select(g), contents) = Limited(l, ScanOf(get, contents[get.table]))
<1> DEFINE st == Select(g)
           rows == contents[get.table]
           m == Matching(TransformFilters(get), rows)
           s == ScanOf(get, rows)
           n == Len(m)
<1>1. TransformFilters(g) = TransformFilters(get)
  BY DEF TransformFilters, SameScan
<1>2. /\ st.limit = LimitText(l) /\ st.table = get.table /\ st.where = TransformFilters(get)
      /\ DOMAIN st.columns = DOMAIN get.column_ids
      /\ \A k \in DOMAIN get.column_ids :
           st.columns[k] = IF get.column_ids[k] = COLUMN_IDENTIFIER_ROW_ID THEN NULL
                           ELSE get.names[get.column_ids[k]]
  BY <1>1 DEF Select, SameScan, ColumnsRead
<1>3. \A k \in DOMAIN get.column_ids :
        st.columns[k] = NULL <=> get.column_ids[k] = COLUMN_IDENTIFIER_ROW_ID
  <2>1. \A k \in DOMAIN get.column_ids :
          get.column_ids[k] \in {COLUMN_IDENTIFIER_ROW_ID} \cup DOMAIN get.names
    BY DEF GetIsBound
  <2>2. \A j \in DOMAIN get.names : get.names[j] # NULL
    BY DEF GetIsBound
  <2> QED BY <1>2, <2>1, <2>2
<1>4. /\ IsSequence(m)
      /\ Rows(st, contents) =
           [i \in 1..Width(l, n) |->
              [k \in DOMAIN st.columns |->
                 IF st.columns[k] = NULL THEN NULL ELSE m[i + Start(l)][st.columns[k]]]]
  <2> HIDE DEF st
  <2>1. m = Matching(st.where, contents[st.table]) BY <1>2
  <2>2. Accepts(st) BY DEF st
  <2> HIDE DEF m
  <2> QED BY <1>2, <2>1, <2>2, AcceptedRows
<1>5. Rows(st, contents) =
        [i \in 1..Width(l, n) |->
           [k \in DOMAIN get.column_ids |-> Column(get, k, m[i + Start(l)])]]
  <2> HIDE DEF st, m
  <2> QED BY <1>2, <1>3, <1>4 DEF Column
<1>6. /\ IsSequence(s) /\ Len(s) = n
      /\ s = [i \in 1..n |-> [k \in DOMAIN get.column_ids |-> Column(get, k, m[i])]]
  BY ScanIs
<1>7. Limited(l, s) = [i \in 1..Width(l, n) |-> s[i + Start(l)]]
  <2> HIDE DEF s, n
  <2>1. Limited(l, s) = Window(l, s) BY <1>6, LimitedIsWindow
  <2> QED BY <1>6, <2>1 DEF Window
<1>8. n \in Nat /\ \A i \in 1..Width(l, n) : i + Start(l) \in 1..n
  <2>1. n \in Nat BY <1>4, SequenceFacts
  <2> HIDE DEF n
  <2> QED BY <2>1, WidthFits
<1> HIDE DEF s, m, n, st, rows
<1>9. \A i \in 1..Width(l, n) :
        s[i + Start(l)] = [k \in DOMAIN get.column_ids |-> Column(get, k, m[i + Start(l)])]
  BY <1>6, <1>8
<1>10. Rows(st, contents) = Limited(l, s)
  BY <1>5, <1>7, <1>9
<1> QED BY <1>10 DEF st, s, rows

\* A mysql_query is accepted and returns all rows of its text.
LEMMA QueryIsScan ==
  ASSUME NEW get, GetIsBound(get), IsMySQLQuery(get), NEW g, SameScan(get, g),
         NEW contents, IsSequence(contents[get.table])
  PROVE  /\ Accepts(Query(g))
         /\ Rows(Query(g), contents) = ScanOf(get, contents[get.table])
<1> DEFINE st == Query(g)
           rows == contents[get.table]
           m == Matching({}, rows)
           s == ScanOf(get, rows)
           n == Len(m)
           l == [limit_val |-> [type |-> "UNSET", value |-> 0],
                 offset_val |-> [type |-> "UNSET", value |-> 0]]
<1>1. /\ get.filters = <<>> /\ get.column_ids = [k \in DOMAIN get.names |-> k]
      /\ \A k \in DOMAIN get.names : k # 0 /\ get.names[k] # NULL
  BY LenProperties DEF GetIsBound
<1>2. TransformFilters(get) = {}
  BY <1>1 DEF TransformFilters
<1>3. /\ st.limit = <<>> /\ st.table = get.table /\ st.where = {} /\ st.columns = get.names
  BY DEF Query, SameScan
<1>4. Accepts(st) BY <1>3 DEF Accepts
<1>5. LimitIs(l) /\ LimitText(l) = <<>> /\ Start(l) = 0
  BY LimitTextIs DEF LimitIs, Start
<1>6. IsSequence(m) /\ n \in Nat
  <2>1. IsSequence(m) BY KeepIsSequence DEF Matching
  <2> HIDE DEF m
  <2> QED BY <2>1, SequenceFacts
<1>7. Width(l, n) = n
  <2> HIDE DEF n
  <2> QED BY <1>5, <1>6 DEF Width
<1> HIDE DEF l, st, m, s
<1>8. Rows(st, contents) =
        [i \in 1..Width(l, n) |->
           [k \in DOMAIN st.columns |->
              IF st.columns[k] = NULL THEN NULL ELSE m[i + Start(l)][st.columns[k]]]]
  <2>1. m = Matching(st.where, contents[st.table]) BY <1>3 DEF m
  <2>2. st.limit = LimitText(l) /\ IsSequence(contents[st.table]) BY <1>3, <1>5
  <2> QED BY <1>4, <1>5, <2>1, <2>2, AcceptedRows
<1>9. s = [i \in 1..n |-> [k \in DOMAIN get.column_ids |-> Column(get, k, m[i])]]
  <2>1. m = Matching(TransformFilters(get), rows) BY <1>2 DEF m
  <2>2. IsSequence(rows) OBVIOUS
  <2> HIDE DEF rows
  <2> QED BY <2>1, <2>2, ScanIs DEF s
<1> HIDE DEF n
<1>10. \A i \in 1..n : i + Start(l) = i BY <1>5, <1>6
<1>11. \A i \in 1..n :
         [k \in DOMAIN st.columns |->
              IF st.columns[k] = NULL THEN NULL ELSE m[i + Start(l)][st.columns[k]]]
           = [k \in DOMAIN get.column_ids |-> Column(get, k, m[i])]
  <2> SUFFICES ASSUME NEW i \in 1..n
               PROVE  [k \in DOMAIN st.columns |->
              IF st.columns[k] = NULL THEN NULL ELSE m[i + Start(l)][st.columns[k]]]
           = [k \in DOMAIN get.column_ids |-> Column(get, k, m[i])]
    OBVIOUS
  <2>1. m[i + Start(l)] = m[i] BY <1>10
  <2>2. DOMAIN st.columns = DOMAIN get.column_ids BY <1>1, <1>3
  <2>3. \A k \in DOMAIN get.column_ids :
          (IF st.columns[k] = NULL THEN NULL ELSE m[i + Start(l)][st.columns[k]])
            = Column(get, k, m[i])
    BY <1>1, <1>3, <2>1 DEF Column, COLUMN_IDENTIFIER_ROW_ID
  <2> QED BY <2>2, <2>3
<1>12. Rows(st, contents) = s BY <1>7, <1>8, <1>9, <1>11
<1> QED BY <1>4, <1>12 DEF st, s

\* LIMIT and OFFSET may be moved below a projection.
LEMMA LimitOfProjection ==
  ASSUME NEW l, LimitIs(l), NEW list, NEW rows, IsSequence(rows)
  PROVE  /\ IsSequence(Projected(list, rows))
         /\ Limited(l, Projected(list, rows)) = Projected(list, Limited(l, rows))
<1> DEFINE n == Len(rows)
           w == Width(l, n)
           tuple(r) == [k \in DOMAIN list |-> ValueOf(list[k], r)]
           s == Projected(list, rows)
<1>1. n \in Nat /\ DOMAIN rows = 1..n BY SequenceFacts
<1>2. s = [i \in 1..n |-> tuple(rows[i])] BY <1>1 DEF Projected
<1> HIDE DEF tuple
<1>3. IsSequence(s) /\ Len(s) = n
  <2>1. DOMAIN s = 1..n /\ s = [i \in 1..n |-> s[i]] BY <1>2
  <2> HIDE DEF s, n
  <2> QED BY <1>1, <2>1, SequenceMade
<1>4. w \in Nat /\ \A i \in 1..w : i + Start(l) \in 1..n
  <2> HIDE DEF n
  <2> QED BY <1>1, WidthFits
<1>5. Limited(l, s) = [i \in 1..w |-> s[i + Start(l)]]
  <2> HIDE DEF s, n
  <2>1. Limited(l, s) = Window(l, s) BY <1>3, LimitedIsWindow
  <2> QED BY <1>3, <2>1 DEF Window
<1>6. Limited(l, rows) = [i \in 1..w |-> rows[i + Start(l)]]
  <2>1. Limited(l, rows) = Window(l, rows) BY LimitedIsWindow
  <2> QED BY <2>1 DEF Window
<1>7. Projected(list, Limited(l, rows)) = [i \in 1..w |-> tuple(Limited(l, rows)[i])]
  <2>1. DOMAIN Limited(l, rows) = 1..w BY <1>6
  <2> HIDE DEF w
  <2> QED BY <2>1 DEF Projected, tuple
<1> HIDE DEF s, n, w
<1>8. \A i \in 1..w : s[i + Start(l)] = tuple(rows[i + Start(l)])
  BY <1>2, <1>4
<1>9. \A i \in 1..w : tuple(Limited(l, rows)[i]) = tuple(rows[i + Start(l)])
  BY <1>6
<1>10. Limited(l, s) = Projected(list, Limited(l, rows))
  BY <1>5, <1>7, <1>8, <1>9
<1> QED BY <1>3, <1>10 DEF s

-----------------------------------------------------------------------------
(* Plans.                                                                  *)

\* As far as DuckDB is concerned: every operator has its children before it.
CanRun(p) ==
  /\ IsSequence(p)
  /\ \A i \in DOMAIN p :
       /\ p[i].op \in {"projection", "filter", "union", "limit"} => p[i].children[1] \in 1..(i - 1)
       /\ p[i].op = "union" => p[i].children[2] \in 1..(i - 1)

Alike(f, g, n, i) == \A j \in 1..n : j < i => f[j] = g[j]

\* The rows of an operator depend on those of earlier places only.
LEMMA OperatesAlike ==
  ASSUME NEW p, CanRun(p), NEW sc, NEW f, NEW g, NEW i \in 1..Len(p),
         Alike(f, g, Len(p), i)
  PROVE  Operate(p[i], sc, f) = Operate(p[i], sc, g)
<1>1. Len(p) \in Nat /\ DOMAIN p = 1..Len(p) BY SequenceFacts DEF CanRun
<1>2. p[i].op \in {"projection", "filter", "union", "limit"} =>
        f[p[i].children[1]] = g[p[i].children[1]]
  BY <1>1 DEF CanRun, Alike
<1>3. p[i].op = "union" => f[p[i].children[2]] = g[p[i].children[2]]
  BY <1>1 DEF CanRun, Alike
<1> QED BY <1>2, <1>3 DEF Operate

\* Evaluate satisfies its recursive definition.
LEMMA EvaluateIs ==
  ASSUME NEW p, CanRun(p), NEW sc
  PROVE  /\ IsSequence(Evaluate(p, sc)) /\ Len(Evaluate(p, sc)) = Len(p)
         /\ \A i \in 1..Len(p) : Evaluate(p, sc)[i] = Operate(p[i], sc, Evaluate(p, sc))
<1> DEFINE n == Len(p)
           Upto(f, k) == \A i \in 1..n : i < k => f[i] = Operate(p[i], sc, f)
           S == {k \in Nat : \E f : Upto(f, k)}
<1>0. n \in Nat /\ DOMAIN p = 1..n BY SequenceFacts DEF CanRun
<1>1. 0 \in S
  <2>1. Upto(<<>>, 0) BY <1>0
  <2> HIDE DEF Upto
  <2> QED BY <2>1
<1>2. ASSUME NEW k \in Nat, k < n + 1, k \in S
      PROVE  k + 1 \in S
  <2>1. PICK f : Upto(f, k) BY <1>2
  <2> DEFINE g == [i \in 1..n |-> IF i = k THEN Operate(p[i], sc, f) ELSE f[i]]
  <2>2. \A i \in 1..n : i < k + 1 => Operate(p[i], sc, g) = Operate(p[i], sc, f)
    <3> SUFFICES ASSUME NEW i \in 1..n, i < k + 1
                 PROVE  Operate(p[i], sc, g) = Operate(p[i], sc, f)
      OBVIOUS
    <3>1. Alike(g, f, n, i) BY <1>0, <1>2 DEF Alike
    <3> HIDE DEF g
    <3> QED BY <3>1, OperatesAlike
  <2>3. \A i \in 1..n : g[i] = IF i = k THEN Operate(p[i], sc, f) ELSE f[i]
    OBVIOUS
  <2>4. Upto(g, k + 1)
    <3> HIDE DEF g, n
    <3> QED BY <1>0, <1>2, <2>1, <2>2, <2>3
  <2> HIDE DEF g, Upto
  <2> QED BY <2>4
<1>3. n + 1 \in S
  <2>1. S \subseteq Nat OBVIOUS
  <2> HIDE DEF S
  <2>2. n + 1 \in Nat /\ n + 1 \in 0..(n + 1) BY <1>0
  <2>3. \A k \in Nat : k < n + 1 /\ k \in S => k + 1 \in S BY <1>2
  <2> DEFINE m == n + 1
  <2> HIDE DEF m
  <2>4. \A k \in 0..m : k \in S BY <1>1, <2>1, <2>2, <2>3, Climb DEF m
  <2> QED BY <2>2, <2>4 DEF m
<1>4. PICK f : \A i \in 1..n : f[i] = Operate(p[i], sc, f)
  <2>1. PICK f : Upto(f, n + 1) BY <1>3
  <2>2. \A i \in 1..n : i < n + 1 BY <1>0
  <2> QED BY <2>1, <2>2
<1> DEFINE g == [i \in 1..n |-> f[i]]
           e(rows) == [i \in DOMAIN p |-> Operate(p[i], sc, rows)]
           t == CHOOSE rows : rows = e(rows)
<1>5. \A i \in 1..n : Operate(p[i], sc, g) = Operate(p[i], sc, f)
  <2> SUFFICES ASSUME NEW i \in 1..n PROVE Operate(p[i], sc, g) = Operate(p[i], sc, f)
    OBVIOUS
  <2>1. Alike(g, f, n, i) BY DEF Alike
  <2> HIDE DEF g
  <2> QED BY <2>1, OperatesAlike
<1>6. g = e(g) BY <1>0, <1>4, <1>5
<1>7. t = e(t)
  <2> HIDE DEF e, g
  <2> QED BY <1>6
<1>8. Evaluate(p, sc) = t BY DEF Evaluate
<1> HIDE DEF t
<1>9. /\ DOMAIN t = 1..n /\ t = [i \in 1..n |-> t[i]]
      /\ \A i \in 1..n : t[i] = Operate(p[i], sc, t)
  BY <1>0, <1>7
<1>10. IsSequence(t) /\ Len(t) = n BY <1>0, <1>9, SequenceMade
<1> QED BY <1>8, <1>9, <1>10 DEF n

\* The shape of a plan before LIMITs are pushed.
IsTree(p) ==
  /\ IsSequence(p) /\ p # <<>>
  /\ \A i \in DOMAIN p :
       /\ DOMAIN p[i].children = 1..Inputs(p[i].op)
       /\ \A k \in DOMAIN p[i].children : p[i].children[k] \in 1..(i - 1)
       /\ p[i].op = "limit" => LimitIs(p[i])
       /\ p[i].op = "get" => DOMAIN p[i] = GetFields /\ p[i].limit = <<>>
  /\ \A i, j \in DOMAIN p :
       \A k \in DOMAIN p[i].children, m \in DOMAIN p[j].children :
         p[i].children[k] = p[j].children[m] => i = j /\ k = m

\* What the later lemmas use of a tree.
LEMMA TreeIs ==
  ASSUME NEW p, IsTree(p)
  PROVE  /\ Len(p) \in Nat /\ DOMAIN p = 1..Len(p) /\ Len(p) \in 1..Len(p)
         /\ \A i \in 1..Len(p) :
              /\ p[i].op # "get" => p[i].children[1] \in 1..Len(p) /\ p[i].children[1] < i
              /\ p[i].op = "union" => p[i].children[2] \in 1..Len(p) /\ p[i].children[2] < i
              /\ p[i].op = "limit" => LimitIs(p[i])
              /\ p[i].op = "get" => DOMAIN p[i] = GetFields /\ p[i].limit = <<>>
         /\ \A i, j \in 1..Len(p) :
              /\ p[i].op # "get" /\ p[j].op # "get" /\ p[i].children[1] = p[j].children[1] => i = j
              /\ p[i].op # "get" /\ p[j].op = "union" => p[i].children[1] # p[j].children[2]
<1> DEFINE n == Len(p)
<1>1. n \in Nat /\ DOMAIN p = 1..n /\ n \in 1..n
  BY SequenceFacts DEF IsTree
<1>2. \A i \in 1..n :
        /\ DOMAIN p[i].children = 1..Inputs(p[i].op)
        /\ p[i].op # "get" => 1 \in DOMAIN p[i].children
        /\ p[i].op = "union" => 2 \in DOMAIN p[i].children
  BY <1>1 DEF IsTree, Inputs
<1> HIDE DEF n
<1>3. \A i \in 1..n : \A k \in DOMAIN p[i].children : p[i].children[k] \in 1..n /\ p[i].children[k] < i
  BY <1>1 DEF IsTree
<1>4. \A i, j \in 1..n :
        /\ p[i].op # "get" /\ p[j].op # "get" /\ p[i].children[1] = p[j].children[1] => i = j
        /\ p[i].op # "get" /\ p[j].op = "union" => p[i].children[1] # p[j].children[2]
  <2> SUFFICES ASSUME NEW i \in 1..n, NEW j \in 1..n
               PROVE  /\ p[i].op # "get" /\ p[j].op # "get" /\ p[i].children[1] = p[j].children[1] => i = j
                      /\ p[i].op # "get" /\ p[j].op = "union" => p[i].children[1] # p[j].children[2]
    OBVIOUS
  <2>1. \A k \in DOMAIN p[i].children, m \in DOMAIN p[j].children :
         p[i].children[k] = p[j].children[m] => i = j /\ k = m
    BY <1>1 DEF IsTree
  <2> QED BY <1>2, <2>1
<1>5. \A i \in 1..n :
        /\ p[i].op = "limit" => LimitIs(p[i])
        /\ p[i].op = "get" => DOMAIN p[i] = GetFields /\ p[i].limit = <<>>
  BY <1>1 DEF IsTree
<1> QED BY <1>1, <1>2, <1>3, <1>4, <1>5 DEF n

\* A tree can be evaluated.
LEMMA TreeCanRun ==
  ASSUME NEW p, IsTree(p)
  PROVE  CanRun(p)
BY TreeIs DEF IsTree, CanRun

-----------------------------------------------------------------------------
(* From a place down through projections.                                  *)

\* ThroughProjections satisfies its recursive definition and ends below projections.
LEMMA ThroughProjectionsIs ==
  ASSUME NEW p, IsTree(p)
  PROVE  LET end == ThroughProjections(p)
             n == Len(p)
         IN /\ \A i \in 1..n :
                 end[i] = IF p[i].op = "projection" THEN end[p[i].children[1]] ELSE i
            /\ \A i \in 1..n : end[i] \in 1..n /\ end[i] <= i /\ p[end[i]].op # "projection"
<1> DEFINE n == Len(p)
           X == 1..n
           Step(f, i) == IF p[i].op = "projection" THEN f[p[i].children[1]] ELSE i
           D == [i \in 1..n |-> [f \in [1..n -> X] |-> Step(f, i)]]
<1>1. /\ n \in Nat /\ DOMAIN p = 1..n /\ n \in 1..n
      /\ \A i \in 1..n : p[i].op = "projection" =>
           p[i].children[1] \in 1..n /\ p[i].children[1] < i
  BY TreeIs
<1> HIDE DEF n, X, D
<1>2. \A i \in 1..n : \A f \in [1..n -> X] : Step(f, i) \in X
  BY <1>1 DEF X
<1>3. D \in [1..n -> [[1..n -> X] -> X]] BY <1>2 DEF D
<1>4. \A i \in 1..n : \A f \in [1..n -> X] : D[i][f] = Step(f, i) BY DEF D
<1>5. Followed(1, n, X, D)
  <2>1. \A i \in 1..n : \A f, g \in [1..n -> X] :
          (\A j \in 1..n : j < i => f[j] = g[j]) => D[i][f] = D[i][g]
    <3> SUFFICES ASSUME NEW i \in 1..n, NEW f \in [1..n -> X], NEW g \in [1..n -> X],
                        \A j \in 1..n : j < i => f[j] = g[j]
                 PROVE  D[i][f] = D[i][g]
      OBVIOUS
    <3>1. Step(f, i) = Step(g, i) BY <1>1
    <3>2. D[i][f] = Step(f, i) /\ D[i][g] = Step(g, i) BY <1>4
    <3> QED BY <3>1, <3>2
  <2>2. n \in X BY <1>1 DEF X
  <2>3. Backwards(1, n, X, D) BY <1>3, <2>1, <2>2 DEF Backwards
  <2> HIDE DEF Step
  <2> QED BY <1>1, <2>3, RecursionHolds
<1>6. PICK f \in [1..n -> X] : \A i \in 1..n : f[i] = Step(f, i)
  <2>1. PICK f \in [1..n -> X] : \A i \in 1..n : f[i] = D[i][f] BY <1>5 DEF Followed
  <2> HIDE DEF Step, D
  <2>2. \A i \in 1..n : f[i] = Step(f, i) BY <1>4, <2>1
  <2> QED BY <2>2
<1> DEFINE e(end) == [i \in DOMAIN p |-> Step(end, i)]
           t == CHOOSE end : end = e(end)
<1>7. f = e(f) BY <1>1, <1>6
<1>8. t = e(t)
  <2> HIDE DEF e
  <2> QED BY <1>7
<1>9. ThroughProjections(p) = t BY DEF ThroughProjections
<1> HIDE DEF t
<1>10. \A i \in 1..n : t[i] = Step(t, i) BY <1>1, <1>8
<1> DEFINE S == {i \in 1..n : t[i] \in 1..n /\ t[i] <= i /\ p[t[i]].op # "projection"}
<1>11. ASSUME NEW i \in 1..n, \A j \in 1..n : j < i => j \in S
       PROVE  i \in S
  <2>1. CASE p[i].op = "projection"
    <3>1. p[i].children[1] \in S /\ p[i].children[1] < i BY <1>1, <1>11, <2>1
    <3>2. t[i] = t[p[i].children[1]] BY <1>10, <2>1
    <3> QED BY <1>1, <3>1, <3>2
  <2>2. CASE p[i].op # "projection"
    <3>1. t[i] = i BY <1>10, <2>2
    <3> QED BY <1>1, <2>2, <3>1
  <2> QED BY <2>1, <2>2
<1>12. \A i \in 1..n : i \in S
  <2> HIDE DEF S, t
  <2> QED BY <1>1, <1>11, FromThoseBefore
<1> QED BY <1>9, <1>10, <1>12 DEF n

\* Two places that come down to one: the lower is the child of a projection.
LEMMA OneWayDown ==
  ASSUME NEW p, IsTree(p), NEW x \in 1..Len(p), NEW y \in 1..Len(p), x < y,
         ThroughProjections(p)[x] = ThroughProjections(p)[y]
  PROVE  \E u \in 1..Len(p) :
           u <= y /\ x < u /\ p[u].op = "projection" /\ p[u].children[1] = x
<1> DEFINE n == Len(p)
           end == ThroughProjections(p)
           Above(a, b) == \E u \in 1..n : u <= b /\ a < u /\ p[u].op = "projection" /\ p[u].children[1] = a
           S == {b \in 1..n : \A a \in 1..n : a < b /\ end[a] = end[b] => Above(a, b)}
<1>1. /\ n \in Nat
      /\ \A i \in 1..n : p[i].op = "projection" =>
           p[i].children[1] \in 1..n /\ p[i].children[1] < i
      /\ \A i, j \in 1..n : p[i].op = "projection" /\ p[j].op = "projection"
            /\ p[i].children[1] = p[j].children[1] => i = j
  BY TreeIs
<1>2. \A i \in 1..n :
        /\ end[i] = IF p[i].op = "projection" THEN end[p[i].children[1]] ELSE i
        /\ end[i] \in 1..n /\ end[i] <= i
  BY ThroughProjectionsIs
<1> HIDE DEF n, end
<1>3. ASSUME NEW b \in 1..n, \A j \in 1..n : j < b => j \in S
      PROVE  b \in S
  <2> SUFFICES ASSUME NEW a \in 1..n, a < b, end[a] = end[b]
               PROVE  Above(a, b)
    OBVIOUS
  <2>1. p[b].op = "projection" BY <1>1, <1>2
  <2> DEFINE z == p[b].children[1]
  <2>2. z \in 1..n /\ z < b /\ end[z] = end[a] BY <1>1, <1>2, <2>1
  <2>3. CASE z = a
    BY <1>1, <2>1, <2>3
  <2>4. CASE a < z
    <3>1. z \in S BY <1>3, <2>2
    <3>2. Above(a, z) BY <2>2, <2>4, <3>1
    <3> QED BY <1>1, <2>2, <3>2
  <2>5. CASE z < a
    <3>1. a \in S BY <1>3
    <3>2. Above(z, a) BY <2>2, <2>5, <3>1
    <3>3. PICK u \in 1..n : u <= a /\ p[u].op = "projection" /\ p[u].children[1] = z
      BY <3>2
    <3>4. u = b BY <1>1, <2>1, <3>3
    <3> QED BY <1>1, <3>3, <3>4
  <2> QED BY <1>1, <2>2, <2>3, <2>4, <2>5
<1>4. y \in S
  <2> HIDE DEF S
  <2>1. \A b \in 1..n : b \in S BY <1>1, <1>3, FromThoseBefore
  <2> QED BY <2>1 DEF n
<1> QED BY <1>4 DEF n, end

-----------------------------------------------------------------------------
(* A pushed LIMIT and the scan below it.                                   *)

\* A pushed LIMIT stands over a scan, with nothing but projections in between.
LEMMA PushedIs ==
  ASSUME NEW p, IsTree(p), NEW l \in Pushed(p)
  PROVE  LET c == p[l].children[1]
             t == Target(p, l)
         IN /\ l \in 1..Len(p) /\ p[l].op = "limit" /\ LimitIs(p[l])
            /\ c \in 1..Len(p) /\ c < l /\ c \notin Pushed(p)
            /\ p[c].op \in {"get", "projection"}
            /\ t = ThroughProjections(p)[c] /\ t \in 1..Len(p)
            /\ p[t].op = "get" /\ IsMySQLScan(p[t]) /\ ThroughProjections(p)[t] = t
<1> DEFINE n == Len(p)
           end == ThroughProjections(p)
           c == p[l].children[1]
           t == Target(p, l)
<1>1. DOMAIN p = 1..n /\ p[l].op = "limit" BY TreeIs DEF Pushed, Pushable
<1>2. l \in 1..n BY <1>1 DEF Pushed
<1>3. LimitIs(p[l]) /\ c \in 1..n /\ c < l BY <1>1, <1>2, TreeIs
<1>4. t = end[c] BY DEF Target
<1>5. p[t].op = "get" /\ IsMySQLScan(p[t]) BY DEF Pushed, Pushable
<1>6. \A i \in 1..n :
        /\ end[i] = IF p[i].op = "projection" THEN end[p[i].children[1]] ELSE i
        /\ end[i] \in 1..n
  BY ThroughProjectionsIs
<1> HIDE DEF n, end, t, c
<1>7. t \in 1..n /\ end[t] = t BY <1>3, <1>4, <1>5, <1>6
<1>8. p[c].op \in {"get", "projection"} BY <1>3, <1>4, <1>5, <1>6
<1>9. c \notin Pushed(p) BY <1>8 DEF Pushed, Pushable
<1> QED BY <1>1, <1>2, <1>3, <1>4, <1>5, <1>7, <1>8, <1>9 DEF n, end, t, c

\* The places that come down to the scan of a pushed LIMIT are under it.
LEMMA ChainIsBelow ==
  ASSUME NEW p, IsTree(p), NEW l \in Pushed(p), NEW i \in 1..Len(p),
         ThroughProjections(p)[i] = Target(p, l)
  PROVE  /\ i <= p[l].children[1]
         /\ i # p[l].children[1] =>
              \E u \in 1..Len(p) : p[u].op = "projection" /\ p[u].children[1] = i
<1> DEFINE n == Len(p)
           end == ThroughProjections(p)
           c == p[l].children[1]
<1>1. /\ n \in Nat
      /\ \A x, y \in 1..n : p[x].op # "get" /\ p[y].op # "get"
            /\ p[x].children[1] = p[y].children[1] => x = y
  BY TreeIs
<1>2. /\ l \in 1..n /\ p[l].op = "limit" /\ c \in 1..n /\ end[i] = end[c]
  BY PushedIs
<1>3. ASSUME c < i PROVE FALSE
  <2>1. PICK u \in 1..n : u <= i /\ c < u /\ p[u].op = "projection" /\ p[u].children[1] = c
    BY <1>2, <1>3, OneWayDown
  <2>2. u = l BY <1>1, <1>2, <2>1
  <2> QED BY <1>2, <2>1, <2>2
<1>4. i <= c BY <1>1, <1>2, <1>3
<1>5. ASSUME i # c
      PROVE  \E u \in 1..n : p[u].op = "projection" /\ p[u].children[1] = i
  <2>1. i < c BY <1>1, <1>2, <1>4, <1>5
  <2> QED BY <1>2, <2>1, OneWayDown
<1> QED BY <1>4, <1>5

\* No scan gets two LIMITs.
LEMMA OneLimitAScan ==
  ASSUME NEW p, IsTree(p), NEW l \in Pushed(p), NEW m \in Pushed(p), Target(p, l) = Target(p, m)
  PROVE  l = m
<1> DEFINE n == Len(p)
           c == p[l].children[1]
           d == p[m].children[1]
<1>1. /\ n \in Nat
      /\ \A x, y \in 1..n : p[x].op # "get" /\ p[y].op # "get"
            /\ p[x].children[1] = p[y].children[1] => x = y
  BY TreeIs
<1>2. /\ l \in 1..n /\ p[l].op = "limit" /\ c \in 1..n /\ Target(p, l) = ThroughProjections(p)[c]
      /\ m \in 1..n /\ p[m].op = "limit" /\ d \in 1..n /\ Target(p, m) = ThroughProjections(p)[d]
  BY PushedIs
<1>3. c <= d BY <1>2, ChainIsBelow
<1>4. d <= c BY <1>2, ChainIsBelow
<1>5. c = d BY <1>1, <1>2, <1>3, <1>4
<1> QED BY <1>1, <1>2, <1>5

\* A scan that got the text of a LIMIT is else as it was.
LEMMA GetWithLimit ==
  ASSUME NEW get, DOMAIN get = GetFields, NEW text
  PROVE  LET g == [get EXCEPT !.limit = @ \o text]
         IN /\ SameScan(get, g) /\ DOMAIN g = GetFields
            /\ g.limit = get.limit \o text
            /\ g.streaming = get.streaming /\ g.children = get.children
BY DEF GetFields, SameScan

\* A scan whose streaming was decided is else as it was.
LEMMA GetWithStreaming ==
  ASSUME NEW get, DOMAIN get = GetFields, NEW streaming
  PROVE  LET g == [get EXCEPT !.streaming = streaming]
         IN /\ SameScan(get, g) /\ DOMAIN g = GetFields
            /\ g.limit = get.limit
            /\ g.streaming = streaming /\ g.children = get.children
BY DEF GetFields, SameScan

\* A scan gets exactly the text of the LIMIT that was pushed to it.
LEMMA AddLimitIs ==
  ASSUME NEW p, IsTree(p), NEW i \in 1..Len(p)
  PROVE  /\ (\A l \in Pushed(p) : Target(p, l) # i) => AddLimit(p, i) = p[i]
         /\ \A l \in Pushed(p) : Target(p, l) = i =>
              /\ SameScan(p[i], AddLimit(p, i)) /\ DOMAIN AddLimit(p, i) = GetFields
              /\ AddLimit(p, i).limit = LimitText(p[l])
              /\ AddLimit(p, i).streaming = p[i].streaming
              /\ AddLimit(p, i).children = p[i].children
<1> DEFINE above == {l \in Pushed(p) : Target(p, l) = i}
<1>1. AddLimit(p, i) = IF above = {} THEN p[i]
        ELSE [p[i] EXCEPT !.limit = @ \o LimitText(p[CHOOSE l \in above : TRUE])]
  BY DEF AddLimit
<1>2. ASSUME NEW l \in Pushed(p), Target(p, l) = i
      PROVE  /\ SameScan(p[i], AddLimit(p, i)) /\ DOMAIN AddLimit(p, i) = GetFields
             /\ AddLimit(p, i).limit = LimitText(p[l])
             /\ AddLimit(p, i).streaming = p[i].streaming
             /\ AddLimit(p, i).children = p[i].children
  <2>1. above = {l} BY <1>2, OneLimitAScan
  <2>2. (CHOOSE x \in above : TRUE) = l BY <2>1
  <2> HIDE DEF above
  <2>3. AddLimit(p, i) = [p[i] EXCEPT !.limit = @ \o LimitText(p[l])]
    BY <1>1, <2>1, <2>2
  <2>4. p[i].op = "get" BY <1>2, PushedIs
  <2>5. DOMAIN p[i] = GetFields /\ p[i].limit = <<>> BY <2>4, TreeIs
  <2> DEFINE g == [p[i] EXCEPT !.limit = @ \o LimitText(p[l])]
  <2>6. /\ SameScan(p[i], g) /\ DOMAIN g = GetFields
        /\ g.limit = p[i].limit \o LimitText(p[l])
        /\ g.streaming = p[i].streaming /\ g.children = p[i].children
    BY <2>5, GetWithLimit
  <2> HIDE DEF g
  <2>7. <<>> \o LimitText(p[l]) = LimitText(p[l])
    <3> DEFINE n == [word |-> "LIMIT", value |-> p[l].limit_val.value]
               m == [word |-> "OFFSET", value |-> p[l].offset_val.value]
    <3>1. LimitText(p[l]) \in {<<>>, <<n>>, <<m>>, <<n, m>>} BY LimitTextIs
    <3> HIDE DEF n, m
    <3>2. <<>> \in Seq({n, m}) /\ <<n>> \in Seq({n, m}) /\ <<m>> \in Seq({n, m}) /\ <<n, m>> \in Seq({n, m})
      OBVIOUS
    <3>3. LimitText(p[l]) \in Seq({n, m}) BY <3>1, <3>2
    <3> QED BY <3>3, ConcatEmptySeq
  <2> QED BY <2>3, <2>5, <2>6, <2>7 DEF g
<1>3. ASSUME \A l \in Pushed(p) : Target(p, l) # i PROVE AddLimit(p, i) = p[i]
  BY <1>1, <1>3
<1> QED BY <1>2, <1>3

\* OptimizeMySQLScan, place by place.
LEMMA OptimizedIs ==
  ASSUME NEW p, IsTree(p)
  PROVE  LET q == OptimizeMySQLScan(p)
             n == Len(p)
         IN /\ IsSequence(q) /\ Len(q) = n
            /\ \A l \in Pushed(p) :
                 /\ q[l] = AddLimit(p, p[l].children[1])
                 /\ q[p[l].children[1]] = Moved
            /\ \A i \in 1..n :
                 i \notin Pushed(p) /\ (\A l \in Pushed(p) : p[l].children[1] # i)
                   => q[i] = AddLimit(p, i)
<1> DEFINE n == Len(p)
           q == OptimizeMySQLScan(p)
           new(i) == IF i \in Pushed(p) THEN AddLimit(p, p[i].children[1])
                     ELSE IF \E l \in Pushed(p) : p[l].children[1] = i THEN Moved
                     ELSE AddLimit(p, i)
<1>1. n \in Nat /\ DOMAIN p = 1..n BY TreeIs
<1>2. q = [i \in 1..n |-> new(i)] BY <1>1 DEF OptimizeMySQLScan
<1>3. \A l \in Pushed(p) : l \in 1..n /\ p[l].children[1] \in 1..n /\ p[l].children[1] \notin Pushed(p)
  BY PushedIs
<1> HIDE DEF q, n
<1>4. \A i \in 1..n : q[i] = new(i)
  <2> HIDE DEF new
  <2> QED BY <1>2
<1>5. IsSequence(q) /\ Len(q) = n
  <2> HIDE DEF new
  <2>1. DOMAIN q = 1..n /\ q = [i \in 1..n |-> q[i]] BY <1>2
  <2> QED BY <1>1, <2>1, SequenceMade
<1>6. \A l \in Pushed(p) : q[l] = AddLimit(p, p[l].children[1]) /\ q[p[l].children[1]] = Moved
  BY <1>3, <1>4
<1>7. \A i \in 1..n :
        i \notin Pushed(p) /\ (\A l \in Pushed(p) : p[l].children[1] # i) => q[i] = AddLimit(p, i)
  BY <1>4
<1> QED BY <1>5, <1>6, <1>7 DEF q, n

\* The optimized plan can be evaluated.
LEMMA OptimizedCanRun ==
  ASSUME NEW p, IsTree(p)
  PROVE  CanRun(OptimizeMySQLScan(p))
<1> DEFINE n == Len(p)
           q == OptimizeMySQLScan(p)
           Ready(op, i) ==
             /\ op.op \in {"projection", "filter", "union", "limit"} => op.children[1] \in 1..(i - 1)
             /\ op.op = "union" => op.children[2] \in 1..(i - 1)
<1>1. /\ IsSequence(q) /\ Len(q) = n /\ n \in Nat
      /\ \A l \in Pushed(p) :
           /\ q[l] = AddLimit(p, p[l].children[1])
           /\ q[p[l].children[1]] = Moved
      /\ \A i \in 1..n :
           i \notin Pushed(p) /\ (\A l \in Pushed(p) : p[l].children[1] # i)
             => q[i] = AddLimit(p, i)
  BY OptimizedIs, TreeIs
<1>2. DOMAIN q = 1..n BY <1>1, SequenceFacts
<1>3. \A i \in 1..n : \A j \in 1..n : i <= j => Ready(AddLimit(p, i), j)
  <2> SUFFICES ASSUME NEW i \in 1..n, NEW j \in 1..n, i <= j PROVE Ready(AddLimit(p, i), j)
    OBVIOUS
  <2>1. AddLimit(p, i) = p[i] \/ AddLimit(p, i).op = "get"
    <3>1. CASE \E l \in Pushed(p) : Target(p, l) = i
      <4>1. PICK l \in Pushed(p) : Target(p, l) = i BY <3>1
      <4>2. p[i].op = "get" BY <4>1, PushedIs
      <4>3. SameScan(p[i], AddLimit(p, i)) BY <4>1, AddLimitIs
      <4> QED BY <4>2, <4>3 DEF SameScan
    <3>2. CASE \A l \in Pushed(p) : Target(p, l) # i
      BY <3>2, AddLimitIs
    <3> QED BY <3>1, <3>2
  <2>2. /\ p[i].op # "get" => p[i].children[1] \in 1..n /\ p[i].children[1] < i
        /\ p[i].op = "union" => p[i].children[2] \in 1..n /\ p[i].children[2] < i
    BY TreeIs
  <2> HIDE DEF n
  <2>3. /\ p[i].op # "get" => p[i].children[1] \in 1..(j - 1)
        /\ p[i].op = "union" => p[i].children[2] \in 1..(j - 1)
    BY <1>1, <2>2
  <2> QED BY <2>1, <2>3
<1>4. \A i : Ready(Moved, i) BY DEF Moved
<1>5. \A l \in Pushed(p) : l \in 1..n /\ p[l].children[1] \in 1..n /\ p[l].children[1] < l
  BY PushedIs
<1> HIDE DEF q, n, Ready
<1>6. ASSUME NEW i \in 1..n PROVE Ready(q[i], i)
  <2>1. CASE i \in Pushed(p) BY <1>1, <1>3, <1>5, <2>1
  <2>2. CASE \E l \in Pushed(p) : p[l].children[1] = i BY <1>1, <1>4, <2>2
  <2>3. CASE i \notin Pushed(p) /\ (\A l \in Pushed(p) : p[l].children[1] # i)
    BY <1>1, <1>3, <2>3
  <2> QED BY <2>1, <2>2, <2>3
<1> QED BY <1>1, <1>2, <1>6 DEF CanRun, Ready, q

\* Two sequences, one after the other, are a sequence.
LEMMA ConcatIsSequence ==
  ASSUME NEW a, IsSequence(a), NEW b, IsSequence(b)
  PROVE  IsSequence(a \o b)
<1> DEFINE S == {a[k] : k \in DOMAIN a} \cup {b[k] : k \in DOMAIN b}
           c == a \o b
<1>1. /\ a = [i \in 1..Len(a) |-> a[i]] /\ Len(a) \in Nat /\ DOMAIN a = 1..Len(a)
      /\ b = [i \in 1..Len(b) |-> b[i]] /\ Len(b) \in Nat /\ DOMAIN b = 1..Len(b)
  BY SequenceFacts
<1>2. (\A i \in 1..Len(a) : a[i] \in S) /\ (\A i \in 1..Len(b) : b[i] \in S) BY <1>1
<1> HIDE DEF S
<1>3. a \in [1..Len(a) -> S] /\ b \in [1..Len(b) -> S] BY <1>1, <1>2
<1>4. a \in Seq(S) /\ b \in Seq(S)
  <2> DEFINE n == Len(a)
             m == Len(b)
  <2>1. a \in [1..n -> S] /\ b \in [1..m -> S] /\ n \in Nat /\ m \in Nat BY <1>1, <1>3
  <2> HIDE DEF n, m
  <2> QED BY <2>1
<1>5. c \in Seq(S) BY <1>4
<1> HIDE DEF c
<1>6. Len(c) \in Nat /\ DOMAIN c = 1..Len(c) /\ c = [i \in 1..Len(c) |-> c[i]]
  BY <1>5, LenProperties
<1> QED BY <1>6, SequenceMade DEF c

\* No rows are a sequence.
LEMMA EmptyIsSequence == IsSequence(<<>>)
<1> DEFINE e == <<>>
           E == {e[k] : k \in DOMAIN e}
<1>1. e \in Seq(E)
  <2> HIDE DEF E
  <2> QED BY EmptySeq
<1> HIDE DEF e
<1> QED BY <1>1 DEF IsSequence, e

\* The rows of every place are a sequence when those of the scans are.
LEMMA RowsAreSequences ==
  ASSUME NEW p, IsTree(p), NEW sc,
         \A i \in 1..Len(p) : p[i].op = "get" => IsSequence(sc[p[i].table_index])
  PROVE  \A i \in 1..Len(p) : IsSequence(Evaluate(p, sc)[i])
<1> DEFINE n == Len(p)
           E == Evaluate(p, sc)
           S == {i \in 1..n : IsSequence(E[i])}
<1>1. n \in Nat /\ \A i \in 1..n : E[i] = Operate(p[i], sc, E)
  BY TreeIs, TreeCanRun, EvaluateIs
<1> HIDE DEF n, E
<1>2. ASSUME NEW i \in 1..n, \A j \in 1..n : j < i => j \in S
      PROVE  i \in S
  <2>1. p[i].op # "get" => IsSequence(E[p[i].children[1]])
    <3>1. p[i].op # "get" => p[i].children[1] \in 1..n /\ p[i].children[1] < i BY TreeIs DEF n
    <3> QED BY <1>2, <3>1
  <2>2. p[i].op = "union" => IsSequence(E[p[i].children[2]])
    <3>1. p[i].op = "union" => p[i].children[2] \in 1..n /\ p[i].children[2] < i BY TreeIs DEF n
    <3> QED BY <1>2, <3>1
  <2>3. CASE p[i].op = "get"
    <3>1. E[i] = sc[p[i].table_index] BY <1>1, <2>3 DEF Operate
    <3> QED BY <2>3, <3>1 DEF n
  <2>4. CASE p[i].op = "projection"
    <3>1. E[i] = Projected(p[i].select_list, E[p[i].children[1]]) BY <1>1, <2>4 DEF Operate
    <3> DEFINE s == Projected(p[i].select_list, E[p[i].children[1]])
               r == E[p[i].children[1]]
    <3>2. DOMAIN r = 1..Len(r) /\ Len(r) \in Nat BY <2>1, <2>4, SequenceFacts
    <3>3. DOMAIN s = 1..Len(r) /\ s = [x \in 1..Len(r) |-> s[x]]
      <4>1. s = [x \in DOMAIN r |-> s[x]] /\ DOMAIN s = DOMAIN r BY DEF Projected
      <4> HIDE DEF s, r
      <4> QED BY <3>2, <4>1
    <3> HIDE DEF s, r
    <3>4. IsSequence(s) BY <3>2, <3>3, SequenceMade
    <3> QED BY <3>1, <3>4 DEF s
  <2>5. CASE p[i].op = "filter"
    <3>1. E[i] = Filtered(p[i].filter, p[i].index, E[p[i].children[1]]) BY <1>1, <2>5 DEF Operate
    <3>2. IsSequence(Filtered(p[i].filter, p[i].index, E[p[i].children[1]]))
      BY <2>1, <2>5, KeepIsSequence DEF Filtered
    <3> QED BY <3>1, <3>2
  <2>6. CASE p[i].op = "union"
    <3>1. E[i] = E[p[i].children[1]] \o E[p[i].children[2]] BY <1>1, <2>6 DEF Operate
    <3> QED BY <2>1, <2>2, <2>6, <3>1, ConcatIsSequence
  <2>7. CASE p[i].op = "limit"
    <3>1. E[i] = Limited(p[i], E[p[i].children[1]]) BY <1>1, <2>7 DEF Operate
    <3>2. LimitIs(p[i]) BY <2>7, TreeIs DEF n
    <3> QED BY <2>1, <2>7, <3>1, <3>2, LimitedIsWindow
  <2>8. CASE p[i].op \notin {"get", "projection", "filter", "union", "limit"}
    <3>1. E[i] = <<>> BY <1>1, <2>8 DEF Operate
    <3>2. IsSequence(<<>>) BY EmptyIsSequence
    <3> QED BY <3>1, <3>2
  <2> QED BY <2>3, <2>4, <2>5, <2>6, <2>7, <2>8
<1>3. \A i \in 1..n : i \in S
  <2> HIDE DEF S
  <2> QED BY <1>1, <1>2, FromThoseBefore
<1> QED BY <1>3 DEF n, E

\* The rows of the scans with the LIMITs below them, and of those without.
Given(p, sc, limited) ==
  \A i \in 1..Len(p) : p[i].op = "get" =>
    /\ IsSequence(sc[p[i].table_index])
    /\ (\A l \in Pushed(p) : Target(p, l) # i) =>
         limited[p[i].table_index] = sc[p[i].table_index]
    /\ \A l \in Pushed(p) : Target(p, l) = i =>
         limited[p[i].table_index] = Limited(p[l], sc[p[i].table_index])

\* A place the plan without push-down agrees on: that of an operator above or
\* beside the pushed LIMITs, or of one under a LIMIT that has not moved.
Agrees(p, E, F, i) ==
  /\ \A l \in Pushed(p) :
       ThroughProjections(p)[i] = Target(p, l) /\ i # p[l].children[1] => F[i] = Limited(p[l], E[i])
  /\ (\A l \in Pushed(p) : ThroughProjections(p)[i] # Target(p, l)) => F[i] = E[i]

\* A LIMIT in its text does not change which scan it is.
LEMMA OperateOnScan ==
  ASSUME NEW p, IsTree(p), NEW i \in 1..Len(p), NEW sc, NEW rows, p[i].op = "get"
  PROVE  Operate(AddLimit(p, i), sc, rows) = sc[p[i].table_index]
<1>1. AddLimit(p, i).op = "get" /\ AddLimit(p, i).table_index = p[i].table_index
  <2>1. CASE \E l \in Pushed(p) : Target(p, l) = i
    <3>1. PICK l \in Pushed(p) : Target(p, l) = i BY <2>1
    <3>2. SameScan(p[i], AddLimit(p, i)) BY <3>1, AddLimitIs
    <3> QED BY <3>2 DEF SameScan
  <2>2. CASE \A l \in Pushed(p) : Target(p, l) # i
    BY <2>2, AddLimitIs
  <2> QED BY <2>1, <2>2
<1> QED BY <1>1 DEF Operate

\* Only scans get the text of a LIMIT.
LEMMA OnlyScansGetLimits ==
  ASSUME NEW p, IsTree(p), NEW i \in 1..Len(p), p[i].op # "get"
  PROVE  AddLimit(p, i) = p[i]
<1>1. \A l \in Pushed(p) : Target(p, l) # i BY PushedIs
<1> QED BY <1>1, AddLimitIs

\* In a chain, below its top.
LEMMA ChainAgrees ==
  ASSUME NEW p, IsTree(p), NEW sc, NEW limited, Given(p, sc, limited),
         NEW E, E = Evaluate(p, sc), NEW F, F = Evaluate(OptimizeMySQLScan(p), limited),
         NEW i \in 1..Len(p), \A j \in 1..Len(p) : j < i => Agrees(p, E, F, j),
         NEW l \in Pushed(p), ThroughProjections(p)[i] = Target(p, l), i # p[l].children[1]
  PROVE  F[i] = Limited(p[l], E[i])
<1> DEFINE n == Len(p)
           q == OptimizeMySQLScan(p)
           end == ThroughProjections(p)
<1>1. n \in Nat
      /\ \A x, y \in 1..n : p[x].op # "get" /\ p[y].op # "get"
            /\ p[x].children[1] = p[y].children[1] => x = y
  BY TreeIs
<1>2. E[i] = Operate(p[i], sc, E)
  BY TreeCanRun, EvaluateIs
<1>3. F[i] = Operate(q[i], limited, F)
  <2>1. CanRun(q) /\ Len(q) = n BY OptimizedCanRun, OptimizedIs
  <2> HIDE DEF q
  <2>2. \A k \in 1..Len(q) : Evaluate(q, limited)[k] = Operate(q[k], limited, Evaluate(q, limited))
    BY <2>1, EvaluateIs
  <2> QED BY <2>1, <2>2 DEF q
<1>4. end[i] = IF p[i].op = "projection" THEN end[p[i].children[1]] ELSE i
  BY ThroughProjectionsIs
<1>5. /\ p[Target(p, l)].op = "get" /\ p[l].op = "limit" /\ l \in 1..n /\ LimitIs(p[l])
  BY PushedIs
<1>6. p[i].op \in {"get", "projection"} BY <1>4, <1>5
<1>7. i \notin Pushed(p) BY <1>6, PushedIs
<1>8. \A m \in Pushed(p) : p[m].children[1] # i
  <2> SUFFICES ASSUME NEW m \in Pushed(p), p[m].children[1] = i PROVE FALSE
    OBVIOUS
  <2>1. Target(p, m) = end[i] BY PushedIs
  <2>2. m = l BY <2>1, OneLimitAScan
  <2> QED BY <2>2
<1>9. q[i] = AddLimit(p, i) BY <1>7, <1>8, OptimizedIs
<1>10. CASE p[i].op = "get"
  <2>1. i = Target(p, l) BY <1>4, <1>10
  <2>2. limited[p[i].table_index] = Limited(p[l], sc[p[i].table_index])
    BY <1>10, <2>1 DEF Given
  <2>3. E[i] = sc[p[i].table_index] BY <1>2, <1>10 DEF Operate
  <2>4. F[i] = limited[p[i].table_index] BY <1>3, <1>9, <1>10, OperateOnScan
  <2> QED BY <2>2, <2>3, <2>4
<1>11. CASE p[i].op = "projection"
  <2> DEFINE c == p[i].children[1]
             list == p[i].select_list
  <2>1. c \in 1..n /\ c < i BY <1>11, TreeIs
  <2>2. end[c] = Target(p, l) BY <1>4, <1>11
  <2>3. c # p[l].children[1] BY <1>1, <1>5, <1>11
  <2>4. Agrees(p, E, F, c) BY <2>1
  <2>5. F[c] = Limited(p[l], E[c]) BY <2>2, <2>3, <2>4 DEF Agrees
  <2>6. q[i] = p[i] BY <1>9, <1>11, OnlyScansGetLimits
  <2>7. E[i] = Projected(list, E[c]) /\ F[i] = Projected(list, F[c])
    BY <1>2, <1>3, <1>11, <2>6 DEF Operate
  <2>8. IsSequence(E[c])
    <3>1. \A x \in 1..Len(p) : p[x].op = "get" => IsSequence(sc[p[x].table_index]) BY DEF Given
    <3> QED BY <2>1, <3>1, RowsAreSequences
  <2>9. Limited(p[l], Projected(list, E[c])) = Projected(list, Limited(p[l], E[c]))
    BY <1>5, <2>8, LimitOfProjection
  <2> QED BY <2>5, <2>7, <2>9
<1> QED BY <1>6, <1>10, <1>11

\* At the place of the LIMIT itself, from where its child is now.
LEMMA LimitAgrees ==
  ASSUME NEW p, IsTree(p), NEW sc, NEW limited, Given(p, sc, limited),
         NEW E, E = Evaluate(p, sc), NEW F, F = Evaluate(OptimizeMySQLScan(p), limited),
         NEW i \in Pushed(p), \A j \in 1..Len(p) : j < i => Agrees(p, E, F, j)
  PROVE  F[i] = E[i]
<1> DEFINE n == Len(p)
           q == OptimizeMySQLScan(p)
           end == ThroughProjections(p)
           c == p[i].children[1]
           list == p[c].select_list
           d == p[c].children[1]
<1>1. n \in Nat /\ i \in 1..n /\ c \in 1..n /\ c < i
      /\ p[i].op = "limit" /\ LimitIs(p[i]) /\ p[c].op \in {"get", "projection"}
      /\ end[c] = Target(p, i)
  BY PushedIs, TreeIs
<1>2. E[i] = Operate(p[i], sc, E) /\ E[c] = Operate(p[c], sc, E)
  BY <1>1, TreeCanRun, EvaluateIs
<1>3. F[i] = Operate(q[i], limited, F)
  <2>1. CanRun(q) /\ Len(q) = n BY OptimizedCanRun, OptimizedIs
  <2> HIDE DEF q
  <2>2. \A k \in 1..Len(q) : Evaluate(q, limited)[k] = Operate(q[k], limited, Evaluate(q, limited))
    BY <2>1, EvaluateIs
  <2> QED BY <1>1, <2>1, <2>2 DEF q
<1>4. q[i] = AddLimit(p, c) BY OptimizedIs
<1>5. end[c] = IF p[c].op = "projection" THEN end[d] ELSE c
  BY <1>1, ThroughProjectionsIs
<1>6. E[i] = Limited(p[i], E[c]) BY <1>1, <1>2 DEF Operate
<1>7. CASE p[c].op = "get"
  <2>1. c = Target(p, i) BY <1>1, <1>5, <1>7
  <2>2. limited[p[c].table_index] = Limited(p[i], sc[p[c].table_index])
    BY <1>1, <1>7, <2>1 DEF Given
  <2>3. E[c] = sc[p[c].table_index] BY <1>2, <1>7 DEF Operate
  <2>4. F[i] = limited[p[c].table_index] BY <1>1, <1>3, <1>4, <1>7, OperateOnScan
  <2> QED BY <1>6, <2>2, <2>3, <2>4
<1>8. CASE p[c].op = "projection"
  <2>1. d \in 1..n /\ d < c BY <1>1, <1>8, TreeIs
  <2>2. d < i /\ d # c BY <1>1, <2>1
  <2>3. Agrees(p, E, F, d) BY <2>1, <2>2
  <2>4. F[d] = Limited(p[i], E[d]) BY <1>1, <1>5, <1>8, <2>2, <2>3 DEF Agrees
  <2>5. q[i] = p[c] BY <1>1, <1>4, <1>8, OnlyScansGetLimits
  <2>6. E[c] = Projected(list, E[d]) /\ F[i] = Projected(list, F[d])
    BY <1>2, <1>3, <1>8, <2>5 DEF Operate
  <2>7. IsSequence(E[d])
    <3>1. \A x \in 1..Len(p) : p[x].op = "get" => IsSequence(sc[p[x].table_index]) BY DEF Given
    <3> QED BY <2>1, <3>1, RowsAreSequences
  <2>8. Limited(p[i], Projected(list, E[d])) = Projected(list, Limited(p[i], E[d]))
    BY <1>1, <2>7, LimitOfProjection
  <2> QED BY <1>6, <2>4, <2>6, <2>8
<1> QED BY <1>1, <1>7, <1>8

\* What is under an operator that is in no chain is in none either, unless
\* the operator is a pushed LIMIT.
LEMMA OutsideIsOutside ==
  ASSUME NEW p, IsTree(p), NEW i \in 1..Len(p), i \notin Pushed(p),
         \A l \in Pushed(p) : ThroughProjections(p)[i] # Target(p, l),
         NEW c \in 1..Len(p), p[i].op # "get",
         c = p[i].children[1] \/ (p[i].op = "union" /\ c = p[i].children[2]),
         NEW l \in Pushed(p)
  PROVE  ThroughProjections(p)[c] # Target(p, l)
<1> DEFINE n == Len(p)
           end == ThroughProjections(p)
<1> SUFFICES ASSUME end[c] = Target(p, l) PROVE FALSE
  OBVIOUS
<1>1. /\ n \in Nat
      /\ \A x, y \in 1..n :
           /\ p[x].op # "get" /\ p[y].op # "get" /\ p[x].children[1] = p[y].children[1] => x = y
           /\ p[x].op # "get" /\ p[y].op = "union" => p[x].children[1] # p[y].children[2]
  BY TreeIs
<1>2. l \in 1..n /\ p[l].op = "limit" BY PushedIs
<1>3. end[i] = IF p[i].op = "projection" THEN end[p[i].children[1]] ELSE i
  BY ThroughProjectionsIs
<1>4. CASE c = p[l].children[1]
  BY <1>1, <1>2, <1>4
<1>5. CASE c # p[l].children[1]
  <2>1. PICK u \in 1..n : p[u].op = "projection" /\ p[u].children[1] = c
    BY <1>5, ChainIsBelow
  <2>2. u = i BY <1>1, <2>1
  <2> QED BY <1>3, <2>1, <2>2
<1> QED BY <1>4, <1>5

\* Outside the chains below pushed LIMITs every place has the rows it had.
LEMMA OutsideAgrees ==
  ASSUME NEW p, IsTree(p), NEW sc, NEW limited, Given(p, sc, limited),
         NEW E, E = Evaluate(p, sc), NEW F, F = Evaluate(OptimizeMySQLScan(p), limited),
         NEW i \in 1..Len(p), i \notin Pushed(p), \A j \in 1..Len(p) : j < i => Agrees(p, E, F, j),
         \A l \in Pushed(p) : ThroughProjections(p)[i] # Target(p, l)
  PROVE  F[i] = E[i]
<1> DEFINE n == Len(p)
           q == OptimizeMySQLScan(p)
           end == ThroughProjections(p)
<1>1. E[i] = Operate(p[i], sc, E)
  BY TreeCanRun, EvaluateIs
<1>2. F[i] = Operate(q[i], limited, F)
  <2>1. CanRun(q) /\ Len(q) = n BY OptimizedCanRun, OptimizedIs
  <2> HIDE DEF q
  <2>2. \A k \in 1..Len(q) : Evaluate(q, limited)[k] = Operate(q[k], limited, Evaluate(q, limited))
    BY <2>1, EvaluateIs
  <2> QED BY <2>1, <2>2 DEF q
<1>3. \A l \in Pushed(p) : p[l].children[1] # i /\ Target(p, l) # i
  BY PushedIs
<1>4. q[i] = p[i]
  <2>1. q[i] = AddLimit(p, i) BY <1>3, OptimizedIs
  <2> QED BY <1>3, <2>1, AddLimitIs
<1>5. CASE p[i].op = "get"
  <2>1. limited[p[i].table_index] = sc[p[i].table_index] BY <1>3, <1>5 DEF Given
  <2> QED BY <1>1, <1>2, <1>4, <1>5, <2>1 DEF Operate
<1>6. CASE p[i].op # "get"
  <2>1. /\ p[i].children[1] \in 1..n /\ p[i].children[1] < i
        /\ p[i].op = "union" => p[i].children[2] \in 1..n /\ p[i].children[2] < i
    BY <1>6, TreeIs
  <2>2. F[p[i].children[1]] = E[p[i].children[1]]
    <3> DEFINE c == p[i].children[1]
    <3>1. Agrees(p, E, F, c) BY <2>1
    <3>2. \A l \in Pushed(p) : end[c] # Target(p, l)
      <4>1. c \in 1..n /\ c = p[i].children[1] BY <2>1
      <4> HIDE DEF c
      <4> QED BY <1>6, <4>1, OutsideIsOutside
    <3> QED BY <3>1, <3>2 DEF Agrees
  <2>3. p[i].op = "union" => F[p[i].children[2]] = E[p[i].children[2]]
    <3> SUFFICES ASSUME p[i].op = "union" PROVE F[p[i].children[2]] = E[p[i].children[2]]
      OBVIOUS
    <3> DEFINE c == p[i].children[2]
    <3>1. Agrees(p, E, F, c) BY <2>1
    <3>2. \A l \in Pushed(p) : end[c] # Target(p, l)
      <4>1. c \in 1..n /\ c = p[i].children[2] BY <2>1
      <4> HIDE DEF c
      <4> QED BY <1>6, <4>1, OutsideIsOutside
    <3> QED BY <3>1, <3>2 DEF Agrees
  <2>4. Operate(p[i], sc, E) = Operate(p[i], limited, F)
    BY <1>6, <2>2, <2>3 DEF Operate
  <2> QED BY <1>1, <1>2, <1>4, <2>4
<1> QED BY <1>5, <1>6

(***************************************************************************)
(* The rows of a plan are those of the plan its LIMITs are pushed in, if   *)
(* its scans return as many as their LIMITs ask for.                       *)
(***************************************************************************)
THEOREM PushedLimitsAreTheSame ==
  ASSUME NEW p, IsTree(p), NEW sc, NEW limited, Given(p, sc, limited)
  PROVE  Root(Evaluate(OptimizeMySQLScan(p), limited)) = Root(Evaluate(p, sc))
<1> DEFINE n == Len(p)
           q == OptimizeMySQLScan(p)
           end == ThroughProjections(p)
           E == Evaluate(p, sc)
           F == Evaluate(q, limited)
           S == {i \in 1..n : Agrees(p, E, F, i)}
<1>1. n \in Nat /\ n \in 1..n BY TreeIs
<1>2. E = Evaluate(p, sc) /\ F = Evaluate(OptimizeMySQLScan(p), limited) OBVIOUS
<1> HIDE DEF E, F, q
<1>3. ASSUME NEW i \in 1..n, \A j \in 1..n : j < i => j \in S
      PROVE  i \in S
  <2>1. \A j \in 1..Len(p) : j < i => Agrees(p, E, F, j) BY <1>3
  <2>2. \A l \in Pushed(p) : end[i] = Target(p, l) /\ i # p[l].children[1] => F[i] = Limited(p[l], E[i])
    BY <1>2, <2>1, ChainAgrees
  <2>3. (\A l \in Pushed(p) : end[i] # Target(p, l)) => F[i] = E[i]
    BY <1>2, <2>1, LimitAgrees, OutsideAgrees
  <2> QED BY <2>2, <2>3 DEF Agrees
<1>4. n \in S
  <2> HIDE DEF S
  <2>1. \A i \in 1..n : i \in S BY <1>1, <1>3, FromThoseBefore
  <2> QED BY <1>1, <2>1
<1>5. \A l \in Pushed(p) : end[n] # Target(p, l)
  <2> SUFFICES ASSUME NEW l \in Pushed(p), end[n] = Target(p, l) PROVE FALSE
    OBVIOUS
  <2>1. n <= p[l].children[1] /\ p[l].children[1] < l /\ l \in 1..n /\ p[l].children[1] \in 1..n
    BY <1>1, PushedIs, ChainIsBelow
  <2> HIDE DEF n
  <2> QED BY <1>1, <2>1
<1>6. F[n] = E[n] BY <1>4, <1>5 DEF Agrees
<1>7. Len(E) = n BY TreeCanRun, EvaluateIs DEF E
<1>8. Len(F) = n
  <2>1. CanRun(q) /\ Len(q) = n BY OptimizedCanRun, OptimizedIs DEF q
  <2> QED BY <2>1, EvaluateIs DEF F
<1> QED BY <1>6, <1>7, <1>8 DEF Root, E, F, q

-----------------------------------------------------------------------------
(* The plans the optimizer extension makes of those that are bound.        *)

\* The plans DuckDB hands over are trees.
LEMMA BoundIsTree ==
  ASSUME NEW b, PlanIsBound(b)
  PROVE  IsTree(b)
<1>1. \A i \in DOMAIN b : b[i].op = "limit" => LimitIs(b[i])
  BY DEF PlanIsBound, LimitIs
<1>2. \A i \in DOMAIN b : b[i].op = "get" => DOMAIN b[i] = GetFields /\ b[i].limit = <<>>
  BY DEF PlanIsBound, GetIsBound
<1>3. IsSequence(b) /\ b # <<>>
      /\ \A i \in DOMAIN b :
           /\ DOMAIN b[i].children = 1..Inputs(b[i].op)
           /\ \A k \in DOMAIN b[i].children : b[i].children[k] \in 1..(i - 1)
  BY DEF PlanIsBound
<1>4. \A i, j \in DOMAIN b :
        \A k \in DOMAIN b[i].children, m \in DOMAIN b[j].children :
          b[i].children[k] = b[j].children[m] => i = j /\ k = m
  BY DEF PlanIsBound
<1> QED BY <1>1, <1>2, <1>3, <1>4 DEF IsTree

IsMySQL(get) == get.op = "get" /\ (IsMySQLScan(get) \/ IsMySQLQuery(get))

\* A plan with other decisions on streaming.
Restreamed(b, p) ==
  /\ IsSequence(p) /\ Len(p) = Len(b)
  /\ \A i \in 1..Len(b) :
       /\ b[i].op # "get" => p[i] = b[i]
       /\ b[i].op = "get" =>
            /\ SameScan(b[i], p[i]) /\ DOMAIN p[i] = GetFields
            /\ p[i].limit = b[i].limit /\ p[i].children = b[i].children

\* The streaming decision changes nothing but streaming.
LEMMA SetStreamingIs ==
  ASSUME NEW b, IsTree(b), NEW alone
  PROVE  LET p == SetStreaming(b, alone)
         IN /\ Restreamed(b, p)
            /\ \A i \in 1..Len(b) : IsMySQL(b[i]) =>
                 p[i].streaming = IF ~alone[b[i].catalog] THEN "FORCE_MATERIALIZATION"
                                  ELSE IF b[i].streaming = "UNINITIALIZED" THEN "ALLOW_STREAMING"
                                  ELSE b[i].streaming
<1> DEFINE n == Len(b)
           p == SetStreaming(b, alone)
           s(i) == IF ~alone[b[i].catalog] THEN "FORCE_MATERIALIZATION"
                   ELSE IF b[i].streaming = "UNINITIALIZED" THEN "ALLOW_STREAMING"
                   ELSE b[i].streaming
           g(i) == [b[i] EXCEPT !.streaming = s(i)]
           new(i) == IF b[i] \notin MySQLGets(b) THEN b[i] ELSE g(i)
<1>1. n \in Nat /\ DOMAIN b = 1..n
      /\ \A i \in 1..n : b[i].op = "get" => DOMAIN b[i] = GetFields
  BY TreeIs
<1>2. \A i \in 1..n : b[i] \in MySQLGets(b) <=> IsMySQL(b[i])
  BY <1>1 DEF MySQLGets, Gets, IsMySQL
<1>3. p = [i \in 1..n |-> new(i)] BY <1>1 DEF SetStreaming
<1>4. \A i \in 1..n : b[i].op = "get" =>
        /\ SameScan(b[i], g(i)) /\ DOMAIN g(i) = GetFields
        /\ g(i).limit = b[i].limit /\ g(i).children = b[i].children /\ g(i).streaming = s(i)
  <2> HIDE DEF s
  <2> QED BY <1>1, GetWithStreaming
<1> HIDE DEF p, n, g
<1>5. IsSequence(p) /\ Len(p) = n
  <2> HIDE DEF new
  <2>1. DOMAIN p = 1..n /\ p = [i \in 1..n |-> p[i]] BY <1>3
  <2> QED BY <1>1, <2>1, SequenceMade
<1>6. \A i \in 1..n : p[i] = IF IsMySQL(b[i]) THEN g(i) ELSE b[i] BY <1>2, <1>3
<1>7. \A i \in 1..n :
       /\ b[i].op # "get" => p[i] = b[i]
       /\ b[i].op = "get" =>
            /\ SameScan(b[i], p[i]) /\ DOMAIN p[i] = GetFields
            /\ p[i].limit = b[i].limit /\ p[i].children = b[i].children
  BY <1>1, <1>4, <1>6 DEF IsMySQL, SameScan
<1>8. \A i \in 1..n : IsMySQL(b[i]) => p[i].streaming = s(i)
  BY <1>4, <1>6 DEF IsMySQL
<1> QED BY <1>5, <1>7, <1>8 DEF Restreamed, n, p

\* Materializing the scans of a write changes nothing but streaming.
LEMMA MaterializedIs ==
  ASSUME NEW b, IsSequence(b), \A i \in 1..Len(b) : b[i].op = "get" => DOMAIN b[i] = GetFields
  PROVE  LET p == MaterializeMySQLScans(b)
         IN /\ Restreamed(b, p)
            /\ \A i \in 1..Len(b) : IsMySQL(b[i]) => p[i].streaming = "FORCE_MATERIALIZATION"
<1> DEFINE n == Len(b)
           p == MaterializeMySQLScans(b)
           g(i) == [b[i] EXCEPT !.streaming = "FORCE_MATERIALIZATION"]
           new(i) == IF b[i] \notin MySQLGets(b) THEN b[i] ELSE g(i)
<1>1. n \in Nat /\ DOMAIN b = 1..n
      /\ \A i \in 1..n : b[i].op = "get" => DOMAIN b[i] = GetFields
  BY SequenceFacts
<1>2. \A i \in 1..n : b[i] \in MySQLGets(b) <=> IsMySQL(b[i])
  BY <1>1 DEF MySQLGets, Gets, IsMySQL
<1>3. p = [i \in 1..n |-> new(i)] BY <1>1 DEF MaterializeMySQLScans
<1>4. \A i \in 1..n : b[i].op = "get" =>
        /\ SameScan(b[i], g(i)) /\ DOMAIN g(i) = GetFields
        /\ g(i).limit = b[i].limit /\ g(i).children = b[i].children
        /\ g(i).streaming = "FORCE_MATERIALIZATION"
  BY <1>1, GetWithStreaming
<1> HIDE DEF p, n, g
<1>5. IsSequence(p) /\ Len(p) = n
  <2> HIDE DEF new
  <2>1. DOMAIN p = 1..n /\ p = [i \in 1..n |-> p[i]] BY <1>3
  <2> QED BY <1>1, <2>1, SequenceMade
<1>6. \A i \in 1..n : p[i] = IF IsMySQL(b[i]) THEN g(i) ELSE b[i] BY <1>2, <1>3
<1>7. \A i \in 1..n :
       /\ b[i].op # "get" => p[i] = b[i]
       /\ b[i].op = "get" =>
            /\ SameScan(b[i], p[i]) /\ DOMAIN p[i] = GetFields
            /\ p[i].limit = b[i].limit /\ p[i].children = b[i].children
  BY <1>1, <1>4, <1>6 DEF IsMySQL, SameScan
<1>8. \A i \in 1..n : IsMySQL(b[i]) => p[i].streaming = "FORCE_MATERIALIZATION"
  BY <1>4, <1>6 DEF IsMySQL
<1> QED BY <1>5, <1>7, <1>8 DEF Restreamed, n, p

\* A tree stays one when streaming is decided.
LEMMA RestreamedIsTree ==
  ASSUME NEW b, IsTree(b), NEW p, Restreamed(b, p)
  PROVE  IsTree(p)
<1> DEFINE n == Len(b)
<1>1. n \in Nat /\ DOMAIN b = 1..n /\ n \in 1..n BY TreeIs
<1>2. IsSequence(p) /\ Len(p) = n BY DEF Restreamed
<1>3. DOMAIN p = 1..n /\ p # <<>> BY <1>1, <1>2, SequenceFacts
<1>4. \A i \in 1..n :
        /\ p[i].op = b[i].op /\ p[i].children = b[i].children
        /\ b[i].op = "get" => DOMAIN p[i] = GetFields /\ p[i].limit = b[i].limit
        /\ b[i].op # "get" => p[i] = b[i]
  BY DEF Restreamed, SameScan
<1>5. \A i \in 1..n :
        /\ DOMAIN b[i].children = 1..Inputs(b[i].op)
        /\ \A k \in DOMAIN b[i].children : b[i].children[k] \in 1..(i - 1)
        /\ b[i].op = "limit" => LimitIs(b[i])
        /\ b[i].op = "get" => b[i].limit = <<>>
  BY <1>1 DEF IsTree
<1>6. \A i, j \in 1..n :
       \A k \in DOMAIN b[i].children, m \in DOMAIN b[j].children :
         b[i].children[k] = b[j].children[m] => i = j /\ k = m
  BY <1>1 DEF IsTree
<1> HIDE DEF n
<1>7. \A i \in DOMAIN p :
       /\ DOMAIN p[i].children = 1..Inputs(p[i].op)
       /\ \A k \in DOMAIN p[i].children : p[i].children[k] \in 1..(i - 1)
       /\ p[i].op = "limit" => LimitIs(p[i])
       /\ p[i].op = "get" => DOMAIN p[i] = GetFields /\ p[i].limit = <<>>
  <2> SUFFICES ASSUME NEW i \in 1..n
               PROVE  /\ DOMAIN p[i].children = 1..Inputs(p[i].op)
                      /\ \A k \in DOMAIN p[i].children : p[i].children[k] \in 1..(i - 1)
                      /\ p[i].op = "limit" => LimitIs(p[i])
                      /\ p[i].op = "get" => DOMAIN p[i] = GetFields /\ p[i].limit = <<>>
    BY <1>3
  <2>1. p[i].op = b[i].op /\ p[i].children = b[i].children BY <1>4
  <2> QED BY <1>4, <1>5, <2>1
<1>8. \A i, j \in DOMAIN p :
       \A k \in DOMAIN p[i].children, m \in DOMAIN p[j].children :
         p[i].children[k] = p[j].children[m] => i = j /\ k = m
  <2> SUFFICES ASSUME NEW i \in 1..n, NEW j \in 1..n
               PROVE  \A k \in DOMAIN p[i].children, m \in DOMAIN p[j].children :
                        p[i].children[k] = p[j].children[m] => i = j /\ k = m
    BY <1>3
  <2>1. p[i].children = b[i].children /\ p[j].children = b[j].children BY <1>4
  <2> QED BY <1>6, <2>1
<1> QED BY <1>2, <1>3, <1>7, <1>8 DEF IsTree

\* Streaming does not matter to the rows of a plan.
LEMMA RestreamedRows ==
  ASSUME NEW b, IsTree(b), NEW p, Restreamed(b, p), NEW sc
  PROVE  Root(Evaluate(p, sc)) = Root(Evaluate(b, sc))
<1> DEFINE n == Len(b)
           E == Evaluate(b, sc)
           F == Evaluate(p, sc)
           S == {i \in 1..n : F[i] = E[i]}
<1>1. n \in Nat /\ n \in 1..n BY TreeIs
<1>2. Len(E) = n /\ \A i \in 1..n : E[i] = Operate(b[i], sc, E)
  BY TreeCanRun, EvaluateIs
<1>3. Len(F) = n /\ \A i \in 1..n : F[i] = Operate(p[i], sc, F)
  <2>1. CanRun(p) /\ Len(p) = n BY RestreamedIsTree, TreeCanRun DEF Restreamed
  <2> QED BY <2>1, EvaluateIs
<1> HIDE DEF E, F
<1>4. ASSUME NEW i \in 1..n, \A j \in 1..n : j < i => j \in S
      PROVE  i \in S
  <2>1. CASE b[i].op = "get"
    <3>1. p[i].op = "get" /\ p[i].table_index = b[i].table_index
      BY <2>1 DEF Restreamed, SameScan
    <3> QED BY <1>2, <1>3, <2>1, <3>1 DEF Operate
  <2>2. CASE b[i].op # "get"
    <3>1. p[i] = b[i] BY <2>2 DEF Restreamed
    <3>2. /\ b[i].children[1] \in 1..n /\ b[i].children[1] < i
          /\ b[i].op = "union" => b[i].children[2] \in 1..n /\ b[i].children[2] < i
      BY <2>2, TreeIs
    <3>3. /\ F[b[i].children[1]] = E[b[i].children[1]]
          /\ b[i].op = "union" => F[b[i].children[2]] = E[b[i].children[2]]
      BY <1>4, <3>2
    <3>4. Operate(b[i], sc, E) = Operate(b[i], sc, F) BY <2>2, <3>3 DEF Operate
    <3> QED BY <1>2, <1>3, <3>1, <3>4
  <2> QED BY <2>1, <2>2
<1>5. n \in S
  <2> HIDE DEF S
  <2>1. \A i \in 1..n : i \in S BY <1>1, <1>4, FromThoseBefore
  <2> QED BY <1>1, <2>1
<1> QED BY <1>2, <1>3, <1>5 DEF Root, E, F

\* The scans of the optimized plan are those it had, with their LIMITs.
LEMMA OptimizedScans ==
  ASSUME NEW p, IsTree(p)
  PROVE  LET q == OptimizeMySQLScan(p)
         IN /\ \A g \in Gets(q) : \E i \in 1..Len(p) : p[i].op = "get" /\ g = AddLimit(p, i)
            /\ \A i \in 1..Len(p) : p[i].op = "get" => AddLimit(p, i) \in Gets(q)
<1> DEFINE n == Len(p)
           q == OptimizeMySQLScan(p)
<1>1. /\ IsSequence(q) /\ Len(q) = n /\ n \in Nat
      /\ \A l \in Pushed(p) :
           /\ q[l] = AddLimit(p, p[l].children[1])
           /\ q[p[l].children[1]] = Moved
      /\ \A i \in 1..n :
           i \notin Pushed(p) /\ (\A l \in Pushed(p) : p[l].children[1] # i)
             => q[i] = AddLimit(p, i)
  BY OptimizedIs, TreeIs
<1>2. DOMAIN q = 1..n BY <1>1, SequenceFacts
<1>3. \A l \in Pushed(p) : l \in 1..n /\ p[l].op = "limit" /\ p[l].children[1] \in 1..n
  BY PushedIs
<1>4. \A i \in 1..n : AddLimit(p, i).op = p[i].op
  <2> SUFFICES ASSUME NEW i \in 1..n PROVE AddLimit(p, i).op = p[i].op
    OBVIOUS
  <2>1. CASE \E l \in Pushed(p) : Target(p, l) = i
    <3>1. PICK l \in Pushed(p) : Target(p, l) = i BY <2>1
    <3>2. SameScan(p[i], AddLimit(p, i)) BY <3>1, AddLimitIs
    <3> QED BY <3>2 DEF SameScan
  <2>2. CASE \A l \in Pushed(p) : Target(p, l) # i
    BY <2>2, AddLimitIs
  <2> QED BY <2>1, <2>2
<1> HIDE DEF q, n
<1>5. \A g : g \in Gets(q) <=> \E i \in 1..n : g = q[i] /\ q[i].op = "get"
  BY <1>2 DEF Gets
<1>6. ASSUME NEW g \in Gets(q)
      PROVE  \E i \in 1..n : p[i].op = "get" /\ g = AddLimit(p, i)
  <2>1. PICK i \in 1..n : g = q[i] /\ q[i].op = "get" BY <1>5
  <2>2. CASE i \in Pushed(p)
    <3>1. g = AddLimit(p, p[i].children[1]) /\ p[i].children[1] \in 1..n BY <1>1, <1>3, <2>1, <2>2
    <3>2. p[p[i].children[1]].op = "get" BY <1>4, <2>1, <3>1
    <3> QED BY <3>1, <3>2
  <2>3. CASE \E l \in Pushed(p) : p[l].children[1] = i
    <3>1. q[i] = Moved BY <1>1, <2>3
    <3> QED BY <2>1, <3>1 DEF Moved
  <2>4. CASE i \notin Pushed(p) /\ (\A l \in Pushed(p) : p[l].children[1] # i)
    <3>1. g = AddLimit(p, i) BY <1>1, <2>1, <2>4
    <3> QED BY <1>4, <2>1, <3>1
  <2> QED BY <2>2, <2>3, <2>4
<1>7. ASSUME NEW i \in 1..n, p[i].op = "get"
      PROVE  AddLimit(p, i) \in Gets(q)
  <2>1. \E j \in 1..n : q[j] = AddLimit(p, i)
    <3>1. CASE \E l \in Pushed(p) : p[l].children[1] = i BY <1>1, <1>3, <3>1
    <3>2. CASE \A l \in Pushed(p) : p[l].children[1] # i
      <4>1. i \notin Pushed(p) BY <1>3, <1>7
      <4> QED BY <1>1, <3>2, <4>1
    <3> QED BY <3>1, <3>2
  <2>2. AddLimit(p, i).op = "get" BY <1>4, <1>7
  <2> QED BY <1>5, <2>1, <2>2
<1> QED BY <1>6, <1>7 DEF q, n

\* A write stays at the root, and nothing else gets there as one.
LEMMA RootOfOptimized ==
  ASSUME NEW p, IsTree(p)
  PROVE  /\ Writes(OptimizeMySQLScan(p)) <=> Writes(p)
         /\ Writes(p) => Root(OptimizeMySQLScan(p)) = Root(p)
<1> DEFINE n == Len(p)
           q == OptimizeMySQLScan(p)
<1>1. /\ Len(q) = n /\ n \in Nat /\ n \in 1..n
      /\ \A l \in Pushed(p) : q[l] = AddLimit(p, p[l].children[1])
      /\ \A i \in 1..n :
           i \notin Pushed(p) /\ (\A l \in Pushed(p) : p[l].children[1] # i)
             => q[i] = AddLimit(p, i)
  BY OptimizedIs, TreeIs
<1>2. \A l \in Pushed(p) :
        /\ l \in 1..n /\ p[l].op = "limit" /\ p[l].children[1] \in 1..n /\ p[l].children[1] < l
        /\ p[p[l].children[1]].op \in {"get", "projection"}
  BY PushedIs
<1>3. \A i \in 1..n : AddLimit(p, i).op = p[i].op /\ (p[i].op # "get" => AddLimit(p, i) = p[i])
  <2> SUFFICES ASSUME NEW i \in 1..n
               PROVE  AddLimit(p, i).op = p[i].op /\ (p[i].op # "get" => AddLimit(p, i) = p[i])
    OBVIOUS
  <2>1. CASE \E l \in Pushed(p) : Target(p, l) = i
    <3>1. PICK l \in Pushed(p) : Target(p, l) = i BY <2>1
    <3>2. SameScan(p[i], AddLimit(p, i)) BY <3>1, AddLimitIs
    <3>3. p[i].op = "get" BY <3>1, PushedIs
    <3> QED BY <3>2, <3>3 DEF SameScan
  <2>2. CASE \A l \in Pushed(p) : Target(p, l) # i
    BY <2>2, AddLimitIs
  <2> QED BY <2>1, <2>2
<1> HIDE DEF n, q
<1>4. CASE n \in Pushed(p)
  <2>1. q[n].op \in {"get", "projection"} /\ p[n].op = "limit" BY <1>1, <1>2, <1>3, <1>4
  <2> QED BY <1>1, <2>1 DEF Writes, Root, n, q
<1>5. CASE n \notin Pushed(p)
  <2>1. \A l \in Pushed(p) : p[l].children[1] # n BY <1>1, <1>2
  <2>2. q[n] = AddLimit(p, n) BY <1>1, <1>5, <2>1
  <2>3. q[n].op = p[n].op /\ (p[n].op # "get" => q[n] = p[n]) BY <1>1, <1>3, <2>2
  <2> QED BY <1>1, <2>3 DEF Writes, Root, n, q
<1> QED BY <1>4, <1>5

\* A write at the root stays as it is when streaming is decided.
LEMMA RootOfRestreamed ==
  ASSUME NEW p, IsSequence(p), p # <<>>, NEW q, Restreamed(p, q)
  PROVE  /\ Writes(q) <=> Writes(p)
         /\ Writes(p) => Root(q) = Root(p)
<1>1. Len(p) \in 1..Len(p) /\ Len(q) = Len(p) BY SequenceFacts DEF Restreamed
<1>2. /\ p[Len(p)].op # "get" => q[Len(p)] = p[Len(p)]
      /\ p[Len(p)].op = "get" => q[Len(p)].op = "get"
  BY <1>1 DEF Restreamed, SameScan
<1> QED BY <1>1, <1>2 DEF Writes, Root

Streamed(b)     == SetStreaming(b, [c \in Catalogs |-> Alone(b, c)])
Optimized(b)    == OptimizeMySQLScan(Streamed(b))
Materialized(b) == MaterializeMySQLScans(Optimized(b))

\* A scan of an optimized plan is one of the plan that was bound, with the
\* LIMIT that was pushed to it.
Here(b, i, g) ==
  /\ i \in 1..Len(b) /\ b[i].op = "get" /\ SameScan(b[i], g) /\ DOMAIN g = GetFields
  /\ (\A l \in Pushed(Streamed(b)) : Target(Streamed(b), l) # i) => g.limit = <<>>
  /\ \A l \in Pushed(Streamed(b)) :
       Target(Streamed(b), l) = i => g.limit = LimitText(Streamed(b)[l])

\* The plan after the first half of the extension: which scans may stream.
LEMMA StreamedIs ==
  ASSUME NEW b, PlanIsBound(b)
  PROVE  /\ IsTree(b) /\ IsTree(Streamed(b)) /\ Restreamed(b, Streamed(b))
         /\ \A i \in 1..Len(b) : b[i].op = "get" => GetIsBound(b[i])
         /\ \A i \in 1..Len(b) : IsMySQL(b[i]) =>
              Streamed(b)[i].streaming =
                IF Alone(b, b[i].catalog) THEN "ALLOW_STREAMING" ELSE "FORCE_MATERIALIZATION"
<1>1. IsTree(b) BY BoundIsTree
<1> DEFINE alone == [c \in Catalogs |-> Alone(b, c)]
           p == SetStreaming(b, alone)
<1>2. p = Streamed(b) BY DEF Streamed
<1> HIDE DEF alone
<1>3. Restreamed(b, p) BY <1>1, SetStreamingIs
<1>4. \A i \in 1..Len(b) : IsMySQL(b[i]) =>
        p[i].streaming = IF ~alone[b[i].catalog] THEN "FORCE_MATERIALIZATION"
                         ELSE IF b[i].streaming = "UNINITIALIZED" THEN "ALLOW_STREAMING"
                         ELSE b[i].streaming
  BY <1>1, SetStreamingIs
<1>5. IsTree(p)
  <2> HIDE DEF p
  <2> QED BY <1>1, <1>3, RestreamedIsTree
<1>6. \A i \in 1..Len(b) : b[i].op = "get" => GetIsBound(b[i])
  BY <1>1, TreeIs DEF PlanIsBound
<1>7. \A i \in 1..Len(b) : IsMySQL(b[i]) =>
        b[i].catalog \in Catalogs /\ b[i].streaming = "UNINITIALIZED"
  BY <1>6 DEF IsMySQL, GetIsBound
<1>8. \A c \in Catalogs : alone[c] = Alone(b, c) BY DEF alone
<1> HIDE DEF p
<1>9. \A i \in 1..Len(b) : IsMySQL(b[i]) =>
        p[i].streaming =
                IF Alone(b, b[i].catalog) THEN "ALLOW_STREAMING" ELSE "FORCE_MATERIALIZATION"
  BY <1>4, <1>7, <1>8
<1> QED BY <1>1, <1>2, <1>3, <1>5, <1>6, <1>9

HasScans(b, p) ==
  /\ \A g \in Gets(p) : \E i \in 1..Len(b) : Here(b, i, g)
  /\ \A i \in 1..Len(b) : b[i].op = "get" => \E g \in Gets(p) : Here(b, i, g)

\* The optimized plan has the scans that were bound; one streams when it is alone.
LEMMA OptimizedHasScans ==
  ASSUME NEW b, PlanIsBound(b)
  PROVE  /\ HasScans(b, Optimized(b))
         /\ \A g \in MySQLGets(Optimized(b)) :
              g.streaming = IF Alone(b, g.catalog) THEN "ALLOW_STREAMING" ELSE "FORCE_MATERIALIZATION"
<1> DEFINE p == Streamed(b)
           n == Len(b)
<1>1. /\ IsTree(b) /\ IsTree(p) /\ Restreamed(b, p) /\ Len(p) = n
      /\ \A i \in 1..n : IsMySQL(b[i]) =>
              p[i].streaming =
                IF Alone(b, b[i].catalog) THEN "ALLOW_STREAMING" ELSE "FORCE_MATERIALIZATION"
  BY StreamedIs DEF Restreamed
<1>2. \A i \in 1..n :
        /\ p[i].op = b[i].op
        /\ b[i].op = "get" => SameScan(b[i], p[i]) /\ DOMAIN p[i] = GetFields /\ p[i].limit = <<>>
  <2>1. \A i \in 1..n : b[i].op = "get" => b[i].limit = <<>> BY <1>1, TreeIs
  <2> QED BY <1>1, <2>1 DEF Restreamed, SameScan
<1>3. \A i \in 1..n : b[i].op = "get" =>
        Here(b, i, AddLimit(p, i)) /\ AddLimit(p, i).streaming = p[i].streaming
  <2> SUFFICES ASSUME NEW i \in 1..n, b[i].op = "get"
               PROVE  Here(b, i, AddLimit(p, i)) /\ AddLimit(p, i).streaming = p[i].streaming
    OBVIOUS
  <2> DEFINE g == AddLimit(p, i)
  <2>1. CASE \A l \in Pushed(p) : Target(p, l) # i
    <3> i \in 1..Len(p) BY <1>1
    <3>1. g = p[i] BY <1>1, <2>1, AddLimitIs
    <3> HIDE DEF g, p
    <3> QED BY <1>2, <2>1, <3>1 DEF Here, g, p
  <2>2. CASE \E l \in Pushed(p) : Target(p, l) = i
    <3> i \in 1..Len(p) BY <1>1
    <3>1. \A l \in Pushed(p) : Target(p, l) = i =>
              /\ SameScan(p[i], g) /\ DOMAIN g = GetFields
              /\ g.limit = LimitText(p[l])
              /\ g.streaming = p[i].streaming
      BY <1>1, AddLimitIs
    <3> HIDE DEF g, p
    <3>2. /\ SameScan(p[i], g) /\ DOMAIN g = GetFields /\ g.streaming = p[i].streaming
          /\ \A l \in Pushed(p) : Target(p, l) = i => g.limit = LimitText(p[l])
      BY <2>2, <3>1
    <3>3. SameScan(b[i], g) BY <1>2, <3>2 DEF SameScan
    <3> QED BY <2>2, <3>2, <3>3 DEF Here, p, g
  <2> QED BY <2>1, <2>2
<1>4. /\ \A g \in Gets(Optimized(b)) : \E i \in 1..n : p[i].op = "get" /\ g = AddLimit(p, i)
      /\ \A i \in 1..n : p[i].op = "get" => AddLimit(p, i) \in Gets(Optimized(b))
  BY <1>1, OptimizedScans DEF Optimized
<1> HIDE DEF p
<1>5. \A g \in Gets(Optimized(b)) : \E i \in 1..n : Here(b, i, g) /\ g.streaming = p[i].streaming
  BY <1>2, <1>3, <1>4
<1>6. HasScans(b, Optimized(b)) BY <1>2, <1>3, <1>4, <1>5 DEF HasScans
<1>7. ASSUME NEW g \in MySQLGets(Optimized(b))
      PROVE  g.streaming = IF Alone(b, g.catalog) THEN "ALLOW_STREAMING" ELSE "FORCE_MATERIALIZATION"
  <2>1. g \in Gets(Optimized(b)) /\ (IsMySQLScan(g) \/ IsMySQLQuery(g)) BY DEF MySQLGets
  <2>2. PICK i \in 1..n : Here(b, i, g) /\ g.streaming = p[i].streaming BY <1>5, <2>1
  <2>3. IsMySQL(b[i]) /\ b[i].catalog = g.catalog
    BY <2>1, <2>2 DEF IsMySQL, IsMySQLScan, IsMySQLQuery, Here, SameScan
  <2> QED BY <1>1, <2>2, <2>3
<1> QED BY <1>6, <1>7

\* So has the plan of a write, where none streams.
LEMMA MaterializedHasScans ==
  ASSUME NEW b, PlanIsBound(b)
  PROVE  /\ HasScans(b, Materialized(b))
         /\ \A g \in MySQLGets(Materialized(b)) : g.streaming = "FORCE_MATERIALIZATION"
         /\ Restreamed(Optimized(b), Materialized(b))
<1> DEFINE q == Optimized(b)
           m == Materialized(b)
           n == Len(b)
           k == Len(q)
<1>1. HasScans(b, q) BY OptimizedHasScans
<1>2. IsSequence(q) BY StreamedIs, OptimizedIs DEF Optimized
<1>3. DOMAIN q = 1..k BY <1>2, SequenceFacts
<1>4. \A i \in 1..k : q[i].op = "get" => q[i] \in Gets(q) BY <1>3 DEF Gets
<1>5. \A i \in 1..k : q[i].op = "get" => DOMAIN q[i] = GetFields BY <1>1, <1>4 DEF HasScans, Here
<1>6. /\ Restreamed(q, m)
      /\ \A i \in 1..k : IsMySQL(q[i]) => m[i].streaming = "FORCE_MATERIALIZATION"
  <2> HIDE DEF q
  <2>1. m = MaterializeMySQLScans(q) BY DEF Materialized, q
  <2> HIDE DEF m
  <2> QED BY <1>2, <1>5, <2>1, MaterializedIs
<1>7. DOMAIN m = 1..k BY <1>6, SequenceFacts DEF Restreamed
<1> HIDE DEF m, q, n, k
<1>8. \A g : g \in Gets(m) <=> \E i \in 1..k : g = m[i] /\ m[i].op = "get"
  BY <1>7 DEF Gets
<1>9. \A i \in 1..k :
        /\ m[i].op = q[i].op
        /\ q[i].op = "get" => SameScan(q[i], m[i]) /\ DOMAIN m[i] = GetFields /\ m[i].limit = q[i].limit
  BY <1>6 DEF Restreamed, SameScan, k
<1>10. \A x, g, h : Here(b, x, g) /\ SameScan(g, h) /\ DOMAIN h = GetFields /\ h.limit = g.limit
         => Here(b, x, h)
  BY DEF Here, SameScan
<1>11. \A g \in Gets(m) : \E i \in 1..n : Here(b, i, g)
  <2> SUFFICES ASSUME NEW g \in Gets(m) PROVE \E i \in 1..n : Here(b, i, g)
    OBVIOUS
  <2>1. PICK j \in 1..k : g = m[j] /\ m[j].op = "get" BY <1>8
  <2>2. q[j] \in Gets(q) BY <1>4, <1>9, <2>1
  <2>3. PICK i \in 1..n : Here(b, i, q[j]) BY <1>1, <2>2 DEF HasScans, n
  <2> QED BY <1>9, <1>10, <2>1, <2>3
<1>12. \A i \in 1..n : b[i].op = "get" => \E g \in Gets(m) : Here(b, i, g)
  <2> SUFFICES ASSUME NEW i \in 1..n, b[i].op = "get" PROVE \E g \in Gets(m) : Here(b, i, g)
    OBVIOUS
  <2>1. PICK h \in Gets(q) : Here(b, i, h) BY <1>1 DEF HasScans, n
  <2>2. PICK j \in 1..k : h = q[j] /\ q[j].op = "get" BY <1>3 DEF Gets
  <2>3. m[j] \in Gets(m) BY <1>8, <1>9, <2>2
  <2>4. Here(b, i, m[j]) BY <1>9, <1>10, <2>1, <2>2
  <2> QED BY <2>3, <2>4
<1>13. \A g \in MySQLGets(m) : g.streaming = "FORCE_MATERIALIZATION"
  <2> SUFFICES ASSUME NEW g \in MySQLGets(m) PROVE g.streaming = "FORCE_MATERIALIZATION"
    OBVIOUS
  <2>1. g \in Gets(m) /\ (IsMySQLScan(g) \/ IsMySQLQuery(g)) BY DEF MySQLGets
  <2>2. PICK j \in 1..k : g = m[j] /\ m[j].op = "get" BY <1>8, <2>1
  <2>3. IsMySQL(q[j]) BY <1>9, <2>1, <2>2 DEF IsMySQL, IsMySQLScan, IsMySQLQuery, SameScan
  <2> QED BY <1>6, <2>2, <2>3 DEF k
<1> QED BY <1>6, <1>11, <1>12, <1>13 DEF HasScans, n, m, q

\* The rows a scan of the plan has to return in all.
Owes(b, i, contents, rows) ==
  LET due == ScanOf(b[i], contents[b[i].table]) IN
  /\ (\A l \in Pushed(Streamed(b)) : Target(Streamed(b), l) # i) => rows = due
  /\ \A l \in Pushed(Streamed(b)) :
       Target(Streamed(b), l) = i => rows = Limited(Streamed(b)[l], due)

\* An accepted SELECT returns what the scan owes.
LEMMA SelectOwes ==
  ASSUME NEW b, PlanIsBound(b), NEW i, NEW g, Here(b, i, g), Accepts(Select(g)),
         NEW contents, IsSequence(contents[b[i].table])
  PROVE  Owes(b, i, contents, Rows(Select(g), contents))
<1> DEFINE p == Streamed(b)
           due == ScanOf(b[i], contents[b[i].table])
           rows == Rows(Select(g), contents)
<1>1. GetIsBound(b[i]) /\ SameScan(b[i], g) BY StreamedIs DEF Here
<1>2. ASSUME \A l \in Pushed(p) : Target(p, l) # i PROVE rows = due
  <2> DEFINE l == [limit_val |-> [type |-> "UNSET", value |-> 0],
                   offset_val |-> [type |-> "UNSET", value |-> 0]]
  <2>1. LimitIs(l) /\ LimitText(l) = <<>> BY LimitTextIs DEF LimitIs
  <2>2. \A s : Limited(l, s) = s BY DEF Limited
  <2> HIDE DEF l
  <2>3. g.limit = LimitText(l) BY <1>2, <2>1 DEF Here
  <2> QED BY <1>1, <2>1, <2>2, <2>3, SelectIsScan
<1>3. ASSUME NEW l \in Pushed(p), Target(p, l) = i PROVE rows = Limited(p[l], due)
  <2>1. LimitIs(p[l]) BY StreamedIs, PushedIs
  <2>2. g.limit = LimitText(p[l]) BY <1>3 DEF Here
  <2> HIDE DEF p
  <2> QED BY <1>1, <2>1, <2>2, SelectIsScan
<1> QED BY <1>2, <1>3 DEF Owes

\* A LIMIT is only pushed to the scan of a table.
LEMMA OnlyTablesHaveLimits ==
  ASSUME NEW b, PlanIsBound(b), NEW i \in 1..Len(b), ~IsMySQLScan(b[i]), NEW rows, NEW contents,
         rows = ScanOf(b[i], contents[b[i].table])
  PROVE  Owes(b, i, contents, rows)
<1> DEFINE p == Streamed(b)
<1>1. IsTree(p) /\ Restreamed(b, p) BY StreamedIs
<1>2. ASSUME NEW l \in Pushed(p), Target(p, l) = i PROVE FALSE
  <2>1. IsMySQLScan(p[i]) BY <1>1, <1>2, PushedIs
  <2>2. b[i].op # "get" => p[i] = b[i] BY <1>1 DEF Restreamed
  <2>3. b[i].op = "get" => p[i].function = b[i].function BY <1>1 DEF Restreamed, SameScan
  <2> QED BY <2>1, <2>2, <2>3 DEF IsMySQLScan
<1> QED BY <1>2 DEF Owes

\* A mysql_query is accepted and returns what it owes.
LEMMA QueryOwes ==
  ASSUME NEW b, PlanIsBound(b), NEW i, NEW g, Here(b, i, g), IsMySQLQuery(g),
         NEW contents, IsSequence(contents[b[i].table])
  PROVE  Accepts(Query(g)) /\ Owes(b, i, contents, Rows(Query(g), contents))
<1>1. GetIsBound(b[i]) /\ SameScan(b[i], g) /\ i \in 1..Len(b) BY StreamedIs DEF Here
<1>2. IsMySQLQuery(b[i]) /\ ~IsMySQLScan(b[i]) BY <1>1 DEF SameScan, IsMySQLQuery, IsMySQLScan
<1>3. Accepts(Query(g)) /\ Rows(Query(g), contents) = ScanOf(b[i], contents[b[i].table])
  BY <1>1, <1>2, QueryIsScan
<1> QED BY <1>1, <1>2, <1>3, OnlyTablesHaveLimits

\* So does a scan of DuckDB's own tables.
LEMMA LocalOwes ==
  ASSUME NEW b, PlanIsBound(b), NEW i, NEW g, Here(b, i, g), ~IsMySQLScan(g),
         NEW contents
  PROVE  Owes(b, i, contents, ScanOf(g, contents[g.table]))
<1>1. SameScan(b[i], g) /\ i \in 1..Len(b) BY DEF Here
<1>2. ~IsMySQLScan(b[i]) BY <1>1 DEF SameScan, IsMySQLScan
<1>3. \A rows : ScanOf(g, rows) = ScanOf(b[i], rows) BY <1>1 DEF ScanOf, SameScan
<1>4. g.table = b[i].table BY <1>1 DEF SameScan
<1>5. ScanOf(g, contents[g.table]) = ScanOf(b[i], contents[b[i].table]) BY <1>3, <1>4
<1> QED BY <1>1, <1>2, <1>5, OnlyTablesHaveLimits

\* What is owed is a sequence.
LEMMA OwedIsSequence ==
  ASSUME NEW b, PlanIsBound(b), NEW i \in 1..Len(b), b[i].op = "get",
         NEW contents, IsSequence(contents[b[i].table]),
         NEW rows, Owes(b, i, contents, rows)
  PROVE  IsSequence(rows)
<1> DEFINE p == Streamed(b)
           due == ScanOf(b[i], contents[b[i].table])
<1>1. IsSequence(due) BY StreamedIs, ScanIs
<1>2. \A l \in Pushed(p) : IsSequence(Limited(p[l], due))
  <2> HIDE DEF due
  <2>1. \A l \in Pushed(p) : LimitIs(p[l]) BY StreamedIs, PushedIs
  <2> QED BY <1>1, <2>1, LimitedIsWindow
<1> QED BY <1>1, <1>2 DEF Owes

(***************************************************************************)
(* A plan whose scans returned what they owe has the rows of the plan that *)
(* was bound.                                                              *)
(***************************************************************************)
Paid(b, contents, sc) ==
  \A i \in 1..Len(b) : b[i].op = "get" =>
    /\ IsSequence(contents[b[i].table])
    /\ Owes(b, i, contents, sc[b[i].table_index])

\* When all scans have returned what they owe, the plan has its meaning.
LEMMA PaidIsMeant ==
  ASSUME NEW b, PlanIsBound(b), NEW contents, NEW sc, Paid(b, contents, sc)
  PROVE  Root(Evaluate(Optimized(b), sc)) = Meaning(b, contents)
<1> DEFINE n == Len(b)
           p == Streamed(b)
           scans == {get.table_index : get \in Gets(b)}
           get(t) == CHOOSE g \in Gets(b) : g.table_index = t
           due == [t \in scans |-> ScanOf(get(t), contents[get(t).table])]
<1>1. /\ IsTree(b) /\ IsTree(p) /\ Restreamed(b, p) /\ Len(p) = n /\ DOMAIN b = 1..n
      /\ \A i \in 1..n : b[i].op = "get" => GetIsBound(b[i])
  BY StreamedIs, TreeIs DEF Restreamed
<1>2. \A i \in 1..n : b[i].op = "get" =>
        b[i].table_index \in scans /\ get(b[i].table_index) = b[i]
  <2> SUFFICES ASSUME NEW i \in 1..n, b[i].op = "get"
               PROVE  b[i].table_index \in scans /\ get(b[i].table_index) = b[i]
    OBVIOUS
  <2>1. b[i] \in Gets(b) BY <1>1 DEF Gets
  <2>2. \A g \in Gets(b) : g.table_index = b[i].table_index => g = b[i]
    <3> SUFFICES ASSUME NEW j \in 1..n, b[j].op = "get", b[j].table_index = b[i].table_index
                 PROVE  b[j] = b[i]
      BY <1>1 DEF Gets
    <3>1. i = j BY <1>1 DEF PlanIsBound
    <3> QED BY <3>1
  <2>3. get(b[i].table_index) = b[i]
    <3>1. \E g \in Gets(b) : g.table_index = b[i].table_index BY <2>1
    <3> DEFINE h == get(b[i].table_index)
    <3>2. h \in Gets(b) /\ h.table_index = b[i].table_index BY <3>1
    <3> HIDE DEF h
    <3>3. h = b[i] BY <2>2, <3>2
    <3> QED BY <3>3 DEF h
  <2> QED BY <2>1, <2>3
<1>3. \A i \in 1..n : b[i].op = "get" =>
        due[b[i].table_index] = ScanOf(b[i], contents[b[i].table])
  <2> HIDE DEF get, scans
  <2> QED BY <1>2
<1>4. Meaning(b, contents) = Root(Evaluate(b, due)) BY DEF Meaning
<1> HIDE DEF due, get, scans
<1>5. Root(Evaluate(p, due)) = Root(Evaluate(b, due)) BY <1>1, RestreamedRows
<1>6. Given(p, due, sc)
  <2> SUFFICES ASSUME NEW i \in 1..n, p[i].op = "get"
               PROVE  /\ IsSequence(due[p[i].table_index])
                      /\ (\A l \in Pushed(p) : Target(p, l) # i) =>
                           sc[p[i].table_index] = due[p[i].table_index]
                      /\ \A l \in Pushed(p) : Target(p, l) = i =>
                           sc[p[i].table_index] = Limited(p[l], due[p[i].table_index])
    BY <1>1 DEF Given
  <2>1. b[i].op = "get" /\ p[i].table_index = b[i].table_index
    BY <1>1 DEF Restreamed, SameScan
  <2>2. due[b[i].table_index] = ScanOf(b[i], contents[b[i].table]) BY <1>3, <2>1
  <2>3. IsSequence(ScanOf(b[i], contents[b[i].table])) BY <1>1, <2>1, ScanIs DEF Paid
  <2>4. Owes(b, i, contents, sc[b[i].table_index]) BY <2>1 DEF Paid
  <2> QED BY <2>1, <2>2, <2>3, <2>4 DEF Owes
<1>7. Root(Evaluate(OptimizeMySQLScan(p), sc)) = Root(Evaluate(p, due))
  <2> HIDE DEF p
  <2> QED BY <1>1, <1>6, PushedLimitsAreTheSame
<1> QED BY <1>4, <1>5, <1>7 DEF Optimized

-----------------------------------------------------------------------------
(* Fetching.                                                               *)

\* A sequence whose elements are in S is in Seq(S).
LEMMA InSeq ==
  ASSUME NEW s, IsSequence(s), NEW S, \A k \in 1..Len(s) : s[k] \in S
  PROVE  s \in Seq(S)
<1> DEFINE n == Len(s)
<1>1. n \in Nat /\ s = [i \in 1..n |-> s[i]] BY SequenceFacts
<1> HIDE DEF n
<1>2. s \in [1..n -> S] BY <1>1 DEF n
<1> QED BY <1>1, <1>2

\* The first n rows and the others are all rows.
LEMMA TakenAndSkipped ==
  ASSUME NEW r, IsSequence(r), NEW n \in Nat, n <= Len(r)
  PROVE  /\ IsSequence(Take(r, n)) /\ Len(Take(r, n)) = n
         /\ IsSequence(Skip(r, n)) /\ Len(Skip(r, n)) = Len(r) - n
         /\ Take(r, n) \o Skip(r, n) = r
<1> DEFINE m == Len(r)
           a == Take(r, n)
           b == Skip(r, n)
           S == {r[k] : k \in 1..m}
<1>1. m \in Nat /\ r = [i \in 1..m |-> r[i]] /\ n <= m BY SequenceFacts
<1>2. a = [i \in 1..n |-> r[i]]
  <2>1. a = [i \in 1..(IF n < Len(r) THEN n ELSE Len(r)) |-> r[i]] BY TakeIs
  <2>2. (IF n < Len(r) THEN n ELSE Len(r)) = n BY <1>1
  <2> QED BY <2>1, <2>2
<1>3. b = [i \in 1..(m - n) |-> r[i + n]]
  <2>1. b = [i \in 1..(IF n > Len(r) THEN 0 ELSE Len(r) - n) |-> r[i + n]] BY SkipIs
  <2>2. (IF n > Len(r) THEN 0 ELSE Len(r) - n) = m - n BY <1>1
  <2> QED BY <2>1, <2>2
<1> HIDE DEF m, a, b
<1>4. \A i \in 1..n : i \in 1..m BY <1>1
<1>5. \A i \in 1..(m - n) : i + n \in 1..m BY <1>1
<1>6. m - n \in Nat BY <1>1
<1>7. IsSequence(a) /\ Len(a) = n
  <2>1. DOMAIN a = 1..n /\ a = [i \in 1..n |-> a[i]] BY <1>2
  <2> QED BY <2>1, SequenceMade
<1>8. IsSequence(b) /\ Len(b) = m - n
  <2> DEFINE w == m - n
  <2>1. DOMAIN b = 1..w /\ b = [i \in 1..w |-> b[i]] BY <1>3
  <2> HIDE DEF w
  <2>2. w \in Nat BY <1>6 DEF w
  <2> QED BY <2>1, <2>2, SequenceMade DEF w
<1>9. (\A i \in 1..n : a[i] = r[i]) /\ (\A i \in 1..(m - n) : b[i] = r[i + n])
  BY <1>2, <1>3
<1>10. a \in Seq(S) /\ b \in Seq(S) /\ r \in Seq(S)
  <2>1. (\A i \in 1..m : r[i] \in S) /\ (\A i \in 1..Len(a) : a[i] \in S)
        /\ (\A i \in 1..Len(b) : b[i] \in S)
    BY <1>4, <1>5, <1>7, <1>8, <1>9
  <2> HIDE DEF S
  <2> QED BY <1>7, <1>8, <2>1, InSeq DEF m
<1> HIDE DEF S
<1> DEFINE c == a \o b
<1>11. /\ c \in Seq(S) /\ Len(c) = Len(a) + Len(b)
       /\ \A i \in 1..(Len(a) + Len(b)) : c[i] = IF i <= Len(a) THEN a[i] ELSE b[i - Len(a)]
  BY <1>10, ConcatProperties
<1> HIDE DEF c
<1>12. Len(c) = m BY <1>1, <1>7, <1>8, <1>11
<1>13. \A i \in 1..m : c[i] = r[i]
  <2> SUFFICES ASSUME NEW i \in 1..m PROVE c[i] = r[i]
    OBVIOUS
  <2>1. c[i] = IF i <= n THEN a[i] ELSE b[i - n] BY <1>1, <1>7, <1>8, <1>11
  <2>2. CASE i <= n
    <3>1. i \in 1..n BY <1>1, <2>2
    <3> QED BY <1>9, <2>1, <2>2, <3>1
  <2>3. CASE ~(i <= n)
    <3>1. i - n \in 1..(m - n) /\ (i - n) + n = i BY <1>1, <2>3
    <3> QED BY <1>9, <2>1, <2>3, <3>1
  <2> QED BY <2>2, <2>3
<1>14. c = r
  <2>1. \A i \in 1..Len(c) : c[i] = r[i] BY <1>12, <1>13
  <2> QED BY <1>10, <1>11, <1>12, <2>1, SeqEqual DEF m
<1> QED BY <1>7, <1>8, <1>14 DEF a, b, c, m

\* One sequence after another, as a name the provers do not look into.
After(s, t) == s \o t

\* Concatenation is associative.
LEMMA AfterIsAssociative ==
  ASSUME NEW S, NEW s \in Seq(S), NEW a \in Seq(S), NEW b \in Seq(S)
  PROVE  After(After(s, a), b) = After(s, After(a, b))
<1>1. (s \o a) \o b = s \o (a \o b) BY ConcatAssociative, SMTT(60)
<1> QED BY <1>1, Zenon DEF After

\* A chunk moves from the rows to come to the rows delivered.
LEMMA Fetched ==
  ASSUME NEW s, IsSequence(s), NEW r, IsSequence(r), NEW n \in Nat, n <= Len(r)
  PROVE  /\ IsSequence(s \o Take(r, n)) /\ IsSequence(Skip(r, n))
         /\ (s \o Take(r, n)) \o Skip(r, n) = s \o r
<1> DEFINE a == Take(r, n)
           b == Skip(r, n)
           S == {s[k] : k \in 1..Len(s)} \cup {a[k] : k \in 1..Len(a)} \cup {b[k] : k \in 1..Len(b)}
<1>1. IsSequence(a) /\ IsSequence(b) /\ a \o b = r BY TakenAndSkipped
<1> HIDE DEF a, b
<1>2. s \in Seq(S) /\ a \in Seq(S) /\ b \in Seq(S)
  <2>1. /\ \A k \in 1..Len(s) : s[k] \in S
        /\ \A k \in 1..Len(a) : a[k] \in S
        /\ \A k \in 1..Len(b) : b[k] \in S
    OBVIOUS
  <2> HIDE DEF S
  <2> QED BY <1>1, <2>1, InSeq
<1> HIDE DEF S
<1>3. After(After(s, a), b) = After(s, r)
  <2>1. After(a, b) = r BY <1>1, Zenon DEF After
  <2>2. After(After(s, a), b) = After(s, After(a, b)) BY <1>2, AfterIsAssociative
  <2> QED BY <2>1, <2>2
<1>4. IsSequence(s \o a) BY <1>1, ConcatIsSequence
<1>5. (s \o a) \o b = s \o r BY <1>3, Zenon DEF After
<1> QED BY <1>1, <1>4, <1>5, Zenon DEF a, b

\* No rows before or after others.
LEMMA NothingFetched ==
  ASSUME NEW r, IsSequence(r)
  PROVE  /\ IsSequence(<<>>) /\ <<>> \o r = r /\ r \o <<>> = r
         /\ Len(r) = 0 => r = <<>>
<1> DEFINE S == {r[k] : k \in DOMAIN r}
<1>1. r \in Seq(S) BY DEF IsSequence
<1> HIDE DEF S
<1>2. IsSequence(<<>>) BY EmptyIsSequence
<1> QED BY <1>1, <1>2, ConcatEmptySeq, EmptySeq

-----------------------------------------------------------------------------
(* The states of a statement.                                              *)

Statement(b) ==
  IF Root(Optimized(b)).op = "delete" THEN ConstructDeleteStatement(Optimized(b))
  ELSE ConstructUpdateStatement(Optimized(b))

PlanIs ==
  /\ bound \in Plans
  /\ phase \in {"bound", "optimized", "running", "finished", "failed", "unsupported"}
  /\ phase = "bound" => plan = bound
  /\ phase \in {"optimized", "unsupported"} => plan = Optimized(bound)
  /\ phase \in {"running", "finished", "failed"} =>
       IF Writes(bound) THEN plan = Materialized(bound) /\ query = Statement(bound)
       ELSE plan = Optimized(bound)
  /\ runs \in 0..MaxRuns
  /\ phase \in {"bound", "optimized"} => runs = 0

BoundScans == {i \in 1..Len(bound) : bound[i].op = "get"}

TablesAre ==
  /\ DOMAIN tables = DOMAIN Contents /\ DOMAIN before = DOMAIN Contents
  /\ \A t \in DOMAIN Contents : IsSequence(tables[t])
  /\ ~Writes(bound) => tables = Contents
  /\ affected \in Nat

\* An open scan has returned the first of the rows it owes and has the others.
Paying(i) ==
  bound[i].table_index \in DOMAIN rest /\ ~Writes(bound) =>
    /\ IsSequence(rest[bound[i].table_index]) /\ IsSequence(scanned[bound[i].table_index])
    /\ Owes(bound, i, tables, scanned[bound[i].table_index] \o rest[bound[i].table_index])
    /\ bound[i].table_index \in drained => rest[bound[i].table_index] = <<>>

ScansAre ==
  /\ DOMAIN bind = {get.table_index : get \in {g \in Gets(bound) : IsMySQLQuery(g)}}
  /\ DOMAIN scanned = DOMAIN rest /\ drained \subseteq DOMAIN rest
  /\ DOMAIN rest \subseteq {get.table_index : get \in Gets(bound)}
  /\ phase = "finished" /\ ~Writes(bound) =>
       \A i \in BoundScans : bound[i].table_index \in drained
  /\ \A i \in BoundScans : Paying(i)

StatementInv == PlanIs /\ TablesAre /\ ScansAre

-----------------------------------------------------------------------------
(* The plan at each phase.                                                 *)

\* The bound plan, whatever the phase.
LEMMA BoundPlan ==
  ASSUME PlanIs
  PROVE  /\ PlanIsBound(bound)
         /\ \A i \in 1..Len(bound) : bound[i].op = "get" => GetIsBound(bound[i])
         /\ \A x, y \in BoundScans : bound[x].table_index = bound[y].table_index => x = y
         /\ \A i \in BoundScans : bound[i] \in Gets(bound)
         /\ \A g \in Gets(bound) : \E i \in BoundScans : g = bound[i]
<1>1. PlanIsBound(bound) BY PushdownConstants DEF PlanIs
<1>2. DOMAIN bound = 1..Len(bound) BY <1>1, BoundIsTree, TreeIs
<1>3. \A x, y \in BoundScans : bound[x].table_index = bound[y].table_index => x = y
  BY <1>1, <1>2 DEF PlanIsBound, BoundScans
<1>4. /\ \A i \in BoundScans : bound[i] \in Gets(bound)
      /\ \A g \in Gets(bound) : \E i \in BoundScans : g = bound[i]
  BY <1>2 DEF BoundScans, Gets
<1> QED BY <1>1, <1>3, <1>4, StreamedIs

\* The optimizer and the planner leave a write at the root.
LEMMA RootOfPlan ==
  ASSUME NEW b, PlanIsBound(b)
  PROVE  /\ Writes(Optimized(b)) <=> Writes(b)
         /\ Writes(Materialized(b)) <=> Writes(b)
         /\ Writes(b) => Root(Optimized(b)) = Root(b) /\ Root(Materialized(b)) = Root(b)
<1>1. /\ IsTree(Streamed(b)) /\ IsSequence(b) /\ b # <<>> /\ Restreamed(b, Streamed(b))
  BY StreamedIs DEF IsTree
<1>2. /\ Writes(Streamed(b)) <=> Writes(b)
      /\ Writes(b) => Root(Streamed(b)) = Root(b)
  BY <1>1, RootOfRestreamed
<1>3. /\ Writes(Optimized(b)) <=> Writes(Streamed(b))
      /\ Writes(Streamed(b)) => Root(Optimized(b)) = Root(Streamed(b))
  BY <1>1, RootOfOptimized DEF Optimized
<1>4. IsSequence(Optimized(b)) /\ Len(Optimized(b)) = Len(Streamed(b))
  BY <1>1, OptimizedIs DEF Optimized
<1>5. Optimized(b) # <<>>
  <2>1. Len(Streamed(b)) # 0 BY <1>1, TreeIs
  <2> QED BY <1>4, <2>1
<1>6. Restreamed(Optimized(b), Materialized(b)) BY MaterializedHasScans
<1>7. /\ Writes(Materialized(b)) <=> Writes(Optimized(b))
      /\ Writes(Optimized(b)) => Root(Materialized(b)) = Root(Optimized(b))
  BY <1>4, <1>5, <1>6, RootOfRestreamed
<1> QED BY <1>2, <1>3, <1>7

\* The plan that is executed has the scans that were bound.
LEMMA PlanOfPhase ==
  ASSUME PlanIs, phase # "bound"
  PROVE  /\ HasScans(bound, plan)
         /\ Writes(plan) <=> Writes(bound)
         /\ Writes(bound) => Root(plan) = Root(bound)
         /\ {get.table_index : get \in Gets(plan)} = {get.table_index : get \in Gets(bound)}
         /\ \A g \in MySQLGets(plan) : g.streaming \in {"ALLOW_STREAMING", "FORCE_MATERIALIZATION"}
         /\ \A g \in MySQLGets(plan) : g.streaming = "ALLOW_STREAMING" => Alone(bound, g.catalog)
<1>1. plan = Optimized(bound) \/ plan = Materialized(bound) BY DEF PlanIs
<1>2. PlanIsBound(bound) BY BoundPlan
<1>3. /\ HasScans(bound, Optimized(bound)) /\ HasScans(bound, Materialized(bound))
      /\ \A g \in MySQLGets(Optimized(bound)) :
           g.streaming = IF Alone(bound, g.catalog) THEN "ALLOW_STREAMING" ELSE "FORCE_MATERIALIZATION"
      /\ \A g \in MySQLGets(Materialized(bound)) : g.streaming = "FORCE_MATERIALIZATION"
  BY <1>2, OptimizedHasScans, MaterializedHasScans
<1>4. /\ Writes(plan) <=> Writes(bound)
      /\ Writes(bound) => Root(plan) = Root(bound)
  BY <1>1, <1>2, RootOfPlan
<1>5. HasScans(bound, plan) BY <1>1, <1>3
<1>6. {get.table_index : get \in Gets(plan)} = {get.table_index : get \in Gets(bound)}
  <2>1. \A g \in Gets(plan) : \E h \in Gets(bound) : g.table_index = h.table_index
    <3> SUFFICES ASSUME NEW g \in Gets(plan) PROVE \E h \in Gets(bound) : g.table_index = h.table_index
      OBVIOUS
    <3>1. PICK i \in 1..Len(bound) : Here(bound, i, g) BY <1>5 DEF HasScans
    <3>2. bound[i] \in Gets(bound) /\ g.table_index = bound[i].table_index
      BY <3>1, BoundPlan DEF Here, SameScan, BoundScans
    <3> QED BY <3>2
  <2>2. \A h \in Gets(bound) : \E g \in Gets(plan) : g.table_index = h.table_index
    <3> SUFFICES ASSUME NEW h \in Gets(bound) PROVE \E g \in Gets(plan) : g.table_index = h.table_index
      OBVIOUS
    <3>1. PICK i \in BoundScans : h = bound[i] BY BoundPlan
    <3>2. PICK g \in Gets(plan) : Here(bound, i, g) BY <1>5, <3>1 DEF HasScans, BoundScans
    <3> QED BY <3>1, <3>2 DEF Here, SameScan
  <2> QED BY <2>1, <2>2
<1>7. \A g \in MySQLGets(plan) : g.streaming \in {"ALLOW_STREAMING", "FORCE_MATERIALIZATION"}
  BY <1>1, <1>3
<1>8. \A g \in MySQLGets(plan) : g.streaming = "ALLOW_STREAMING" => Alone(bound, g.catalog)
  BY <1>1, <1>3
<1> QED BY <1>4, <1>5, <1>6, <1>7, <1>8

\* A statement leaves a sequence of rows and a count.
LEMMA ChangedIs ==
  ASSUME NEW statement, NEW rows, IsSequence(rows)
  PROVE  IsSequence(Changed(statement, rows)) /\ AffectedRows(statement, rows) \in Nat
<1> DEFINE n == Len(rows)
           changed == Changed(statement, rows)
<1>1. n \in Nat /\ DOMAIN rows = 1..n BY SequenceFacts
<1>2. CASE statement.kind = "DELETE"
  <2> DEFINE kept == Keep(rows, {i \in DOMAIN rows : ~Matches(statement.where, rows[i])})
  <2>1. changed = kept BY <1>2 DEF Changed
  <2>2. IsSequence(kept) /\ Len(kept) <= Len(rows) BY KeepIsSequence
  <2> HIDE DEF kept, changed
  <2>3. Len(changed) \in Nat /\ Len(changed) <= n BY <2>1, <2>2, SequenceFacts
  <2>4. AffectedRows(statement, rows) = n - Len(changed) BY <1>2 DEF AffectedRows, changed, n
  <2> HIDE DEF n
  <2>5. n - Len(changed) \in Nat BY <1>1, <2>3
  <2> QED BY <2>1, <2>2, <2>4, <2>5 DEF changed
<1>3. CASE statement.kind # "DELETE"
  <2> DEFINE new(i) == IF Matches(statement.where, rows[i]) THEN Assigned(statement.set, rows[i]) ELSE rows[i]
             other == {i \in 1..n : changed[i] # rows[i]}
  <2>1. changed = [i \in 1..n |-> new(i)] BY <1>1, <1>3 DEF Changed
  <2> HIDE DEF changed, n, new
  <2>2. DOMAIN changed = 1..n /\ changed = [i \in 1..n |-> changed[i]] BY <2>1
  <2>3. IsSequence(changed) BY <1>1, <2>2, SequenceMade
  <2>4. AffectedRows(statement, rows) = Cardinality(other)
    BY <1>1, <1>3 DEF AffectedRows, changed
  <2>5. IsFiniteSet(1..n) BY <1>1, FS_Interval
  <2>6. other \in SUBSET (1..n) OBVIOUS
  <2> HIDE DEF other
  <2>7. Cardinality(other) \in Nat BY <2>5, <2>6, FS_Subset, FS_CardinalityType
  <2> QED BY <2>3, <2>4, <2>7 DEF changed
<1> QED BY <1>2, <1>3

\* PlanIs at first.
LEMMA PlanIsInit == Init => PlanIs
<1> SUFFICES ASSUME Init PROVE PlanIs
  OBVIOUS
<1>1. bound \in Plans /\ plan = bound /\ phase = "bound" /\ runs = 0 BY DEF Init
<1>2. 0 \in 0..MaxRuns BY PushdownConstants
<1> QED BY <1>1, <1>2 DEF PlanIs

\* Every step keeps the plan what the phase says.
LEMMA PlanIsStep ==
  ASSUME PlanIs, [Next]_vars
  PROVE  PlanIs'
<1> USE DEF PlanIs
<1>0. runs \in 0..MaxRuns /\ MaxRuns \in Nat \ {0} BY PushdownConstants
<1>r. phase # "bound" =>
        /\ Writes(plan) <=> Writes(bound)
        /\ Writes(bound) => Root(plan) = Root(bound)
  BY PlanOfPhase
<1>d. Root(plan).op \in {"delete", "update"} <=> Writes(plan) BY DEF Writes
<1>1. CASE Optimize
  <2>1. plan' = Optimized(bound) BY <1>1 DEF Optimize, Optimized, Streamed
  <2> QED BY <1>1, <2>1 DEF Optimize
<1>2. CASE PlanQuery
  <2>1. runs' \in 0..MaxRuns BY <1>0, <1>2 DEF PlanQuery, Execute
  <2> QED BY <1>2, <1>r, <2>1 DEF PlanQuery, Execute, planned
<1>3. CASE PlanDelete
  <2>1. CASE Unsupported(plan) BY <1>3, <2>1 DEF PlanDelete, Refuse, planned
  <2>2. CASE ~Unsupported(plan)
    <3>1. runs' \in 0..MaxRuns BY <1>0, <1>3, <2>2 DEF PlanDelete, Execute
    <3>2. plan' = Materialized(bound) BY <1>3, <2>2 DEF PlanDelete, Materialized
    <3>3. query' = Statement(bound) BY <1>3, <2>2 DEF PlanDelete, Statement
    <3>4. Writes(bound) BY <1>3, <1>r, <1>d DEF PlanDelete
    <3>5. bound' = bound /\ phase' = "running" BY <1>3, <2>2 DEF PlanDelete, Execute
    <3> QED BY <3>1, <3>2, <3>3, <3>4, <3>5
  <2> QED BY <2>1, <2>2
<1>4. CASE PlanUpdate
  <2>1. CASE Unsupported(plan) BY <1>4, <2>1 DEF PlanUpdate, Refuse, planned
  <2>2. CASE ~Unsupported(plan)
    <3>1. runs' \in 0..MaxRuns BY <1>0, <1>4, <2>2 DEF PlanUpdate, Execute
    <3>2. plan' = Materialized(bound) BY <1>4, <2>2 DEF PlanUpdate, Materialized
    <3>3. query' = Statement(bound) BY <1>4, <2>2 DEF PlanUpdate, Statement
    <3>4. Writes(bound) BY <1>4, <1>r, <1>d DEF PlanUpdate
    <3>5. bound' = bound /\ phase' = "running" BY <1>4, <2>2 DEF PlanUpdate, Execute
    <3> QED BY <3>1, <3>2, <3>3, <3>4, <3>5
  <2> QED BY <2>1, <2>2
<1>5. CASE MySQLInitGlobalState
  <2>1. UNCHANGED <<bound, plan, query, runs>> /\ phase = "running" /\ phase' \in {"running", "failed"}
    BY <1>5 DEF MySQLInitGlobalState, Send, Open, Unopened, planned
  <2> QED BY <2>1
<1>6. CASE MySQLQueryInitGlobalState
  <2>1. UNCHANGED <<bound, plan, query, runs>> /\ phase = "running" /\ phase' \in {"running", "failed"}
    BY <1>6 DEF MySQLQueryInitGlobalState, Send, Open, Unopened, planned
  <2> QED BY <2>1
<1>7. CASE OpenLocal BY <1>7 DEF OpenLocal, Open, planned
<1>8. CASE MySQLScan BY <1>8 DEF MySQLScan, planned
<1>9. CASE Finish BY <1>9 DEF Finish, planned
<1>10. CASE Finalize
  <2>1. UNCHANGED <<bound, plan, query, runs>> /\ phase = "running" /\ phase' \in {"finished", "failed"}
    BY <1>10 DEF Finalize, Refuse, planned
  <2> QED BY <2>1
<1>11. CASE ExecuteAgain
  <2>1. runs' \in 0..MaxRuns BY <1>0, <1>11 DEF ExecuteAgain, Execute
  <2> QED BY <1>11, <2>1 DEF ExecuteAgain, Execute, planned
<1>12. CASE UNCHANGED vars BY <1>12 DEF vars, planned
<1> QED BY <1>1, <1>2, <1>3, <1>4, <1>5, <1>6, <1>7, <1>8, <1>9, <1>10, <1>11, <1>12 DEF Next

\* Only an UPDATE or DELETE changes a table.
LEMMA TablesAreStep ==
  ASSUME PlanIs, TablesAre, [Next]_vars
  PROVE  TablesAre'
<1>1. CASE Finalize /\ ~Busy(Root(plan).catalog)
  <2>1. /\ phase = "running" /\ Writes(plan) /\ bound' = bound /\ before' = before
        /\ tables' = [tables EXCEPT ![query.table] = Changed(query, @)]
        /\ affected' = AffectedRows(query, tables[query.table])
    BY <1>1 DEF Finalize, planned
  <2>2. Writes(bound) /\ query = Statement(bound)
    BY <2>1, PlanOfPhase DEF PlanIs
  <2>3. query.table = Root(bound).table
    <3>1. Root(Optimized(bound)) = Root(bound) BY <2>2, BoundPlan, RootOfPlan
    <3> QED BY <2>2, <3>1 DEF Statement, ConstructDeleteStatement, ConstructUpdateStatement
  <2>4. query.table \in DOMAIN Contents
    <3>1. PlanIsBound(bound) BY BoundPlan
    <3>2. WriteIsBound(bound) BY <2>2, <3>1 DEF PlanIsBound, Writes
    <3> QED BY <2>3, <3>2 DEF WriteIsBound
  <2>5. IsSequence(tables[query.table]) BY <2>4 DEF TablesAre
  <2>6. IsSequence(Changed(query, tables[query.table])) /\ affected' \in Nat
    BY <2>1, <2>5, ChangedIs
  <2> QED BY <2>1, <2>2, <2>4, <2>6 DEF TablesAre
<1>2. CASE UNCHANGED <<bound, tables, affected>> /\ (before' = before \/ before' = tables)
  BY <1>2 DEF TablesAre
<1>3. ASSUME ~(Finalize /\ ~Busy(Root(plan).catalog))
      PROVE  UNCHANGED <<bound, tables, affected>> /\ (before' = before \/ before' = tables)
  <2>1. CASE Optimize BY <2>1 DEF Optimize, server
  <2>2. CASE PlanQuery BY <2>2 DEF PlanQuery, Execute, planned
  <2>3. CASE PlanDelete BY <2>3 DEF PlanDelete, Execute, Refuse, planned, server
  <2>4. CASE PlanUpdate BY <2>4 DEF PlanUpdate, Execute, Refuse, planned, server
  <2>5. CASE MySQLInitGlobalState BY <2>5 DEF MySQLInitGlobalState, Send, Open, planned, server
  <2>6. CASE MySQLQueryInitGlobalState BY <2>6 DEF MySQLQueryInitGlobalState, Send, Open, planned, server
  <2>7. CASE OpenLocal BY <2>7 DEF OpenLocal, Open, planned, server
  <2>8. CASE MySQLScan BY <2>8 DEF MySQLScan, planned, server
  <2>9. CASE Finish BY <2>9 DEF Finish, planned, server
  <2>10. CASE Finalize BY <1>3, <2>10 DEF Finalize, Refuse, planned, server
  <2>11. CASE ExecuteAgain BY <2>11 DEF ExecuteAgain, Execute, planned
  <2>12. CASE UNCHANGED vars BY <2>12 DEF vars, planned, server
  <2> QED BY <2>1, <2>2, <2>3, <2>4, <2>5, <2>6, <2>7, <2>8, <2>9, <2>10, <2>11, <2>12 DEF Next
<1> QED BY <1>1, <1>2, <1>3

\* A scan that was opened owes what it is going to return.
LEMMA OpenStep ==
  ASSUME PlanIs, TablesAre, ScansAre, phase = "running", bound' = bound, DOMAIN bind' = DOMAIN bind,
         NEW g \in Gets(plan), Unopened(g), NEW rows, Open(g, rows),
         NEW i, Here(bound, i, g), ~Writes(bound) => Owes(bound, i, tables, rows)
  PROVE  ScansAre'
<1> DEFINE t == g.table_index
<1>1. /\ t \notin DOMAIN rest /\ phase' = "running" /\ drained' = drained /\ tables' = tables
      /\ rest' = With(rest, t, rows) /\ scanned' = With(scanned, t, <<>>)
  BY DEF Unopened, Open, server
<1>2. i \in BoundScans /\ bound[i].table_index = t /\ PlanIsBound(bound)
  BY BoundPlan DEF Here, SameScan, BoundScans
<1>3. /\ DOMAIN rest' = {t} \cup DOMAIN rest /\ rest'[t] = rows
      /\ \A x \in DOMAIN rest : x # t => rest'[x] = rest[x]
  BY <1>1 DEF With
<1>4. /\ DOMAIN scanned' = {t} \cup DOMAIN scanned /\ scanned'[t] = <<>>
      /\ \A x \in DOMAIN scanned : x # t => scanned'[x] = scanned[x]
  BY <1>1 DEF With
<1>5. bound[i] \in Gets(bound) BY <1>2, BoundPlan
<1> HIDE DEF t
<1>6. DOMAIN rest' \subseteq {get.table_index : get \in Gets(bound)}
  BY <1>2, <1>3, <1>5 DEF ScansAre
<1>7. ASSUME NEW j \in BoundScans
      PROVE  Paying(j)'
  <2>1. CASE bound[j].table_index = t
    <3>1. j = i BY <1>2, <1>7, <2>1, BoundPlan
    <3>2. SUFFICES ASSUME ~Writes(bound)
                   PROVE  /\ IsSequence(rest'[t]) /\ IsSequence(scanned'[t])
                          /\ Owes(bound, i, tables, scanned'[t] \o rest'[t])
                          /\ t \notin drained
      BY <1>1, <1>2, <3>1 DEF Paying
    <3>3. Owes(bound, i, tables, rows) BY <3>2
    <3>4. IsSequence(tables[bound[i].table])
      <4>1. GetIsBound(bound[i]) BY <1>2, BoundPlan DEF BoundScans
      <4> QED BY <4>1 DEF GetIsBound, TablesAre
    <3>5. IsSequence(rows) BY <1>2, <3>3, <3>4, OwedIsSequence DEF BoundScans
    <3>6. t \notin drained BY <1>1 DEF ScansAre, t
    <3>7. IsSequence(<<>>) /\ <<>> \o rows = rows BY <3>5, NothingFetched
    <3> QED BY <1>3, <1>4, <3>3, <3>5, <3>6, <3>7
  <2>2. CASE bound[j].table_index # t
    <3>1. Paying(j) BY <1>7 DEF ScansAre
    <3> DEFINE x == bound[j].table_index
    <3>2. x \in DOMAIN rest' => x \in DOMAIN rest /\ x \in DOMAIN scanned /\ rest'[x] = rest[x] /\ scanned'[x] = scanned[x]
      BY <1>3, <1>4, <2>2 DEF ScansAre
    <3> QED BY <1>1, <3>1, <3>2 DEF Paying
  <2> QED BY <2>1, <2>2
<1>8. BoundScans' = BoundScans BY DEF BoundScans
<1> QED BY <1>1, <1>3, <1>4, <1>6, <1>7, <1>8 DEF ScansAre

\* A chunk more, and the scan still pays.
LEMMA FetchStep ==
  ASSUME PlanIs, TablesAre, ScansAre, MySQLScan
  PROVE  ScansAre'
<1>1. PICK t \in DOMAIN rest \ drained :
        LET n == IF VectorSize < Len(rest[t]) THEN VectorSize ELSE Len(rest[t]) IN
          /\ phase = "running" /\ ~Sunk
          /\ rest' = [rest EXCEPT ![t] = Skip(@, n)]
          /\ scanned' = [scanned EXCEPT ![t] = @ \o Take(rest[t], n)]
          /\ drained' = IF n = 0 THEN drained \cup {t} ELSE drained
          /\ UNCHANGED <<planned, phase, bind, runs, server>>
  BY DEF MySQLScan
<1> DEFINE n == IF VectorSize < Len(rest[t]) THEN VectorSize ELSE Len(rest[t])
<1>2. /\ bound' = bound /\ phase' = phase /\ phase = "running" /\ bind' = bind /\ tables' = tables
      /\ drained' = IF n = 0 THEN drained \cup {t} ELSE drained
  BY <1>1 DEF planned, server
<1>3. t \in DOMAIN rest /\ t \in DOMAIN scanned /\ DOMAIN rest = DOMAIN scanned BY DEF ScansAre
<1>4. /\ DOMAIN rest' = DOMAIN rest /\ rest'[t] = Skip(rest[t], n)
      /\ \A x \in DOMAIN rest : x # t => rest'[x] = rest[x]
  <2> HIDE DEF n
  <2>1. rest' = [rest EXCEPT ![t] = Skip(@, n)] BY <1>1 DEF n
  <2> QED BY <1>3, <2>1
<1>5. /\ DOMAIN scanned' = DOMAIN scanned /\ scanned'[t] = scanned[t] \o Take(rest[t], n)
      /\ \A x \in DOMAIN scanned : x # t => scanned'[x] = scanned[x]
  <2> HIDE DEF n
  <2>1. scanned' = [scanned EXCEPT ![t] = @ \o Take(rest[t], n)] BY <1>1 DEF n
  <2> QED BY <1>3, <2>1
<1>6. drained' \subseteq DOMAIN rest BY <1>2, <1>3 DEF ScansAre
<1>7. ASSUME NEW j \in BoundScans
      PROVE  Paying(j)'
  <2>0. Paying(j) BY <1>7 DEF ScansAre
  <2>1. CASE bound[j].table_index = t /\ ~Writes(bound)
    <3>1. /\ IsSequence(rest[t]) /\ IsSequence(scanned[t])
          /\ Owes(bound, j, tables, scanned[t] \o rest[t])
      BY <2>0, <2>1 DEF Paying
    <3>2. Len(rest[t]) \in Nat /\ VectorSize \in Nat \ {0} BY <3>1, SequenceFacts, PushdownConstants
    <3>3. n \in Nat /\ n <= Len(rest[t]) /\ (n = 0 => Len(rest[t]) = 0)
      BY <3>2
    <3> HIDE DEF n
    <3>4. /\ IsSequence(scanned'[t]) /\ IsSequence(rest'[t])
          /\ scanned'[t] \o rest'[t] = scanned[t] \o rest[t]
      <4> DEFINE s == scanned[t]
                 r == rest[t]
      <4>1. IsSequence(s) /\ IsSequence(r) /\ n \in Nat /\ n <= Len(r) BY <3>1, <3>3
      <4>2. rest'[t] = Skip(r, n) /\ scanned'[t] = s \o Take(r, n) BY <1>4, <1>5
      <4> HIDE DEF s, r
      <4>3. /\ IsSequence(s \o Take(r, n)) /\ IsSequence(Skip(r, n))
            /\ (s \o Take(r, n)) \o Skip(r, n) = s \o r
        BY <4>1, Fetched
      <4> QED BY <4>2, <4>3 DEF s, r
    <3>5. t \in drained' => rest'[t] = <<>>
      <4>1. SUFFICES ASSUME n = 0 PROVE rest'[t] = <<>>
        BY <1>2
      <4>2. rest[t] = <<>> BY <3>1, <3>3, <4>1, NothingFetched
      <4>3. Skip(rest[t], 0) = rest[t] BY <3>1, SkipNothing
      <4> QED BY <1>4, <4>1, <4>2, <4>3
    <3> QED BY <1>2, <2>1, <3>1, <3>4, <3>5 DEF Paying
  <2>2. CASE bound[j].table_index # t /\ ~Writes(bound)
    <3> DEFINE x == bound[j].table_index
    <3>1. x \in DOMAIN rest' => x \in DOMAIN rest /\ rest'[x] = rest[x] /\ scanned'[x] = scanned[x]
      BY <1>3, <1>4, <1>5, <2>2
    <3>2. x \in drained' => x \in drained BY <1>2, <2>2
    <3> QED BY <1>2, <2>0, <3>1, <3>2 DEF Paying
  <2>3. CASE Writes(bound) BY <1>2, <2>3 DEF Paying
  <2> QED BY <2>1, <2>2, <2>3
<1>8. BoundScans' = BoundScans BY <1>2 DEF BoundScans
<1>9. phase' # "finished" BY <1>2
<1> HIDE DEF n
<1> QED BY <1>2, <1>3, <1>4, <1>5, <1>6, <1>7, <1>8, <1>9 DEF ScansAre

\* ScansAre at first.
LEMMA ScansAreInit == Init => ScansAre
<1> SUFFICES ASSUME Init PROVE ScansAre
  OBVIOUS
<1>1. /\ bind = [t \in {get.table_index : get \in {g \in Gets(bound) : IsMySQLQuery(g)}} |-> TRUE]
      /\ rest = Nothing /\ scanned = Nothing /\ drained = {} /\ phase = "bound"
  BY DEF Init
<1>2. DOMAIN rest = {} /\ DOMAIN scanned = {} BY <1>1 DEF Nothing
<1>3. DOMAIN bind = {get.table_index : get \in {g \in Gets(bound) : IsMySQLQuery(g)}}
  BY <1>1
<1> QED BY <1>1, <1>2, <1>3 DEF ScansAre, Paying

\* A new execution has no open scan.
LEMMA ExecuteStep ==
  ASSUME ScansAre, Execute, bound' = bound
  PROVE  ScansAre'
<1>1. DOMAIN rest' = {} /\ DOMAIN scanned' = {} /\ drained' = {} /\ phase' = "running" /\ bind' = bind
  BY DEF Execute, Nothing
<1>2. \A j \in BoundScans : Paying(j)' BY <1>1 DEF Paying
<1>3. BoundScans' = BoundScans BY DEF BoundScans
<1> QED BY <1>1, <1>2, <1>3 DEF ScansAre

\* Every step keeps what the scans have returned and owe together.
LEMMA ScansAreStep ==
  ASSUME PlanIs, TablesAre, ScansAre, [Next]_vars
  PROVE  ScansAre'
<1>s. ASSUME UNCHANGED <<bound, bind, results>>, UNCHANGED tables \/ Writes(bound),
             phase' # "finished" \/ phase' = phase \/ Writes(bound)
      PROVE  ScansAre'
  <2>1. BoundScans' = BoundScans BY <1>s DEF BoundScans
  <2>2. \A j \in BoundScans : Paying(j)' BY <1>s DEF Paying, ScansAre, results
  <2> QED BY <1>s, <2>1, <2>2 DEF ScansAre, results
<1>1. CASE Optimize
  BY <1>1, <1>s DEF Optimize, results, server
<1>2. CASE PlanQuery BY <1>2, ExecuteStep DEF PlanQuery, planned
<1>3. CASE PlanDelete
  <2>1. CASE Unsupported(plan) BY <1>3, <2>1, <1>s DEF PlanDelete, Refuse, planned, server
  <2>2. CASE ~Unsupported(plan) BY <1>3, <2>2, ExecuteStep DEF PlanDelete
  <2> QED BY <2>1, <2>2
<1>4. CASE PlanUpdate
  <2>1. CASE Unsupported(plan) BY <1>4, <2>1, <1>s DEF PlanUpdate, Refuse, planned, server
  <2>2. CASE ~Unsupported(plan) BY <1>4, <2>2, ExecuteStep DEF PlanUpdate
  <2> QED BY <2>1, <2>2
<1>5. CASE MySQLInitGlobalState
  <2>1. PICK g \in Gets(plan) : /\ IsMySQLScan(g) /\ Unopened(g)
                                /\ Send(g, Select(g)) /\ UNCHANGED bind
    BY <1>5 DEF MySQLInitGlobalState
  <2>2. CASE Accepts(Select(g)) /\ ~Busy(g.catalog)
    <3>1. Open(g, Rows(Select(g), tables)) BY <2>1, <2>2 DEF Send
    <3>2. phase = "running" /\ HasScans(bound, plan) /\ PlanIsBound(bound) /\ bound' = bound
      BY <2>1, <3>1, PlanOfPhase, BoundPlan DEF Unopened, Open, planned
    <3>3. PICK i \in 1..Len(bound) : Here(bound, i, g) BY <3>2 DEF HasScans
    <3>4. IsSequence(tables[bound[i].table])
      <4>1. GetIsBound(bound[i]) BY <3>3, BoundPlan DEF Here
      <4> QED BY <4>1 DEF GetIsBound, TablesAre
    <3>5. Owes(bound, i, tables, Rows(Select(g), tables))
      BY <2>2, <3>2, <3>3, <3>4, SelectOwes
    <3> QED BY <2>1, <3>1, <3>2, <3>3, <3>5, OpenStep
  <2>3. CASE ~(Accepts(Select(g)) /\ ~Busy(g.catalog))
    BY <1>s, <2>1, <2>3 DEF Send, planned, server
  <2> QED BY <2>2, <2>3
<1>6. CASE MySQLQueryInitGlobalState
  <2>1. PICK g \in Gets(plan) :
           /\ IsMySQLQuery(g) /\ Unopened(g)
           /\ IF bind[g.table_index] THEN Open(g, Rows(Query(g), tables)) ELSE Send(g, Query(g))
           /\ bind' = [bind EXCEPT ![g.table_index] = FALSE]
    BY <1>6 DEF MySQLQueryInitGlobalState
  <2>2. DOMAIN bind' = DOMAIN bind BY <2>1
  <2>3. CASE Open(g, Rows(Query(g), tables))
    <3>2. phase = "running" /\ HasScans(bound, plan) /\ PlanIsBound(bound) /\ bound' = bound
      BY <2>1, <2>3, PlanOfPhase, BoundPlan DEF Unopened, Open, planned
    <3>3. PICK i \in 1..Len(bound) : Here(bound, i, g) BY <3>2 DEF HasScans
    <3>4. IsSequence(tables[bound[i].table])
      <4>1. GetIsBound(bound[i]) BY <3>3, BoundPlan DEF Here
      <4> QED BY <4>1 DEF GetIsBound, TablesAre
    <3>5. Owes(bound, i, tables, Rows(Query(g), tables))
      BY <2>1, <3>2, <3>3, <3>4, QueryOwes
    <3> QED BY <2>1, <2>2, <2>3, <3>2, <3>3, <3>5, OpenStep
  <2>4. CASE ~Open(g, Rows(Query(g), tables))
    <3>1. phase' = "failed" /\ UNCHANGED <<planned, results, runs, server>>
      BY <2>1, <2>4 DEF Send
    <3>2. BoundScans' = BoundScans BY <3>1 DEF BoundScans, planned
    <3>3. \A j \in BoundScans : Paying(j)' BY <3>1 DEF Paying, ScansAre, results, planned, server
    <3> QED BY <2>2, <3>1, <3>2, <3>3 DEF ScansAre, results, planned
  <2> QED BY <2>3, <2>4
<1>7. CASE OpenLocal
  <2>1. PICK g \in Gets(plan) : /\ g \notin MySQLGets(plan) /\ Unopened(g)
                                /\ Open(g, ScanOf(g, tables[g.table])) /\ UNCHANGED bind
    BY <1>7 DEF OpenLocal
  <2>2. phase = "running" /\ HasScans(bound, plan) /\ PlanIsBound(bound) /\ bound' = bound
    BY <2>1, PlanOfPhase, BoundPlan DEF Unopened, Open, planned
  <2>3. PICK i \in 1..Len(bound) : Here(bound, i, g) BY <2>2 DEF HasScans
  <2>4. ~IsMySQLScan(g) BY <2>1 DEF MySQLGets
  <2>5. Owes(bound, i, tables, ScanOf(g, tables[g.table])) BY <2>2, <2>3, <2>4, LocalOwes
  <2> QED BY <2>1, <2>2, <2>3, <2>5, OpenStep
<1>8. CASE MySQLScan BY <1>8, FetchStep
<1>9. CASE Finish
  <2>1. /\ phase = "running" /\ UNCHANGED <<bound, bind, results>> /\ tables' = tables
        /\ drained = {get.table_index : get \in Gets(plan)}
    BY <1>9 DEF Finish, Drained, planned, server
  <2>2. drained = {get.table_index : get \in Gets(bound)} BY <2>1, PlanOfPhase
  <2>3. \A i \in BoundScans : bound[i].table_index \in drained BY <2>2, BoundPlan
  <2>4. BoundScans' = BoundScans BY <2>1 DEF BoundScans
  <2>5. \A j \in BoundScans : Paying(j)' BY <2>1 DEF Paying, ScansAre, results
  <2> QED BY <2>1, <2>3, <2>4, <2>5 DEF ScansAre, results
<1>10. CASE Finalize
  <2>1. UNCHANGED <<bound, bind, results>> /\ phase = "running" /\ Writes(plan)
    BY <1>10 DEF Finalize, Refuse, planned
  <2>2. Writes(bound) BY <2>1, PlanOfPhase
  <2> QED BY <1>s, <2>1, <2>2
<1>11. CASE ExecuteAgain BY <1>11, ExecuteStep DEF ExecuteAgain, planned
<1>12. CASE UNCHANGED vars BY <1>12, <1>s DEF vars, planned, server
<1> QED BY <1>1, <1>2, <1>3, <1>4, <1>5, <1>6, <1>7, <1>8, <1>9, <1>10, <1>11, <1>12 DEF Next

\* The states of a statement, from bind to its last execution.
THEOREM StatementInvariant == Spec => []StatementInv
<1>1. Init => StatementInv
  <2> SUFFICES ASSUME Init PROVE StatementInv
    OBVIOUS
  <2>1. TablesAre
    <3>1. tables = Contents /\ before = Contents /\ affected = 0 BY DEF Init
    <3> QED BY <3>1, PushdownConstants DEF TablesAre
  <2> QED BY <2>1, PlanIsInit, ScansAreInit DEF StatementInv
<1>2. StatementInv /\ [Next]_vars => StatementInv'
  BY PlanIsStep, TablesAreStep, ScansAreStep DEF StatementInv
<1> QED BY <1>1, <1>2, PTL DEF Spec

\* TypeOK always holds.
THEOREM TypeCorrect == Spec => []TypeOK
<1>1. StatementInv => TypeOK
  <2> SUFFICES ASSUME StatementInv PROVE TypeOK
    OBVIOUS
  <2>1. PlanIs /\ TablesAre /\ ScansAre BY DEF StatementInv
  <2>2. \A g \in MySQLGets(plan) : phase # "bound" => g.streaming # "UNINITIALIZED"
    BY <2>1, PlanOfPhase
  <2> QED BY <2>1, <2>2 DEF TypeOK, PlanIs, TablesAre, ScansAre
<1> QED BY <1>1, StatementInvariant, PTL

(***************************************************************************)
(* Every execution of a query has the rows of the plan that was bound,     *)
(* whatever was pushed to the server and however the scans were read: each *)
(* scan has returned all it owes, and plans whose scans do agree.          *)
(***************************************************************************)
THEOREM AnswersAreRight == Spec => []AnswerIsRight
<1>1. StatementInv => AnswerIsRight
  <2> SUFFICES ASSUME StatementInv, phase = "finished", ~Writes(bound)
               PROVE  Root(Evaluate(plan, scanned)) = Meaning(bound, tables)
    BY DEF AnswerIsRight
  <2>1. PlanIs /\ TablesAre /\ ScansAre BY DEF StatementInv
  <2>2. PlanIsBound(bound) /\ plan = Optimized(bound) BY <2>1, BoundPlan DEF PlanIs
  <2>3. ASSUME NEW i \in BoundScans
        PROVE  /\ IsSequence(tables[bound[i].table])
               /\ Owes(bound, i, tables, scanned[bound[i].table_index])
    <3> DEFINE t == bound[i].table_index
    <3>1. t \in drained /\ t \in DOMAIN rest /\ Paying(i) BY <2>1, <2>3 DEF ScansAre
    <3>2. /\ IsSequence(scanned[t]) /\ rest[t] = <<>>
          /\ Owes(bound, i, tables, scanned[t] \o rest[t])
      BY <3>1 DEF Paying
    <3>3. scanned[t] \o <<>> = scanned[t] BY <3>2, NothingFetched
    <3>4. GetIsBound(bound[i]) BY <2>1, BoundPlan DEF BoundScans
    <3>5. IsSequence(tables[bound[i].table]) BY <2>1, <3>4 DEF GetIsBound, TablesAre
    <3> QED BY <3>2, <3>3, <3>5
  <2>4. Paid(bound, tables, scanned) BY <2>3 DEF Paid, BoundScans
  <2> QED BY <2>2, <2>4, PaidIsMeant
<1> QED BY <1>1, StatementInvariant, PTL

-----------------------------------------------------------------------------
(* The connection.                                                         *)

\* A scan that is alone is the only one of its database.
LEMMA AloneIsOne ==
  ASSUME NEW b, PlanIsBound(b), NEW c, Alone(b, c),
         NEW g \in MySQLGets(b), g.catalog = c, NEW h \in MySQLGets(b), h.catalog = c
  PROVE  g = h
<1> DEFINE S == {get \in MySQLGets(b) : get.catalog = c}
           n == Len(b)
           B == {b[i] : i \in DOMAIN b}
           f == [i \in 1..n |-> b[i]]
<1>1. n \in Nat /\ DOMAIN b = 1..n BY BoundIsTree, TreeIs
<1>2. f \in Surjection(1..n, B) BY <1>1 DEF Surjection
<1>3. IsFiniteSet(1..n) BY <1>1, FS_Interval
<1>4. IsFiniteSet(B)
  <2> HIDE DEF f, B, n
  <2> QED BY <1>2, <1>3, FS_Surjection
<1>5. S \in SUBSET B BY DEF MySQLGets, Gets
<1>6. g \in S /\ h \in S OBVIOUS
<1>7. Cardinality(S) = 1 BY DEF Alone
<1> HIDE DEF S, B
<1>8. IsFiniteSet(S) BY <1>4, <1>5, FS_Subset
<1>9. PICK x : S = {x} BY <1>7, <1>8, FS_Singleton
<1> QED BY <1>6, <1>9

\* A scan that is opened finds no stream of another scan on its connection.
LEMMA ConnectionIsFree ==
  ASSUME StatementInv, phase = "running", NEW g \in MySQLGets(plan), Unopened(g)
  PROVE  ~Busy(g.catalog)
<1> SUFFICES ASSUME NEW h \in MySQLGets(plan), h.catalog = g.catalog,
                    h.streaming = "ALLOW_STREAMING", h.table_index \in DOMAIN rest
             PROVE  FALSE
  BY DEF Busy
<1>1. PlanIs BY DEF StatementInv
<1>2. HasScans(bound, plan) /\ PlanIsBound(bound) /\ Alone(bound, g.catalog)
  BY <1>1, PlanOfPhase, BoundPlan
<1>3. \A x \in MySQLGets(plan) : \E i \in BoundScans :
        bound[i] \in MySQLGets(bound) /\ SameScan(bound[i], x)
  <2> SUFFICES ASSUME NEW x \in MySQLGets(plan)
               PROVE  \E i \in BoundScans : bound[i] \in MySQLGets(bound) /\ SameScan(bound[i], x)
    OBVIOUS
  <2>1. x \in Gets(plan) /\ (IsMySQLScan(x) \/ IsMySQLQuery(x)) BY DEF MySQLGets
  <2>2. PICK i \in 1..Len(bound) : Here(bound, i, x) BY <1>2, <2>1 DEF HasScans
  <2>3. i \in BoundScans /\ SameScan(bound[i], x) BY <2>2 DEF Here, BoundScans
  <2>4. bound[i] \in Gets(bound) BY <1>1, <2>3, BoundPlan
  <2> QED BY <2>1, <2>3, <2>4 DEF MySQLGets, IsMySQLScan, IsMySQLQuery, SameScan
<1>4. PICK i \in BoundScans : bound[i] \in MySQLGets(bound) /\ SameScan(bound[i], g) BY <1>3
<1>5. PICK j \in BoundScans : bound[j] \in MySQLGets(bound) /\ SameScan(bound[j], h) BY <1>3
<1>6. bound[i].catalog = g.catalog /\ bound[j].catalog = g.catalog BY <1>4, <1>5 DEF SameScan
<1>7. bound[i] = bound[j] BY <1>2, <1>4, <1>5, <1>6, AloneIsOne
<1>8. g.table_index = h.table_index BY <1>4, <1>5, <1>7 DEF SameScan
<1> QED BY <1>8 DEF Unopened

\* No LIMIT that is pushed is an OFFSET alone.
LimitsAreComplete ==
  \A b \in Plans : \A l \in Pushed(Streamed(b)) :
    Streamed(b)[l].limit_val.type = "UNSET" => Streamed(b)[l].offset_val.type = "UNSET"

\* The text of a pushed LIMIT is one the server accepts.
LEMMA SelectIsAccepted ==
  ASSUME LimitsAreComplete, NEW b \in Plans, NEW i, NEW g, Here(b, i, g)
  PROVE  Accepts(Select(g))
<1> DEFINE p == Streamed(b)
<1>1. Select(g).limit = g.limit BY DEF Select
<1>2. CASE \A l \in Pushed(p) : Target(p, l) # i
  BY <1>1, <1>2 DEF Here, Accepts
<1>3. CASE \E l \in Pushed(p) : Target(p, l) = i
  <2>1. PICK l \in Pushed(p) : Target(p, l) = i BY <1>3
  <2>2. g.limit = LimitText(p[l]) BY <2>1 DEF Here
  <2>3. p[l].limit_val.type = "UNSET" => p[l].offset_val.type = "UNSET"
    BY DEF LimitsAreComplete
  <2> DEFINE n == [word |-> "LIMIT", value |-> p[l].limit_val.value]
             m == [word |-> "OFFSET", value |-> p[l].offset_val.value]
  <2>4. g.limit \in {<<>>, <<n>>, <<n, m>>} BY <2>2, <2>3, LimitTextIs
  <2>5. n.word = "LIMIT" /\ m.word = "OFFSET" OBVIOUS
  <2> HIDE DEF n, m
  <2> QED BY <1>1, <2>4, <2>5 DEF Accepts
<1> QED BY <1>2, <1>3

\* No command is refused, for any plans whose pushed OFFSETs come with a LIMIT.
THEOREM CommandsAreAccepted ==
  ASSUME LimitsAreComplete
  PROVE  Spec => []NoCommandIsRefused
<1>1. Init => NoCommandIsRefused BY DEF Init, NoCommandIsRefused
<1>2. StatementInv /\ NoCommandIsRefused /\ [Next]_vars => NoCommandIsRefused'
  <2> SUFFICES ASSUME StatementInv, phase # "failed", [Next]_vars
               PROVE  phase' # "failed"
    BY DEF NoCommandIsRefused
  <2>0. PlanIs BY DEF StatementInv
  <2>1. CASE Optimize BY <2>1 DEF Optimize
  <2>2. CASE PlanQuery BY <2>2 DEF PlanQuery, Execute
  <2>3. CASE PlanDelete BY <2>3 DEF PlanDelete, Execute, Refuse
  <2>4. CASE PlanUpdate BY <2>4 DEF PlanUpdate, Execute, Refuse
  <2>5. CASE MySQLInitGlobalState
    <3>1. PICK g \in Gets(plan) : /\ IsMySQLScan(g) /\ Unopened(g) /\ Send(g, Select(g))
      BY <2>5 DEF MySQLInitGlobalState
    <3>2. phase = "running" /\ g \in MySQLGets(plan) BY <3>1 DEF Unopened, MySQLGets
    <3>3. ~Busy(g.catalog) BY <3>1, <3>2, ConnectionIsFree
    <3>4. Accepts(Select(g))
      <4>1. HasScans(bound, plan) /\ bound \in Plans BY <2>0, <3>2, PlanOfPhase DEF PlanIs
      <4>2. PICK i \in 1..Len(bound) : Here(bound, i, g) BY <4>1 DEF HasScans
      <4> QED BY <4>1, <4>2, SelectIsAccepted
    <3> QED BY <3>1, <3>2, <3>3, <3>4 DEF Send, Open
  <2>6. CASE MySQLQueryInitGlobalState
    <3>1. PICK g \in Gets(plan) :
             /\ IsMySQLQuery(g) /\ Unopened(g)
             /\ IF bind[g.table_index] THEN Open(g, Rows(Query(g), tables)) ELSE Send(g, Query(g))
      BY <2>6 DEF MySQLQueryInitGlobalState
    <3>2. phase = "running" /\ g \in MySQLGets(plan) BY <3>1 DEF Unopened, MySQLGets
    <3>3. ~Busy(g.catalog) BY <3>1, <3>2, ConnectionIsFree
    <3>4. Accepts(Query(g)) BY DEF Query, Accepts
    <3> QED BY <3>1, <3>2, <3>3, <3>4 DEF Send, Open
  <2>7. CASE OpenLocal BY <2>7 DEF OpenLocal, Open
  <2>8. CASE MySQLScan BY <2>8 DEF MySQLScan
  <2>9. CASE Finish BY <2>9 DEF Finish
  <2>10. CASE Finalize
    <3>1. phase = "running" /\ Writes(plan) BY <2>10 DEF Finalize
    <3>2. Writes(bound) BY <2>0, <3>1, PlanOfPhase
    <3>3. plan = Materialized(bound) BY <2>0, <3>1, <3>2 DEF PlanIs
    <3>4. \A g \in MySQLGets(plan) : g.streaming = "FORCE_MATERIALIZATION"
      BY <2>0, <3>3, BoundPlan, MaterializedHasScans
    <3>5. ~Busy(Root(plan).catalog) BY <3>4 DEF Busy
    <3> QED BY <2>10, <3>5 DEF Finalize
  <2>11. CASE ExecuteAgain BY <2>11 DEF ExecuteAgain, Execute
  <2>12. CASE UNCHANGED vars BY <2>12 DEF vars
  <2> QED BY <2>1, <2>2, <2>3, <2>4, <2>5, <2>6, <2>7, <2>8, <2>9, <2>10, <2>11, <2>12 DEF Next
<1> QED BY <1>1, <1>2, StatementInvariant, PTL DEF Spec

-----------------------------------------------------------------------------
(* A plan on a table of one row: what a DELETE or UPDATE concerns.         *)

\* Of one row that row is kept or none.
LEMMA KeepOne ==
  ASSUME NEW r, NEW places
  PROVE  Keep(<<r>>, places) = IF 1 \in places THEN <<r>> ELSE <<>>
<1> DEFINE rows == <<r>>
           one == IF 1 \in places THEN <<r>> ELSE <<>>
           Step(f, i) == IF i = 0 THEN <<>>
                         ELSE IF i \in places THEN Append(f[i - 1], rows[i]) ELSE f[i - 1]
           e(kept) == [i \in 0..Len(rows) |-> Step(kept, i)]
           t == CHOOSE kept : kept = e(kept)
           f == [i \in 0..1 |-> IF i = 0 THEN <<>> ELSE one]
<1>1. Len(rows) = 1 /\ rows[1] = r /\ Append(<<>>, r) = <<r>> OBVIOUS
<1>2. Keep(rows, places) = t[1] BY <1>1 DEF Keep
<1>3. f = e(f)
  <2>1. f[0] = <<>> OBVIOUS
  <2>2. Step(f, 0) = <<>> OBVIOUS
  <2>3. Step(f, 1) = one
    <3> HIDE DEF rows, f
    <3>1. 1 - 1 = 0 /\ 1 # 0 OBVIOUS
    <3> QED BY <1>1, <2>1, <3>1
  <2>4. \A i \in 0..1 : Step(f, i) = IF i = 0 THEN <<>> ELSE one
    <3> HIDE DEF Step, one
    <3>1. \A i \in 0..1 : i = 0 \/ i = 1 OBVIOUS
    <3> QED BY <2>2, <2>3, <3>1
  <2> HIDE DEF Step, rows, one
  <2> QED BY <1>1, <2>4
<1>4. t = e(t)
  <2> HIDE DEF e, f
  <2> QED BY <1>3
<1> HIDE DEF t
<1>5. t[0] = Step(t, 0) /\ t[1] = Step(t, 1)
  <2> HIDE DEF Step
  <2>1. 0 \in 0..1 /\ 1 \in 0..1 OBVIOUS
  <2> QED BY <1>1, <1>4, <2>1
<1>6. t[1] = one
  <2> HIDE DEF rows
  <2>1. 1 - 1 = 0 /\ 1 # 0 OBVIOUS
  <2> QED BY <1>1, <1>5, <2>1
<1> QED BY <1>2, <1>6

\* Operators on one row and on none.
LEMMA OneRow ==
  ASSUME NEW r
  PROVE  /\ \A list : /\ Projected(list, <<r>>) = <<[k \in DOMAIN list |-> ValueOf(list[k], r)]>>
                      /\ Projected(list, <<>>) = <<>>
         /\ \A filter, index :
              /\ Filtered(filter, index, <<r>>) = IF Passes(filter, r[index]) THEN <<r>> ELSE <<>>
              /\ Filtered(filter, index, <<>>) = <<>>
<1>1. DOMAIN <<r>> = 1..1 /\ <<r>>[1] = r /\ DOMAIN <<>> = {} OBVIOUS
<1>2. ASSUME NEW list
      PROVE  Projected(list, <<r>>) = <<[k \in DOMAIN list |-> ValueOf(list[k], r)]>>
  BY <1>1 DEF Projected
<1>3. ASSUME NEW list PROVE Projected(list, <<>>) = <<>>
  BY <1>1 DEF Projected
<1>4. ASSUME NEW filter, NEW index
      PROVE  Filtered(filter, index, <<r>>) = IF Passes(filter, r[index]) THEN <<r>> ELSE <<>>
  <2> DEFINE places == {i \in DOMAIN <<r>> : Passes(filter, <<r>>[i][index])}
  <2>1. 1 \in places <=> Passes(filter, r[index]) BY <1>1
  <2>2. Filtered(filter, index, <<r>>) = Keep(<<r>>, places) BY DEF Filtered
  <2> HIDE DEF places
  <2> QED BY <2>1, <2>2, KeepOne
<1>5. ASSUME NEW filter, NEW index PROVE Filtered(filter, index, <<>>) = <<>>
  <2> DEFINE e == <<>>
             kept == Filtered(filter, index, e)
  <2>1. Len(e) = 0 /\ IsSequence(e) BY EmptyIsSequence
  <2> HIDE DEF e
  <2>2. IsSequence(kept) /\ Len(kept) <= 0 BY <2>1, KeepIsSequence DEF Filtered
  <2> HIDE DEF kept
  <2>3. Len(kept) = 0 BY <2>2, SequenceFacts
  <2>4. kept = <<>> BY <2>2, <2>3, NothingFetched
  <2> QED BY <2>4 DEF kept, e
<1> QED BY <1>2, <1>3, <1>4, <1>5

\* What is printed for a filter holds on the rows the filter keeps.
LEMMA PrintedHolds ==
  ASSUME NEW column, NEW filter, NEW row
  PROVE  Holds(Printed(column, filter), row) <=> Passes(filter, row[column])
<1> DEFINE c == Printed(column, filter)
           node == [op |-> "DuckDB_text", column |-> column, filter |-> filter]
           passes == Passes(filter, row[column])
           e(truth) == [k \in DOMAIN c |-> ConditionTruth(c[k], row, truth)]
           t == CHOOSE truth : truth = e(truth)
           f == [k \in 1..1 |-> Known(passes)]
<1>1. DOMAIN c = 1..1 /\ c[1] = node BY DEF Printed
<1>2. \A truth : ConditionTruth(c[1], row, truth) = Known(passes)
  <2> HIDE DEF passes, c
  <2>1. node.op = "DuckDB_text" /\ node.column = column /\ node.filter = filter OBVIOUS
  <2> HIDE DEF node
  <2> QED BY <1>1, <2>1 DEF ConditionTruth, passes
<1>3. Holds(c, row) <=> Root(t) = "true" BY DEF Holds
<1> HIDE DEF c
<1>4. f = e(f) BY <1>1, <1>2
<1>5. t = e(t)
  <2> HIDE DEF e, f
  <2> QED BY <1>4
<1> HIDE DEF t
<1>6. DOMAIN t = 1..1 /\ t = [k \in 1..1 |-> t[k]] /\ t[1] = Known(passes) BY <1>1, <1>2, <1>5
<1>7. Len(t) = 1 BY <1>6, SequenceMade
<1>8. Root(t) = Known(passes) BY <1>6, <1>7 DEF Root
<1> HIDE DEF passes
<1>9. Known(passes) = "true" <=> passes BY DEF Known
<1> QED BY <1>3, <1>8, <1>9 DEF c, passes

\* A scan of a table of one row.
LEMMA ScanOfRow ==
  ASSUME NEW get, NEW r
  PROVE  ScanOf(get, <<r>>) =
           IF \A k \in DOMAIN get.filters :
                Passes(get.filters[k], r[get.names[get.column_ids[k]]])
           THEN <<[k \in DOMAIN get.column_ids |-> Column(get, k, r)]>> ELSE <<>>
<1> DEFINE passes(row) == \A k \in DOMAIN get.filters :
                            Passes(get.filters[k], row[get.names[get.column_ids[k]]])
           rows == <<r>>
           places == {i \in DOMAIN rows : passes(rows[i])}
           kept == Keep(rows, places)
           tuple(row) == [k \in DOMAIN get.column_ids |-> Column(get, k, row)]
<1>1. ScanOf(get, rows) = [i \in DOMAIN kept |-> tuple(kept[i])] BY DEF ScanOf, Column
<1>2. 1 \in places <=> passes(r)
  <2>1. DOMAIN rows = 1..1 /\ rows[1] = r OBVIOUS
  <2> HIDE DEF rows, passes
  <2> QED BY <2>1
<1> HIDE DEF passes, places, tuple
<1>3. kept = IF passes(r) THEN <<r>> ELSE <<>> BY <1>2, KeepOne
<1> HIDE DEF kept
<1>4. CASE passes(r)
  <2>1. DOMAIN kept = 1..1 /\ kept[1] = r BY <1>3, <1>4
  <2>2. ScanOf(get, rows) = <<tuple(r)>> BY <1>1, <2>1
  <2> QED BY <1>4, <2>2 DEF passes, tuple
<1>5. CASE ~passes(r)
  <2>1. DOMAIN kept = {} BY <1>3, <1>5
  <2>2. ScanOf(get, rows) = <<>> BY <1>1, <2>1
  <2> QED BY <1>5, <2>2 DEF passes
<1> QED BY <1>4, <1>5

\* The operators an UPDATE or DELETE goes down through.
Passed(op) == op.op \in {"filter", "projection"}

\* Below satisfies its recursive definition, and names places down to each one.
LEMMA BelowIs ==
  ASSUME NEW p, IsTree(p)
  PROVE  /\ \A i \in 1..Len(p) :
              Below(p)[i] = {i} \cup (IF Passed(p[i]) THEN Below(p)[p[i].children[1]] ELSE {})
         /\ \A i \in 1..Len(p) : Below(p)[i] \subseteq 1..i
<1> DEFINE n == Len(p)
           X == SUBSET (1..n)
           Step(f, i) == {i} \cup (IF Passed(p[i]) THEN f[p[i].children[1]] ELSE {})
           D == [i \in 1..n |-> [f \in [1..n -> X] |-> Step(f, i)]]
<1>1. /\ n \in Nat /\ DOMAIN p = 1..n /\ n \in 1..n
      /\ \A i \in 1..n : Passed(p[i]) =>
           p[i].children[1] \in 1..n /\ p[i].children[1] < i
  BY TreeIs DEF Passed
<1> HIDE DEF n, X, D
<1>2. \A i \in 1..n : \A f \in [1..n -> X] : Step(f, i) \in X
  BY <1>1 DEF X
<1>3. D \in [1..n -> [[1..n -> X] -> X]] BY <1>2 DEF D
<1>4. \A i \in 1..n : \A f \in [1..n -> X] : D[i][f] = Step(f, i) BY DEF D
<1>5. Followed(1, n, X, D)
  <2>1. \A i \in 1..n : \A f, g \in [1..n -> X] :
          (\A j \in 1..n : j < i => f[j] = g[j]) => D[i][f] = D[i][g]
    <3> SUFFICES ASSUME NEW i \in 1..n, NEW f \in [1..n -> X], NEW g \in [1..n -> X],
                        \A j \in 1..n : j < i => f[j] = g[j]
                 PROVE  D[i][f] = D[i][g]
      OBVIOUS
    <3>1. Step(f, i) = Step(g, i) BY <1>1
    <3>2. D[i][f] = Step(f, i) /\ D[i][g] = Step(g, i) BY <1>4
    <3> HIDE DEF Step
    <3> QED BY <3>1, <3>2
  <2>2. X # {} BY DEF X
  <2>3. Backwards(1, n, X, D) BY <1>3, <2>1, <2>2 DEF Backwards
  <2> HIDE DEF Step
  <2> QED BY <1>1, <2>3, RecursionHolds
<1>6. PICK f \in [1..n -> X] : \A i \in 1..n : f[i] = Step(f, i)
  <2>1. PICK f \in [1..n -> X] : \A i \in 1..n : f[i] = D[i][f] BY <1>5 DEF Followed
  <2> HIDE DEF Step, D
  <2>2. \A i \in 1..n : f[i] = Step(f, i) BY <1>4, <2>1
  <2> QED BY <2>2
<1> DEFINE e(below) == [i \in DOMAIN p |-> Step(below, i)]
           t == CHOOSE below : below = e(below)
<1>7. f = e(f) BY <1>1, <1>6
<1>8. t = e(t)
  <2> HIDE DEF e
  <2> QED BY <1>7
<1>9. Below(p) = t BY DEF Below, Passed
<1> HIDE DEF t
<1>10. \A i \in 1..n : t[i] = Step(t, i) BY <1>1, <1>8
<1> DEFINE S == {i \in 1..n : t[i] \subseteq 1..i}
<1>11. ASSUME NEW i \in 1..n, \A j \in 1..n : j < i => j \in S
       PROVE  i \in S
  <2>1. CASE Passed(p[i])
    <3>1. p[i].children[1] \in S /\ p[i].children[1] < i BY <1>1, <1>11, <2>1
    <3>2. t[i] = {i} \cup t[p[i].children[1]] BY <1>10, <2>1
    <3>3. 1..p[i].children[1] \subseteq 1..i BY <1>1, <2>1
    <3> QED BY <1>1, <3>1, <3>2, <3>3
  <2>2. CASE ~Passed(p[i])
    <3>1. t[i] = {i} BY <1>10, <2>2
    <3> QED BY <1>1, <3>1
  <2> QED BY <2>1, <2>2
<1>12. \A i \in 1..n : i \in S
  <2> HIDE DEF S, t
  <2> QED BY <1>1, <1>11, FromThoseBefore
<1> QED BY <1>9, <1>10, <1>12 DEF n

\* The columns of an operator, from those of the operators below it.
ColumnsThrough(op, columns) ==
  CASE op.op = "get"        -> ColumnsRead(op)
    [] op.op = "projection" ->
         [k \in DOMAIN op.select_list |->
            IF /\ op.select_list[k].type = "BOUND_REF"
               /\ op.select_list[k].index \in DOMAIN columns[op.children[1]]
            THEN columns[op.children[1]][op.select_list[k].index]
            ELSE NULL]
    [] OTHER                -> columns[op.children[1]]

\* ColumnsOf satisfies its recursive definition.
LEMMA ColumnsOfIs ==
  ASSUME NEW p, IsTree(p)
  PROVE  \A i \in 1..Len(p) : ColumnsOf(p)[i] = ColumnsThrough(p[i], ColumnsOf(p))
<1> DEFINE n == Len(p)
           Upto(f, k) == \A i \in 1..n : i < k => f[i] = ColumnsThrough(p[i], f)
           S == {k \in Nat : \E f : Upto(f, k)}
<1>0. /\ n \in Nat /\ DOMAIN p = 1..n
      /\ \A i \in 1..n : p[i].op # "get" => p[i].children[1] \in 1..n /\ p[i].children[1] < i
  BY TreeIs
<1>a. ASSUME NEW f, NEW g, NEW i \in 1..n, Alike(f, g, n, i)
      PROVE  ColumnsThrough(p[i], f) = ColumnsThrough(p[i], g)
  <2>1. p[i].op # "get" => f[p[i].children[1]] = g[p[i].children[1]] BY <1>0, <1>a DEF Alike
  <2> QED BY <2>1 DEF ColumnsThrough
<1>1. 0 \in S
  <2>1. Upto(<<>>, 0) BY <1>0
  <2> HIDE DEF Upto
  <2> QED BY <2>1
<1>2. ASSUME NEW k \in Nat, k < n + 1, k \in S
      PROVE  k + 1 \in S
  <2>1. PICK f : Upto(f, k) BY <1>2
  <2> DEFINE g == [i \in 1..n |-> IF i = k THEN ColumnsThrough(p[i], f) ELSE f[i]]
  <2>2. \A i \in 1..n : i < k + 1 => ColumnsThrough(p[i], g) = ColumnsThrough(p[i], f)
    <3> SUFFICES ASSUME NEW i \in 1..n, i < k + 1
                 PROVE  ColumnsThrough(p[i], g) = ColumnsThrough(p[i], f)
      OBVIOUS
    <3>1. Alike(g, f, n, i) BY <1>0, <1>2 DEF Alike
    <3> HIDE DEF g
    <3> QED BY <3>1, <1>a
  <2>3. \A i \in 1..n : g[i] = IF i = k THEN ColumnsThrough(p[i], f) ELSE f[i]
    OBVIOUS
  <2>4. Upto(g, k + 1)
    <3> HIDE DEF g, n
    <3> QED BY <1>0, <1>2, <2>1, <2>2, <2>3
  <2> HIDE DEF g, Upto
  <2> QED BY <2>4
<1>3. n + 1 \in S
  <2>1. S \subseteq Nat OBVIOUS
  <2> HIDE DEF S
  <2>2. n + 1 \in Nat /\ n + 1 \in 0..(n + 1) BY <1>0
  <2>3. \A k \in Nat : k < n + 1 /\ k \in S => k + 1 \in S BY <1>2
  <2> DEFINE m == n + 1
  <2> HIDE DEF m
  <2>4. \A k \in 0..m : k \in S BY <1>1, <2>1, <2>2, <2>3, Climb DEF m
  <2> QED BY <2>2, <2>4 DEF m
<1>4. PICK f : \A i \in 1..n : f[i] = ColumnsThrough(p[i], f)
  <2>1. PICK f : Upto(f, n + 1) BY <1>3
  <2>2. \A i \in 1..n : i < n + 1 BY <1>0
  <2> QED BY <2>1, <2>2
<1> DEFINE g == [i \in 1..n |-> f[i]]
           e(columns) == [i \in DOMAIN p |-> ColumnsThrough(p[i], columns)]
           t == CHOOSE columns : columns = e(columns)
<1>5. \A i \in 1..n : ColumnsThrough(p[i], g) = ColumnsThrough(p[i], f)
  <2> SUFFICES ASSUME NEW i \in 1..n PROVE ColumnsThrough(p[i], g) = ColumnsThrough(p[i], f)
    OBVIOUS
  <2>1. Alike(g, f, n, i) BY DEF Alike
  <2> HIDE DEF g
  <2> QED BY <2>1, <1>a
<1>6. g = e(g) BY <1>0, <1>4, <1>5
<1>7. t = e(t)
  <2> HIDE DEF e, g
  <2> QED BY <1>6
<1>8. ColumnsOf(p) = t BY DEF ColumnsOf, ColumnsThrough
<1> HIDE DEF t
<1>9. \A i \in 1..n : t[i] = ColumnsThrough(p[i], t)
  BY <1>0, <1>7
<1> QED BY <1>8, <1>9 DEF n

\* Streaming does not matter to the text of a statement.
LEMMA RestreamedExtracts ==
  ASSUME NEW b, IsTree(b), NEW p, Restreamed(b, p), NEW c \in 1..Len(b)
  PROVE  /\ ExtractFilters(p, c) = ExtractFilters(b, c)
         /\ Supported(p, c) <=> Supported(b, c)
<1> DEFINE n == Len(b)
           S == {i \in 1..n : Below(p)[i] = Below(b)[i]}
<1>1. IsTree(p) /\ Len(p) = n /\ n \in Nat BY RestreamedIsTree, TreeIs DEF Restreamed
<1>2. \A i \in 1..n : /\ p[i].op = b[i].op /\ p[i].children = b[i].children
                      /\ Passed(b[i]) => p[i] = b[i]
                      /\ Extracted(p[i]) = Extracted(b[i])
  <2> SUFFICES ASSUME NEW i \in 1..n
               PROVE  /\ p[i].op = b[i].op /\ p[i].children = b[i].children
                      /\ Passed(b[i]) => p[i] = b[i]
                      /\ Extracted(p[i]) = Extracted(b[i])
    OBVIOUS
  <2>1. CASE b[i].op # "get"
    <3>1. p[i] = b[i] BY <2>1 DEF Restreamed
    <3> QED BY <3>1
  <2>2. CASE b[i].op = "get"
    <3>1. SameScan(b[i], p[i]) /\ p[i].children = b[i].children BY <2>2 DEF Restreamed
    <3>2. p[i].op = "get" /\ p[i].names = b[i].names /\ p[i].column_ids = b[i].column_ids
          /\ p[i].filters = b[i].filters
      BY <2>2, <3>1 DEF SameScan
    <3>3. Extracted(p[i]) = Extracted(b[i])
      <4>1. Extracted(b[i]) = {Printed(b[i].names[b[i].column_ids[k]], b[i].filters[k]) : k \in DOMAIN b[i].filters}
        BY <2>2 DEF Extracted
      <4>2. Extracted(p[i]) = {Printed(p[i].names[p[i].column_ids[k]], p[i].filters[k]) : k \in DOMAIN p[i].filters}
        BY <3>2 DEF Extracted
      <4> QED BY <3>2, <4>1, <4>2
    <3> QED BY <2>2, <3>1, <3>2, <3>3 DEF Passed
  <2> QED BY <2>1, <2>2
<1>3. \A i \in 1..n : Passed(p[i]) <=> Passed(b[i]) BY <1>2 DEF Passed
<1>4. /\ \A i \in 1..n :
           Below(p)[i] = {i} \cup (IF Passed(p[i]) THEN Below(p)[p[i].children[1]] ELSE {})
      /\ \A i \in 1..n :
           Below(b)[i] = {i} \cup (IF Passed(b[i]) THEN Below(b)[b[i].children[1]] ELSE {})
      /\ \A i \in 1..n : Below(b)[i] \subseteq 1..i
  BY <1>1, BelowIs
<1>5. \A i \in 1..n : Passed(b[i]) => b[i].children[1] \in 1..n /\ b[i].children[1] < i
  BY TreeIs DEF Passed
<1>6. ASSUME NEW i \in 1..n, \A j \in 1..n : j < i => j \in S
      PROVE  i \in S
  <2>1. CASE Passed(b[i])
    <3> DEFINE c1 == b[i].children[1]
    <3>1. c1 \in 1..n /\ c1 < i BY <1>5, <2>1
    <3>2. c1 \in S BY <1>6, <3>1
    <3>3. p[i].children[1] = c1 /\ Passed(p[i]) BY <1>2, <1>3, <2>1
    <3> HIDE DEF c1
    <3>4. Below(p)[c1] = Below(b)[c1] BY <3>2
    <3>5. Below(p)[i] = {i} \cup Below(p)[c1] BY <1>4, <3>3
    <3>6. Below(b)[i] = {i} \cup Below(b)[c1] BY <1>4, <2>1 DEF c1
    <3> QED BY <3>4, <3>5, <3>6
  <2>2. CASE ~Passed(b[i])
    <3>1. Below(p)[i] = {i} BY <1>3, <1>4, <2>2
    <3>2. Below(b)[i] = {i} BY <1>4, <2>2
    <3> QED BY <3>1, <3>2
  <2> QED BY <2>1, <2>2
<1>7. Below(p)[c] = Below(b)[c] /\ Below(b)[c] \subseteq 1..n
  <2>1. \A i \in 1..n : i \in S
    <3> HIDE DEF S
    <3> QED BY <1>1, <1>6, FromThoseBefore
  <2>2. 1..c \subseteq 1..n BY <1>1
  <2> QED BY <1>4, <2>1, <2>2
<1>8. ExtractFilters(p, c) = ExtractFilters(b, c)
  <2> DEFINE B == Below(b)[c]
  <2>1. {Extracted(p[i]) : i \in B} = {Extracted(b[i]) : i \in B} BY <1>2, <1>7
  <2> QED BY <1>7, <2>1 DEF ExtractFilters
<1>9. Supported(p, c) <=> Supported(b, c)
  <2>1. \A i \in Below(b)[c] :
          /\ p[i].op = b[i].op
          /\ b[i].op = "projection" => p[i].select_list = b[i].select_list
    BY <1>2, <1>7 DEF Passed
  <2> QED BY <1>7, <2>1 DEF Supported
<1> QED BY <1>8, <1>9

\* What is below an operator that is below another is below that one.
LEMMA BelowIsClosed ==
  ASSUME NEW p, IsTree(p), NEW c \in 1..Len(p), NEW x \in Below(p)[c], Passed(p[x])
  PROVE  p[x].children[1] \in Below(p)[c]
<1> DEFINE n == Len(p)
           S == {i \in 1..n : x \in Below(p)[i] => p[x].children[1] \in Below(p)[i]}
<1>1. /\ n \in Nat
      /\ \A i \in 1..n : Passed(p[i]) => p[i].children[1] \in 1..n /\ p[i].children[1] < i
  BY TreeIs DEF Passed
<1>2. /\ \A i \in 1..n :
           Below(p)[i] = {i} \cup (IF Passed(p[i]) THEN Below(p)[p[i].children[1]] ELSE {})
      /\ \A i \in 1..n : Below(p)[i] \subseteq 1..i
  BY BelowIs
<1>3. x \in 1..n
  <2>1. x \in 1..c BY <1>2
  <2> QED BY <1>1, <2>1
<1>4. p[x].children[1] \in 1..n BY <1>1, <1>3
<1>5. p[x].children[1] \in Below(p)[p[x].children[1]] BY <1>2, <1>4
<1>6. ASSUME NEW i \in 1..n, \A j \in 1..n : j < i => j \in S
      PROVE  i \in S
  <2> SUFFICES ASSUME x \in Below(p)[i] PROVE p[x].children[1] \in Below(p)[i]
    OBVIOUS
  <2>1. CASE x = i
    <3>1. Below(p)[i] = {i} \cup Below(p)[p[i].children[1]] BY <1>2, <2>1
    <3> QED BY <1>5, <2>1, <3>1
  <2>2. CASE x # i
    <3>1. Passed(p[i]) /\ x \in Below(p)[p[i].children[1]] BY <1>2, <2>2
    <3>2. p[i].children[1] \in S BY <1>1, <1>6, <3>1
    <3>3. p[x].children[1] \in Below(p)[p[i].children[1]] BY <3>1, <3>2
    <3>4. Below(p)[i] = {i} \cup Below(p)[p[i].children[1]] BY <1>2, <3>1
    <3> QED BY <3>3, <3>4
  <2> QED BY <2>1, <2>2
<1>7. \A i \in 1..n : i \in S
  <2> HIDE DEF S
  <2> QED BY <1>1, <1>6, FromThoseBefore
<1> QED BY <1>7

\* Going down ends at one operator.
LEMMA BelowEnds ==
  ASSUME NEW p, IsTree(p), NEW c \in 1..Len(p)
  PROVE  /\ \E x \in Below(p)[c] : ~Passed(p[x])
         /\ \A x, y \in Below(p)[c] : ~Passed(p[x]) /\ ~Passed(p[y]) => x = y
<1> DEFINE n == Len(p)
           Ends(i) == /\ \E x \in Below(p)[i] : ~Passed(p[x])
                      /\ \A x, y \in Below(p)[i] : ~Passed(p[x]) /\ ~Passed(p[y]) => x = y
           S == {i \in 1..n : Ends(i)}
<1>1. /\ n \in Nat
      /\ \A i \in 1..n : Passed(p[i]) => p[i].children[1] \in 1..n /\ p[i].children[1] < i
  BY TreeIs DEF Passed
<1>2. \A i \in 1..n :
        Below(p)[i] = {i} \cup (IF Passed(p[i]) THEN Below(p)[p[i].children[1]] ELSE {})
  BY BelowIs
<1>3. ASSUME NEW i \in 1..n, \A j \in 1..n : j < i => j \in S
      PROVE  i \in S
  <2>1. CASE Passed(p[i])
    <3>1. Ends(p[i].children[1]) BY <1>1, <1>3, <2>1
    <3>2. Below(p)[i] = {i} \cup Below(p)[p[i].children[1]] BY <1>2, <2>1
    <3>3. Ends(i) BY <2>1, <3>1, <3>2
    <3> QED BY <3>3
  <2>2. CASE ~Passed(p[i])
    <3>1. Below(p)[i] = {i} BY <1>2, <2>2
    <3>2. Ends(i) BY <2>2, <3>1
    <3> QED BY <3>2
  <2> QED BY <2>1, <2>2
<1>4. \A i \in 1..n : i \in S
  <2> HIDE DEF S
  <2> QED BY <1>1, <1>3, FromThoseBefore
<1> QED BY <1>4

\* A write over one branch has one scan.
LEMMA OnlyScan ==
  ASSUME NEW p, IsTree(p), DOMAIN Root(p).children = 1..1,
         \A i \in DOMAIN p : i = Len(p) \/ \E j \in DOMAIN p : \E k \in DOMAIN p[j].children :
                                             p[j].children[k] = i,
         NEW top, top = Root(p).children[1],
         \A i \in Below(p)[top] : p[i].op \in {"filter", "projection", "get"}, Root(p).op # "get"
  PROVE  \E e \in Below(p)[top] :
           e \in 1..Len(p) /\ p[e].op = "get" /\ \A i \in 1..Len(p) : p[i].op = "get" => i = e
<1> DEFINE n == Len(p)
           back(i) == n + 1 - i
           S == {m \in 1..n : back(m) = n \/ back(m) \in Below(p)[top]}
<1>1. /\ n \in Nat /\ n \in 1..n /\ DOMAIN p = 1..n
      /\ \A i \in 1..n : p[i].op # "get" => p[i].children[1] \in 1..n /\ p[i].children[1] < i
  BY TreeIs
<1>2. top \in 1..n /\ top < n BY <1>1 DEF Root
<1>3. Below(p)[top] \subseteq 1..n /\ top \in Below(p)[top]
  <2>1. Below(p)[top] \subseteq 1..top /\ top \in Below(p)[top] BY <1>2, BelowIs
  <2>2. 1..top \subseteq 1..n BY <1>1, <1>2
  <2> QED BY <2>1, <2>2
<1>4. \A j \in 1..n : /\ DOMAIN p[j].children = 1..Inputs(p[j].op)
                      /\ \A k \in DOMAIN p[j].children : p[j].children[k] \in 1..(j - 1)
  BY <1>1 DEF IsTree
<1>5. \A j \in 1..n : \A k \in DOMAIN p[j].children :
        j = n \/ j \in Below(p)[top] => p[j].children[k] \in Below(p)[top]
  <2> SUFFICES ASSUME NEW j \in 1..n, NEW k \in DOMAIN p[j].children,
                      j = n \/ j \in Below(p)[top]
               PROVE  p[j].children[k] \in Below(p)[top]
    OBVIOUS
  <2>1. CASE j = n
    <3>1. k = 1 BY <1>1, <2>1 DEF Root
    <3> QED BY <1>3, <2>1, <3>1 DEF Root
  <2>2. CASE j \in Below(p)[top]
    <3>1. p[j].op \in {"filter", "projection", "get"} /\ k \in 1..Inputs(p[j].op) BY <1>4, <2>2
    <3>2. p[j].op # "get" /\ k = 1 BY <3>1 DEF Inputs
    <3>3. Passed(p[j]) BY <3>1, <3>2 DEF Passed
    <3> QED BY <1>2, <2>2, <3>2, <3>3, BelowIsClosed
  <2> QED BY <2>1, <2>2
<1>6. ASSUME NEW m \in 1..n, \A j \in 1..n : j < m => j \in S
      PROVE  m \in S
  <2> DEFINE i == back(m)
  <2>1. i \in 1..n BY <1>1
  <2>2. CASE i = n BY <2>2
  <2>3. CASE i # n
    <3>1. PICK j \in 1..n : \E k \in DOMAIN p[j].children : p[j].children[k] = i
      BY <1>1, <2>1, <2>3
    <3>2. PICK k \in DOMAIN p[j].children : p[j].children[k] = i BY <3>1
    <3>3. i < j BY <1>4, <2>1, <3>2
    <3>4. back(j) \in 1..n /\ back(j) < m /\ back(back(j)) = j BY <1>1, <3>3
    <3>5. back(j) \in S BY <1>6, <3>4
    <3> HIDE DEF i, back
    <3>6. j = n \/ j \in Below(p)[top] BY <3>4, <3>5
    <3>7. i \in Below(p)[top] BY <1>5, <3>2, <3>6
    <3> QED BY <3>7 DEF i
  <2> QED BY <2>2, <2>3
<1>7. \A m \in 1..n : m \in S
  <2> HIDE DEF S
  <2> QED BY <1>1, <1>6, FromThoseBefore
<1>8. \A i \in 1..n : i = n \/ i \in Below(p)[top]
  <2> SUFFICES ASSUME NEW i \in 1..n PROVE i = n \/ i \in Below(p)[top]
    OBVIOUS
  <2>1. back(i) \in 1..n /\ back(back(i)) = i BY <1>1
  <2>2. back(i) \in S BY <1>7, <2>1
  <2> HIDE DEF back
  <2> QED BY <2>1, <2>2
<1>9. PICK e \in Below(p)[top] : ~Passed(p[e]) BY <1>2, BelowEnds
<1>10. \A i \in Below(p)[top] : p[i].op = "get" <=> ~Passed(p[i]) BY DEF Passed
<1>11. \A i \in 1..n : p[i].op = "get" => i = e
  <2> SUFFICES ASSUME NEW i \in 1..n, p[i].op = "get" PROVE i = e
    OBVIOUS
  <2>1. i # n BY DEF Root
  <2>2. i \in Below(p)[top] BY <1>8, <2>1
  <2>3. ~Passed(p[i]) BY <1>10, <2>2
  <2> QED BY <1>2, <1>9, <2>2, <2>3, BelowEnds
<1>12. e \in 1..n /\ p[e].op = "get" BY <1>3, <1>9, <1>10
<1> QED BY <1>9, <1>11, <1>12

\* The conditions of an operator are its own and those below it.
LEMMA ExtractedIs ==
  ASSUME NEW p, IsTree(p), NEW i \in 1..Len(p)
  PROVE  /\ ~Passed(p[i]) => ExtractFilters(p, i) = Extracted(p[i])
         /\ Passed(p[i]) =>
              ExtractFilters(p, i) = Extracted(p[i]) \cup ExtractFilters(p, p[i].children[1])
<1> DEFINE F(S) == {Extracted(p[j]) : j \in S}
<1>1. Below(p)[i] = {i} \cup (IF Passed(p[i]) THEN Below(p)[p[i].children[1]] ELSE {})
  BY BelowIs
<1>2. \A c : ExtractFilters(p, c) = UNION F(Below(p)[c]) BY DEF ExtractFilters
<1>3. CASE ~Passed(p[i])
  <2>1. F(Below(p)[i]) = {Extracted(p[i])} BY <1>1, <1>3
  <2> HIDE DEF F
  <2> QED BY <1>2, <1>3, <2>1
<1>4. CASE Passed(p[i])
  <2> DEFINE B == Below(p)[p[i].children[1]]
  <2>1. Below(p)[i] = {i} \cup B BY <1>1, <1>4
  <2> HIDE DEF B
  <2>2. F(Below(p)[i]) = {Extracted(p[i])} \cup F(B) BY <2>1
  <2> HIDE DEF F
  <2> QED BY <1>2, <1>4, <2>2 DEF B
<1> QED BY <1>3, <1>4

\* What holds of two sets of conditions.
LEMMA MatchesBoth ==
  ASSUME NEW A, NEW B, NEW r
  PROVE  Matches(A \cup B, r) <=> Matches(A, r) /\ Matches(B, r)
BY DEF Matches

\* The filters of a scan as conditions.
LEMMA ExtractedOfGet ==
  ASSUME NEW get, get.op = "get", NEW r
  PROVE  Matches(Extracted(get), r) <=>
           \A k \in DOMAIN get.filters :
             Passes(get.filters[k], r[get.names[get.column_ids[k]]])
<1> DEFINE name(k) == get.names[get.column_ids[k]]
<1>1. Extracted(get) = {Printed(name(k), get.filters[k]) : k \in DOMAIN get.filters}
  BY DEF Extracted
<1>2. \A k : Holds(Printed(name(k), get.filters[k]), r) <=> Passes(get.filters[k], r[name(k)])
  BY PrintedHolds
<1>3. Matches(Extracted(get), r) <=> \A k \in DOMAIN get.filters : Holds(Printed(name(k), get.filters[k]), r)
  BY <1>1 DEF Matches
<1> QED BY <1>2, <1>3

\* What comes out of an operator for one row of the table, if its conditions hold.
SeenOf(p, i, r, rows, tuple) ==
  /\ rows = IF Matches(ExtractFilters(p, i), r) THEN <<tuple>> ELSE <<>>
  /\ \A k \in DOMAIN ColumnsOf(p)[i] :
       ColumnsOf(p)[i][k] # NULL => tuple[k] = r[ColumnsOf(p)[i][k]]

\* A scan gives the row if the conditions of its filters hold.
LEMMA SeenOfGet ==
  ASSUME NEW p, IsTree(p), NEW i \in 1..Len(p), p[i].op = "get", NEW r
  PROVE  \E tuple : SeenOf(p, i, r, ScanOf(p[i], <<r>>), tuple)
<1> DEFINE get == p[i]
           tuple == [k \in DOMAIN get.column_ids |-> Column(get, k, r)]
           passes == \A k \in DOMAIN get.filters :
                       Passes(get.filters[k], r[get.names[get.column_ids[k]]])
<1>1. ScanOf(get, <<r>>) = IF passes THEN <<tuple>> ELSE <<>> BY ScanOfRow
<1>2. ExtractFilters(p, i) = Extracted(get) BY ExtractedIs DEF Passed
<1>3. Matches(Extracted(get), r) <=> passes BY ExtractedOfGet
<1>4. ColumnsOf(p)[i] = ColumnsRead(get) BY ColumnsOfIs DEF ColumnsThrough
<1>5. \A k \in DOMAIN ColumnsRead(get) :
        ColumnsRead(get)[k] # NULL => tuple[k] = r[ColumnsRead(get)[k]]
  BY DEF ColumnsRead, Column
<1> HIDE DEF tuple, passes
<1> QED BY <1>1, <1>2, <1>3, <1>4, <1>5 DEF SeenOf

\* A filter adds its condition.
LEMMA SeenOfFilter ==
  ASSUME NEW p, IsTree(p), NEW i \in 1..Len(p), p[i].op = "filter", NEW r,
         Refers(p[i], ColumnsOf(p)[p[i].children[1]]),
         NEW rows, NEW tuple, SeenOf(p, p[i].children[1], r, rows, tuple)
  PROVE  SeenOf(p, i, r, Filtered(p[i].filter, p[i].index, rows), tuple)
<1> DEFINE c == p[i].children[1]
           passes == Passes(p[i].filter, r[p[i].name])
           own == {Printed(p[i].name, p[i].filter)}
           seen == Filtered(p[i].filter, p[i].index, rows)
<1>1. ColumnsOf(p)[i] = ColumnsOf(p)[c] BY ColumnsOfIs DEF ColumnsThrough
<1>2. Extracted(p[i]) = own BY DEF Extracted
<1>3. ExtractFilters(p, i) = own \cup ExtractFilters(p, c) BY <1>2, ExtractedIs DEF Passed
<1>4. Matches(own, r) <=> passes BY PrintedHolds DEF Matches
<1>5. tuple[p[i].index] = r[p[i].name] BY DEF Refers, SeenOf
<1>6. /\ Filtered(p[i].filter, p[i].index, <<tuple>>) = IF passes THEN <<tuple>> ELSE <<>>
      /\ Filtered(p[i].filter, p[i].index, <<>>) = <<>>
  BY <1>5, OneRow
<1>7. rows = IF Matches(ExtractFilters(p, c), r) THEN <<tuple>> ELSE <<>> BY DEF SeenOf
<1>8. Matches(ExtractFilters(p, i), r) <=> passes /\ Matches(ExtractFilters(p, c), r)
  <2> HIDE DEF own, passes
  <2> QED BY <1>3, <1>4, MatchesBoth
<1> HIDE DEF passes
<1>9. seen = IF Matches(ExtractFilters(p, i), r) THEN <<tuple>> ELSE <<>>
  BY <1>6, <1>7, <1>8
<1> QED BY <1>1, <1>9 DEF SeenOf

\* A projection only moves columns.
LEMMA SeenOfProjection ==
  ASSUME NEW p, IsTree(p), NEW i \in 1..Len(p), p[i].op = "projection", NEW r,
         NEW rows, NEW tuple, SeenOf(p, p[i].children[1], r, rows, tuple)
  PROVE  \E t : SeenOf(p, i, r, Projected(p[i].select_list, rows), t)
<1> DEFINE c == p[i].children[1]
           list == p[i].select_list
           t == [k \in DOMAIN list |-> ValueOf(list[k], tuple)]
<1>1. ColumnsOf(p)[i] =
        [k \in DOMAIN list |->
            IF list[k].type = "BOUND_REF" /\ list[k].index \in DOMAIN ColumnsOf(p)[c]
            THEN ColumnsOf(p)[c][list[k].index] ELSE NULL]
  BY ColumnsOfIs DEF ColumnsThrough
<1>2. Extracted(p[i]) = {} BY DEF Extracted
<1>3. ExtractFilters(p, i) = ExtractFilters(p, c)
  <2>1. Passed(p[i]) BY DEF Passed
  <2>2. ExtractFilters(p, i) = Extracted(p[i]) \cup ExtractFilters(p, c) BY <2>1, ExtractedIs
  <2> QED BY <1>2, <2>2
<1>4. /\ Projected(list, <<tuple>>) = <<t>>
      /\ Projected(list, <<>>) = <<>>
  BY OneRow
<1>5. \A k \in DOMAIN ColumnsOf(p)[i] :
        ColumnsOf(p)[i][k] # NULL => t[k] = r[ColumnsOf(p)[i][k]]
  <2> SUFFICES ASSUME NEW k \in DOMAIN list, ColumnsOf(p)[i][k] # NULL
               PROVE  t[k] = r[ColumnsOf(p)[i][k]]
    BY <1>1
  <2>1. /\ list[k].type = "BOUND_REF" /\ list[k].index \in DOMAIN ColumnsOf(p)[c]
        /\ ColumnsOf(p)[i][k] = ColumnsOf(p)[c][list[k].index]
    BY <1>1
  <2>2. t[k] = tuple[list[k].index] BY <2>1 DEF ValueOf
  <2>3. tuple[list[k].index] = r[ColumnsOf(p)[c][list[k].index]] BY <2>1 DEF SeenOf
  <2> QED BY <2>1, <2>2, <2>3
<1> HIDE DEF t
<1>6. rows = IF Matches(ExtractFilters(p, c), r) THEN <<tuple>> ELSE <<>> BY DEF SeenOf
<1>7. SeenOf(p, i, r, Projected(list, rows), t)
  BY <1>3, <1>4, <1>5, <1>6 DEF SeenOf
<1> QED BY <1>7

\* What comes out of the operators an UPDATE or DELETE goes down through.
LEMMA RowIsSeen ==
  ASSUME NEW p, IsTree(p), NEW r, NEW sc,
         \A i \in 1..Len(p) : p[i].op = "get" => sc[p[i].table_index] = ScanOf(p[i], <<r>>),
         \A i \in 1..Len(p) : p[i].op = "filter" => Refers(p[i], ColumnsOf(p)[p[i].children[1]]),
         NEW x \in 1..Len(p), \A i \in Below(p)[x] : p[i].op \in {"filter", "projection", "get"}
  PROVE  \E tuple : SeenOf(p, x, r, Evaluate(p, sc)[x], tuple)
<1> DEFINE n == Len(p)
           E == Evaluate(p, sc)
           Plain(i) == \A j \in Below(p)[i] : p[j].op \in {"filter", "projection", "get"}
           S == {i \in 1..n : Plain(i) => \E tuple : SeenOf(p, i, r, E[i], tuple)}
<1>1. /\ n \in Nat
      /\ \A i \in 1..n : p[i].op # "get" => p[i].children[1] \in 1..n /\ p[i].children[1] < i
  BY TreeIs
<1>2. \A i \in 1..n :
        Below(p)[i] = {i} \cup (IF Passed(p[i]) THEN Below(p)[p[i].children[1]] ELSE {})
  BY BelowIs
<1>3. \A i \in 1..n : E[i] = Operate(p[i], sc, E) BY TreeCanRun, EvaluateIs
<1> HIDE DEF E
<1>4. ASSUME NEW i \in 1..n, \A j \in 1..n : j < i => j \in S
      PROVE  i \in S
  <2> SUFFICES ASSUME Plain(i) PROVE \E tuple : SeenOf(p, i, r, E[i], tuple)
    OBVIOUS
  <2> DEFINE c == p[i].children[1]
  <2>1. p[i].op \in {"filter", "projection", "get"} BY <1>2
  <2>2. CASE p[i].op = "get"
    <3>1. E[i] = ScanOf(p[i], <<r>>) BY <1>3, <2>2 DEF Operate
    <3> QED BY <2>2, <3>1, SeenOfGet
  <2>3. ASSUME p[i].op # "get" PROVE \E tuple : SeenOf(p, c, r, E[c], tuple)
    <3>1. Passed(p[i]) BY <2>1, <2>3 DEF Passed
    <3>2. Plain(c) BY <1>2, <3>1
    <3>3. c \in S BY <1>1, <1>4, <2>3
    <3> HIDE DEF Plain
    <3> QED BY <3>2, <3>3
  <2>4. CASE p[i].op = "filter"
    <3>1. E[i] = Filtered(p[i].filter, p[i].index, E[c]) BY <1>3, <2>4 DEF Operate
    <3>2. PICK tuple : SeenOf(p, c, r, E[c], tuple) BY <2>3, <2>4
    <3>3. Refers(p[i], ColumnsOf(p)[c]) BY <2>4
    <3> DEFINE rows == E[c]
               seen == Filtered(p[i].filter, p[i].index, rows)
    <3>4. E[i] = seen BY <3>1
    <3> HIDE DEF rows
    <3>5. SeenOf(p, i, r, seen, tuple) BY <2>4, <3>2, <3>3, SeenOfFilter DEF rows
    <3>6. SeenOf(p, i, r, E[i], tuple) BY <3>4, <3>5
    <3> QED BY <3>6
  <2>5. CASE p[i].op = "projection"
    <3>1. E[i] = Projected(p[i].select_list, E[c]) BY <1>3, <2>5 DEF Operate
    <3>2. PICK tuple : SeenOf(p, c, r, E[c], tuple) BY <2>3, <2>5
    <3> QED BY <2>5, <3>1, <3>2, SeenOfProjection
  <2> QED BY <2>1, <2>2, <2>4, <2>5
<1>5. \A i \in 1..n : i \in S
  <2> HIDE DEF S
  <2> QED BY <1>1, <1>4, FromThoseBefore
<1>6. Plain(x) /\ x \in S BY <1>5
<1> HIDE DEF Plain
<1>7. \E tuple : SeenOf(p, x, r, E[x], tuple) BY <1>6
<1> QED BY <1>7 DEF E

\* One assignment of an UPDATE.
Assign(row, a) == [row EXCEPT ![a.column] = SQLValue(a.value, row)]

\* Assigned satisfies its recursive definition.
LEMMA AssignedSteps ==
  ASSUME NEW set, Len(set) \in Nat, NEW row
  PROVE  \E t : /\ Assigned(set, row) = t[Len(set)] /\ t[0] = row
                /\ \A c \in 1..Len(set) : t[c] = Assign(t[c - 1], set[c])
<1> DEFINE n == Len(set)
           Step(f, c) == IF c = 0 THEN row ELSE Assign(f[c - 1], set[c])
           Upto(f, k) == \A c \in 0..n : c < k => f[c] = Step(f, c)
           S == {k \in Nat : \E f : Upto(f, k)}
<1>1. 0 \in S
  <2>1. Upto(<<>>, 0) OBVIOUS
  <2> HIDE DEF Upto
  <2> QED BY <2>1
<1>2. ASSUME NEW k \in Nat, k < n + 1, k \in S
      PROVE  k + 1 \in S
  <2>1. PICK f : Upto(f, k) BY <1>2
  <2> DEFINE g == [c \in 0..n |-> IF c = k THEN Step(f, c) ELSE f[c]]
  <2>2. \A c \in 0..n : c < k + 1 => Step(g, c) = Step(f, c)
    <3> SUFFICES ASSUME NEW c \in 0..n, c < k + 1 PROVE Step(g, c) = Step(f, c)
      OBVIOUS
    <3>1. CASE c = 0 BY <3>1
    <3>2. CASE c # 0
      <4>1. c - 1 \in 0..n /\ c - 1 # k BY <3>2
      <4>2. g[c - 1] = f[c - 1] BY <4>1
      <4> HIDE DEF g
      <4> QED BY <3>2, <4>2
    <3> QED BY <3>1, <3>2
  <2>3. \A c \in 0..n : g[c] = IF c = k THEN Step(f, c) ELSE f[c]
    OBVIOUS
  <2>4. Upto(g, k + 1)
    <3> HIDE DEF g, Step
    <3> QED BY <1>2, <2>1, <2>2, <2>3
  <2> HIDE DEF g, Upto
  <2> QED BY <2>4
<1>3. n + 1 \in S
  <2>1. S \subseteq Nat OBVIOUS
  <2> HIDE DEF S
  <2>2. n + 1 \in Nat /\ n + 1 \in 0..(n + 1) OBVIOUS
  <2>3. \A k \in Nat : k < n + 1 /\ k \in S => k + 1 \in S BY <1>2
  <2> DEFINE m == n + 1
  <2> HIDE DEF m
  <2>4. \A k \in 0..m : k \in S BY <1>1, <2>1, <2>2, <2>3, Climb DEF m
  <2> QED BY <2>2, <2>4 DEF m
<1>4. PICK f : \A c \in 0..n : f[c] = Step(f, c)
  <2>1. PICK f : Upto(f, n + 1) BY <1>3
  <2>2. \A c \in 0..n : c < n + 1 OBVIOUS
  <2> HIDE DEF Step
  <2> QED BY <2>1, <2>2
<1> DEFINE g == [c \in 0..n |-> f[c]]
           e(after) == [c \in 0..n |-> Step(after, c)]
           t == CHOOSE after : after = e(after)
<1>5. \A c \in 0..n : Step(g, c) = Step(f, c)
  <2> SUFFICES ASSUME NEW c \in 0..n PROVE Step(g, c) = Step(f, c)
    OBVIOUS
  <2>1. c # 0 => g[c - 1] = f[c - 1] OBVIOUS
  <2> HIDE DEF g
  <2> QED BY <2>1
<1>6. g = e(g)
  <2> HIDE DEF Step
  <2> QED BY <1>4, <1>5
<1>7. t = e(t)
  <2> HIDE DEF e, g
  <2> QED BY <1>6
<1>8. Assigned(set, row) = t[n] BY DEF Assigned, Assign
<1> HIDE DEF t
<1>9. \A c \in 0..n : t[c] = Step(t, c)
  <2> HIDE DEF Step
  <2> QED BY <1>7
<1>10. t[0] = row BY <1>9
<1>11. \A c \in 1..n : t[c] = Assign(t[c - 1], set[c]) BY <1>9
<1> QED BY <1>8, <1>10, <1>11

\* A value that is taken from a column.
Reads(e, column) == e.type \in {"BOUND_REF", "FUNCTION"} /\ e.name = column

\* What an UPDATE makes of a row when no assignment reads what one before it
\* has written: each column has its value on the row before.
LEMMA AssignedIs ==
  ASSUME NEW set, Len(set) \in Nat \ {0}, NEW row,
         \A c \in 1..Len(set) : /\ set[c].value.type \in {"DEFAULT", "BOUND_REF", "VALUE_CONSTANT", "FUNCTION"}
                                /\ \A x : Reads(set[c].value, x) => x \in DOMAIN row,
         \A c, d \in 1..Len(set) : set[c].column = set[d].column => c = d,
         \A c, d \in 1..Len(set) : d < c => ~Reads(set[c].value, set[d].column)
  PROVE  LET after == Assigned(set, row) IN
         /\ after = [x \in DOMAIN row |-> after[x]]
         /\ \A x \in DOMAIN row :
              (\A c \in 1..Len(set) : set[c].column # x) => after[x] = row[x]
         /\ \A c \in 1..Len(set) : set[c].column \in DOMAIN row =>
              after[set[c].column] = SQLValue(set[c].value, row)
<1> DEFINE n == Len(set)
<1>1. PICK t : /\ Assigned(set, row) = t[n] /\ t[0] = row
               /\ \A c \in 1..n : t[c] = Assign(t[c - 1], set[c])
  BY AssignedSteps
<1>2. n \in Nat /\ n # 0 OBVIOUS
<1> HIDE DEF n
<1> DEFINE Right(k) ==
             /\ DOMAIN t[k] = DOMAIN row
             /\ k # 0 => t[k] = [x \in DOMAIN row |-> t[k][x]]
             /\ \A x \in DOMAIN row :
                  (\A c \in 1..k : set[c].column # x) => t[k][x] = row[x]
             /\ \A c \in 1..k : set[c].column \in DOMAIN row =>
                  t[k][set[c].column] = SQLValue(set[c].value, row)
           S == {k \in 0..n : Right(k)}
<1>3. 0 \in S
  <2>1. Right(0) BY <1>1
  <2> HIDE DEF Right
  <2> QED BY <1>2, <2>1
<1>4. ASSUME NEW k \in Nat, k < n, k \in S
      PROVE  k + 1 \in S
  <2> DEFINE a == set[k + 1]
             old == t[k]
             new == t[k + 1]
             v == SQLValue(a.value, old)
  <2>1. Right(k) BY <1>4
  <2>2. k + 1 \in 1..n /\ (k + 1) - 1 = k BY <1>2, <1>4
  <2>3. new = [old EXCEPT ![a.column] = v] BY <1>1, <2>2 DEF Assign
  <2>4. v = SQLValue(a.value, row)
    <3>1. a.value.type \in {"DEFAULT", "BOUND_REF", "VALUE_CONSTANT", "FUNCTION"} BY <2>2 DEF n
    <3>2. CASE a.value.type \in {"BOUND_REF", "FUNCTION"}
      <4>1. Reads(a.value, a.value.name) BY <3>2 DEF Reads
      <4>2. a.value.name \in DOMAIN row BY <2>2, <4>1 DEF n
      <4>3. \A c \in 1..k : set[c].column # a.value.name
        <5> SUFFICES ASSUME NEW c \in 1..k PROVE set[c].column # a.value.name
          OBVIOUS
        <5>1. c \in 1..n /\ c < k + 1 BY <1>2, <1>4, <2>2
        <5>2. ~Reads(a.value, set[c].column) BY <2>2, <5>1 DEF n
        <5> QED BY <4>1, <5>2
      <4>4. old[a.value.name] = row[a.value.name] BY <2>1, <4>2, <4>3
      <4> HIDE DEF a, old
      <4> QED BY <3>2, <4>4 DEF SQLValue
    <3>3. CASE a.value.type \in {"DEFAULT", "VALUE_CONSTANT"}
      <4> HIDE DEF a, old
      <4> QED BY <3>3 DEF SQLValue
    <3> QED BY <3>1, <3>2, <3>3
  <2> HIDE DEF v, old, new
  <2>5. /\ DOMAIN old = DOMAIN row
        /\ \A x \in DOMAIN row : (\A c \in 1..k : set[c].column # x) => old[x] = row[x]
        /\ \A c \in 1..k : set[c].column \in DOMAIN row =>
             old[set[c].column] = SQLValue(set[c].value, row)
    BY <2>1 DEF old
  <2> HIDE DEF Right
  <2>6. DOMAIN new = DOMAIN row /\ new = [x \in DOMAIN row |-> new[x]]
    <3>1. \A f, x, y : DOMAIN [f EXCEPT ![x] = y] = DOMAIN f
                       /\ [f EXCEPT ![x] = y] = [z \in DOMAIN f |-> [f EXCEPT ![x] = y][z]]
      OBVIOUS
    <3> QED BY <2>3, <2>5, <3>1
  <2>7. \A x \in DOMAIN row : new[x] = IF x = a.column THEN v ELSE old[x]
    BY <2>3, <2>5
  <2>8. \A c \in 1..(k + 1) : c \in 1..k \/ c = k + 1 BY <1>4
  <2>9. \A x \in DOMAIN row :
          (\A c \in 1..(k + 1) : set[c].column # x) => new[x] = row[x]
    <3>1. 1..k \subseteq 1..(k + 1) /\ k + 1 \in 1..(k + 1) BY <1>4
    <3> QED BY <2>5, <2>7, <3>1
  <2>10. \A c \in 1..(k + 1) : set[c].column \in DOMAIN row =>
           new[set[c].column] = SQLValue(set[c].value, row)
    <3> SUFFICES ASSUME NEW c \in 1..(k + 1), set[c].column \in DOMAIN row
                 PROVE  new[set[c].column] = SQLValue(set[c].value, row)
      OBVIOUS
    <3>1. CASE c = k + 1 BY <2>4, <2>7, <3>1
    <3>2. CASE c \in 1..k
      <4>1. c \in 1..n /\ c # k + 1 BY <1>2, <1>4, <2>2, <3>2
      <4>2. set[c].column # a.column BY <2>2, <4>1 DEF n
      <4> QED BY <2>5, <2>7, <3>2, <4>2
    <3> QED BY <2>8, <3>1, <3>2
  <2>11. Right(k + 1) BY <2>6, <2>9, <2>10 DEF Right, new
  <2>12. k + 1 \in 0..n BY <1>4, <2>2
  <2> QED BY <2>11, <2>12
<1>5. n \in S
  <2>1. S \subseteq Nat OBVIOUS
  <2> HIDE DEF S
  <2>2. \A k \in 0..n : k \in S BY <1>2, <1>3, <1>4, <2>1, Climb
  <2> QED BY <1>2, <2>2
<1>6. Right(n) BY <1>5
<1> QED BY <1>1, <1>2, <1>6 DEF n

\* Where no LIMIT is pushed the extension only decides on streaming.
LEMMA UnpushedIs ==
  ASSUME NEW b, PlanIsBound(b), Pushed(Streamed(b)) = {}
  PROVE  Restreamed(b, Optimized(b))
<1> DEFINE p == Streamed(b)
           q == Optimized(b)
<1>1. IsTree(p) /\ Restreamed(b, p) BY StreamedIs
<1>2. q = OptimizeMySQLScan(p) BY DEF Optimized
<1>3. DOMAIN p = 1..Len(p) BY <1>1, TreeIs
<1>4. Pushed(p) = {} OBVIOUS
<1>5. IsSequence(q) /\ Len(q) = Len(p) BY <1>1, OptimizedIs DEF Optimized
<1> HIDE DEF p, q
<1>6. \A i \in 1..Len(p) : q[i] = p[i]
  <2> SUFFICES ASSUME NEW i \in 1..Len(p) PROVE q[i] = p[i]
    OBVIOUS
  <2>1. q[i] = AddLimit(p, i) BY <1>2, <1>3, <1>4 DEF OptimizeMySQLScan
  <2>2. AddLimit(p, i) = p[i] BY <1>1, <1>4, AddLimitIs
  <2> QED BY <2>1, <2>2
<1>7. Len(p) = Len(b) BY <1>1 DEF Restreamed
<1>8. \A i \in 1..Len(b) : q[i] = p[i] BY <1>6, <1>7
<1>9. Restreamed(b, q) BY <1>1, <1>5, <1>8 DEF Restreamed
<1> QED BY <1>9 DEF q

\* A write that was accepted: the places of its child and of its one scan.
Accepted(b, top, e) ==
  /\ Writes(b) /\ top = Root(b).children[1] /\ top \in 1..Len(b)
  /\ \A i \in Below(b)[top] : b[i].op \in {"filter", "projection", "get"}
  /\ e \in 1..Len(b) /\ b[e].op = "get" /\ \A i \in 1..Len(b) : b[i].op = "get" => i = e
  /\ Statement(b).where = ExtractFilters(b, top)
  /\ Statement(b).table = Root(b).table
  /\ Root(b).op = "delete" => Statement(b).kind = "DELETE"
  /\ Root(b).op = "update" =>
       /\ Statement(b).kind = "UPDATE" /\ b[top].op = "projection"
       /\ Statement(b).set =
            [c \in DOMAIN Root(b).columns |->
               [column |-> Root(b).columns[c],
                value |-> IF Root(b).expressions[c] = VALUE_DEFAULT THEN [type |-> "DEFAULT"]
                          ELSE b[top].select_list[Root(b).expressions[c]]]]

\* A write that was not refused is one statement over one scan.
LEMMA AcceptedIs ==
  ASSUME NEW b, PlanIsBound(b), Writes(b), ~Unsupported(Optimized(b)), Pushed(Streamed(b)) = {}
  PROVE  \E e : Accepted(b, Root(b).children[1], e)
<1> DEFINE q == Optimized(b)
           n == Len(b)
           op == Root(b)
           top == op.children[1]
<1>1. /\ IsTree(b) /\ Restreamed(b, q) BY BoundIsTree, UnpushedIs
<1>2. Root(q) = op BY RootOfPlan
<1>3. op.op \in {"delete", "update"} BY DEF Writes
<1>4. /\ n \in 1..n /\ DOMAIN b = 1..n
      /\ \A i \in 1..n : b[i].op # "get" => b[i].children[1] \in 1..n
  BY <1>1, TreeIs
<1>5. top \in 1..n BY <1>3, <1>4 DEF Root
<1>6. DOMAIN op.children = 1..1
  <2>1. DOMAIN op.children = 1..Inputs(op.op) BY <1>1, <1>4 DEF IsTree, Root
  <2>2. Inputs(op.op) = 1 BY <1>3 DEF Inputs
  <2> QED BY <2>1, <2>2
<1>7. ~Unsupported(q) OBVIOUS
<1>s. Statement(b) = IF Root(q).op = "delete" THEN ConstructDeleteStatement(q)
                     ELSE ConstructUpdateStatement(q)
  BY DEF Statement
<1> HIDE DEF q
<1>8. \A c \in 1..n : /\ ExtractFilters(q, c) = ExtractFilters(b, c)
                      /\ Supported(q, c) <=> Supported(b, c)
  BY <1>1, RestreamedExtracts
<1> HIDE DEF top, op, n
<1>9. CASE op.op = "delete"
  <2>1. Supported(b, top) BY <1>2, <1>5, <1>7, <1>8, <1>9 DEF Unsupported, top
  <2>2. \A i \in Below(b)[top] : b[i].op \in {"filter", "projection", "get"} BY <2>1 DEF Supported
  <2>3. Statement(b) = [kind |-> "DELETE", table |-> op.table, where |-> ExtractFilters(b, top)]
    BY <1>2, <1>5, <1>8, <1>9, <1>s DEF ConstructDeleteStatement, top
  <2>4. PICK e \in Below(b)[top] : e \in 1..n /\ b[e].op = "get" /\ \A i \in 1..n : b[i].op = "get" => i = e
    <3>1. \A i \in DOMAIN b : i = Len(b) \/ \E j \in DOMAIN b : \E k \in DOMAIN b[j].children :
                                             b[j].children[k] = i
      BY DEF PlanIsBound
    <3>2. op.op # "get" BY <1>3
    <3> QED BY <1>1, <1>6, <2>2, <3>1, <3>2, OnlyScan DEF op, top, n
  <2>5. Accepted(b, top, e)
    BY <1>5, <1>9, <2>2, <2>3, <2>4 DEF Accepted, top, op, n
  <2> QED BY <2>5 DEF top, op
<1>10. CASE op.op = "update"
  <2>1. q[top].op = "projection" /\ Supported(q, q[top].children[1])
    BY <1>2, <1>7, <1>10 DEF Unsupported, top
  <2>2. q[top] = b[top] BY <1>1, <1>5, <2>1 DEF Restreamed, SameScan, n
  <2> DEFINE c == b[top].children[1]
  <2>3. c \in 1..n BY <1>4, <1>5, <2>1, <2>2
  <2>4. Supported(b, c) BY <1>8, <2>1, <2>2, <2>3
  <2>5. Passed(b[top]) BY <2>1, <2>2 DEF Passed
  <2>6. Below(b)[top] = {top} \cup Below(b)[c] BY <1>1, <1>5, <2>5, BelowIs DEF n
  <2>7. \A i \in Below(b)[top] : b[i].op \in {"filter", "projection", "get"}
    BY <2>1, <2>2, <2>4, <2>6 DEF Supported
  <2>8. ExtractFilters(b, c) = ExtractFilters(b, top)
    <3>1. Extracted(b[top]) = {} BY <2>1, <2>2 DEF Extracted
    <3>2. ExtractFilters(b, top) = Extracted(b[top]) \cup ExtractFilters(b, c)
      BY <1>1, <1>5, <2>5, ExtractedIs DEF n
    <3> QED BY <3>1, <3>2
  <2>9. Statement(b) =
          [kind |-> "UPDATE", table |-> op.table,
           set |-> [k \in DOMAIN op.columns |->
               [column |-> op.columns[k],
                value |-> IF op.expressions[k] = VALUE_DEFAULT THEN [type |-> "DEFAULT"]
                          ELSE b[top].select_list[op.expressions[k]]]],
           where |-> ExtractFilters(b, top)]
    <3>1. ExtractFilters(q, c) = ExtractFilters(b, top) BY <1>8, <2>3, <2>8
    <3>2. Statement(b) = ConstructUpdateStatement(q) BY <1>2, <1>10, <1>s
    <3> QED BY <1>2, <2>2, <3>1, <3>2 DEF ConstructUpdateStatement, top
  <2>10. PICK e \in Below(b)[top] : e \in 1..n /\ b[e].op = "get" /\ \A i \in 1..n : b[i].op = "get" => i = e
    <3>1. \A i \in DOMAIN b : i = Len(b) \/ \E j \in DOMAIN b : \E k \in DOMAIN b[j].children :
                                             b[j].children[k] = i
      BY DEF PlanIsBound
    <3>2. op.op # "get" BY <1>3
    <3> QED BY <1>1, <1>6, <2>7, <3>1, <3>2, OnlyScan DEF op, top, n
  <2>11. b[top].op = "projection" BY <2>1, <2>2
  <2> HIDE DEF c
  <2>12. Accepted(b, top, e)
    BY <1>5, <1>10, <2>7, <2>9, <2>10, <2>11 DEF Accepted, top, op, n
  <2> QED BY <2>12 DEF top, op
<1> QED BY <1>3, <1>9, <1>10

\* The columns of an operator are columns of the scan below it.
LEMMA ColumnsAreNames ==
  ASSUME NEW p, IsTree(p), NEW N,
         \A i \in 1..Len(p) : p[i].op = "get" =>
           \A k \in DOMAIN p[i].column_ids :
             p[i].column_ids[k] # COLUMN_IDENTIFIER_ROW_ID => p[i].names[p[i].column_ids[k]] \in N,
         NEW x \in 1..Len(p), \A i \in Below(p)[x] : p[i].op \in {"filter", "projection", "get"}
  PROVE  \A k \in DOMAIN ColumnsOf(p)[x] : ColumnsOf(p)[x][k] # NULL => ColumnsOf(p)[x][k] \in N
<1> DEFINE n == Len(p)
           C == ColumnsOf(p)
           Plain(i) == \A j \in Below(p)[i] : p[j].op \in {"filter", "projection", "get"}
           Named(i) == \A k \in DOMAIN C[i] : C[i][k] # NULL => C[i][k] \in N
           S == {i \in 1..n : Plain(i) => Named(i)}
<1>1. /\ n \in Nat
      /\ \A i \in 1..n : p[i].op # "get" => p[i].children[1] \in 1..n /\ p[i].children[1] < i
  BY TreeIs
<1>2. \A i \in 1..n :
        Below(p)[i] = {i} \cup (IF Passed(p[i]) THEN Below(p)[p[i].children[1]] ELSE {})
  BY BelowIs
<1>3. \A i \in 1..n : C[i] = ColumnsThrough(p[i], C) BY ColumnsOfIs
<1> HIDE DEF C
<1>4. ASSUME NEW i \in 1..n, \A j \in 1..n : j < i => j \in S
      PROVE  i \in S
  <2> SUFFICES ASSUME Plain(i) PROVE Named(i)
    OBVIOUS
  <2> DEFINE c == p[i].children[1]
  <2>1. p[i].op \in {"filter", "projection", "get"} BY <1>2
  <2>2. CASE p[i].op = "get"
    <3>1. C[i] = ColumnsRead(p[i]) BY <1>3, <2>2 DEF ColumnsThrough
    <3> QED BY <2>2, <3>1 DEF ColumnsRead
  <2>3. ASSUME p[i].op # "get" PROVE Named(c)
    <3>1. Passed(p[i]) BY <2>1, <2>3 DEF Passed
    <3>2. Plain(c) BY <1>2, <3>1
    <3>3. c \in S BY <1>1, <1>4, <2>3
    <3> HIDE DEF Plain, Named
    <3> QED BY <3>2, <3>3
  <2>4. CASE p[i].op = "filter"
    <3>1. C[i] = C[c] BY <1>3, <2>4 DEF ColumnsThrough
    <3> QED BY <2>3, <2>4, <3>1
  <2>5. CASE p[i].op = "projection"
    <3>1. C[i] = [k \in DOMAIN p[i].select_list |->
                    IF /\ p[i].select_list[k].type = "BOUND_REF"
                       /\ p[i].select_list[k].index \in DOMAIN C[c]
                    THEN C[c][p[i].select_list[k].index] ELSE NULL]
      BY <1>3, <2>5 DEF ColumnsThrough
    <3>2. Named(c) BY <2>3, <2>5
    <3> QED BY <3>1, <3>2
  <2> QED BY <2>1, <2>2, <2>4, <2>5
<1>5. \A i \in 1..n : i \in S
  <2> HIDE DEF S
  <2> QED BY <1>1, <1>4, FromThoseBefore
<1>6. Plain(x) /\ x \in S BY <1>5
<1> HIDE DEF Plain, Named
<1>7. Named(x) BY <1>6
<1> QED BY <1>7 DEF Named, C

\* What the child of a write makes of one row: a row exactly if the statement
\* concerns it, with the values the statement names.
Shows(b, top, r, rows, tuple) ==
  /\ rows = IF Matches(Statement(b).where, r) THEN <<tuple>> ELSE <<>>
  /\ Root(b).op = "update" =>
       \A c \in DOMAIN Root(b).columns : Root(b).expressions[c] # VALUE_DEFAULT =>
         tuple[Root(b).expressions[c]] = SQLValue(b[top].select_list[Root(b).expressions[c]], r)

\* It is so for every write that was accepted.
LEMMA ChildIsSeen ==
  ASSUME NEW b, PlanIsBound(b), NEW top, NEW e, Accepted(b, top, e), NEW r, NEW sc,
         sc[b[e].table_index] = ScanOf(b[e], <<r>>)
  PROVE  \E tuple : Shows(b, top, r, Evaluate(b, sc)[top], tuple)
<1> DEFINE n == Len(b)
           op == Root(b)
           E == Evaluate(b, sc)
           C == ColumnsOf(b)
           W == Matches(Statement(b).where, r)
<1>1. IsTree(b) BY BoundIsTree
<1>2. /\ top \in 1..n
      /\ \A i \in Below(b)[top] : b[i].op \in {"filter", "projection", "get"}
      /\ Statement(b).where = ExtractFilters(b, top)
      /\ \A i \in 1..n : b[i].op = "get" => sc[b[i].table_index] = ScanOf(b[i], <<r>>)
  BY DEF Accepted
<1>3. WriteIsBound(b) BY DEF PlanIsBound, Accepted, Writes
<1>4. DOMAIN b = 1..n /\ \A i \in 1..n : b[i].op # "get" => b[i].children[1] \in 1..n BY <1>1, TreeIs
<1>5. \A i \in 1..n : b[i].op = "filter" => Refers(b[i], C[b[i].children[1]])
  BY <1>3, <1>4 DEF WriteIsBound
<1>6. CASE op.op # "update"
  <2>1. PICK tuple : SeenOf(b, top, r, E[top], tuple) BY <1>1, <1>2, <1>5, RowIsSeen
  <2>2. E[top] = IF Matches(Statement(b).where, r) THEN <<tuple>> ELSE <<>>
    BY <1>2, <2>1 DEF SeenOf
  <2> HIDE DEF E
  <2>3. Shows(b, top, r, E[top], tuple) BY <1>6, <2>2 DEF Shows
  <2> QED BY <2>3 DEF E
<1>7. CASE op.op = "update"
  <2> DEFINE c0 == b[top].children[1]
             list == b[top].select_list
  <2>1. b[top].op = "projection" BY <1>7 DEF Accepted
  <2>2. c0 \in 1..n /\ Passed(b[top]) BY <1>2, <1>4, <2>1 DEF Passed
  <2>3. Below(b)[top] = {top} \cup Below(b)[c0] BY <1>1, <1>2, <2>2, BelowIs
  <2> HIDE DEF c0
  <2>4. \A i \in Below(b)[c0] : b[i].op \in {"filter", "projection", "get"} BY <1>2, <2>3
  <2>5. PICK t : SeenOf(b, c0, r, E[c0], t) BY <1>1, <1>2, <1>5, <2>2, <2>4, RowIsSeen
  <2>6. E[top] = Operate(b[top], sc, E) BY <1>1, <1>2, TreeCanRun, EvaluateIs
  <2> HIDE DEF E
  <2>7. E[top] = Projected(list, E[c0]) BY <2>1, <2>6 DEF Operate, c0
  <2> DEFINE tuple == [k \in DOMAIN list |-> ValueOf(list[k], t)]
  <2>8. /\ Projected(list, <<t>>) = <<tuple>> /\ Projected(list, <<>>) = <<>>
    BY OneRow
  <2>9. ExtractFilters(b, top) = ExtractFilters(b, c0)
    <3>1. Extracted(b[top]) = {} BY <2>1 DEF Extracted
    <3>2. ExtractFilters(b, top) = Extracted(b[top]) \cup ExtractFilters(b, c0)
      BY <1>1, <1>2, <2>2, ExtractedIs DEF c0
    <3> QED BY <3>1, <3>2
  <2>10. E[c0] = IF W THEN <<t>> ELSE <<>> BY <1>2, <2>5, <2>9 DEF SeenOf
  <2>11. UpdateIsBound(op, b[top], C[c0])
    BY <1>3, <1>7, <2>1 DEF WriteIsBound, Accepted, c0
  <2>12. ASSUME NEW c \in DOMAIN op.columns, op.expressions[c] # VALUE_DEFAULT
         PROVE  tuple[op.expressions[c]] = SQLValue(list[op.expressions[c]], r)
    <3> DEFINE x == op.expressions[c]
    <3>1. /\ x \in DOMAIN list
          /\ list[x].type \in {"BOUND_REF", "VALUE_CONSTANT", "FUNCTION"}
          /\ list[x].type # "VALUE_CONSTANT" => Refers(list[x], C[c0])
      BY <2>11, <2>12 DEF UpdateIsBound
    <3>2. tuple[x] = ValueOf(list[x], t) BY <3>1
    <3>3. list[x].type # "VALUE_CONSTANT" => t[list[x].index] = r[list[x].name]
      BY <2>5, <3>1 DEF SeenOf, Refers
    <3> HIDE DEF x, list, tuple, C
    <3>4. ValueOf(list[x], t) = SQLValue(list[x], r)
      <4>1. CASE list[x].type = "VALUE_CONSTANT" BY <4>1 DEF ValueOf, SQLValue
      <4>2. CASE list[x].type = "BOUND_REF" BY <3>3, <4>2 DEF ValueOf, SQLValue
      <4>3. CASE list[x].type = "FUNCTION" BY <3>3, <4>3 DEF ValueOf, SQLValue
      <4> QED BY <3>1, <4>1, <4>2, <4>3
    <3> QED BY <3>2, <3>4 DEF x
  <2> HIDE DEF tuple, W
  <2>13. E[top] = IF W THEN <<tuple>> ELSE <<>> BY <2>7, <2>8, <2>10
  <2>14. Shows(b, top, r, E[top], tuple)
    <3> HIDE DEF list, op
    <3> QED BY <2>12, <2>13 DEF Shows, W, list, op
  <2> QED BY <2>14 DEF E
<1> QED BY <1>6, <1>7

\* No expression of an UPDATE reads a column that is assigned before it.
AssignmentsAreApart(b) ==
  LET op == Root(b)
      projection == b[op.children[1]]
  IN op.op = "update" /\ projection.op = "projection" =>
       \A c, d \in DOMAIN op.columns : d < c /\ op.expressions[c] # VALUE_DEFAULT =>
         ~Reads(projection.select_list[op.expressions[c]], op.columns[d])

\* A row has the columns of the rows its table had at first.
RowFits(t, r) == \E j \in DOMAIN Contents[t] : DOMAIN r = DOMAIN Contents[t][j]

\* The assignments of an accepted UPDATE, one by one.
LEMMA SetIs ==
  ASSUME NEW b, PlanIsBound(b), NEW top, NEW e, Accepted(b, top, e), Root(b).op = "update",
         AssignmentsAreApart(b), NEW r, RowFits(Root(b).table, r)
  PROVE  LET op == Root(b)
             set == Statement(b).set
         IN /\ Len(set) \in Nat \ {0} /\ Len(set) = Len(op.columns) /\ DOMAIN op.columns = 1..Len(set)
            /\ \A c \in 1..Len(set) :
                 /\ set[c].column = op.columns[c]
                 /\ set[c].value = IF op.expressions[c] = VALUE_DEFAULT THEN [type |-> "DEFAULT"]
                                   ELSE b[top].select_list[op.expressions[c]]
                 /\ set[c].value.type \in {"DEFAULT", "BOUND_REF", "VALUE_CONSTANT", "FUNCTION"}
                 /\ \A x : Reads(set[c].value, x) => x \in DOMAIN r
            /\ \A c, d \in 1..Len(set) : set[c].column = set[d].column => c = d
            /\ \A c, d \in 1..Len(set) : d < c => ~Reads(set[c].value, set[d].column)
<1> DEFINE n == Len(b)
           op == Root(b)
           set == Statement(b).set
           list == b[top].select_list
           c0 == b[top].children[1]
           C == ColumnsOf(b)
           m == Len(op.columns)
           names == {b[e].names[k] : k \in DOMAIN b[e].names}
<1>1. IsTree(b) BY BoundIsTree
<1>2. /\ top \in 1..n /\ b[top].op = "projection" /\ top = op.children[1]
      /\ \A i \in Below(b)[top] : b[i].op \in {"filter", "projection", "get"}
      /\ e \in 1..n /\ b[e].op = "get" /\ \A i \in 1..n : b[i].op = "get" => i = e
      /\ set = [c \in DOMAIN op.columns |->
               [column |-> op.columns[c],
                value |-> IF op.expressions[c] = VALUE_DEFAULT THEN [type |-> "DEFAULT"]
                          ELSE list[op.expressions[c]]]]
  BY DEF Accepted
<1>3. WriteIsBound(b) BY DEF PlanIsBound, Accepted, Writes
<1>4. DOMAIN b = 1..n /\ \A i \in 1..n : b[i].op # "get" => b[i].children[1] \in 1..n BY <1>1, TreeIs
<1>5. UpdateIsBound(op, b[top], C[c0]) BY <1>2, <1>3 DEF WriteIsBound
<1>6. /\ m \in Nat /\ DOMAIN op.columns = 1..m /\ m # 0
  <2>1. IsSequence(op.columns) /\ op.columns # <<>> BY <1>5 DEF UpdateIsBound
  <2> QED BY <2>1, SequenceFacts, NothingFetched
<1>7. Len(set) = m /\ DOMAIN set = 1..m
  <2>1. DOMAIN set = 1..m /\ set = [c \in 1..m |-> set[c]] BY <1>2, <1>6
  <2> HIDE DEF set, m
  <2> QED BY <1>6, <2>1, SequenceMade
<1>8. \A c \in 1..m :
        /\ set[c].column = op.columns[c]
        /\ set[c].value = IF op.expressions[c] = VALUE_DEFAULT THEN [type |-> "DEFAULT"]
                          ELSE list[op.expressions[c]]
  <2> HIDE DEF set, list, op
  <2> SUFFICES ASSUME NEW c \in 1..m
               PROVE  /\ set[c].column = op.columns[c]
                      /\ set[c].value = IF op.expressions[c] = VALUE_DEFAULT THEN [type |-> "DEFAULT"]
                                        ELSE list[op.expressions[c]]
    OBVIOUS
  <2>1. set[c] = [column |-> op.columns[c],
                  value |-> IF op.expressions[c] = VALUE_DEFAULT THEN [type |-> "DEFAULT"]
                            ELSE list[op.expressions[c]]]
    BY <1>2, <1>6
  <2> QED BY <2>1
<1>9. \A x \in names : x \in DOMAIN r
  <2>1. PICK g \in Gets(b) : g.table = op.table BY <1>3 DEF WriteIsBound
  <2>2. g = b[e] BY <1>2, <1>4, <2>1 DEF Gets
  <2>3. GetIsBound(b[e]) BY <1>2, StreamedIs
  <2>4. PICK j \in DOMAIN Contents[op.table] : DOMAIN r = DOMAIN Contents[op.table][j] BY DEF RowFits
  <2>5. names \subseteq DOMAIN Contents[op.table][j] BY <2>1, <2>2, <2>3, <2>4 DEF GetIsBound
  <2> HIDE DEF names
  <2> QED BY <2>4, <2>5
<1>10. \A k \in DOMAIN C[c0] : C[c0][k] # NULL => C[c0][k] \in names
  <2>1. c0 \in 1..n /\ Passed(b[top]) BY <1>2, <1>4 DEF Passed
  <2>2. Below(b)[top] = {top} \cup Below(b)[c0] BY <1>1, <1>2, <2>1, BelowIs
  <2>3. \A i \in Below(b)[c0] : b[i].op \in {"filter", "projection", "get"} BY <1>2, <2>2
  <2>4. GetIsBound(b[e]) BY <1>2, StreamedIs
  <2>5. \A k \in DOMAIN b[e].column_ids :
          b[e].column_ids[k] # COLUMN_IDENTIFIER_ROW_ID => b[e].names[b[e].column_ids[k]] \in names
    <3>1. b[e].column_ids \in Seq({COLUMN_IDENTIFIER_ROW_ID} \cup DOMAIN b[e].names)
      BY <2>4 DEF GetIsBound
    <3>2. \A k \in DOMAIN b[e].column_ids : b[e].column_ids[k] \in {COLUMN_IDENTIFIER_ROW_ID} \cup DOMAIN b[e].names
      BY <3>1
    <3> QED BY <3>2
  <2>6. \A i \in 1..n : b[i].op = "get" =>
           \A k \in DOMAIN b[i].column_ids :
             b[i].column_ids[k] # COLUMN_IDENTIFIER_ROW_ID => b[i].names[b[i].column_ids[k]] \in names
    BY <1>2, <2>5
  <2> HIDE DEF names, c0
  <2> QED BY <1>1, <2>1, <2>3, <2>6, ColumnsAreNames
<1> HIDE DEF set, m, names, C, c0, op, list
<1>11. ASSUME NEW c \in 1..m
       PROVE  /\ set[c].value.type \in {"DEFAULT", "BOUND_REF", "VALUE_CONSTANT", "FUNCTION"}
              /\ \A x : Reads(set[c].value, x) => x \in DOMAIN r
              /\ \A d \in 1..m : d < c => ~Reads(set[c].value, set[d].column)
  <2>1. CASE op.expressions[c] = VALUE_DEFAULT
    <3>1. set[c].value = [type |-> "DEFAULT"] BY <1>8, <2>1
    <3>2. set[c].value.type = "DEFAULT" BY <3>1
    <3>3. \A x : ~Reads(set[c].value, x) BY <3>2 DEF Reads
    <3> QED BY <3>2, <3>3
  <2>2. CASE op.expressions[c] # VALUE_DEFAULT
    <3> DEFINE v == list[op.expressions[c]]
    <3>1. set[c].value = v BY <1>8, <2>2
    <3>2. /\ v.type \in {"BOUND_REF", "VALUE_CONSTANT", "FUNCTION"}
          /\ v.type # "VALUE_CONSTANT" => Refers(v, C[c0])
      BY <1>5, <1>6, <2>2 DEF UpdateIsBound, list
    <3>3. v.type # "VALUE_CONSTANT" => v.name \in DOMAIN r
      BY <1>9, <1>10, <3>2 DEF Refers
    <3>4. \A d \in 1..m : d < c => ~Reads(v, op.columns[d])
      BY <1>2, <1>6, <2>2 DEF AssignmentsAreApart, list, op
    <3> HIDE DEF v
    <3>5. \A x : Reads(v, x) => x \in DOMAIN r BY <3>3 DEF Reads
    <3> QED BY <1>8, <3>1, <3>2, <3>4, <3>5
  <2> QED BY <2>1, <2>2
<1>12. \A c, d \in 1..m : set[c].column = set[d].column => c = d
  BY <1>5, <1>6, <1>8 DEF UpdateIsBound
<1> QED BY <1>6, <1>7, <1>8, <1>11, <1>12 DEF set, op, m, list

\* What the server makes of a row is what the plan means it to be.
LEMMA UpdatedIs ==
  ASSUME NEW b, PlanIsBound(b), NEW top, NEW e, Accepted(b, top, e), Root(b).op = "update",
         AssignmentsAreApart(b), NEW r, RowFits(Root(b).table, r), NEW tuple,
         \A c \in DOMAIN Root(b).columns : Root(b).expressions[c] # VALUE_DEFAULT =>
           tuple[Root(b).expressions[c]] = SQLValue(b[top].select_list[Root(b).expressions[c]], r)
  PROVE  LET op == Root(b)
             value(k) == IF op.expressions[k] = VALUE_DEFAULT THEN NULL ELSE tuple[op.expressions[k]]
         IN /\ Assigned(Statement(b).set, r) =
                 [x \in DOMAIN r |->
                    IF \E k \in DOMAIN op.columns : op.columns[k] = x
                    THEN value(CHOOSE k \in DOMAIN op.columns : op.columns[k] = x)
                    ELSE r[x]]
<1> DEFINE op == Root(b)
           set == Statement(b).set
           m == Len(set)
           D == DOMAIN op.columns
           value(k) == IF op.expressions[k] = VALUE_DEFAULT THEN NULL ELSE tuple[op.expressions[k]]
           new(x) == IF \E k \in D : op.columns[k] = x
                     THEN value(CHOOSE k \in D : op.columns[k] = x) ELSE r[x]
           after == Assigned(set, r)
<1>1. /\ m \in Nat \ {0} /\ D = 1..m
      /\ \A c \in 1..m :
           /\ set[c].column = op.columns[c]
           /\ set[c].value = IF op.expressions[c] = VALUE_DEFAULT THEN [type |-> "DEFAULT"]
                             ELSE b[top].select_list[op.expressions[c]]
           /\ set[c].value.type \in {"DEFAULT", "BOUND_REF", "VALUE_CONSTANT", "FUNCTION"}
           /\ \A x : Reads(set[c].value, x) => x \in DOMAIN r
      /\ \A c, d \in 1..m : set[c].column = set[d].column => c = d
      /\ \A c, d \in 1..m : d < c => ~Reads(set[c].value, set[d].column)
  BY SetIs
<1> HIDE DEF set
<1>2. /\ after = [x \in DOMAIN r |-> after[x]]
      /\ \A x \in DOMAIN r : (\A c \in 1..m : set[c].column # x) => after[x] = r[x]
      /\ \A c \in 1..m : set[c].column \in DOMAIN r => after[set[c].column] = SQLValue(set[c].value, r)
  BY <1>1, AssignedIs
<1>3. \A c \in D : SQLValue(set[c].value, r) = value(c)
  <2> SUFFICES ASSUME NEW c \in D PROVE SQLValue(set[c].value, r) = value(c)
    OBVIOUS
  <2>1. CASE op.expressions[c] = VALUE_DEFAULT
    <3>1. set[c].value.type = "DEFAULT"
      <4>1. set[c].value = [type |-> "DEFAULT"] BY <1>1, <2>1
      <4> QED BY <4>1
    <3>2. SQLValue(set[c].value, r) = NULL BY <3>1 DEF SQLValue
    <3> QED BY <2>1, <3>2
  <2>2. CASE op.expressions[c] # VALUE_DEFAULT
    <3> DEFINE x == op.expressions[c]
    <3>1. set[c].value = b[top].select_list[x] BY <1>1, <2>2
    <3>2. tuple[x] = SQLValue(b[top].select_list[x], r) BY <2>2
    <3> QED BY <2>2, <3>1, <3>2
  <2> QED BY <2>1, <2>2
<1> HIDE DEF after, value, D, m
<1>4. \A x \in DOMAIN r : after[x] = new(x)
  <2> SUFFICES ASSUME NEW x \in DOMAIN r PROVE after[x] = new(x)
    OBVIOUS
  <2>1. CASE \E k \in D : op.columns[k] = x
    <3> DEFINE c == CHOOSE k \in D : op.columns[k] = x
    <3>1. c \in D /\ op.columns[c] = x BY <2>1
    <3>2. new(x) = value(c) BY <2>1
    <3> HIDE DEF c, op
    <3>3. set[c].column = x BY <1>1, <3>1
    <3>4. after[x] = SQLValue(set[c].value, r) BY <1>1, <1>2, <3>1, <3>3
    <3> HIDE DEF new
    <3> QED BY <1>3, <3>1, <3>2, <3>4
  <2>2. CASE ~\E k \in D : op.columns[k] = x
    <3>1. \A c \in 1..m : set[c].column # x BY <1>1, <2>2
    <3> QED BY <1>2, <2>2, <3>1
  <2> QED BY <2>1, <2>2
<1>5. after = [x \in DOMAIN r |-> new(x)]
  <2> HIDE DEF new
  <2> QED BY <1>2, <1>4
<1> QED BY <1>5 DEF after, value, D, new, set

\* The rows of a table have the columns of the rows it had at first.
RowsFit(t, rows) == IsSequence(rows) /\ \A i \in DOMAIN rows : RowFits(t, rows[i])

\* The statement of an accepted write leaves the rows the plan means to leave.
LEMMA ChangedIsResult ==
  ASSUME NEW b, PlanIsBound(b), NEW top, NEW e, Accepted(b, top, e), AssignmentsAreApart(b),
         NEW rows, RowsFit(Root(b).table, rows)
  PROVE  /\ Changed(Statement(b), rows) = Result(b, rows)
         /\ RowsFit(Root(b).table, Changed(Statement(b), rows))
<1> DEFINE op == Root(b)
           statement == Statement(b)
           get == CHOOSE g \in Gets(b) : TRUE
           sc(r) == [t \in {get.table_index} |-> ScanOf(get, <<r>>)]
           seen(r) == Evaluate(b, sc(r))[top]
           W(r) == Matches(statement.where, r)
           value(k, r) == IF op.expressions[k] = VALUE_DEFAULT THEN NULL
                          ELSE seen(r)[1][op.expressions[k]]
           updated(r) == [n \in DOMAIN r |->
                            IF \E k \in DOMAIN op.columns : op.columns[k] = n
                            THEN value(CHOOSE k \in DOMAIN op.columns : op.columns[k] = n, r)
                            ELSE r[n]]
<1>1. /\ op.op \in {"delete", "update"} /\ top = op.children[1]
      /\ op.op = "delete" => statement.kind = "DELETE"
      /\ op.op = "update" => statement.kind = "UPDATE"
  BY DEF Accepted, Writes
<1>2. get = b[e]
  <2>1. DOMAIN b = 1..Len(b) BY BoundIsTree, TreeIs
  <2>2. Gets(b) = {b[e]} BY <2>1 DEF Gets, Accepted
  <2>3. get \in {b[e]} BY <2>2
  <2> QED BY <2>3
<1>3. \A r : sc(r)[b[e].table_index] = ScanOf(b[e], <<r>>)
  <2> HIDE DEF get
  <2> QED BY <1>2
<1>r. Result(b, rows) = IF op.op = "delete"
                        THEN Keep(rows, {i \in DOMAIN rows : seen(rows[i]) = <<>>})
                        ELSE [i \in DOMAIN rows |->
                                IF seen(rows[i]) = <<>> THEN rows[i] ELSE updated(rows[i])]
  BY <1>1 DEF Result
<1> HIDE DEF sc, get
<1>4. \A r : \E tuple : Shows(b, top, r, seen(r), tuple)
  <2> SUFFICES ASSUME NEW r PROVE \E tuple : Shows(b, top, r, seen(r), tuple)
    OBVIOUS
  <2> DEFINE s == sc(r)
  <2>1. s[b[e].table_index] = ScanOf(b[e], <<r>>) BY <1>3
  <2> HIDE DEF s
  <2>2. \E tuple : Shows(b, top, r, Evaluate(b, s)[top], tuple) BY <2>1, ChildIsSeen
  <2> QED BY <2>2 DEF s
<1> HIDE DEF seen, W
<1>5. \A r : seen(r) = <<>> <=> ~W(r)
  <2> SUFFICES ASSUME NEW r PROVE seen(r) = <<>> <=> ~W(r)
    OBVIOUS
  <2>1. PICK tuple : Shows(b, top, r, seen(r), tuple) BY <1>4
  <2>a. seen(r) = IF W(r) THEN <<tuple>> ELSE <<>> BY <2>1 DEF Shows, W
  <2>2. <<tuple>> # <<>> OBVIOUS
  <2> QED BY <2>a, <2>2
<1>6. IsSequence(rows) /\ \A i \in DOMAIN rows : RowFits(op.table, rows[i]) BY DEF RowsFit
<1>7. CASE op.op = "delete"
  <2> DEFINE places == {i \in DOMAIN rows : ~W(rows[i])}
             kept == Keep(rows, places)
  <2>1. Changed(statement, rows) = kept BY <1>1, <1>7 DEF Changed, W
  <2>2. Result(b, rows) = kept
    <3>1. {i \in DOMAIN rows : seen(rows[i]) = <<>>} = places BY <1>5
    <3> HIDE DEF places, updated
    <3> QED BY <1>7, <1>r, <3>1
  <2>3. /\ IsSequence(kept)
        /\ \A k \in DOMAIN kept : \E i \in DOMAIN rows : kept[k] = rows[i]
    <3> HIDE DEF places
    <3> QED BY <1>6, KeepIsSequence
  <2> HIDE DEF kept
  <2>4. RowsFit(op.table, kept) BY <1>6, <2>3 DEF RowsFit
  <2> QED BY <2>1, <2>2, <2>4
<1>8. CASE op.op = "update"
  <2> DEFINE new(r) == IF W(r) THEN Assigned(statement.set, r) ELSE r
             changed == [i \in DOMAIN rows |-> new(rows[i])]
  <2>1. Changed(statement, rows) = changed BY <1>1, <1>8 DEF Changed, W
  <2>2. ASSUME NEW i \in DOMAIN rows, W(rows[i])
        PROVE  Assigned(statement.set, rows[i]) = updated(rows[i])
    <3> DEFINE r == rows[i]
    <3>0. PICK tuple : Shows(b, top, r, seen(r), tuple) BY <1>4
    <3>1. /\ seen(r) = <<tuple>>
          /\ \A c \in DOMAIN op.columns : op.expressions[c] # VALUE_DEFAULT =>
                tuple[op.expressions[c]] = SQLValue(b[top].select_list[op.expressions[c]], r)
      BY <1>8, <2>2, <3>0 DEF Shows, W
    <3>2. RowFits(op.table, r) BY <1>6
    <3> DEFINE worth(k) == IF op.expressions[k] = VALUE_DEFAULT THEN NULL ELSE tuple[op.expressions[k]]
    <3>3. Assigned(statement.set, r) =
                 [x \in DOMAIN r |->
                    IF \E k \in DOMAIN op.columns : op.columns[k] = x
                    THEN worth(CHOOSE k \in DOMAIN op.columns : op.columns[k] = x)
                    ELSE r[x]]
      <4> HIDE DEF r
      <4> QED BY <1>8, <3>1, <3>2, UpdatedIs
    <3>4. seen(r)[1] = tuple BY <3>1
    <3>5. \A k : worth(k) = value(k, r) BY <3>4
    <3> HIDE DEF worth, value, r
    <3> QED BY <3>3, <3>5 DEF r
  <2>3. Result(b, rows) = changed
    <3>1. \A i \in DOMAIN rows :
            new(rows[i]) = IF seen(rows[i]) = <<>> THEN rows[i] ELSE updated(rows[i])
      <4> HIDE DEF updated
      <4> QED BY <1>5, <2>2
    <3> HIDE DEF new, updated
    <3> QED BY <1>8, <1>r, <3>1
  <2>4. \A i \in DOMAIN rows : RowFits(op.table, new(rows[i]))
    <3> SUFFICES ASSUME NEW i \in DOMAIN rows PROVE RowFits(op.table, new(rows[i]))
      OBVIOUS
    <3>1. CASE W(rows[i])
      <4>1. new(rows[i]) = updated(rows[i]) BY <2>2, <3>1
      <4>2. DOMAIN updated(rows[i]) = DOMAIN rows[i] OBVIOUS
      <4> HIDE DEF new, updated
      <4> QED BY <1>6, <4>1, <4>2 DEF RowFits
    <3>2. CASE ~W(rows[i]) BY <1>6, <3>2
    <3> QED BY <3>1, <3>2
  <2> HIDE DEF new
  <2>5. RowsFit(op.table, changed)
    <3>1. Len(rows) \in Nat /\ DOMAIN rows = 1..Len(rows) BY <1>6, SequenceFacts
    <3>2. DOMAIN changed = 1..Len(rows) /\ changed = [i \in 1..Len(rows) |-> changed[i]] BY <3>1
    <3>3. \A i \in DOMAIN changed : RowFits(op.table, changed[i]) BY <2>4
    <3> HIDE DEF changed
    <3>4. IsSequence(changed) BY <3>1, <3>2, SequenceMade
    <3> QED BY <3>3, <3>4 DEF RowsFit
  <2> QED BY <2>1, <2>3, <2>5
<1> QED BY <1>1, <1>7, <1>8

\* No UPDATE or DELETE that is accepted reads what it has assigned, or had a
\* LIMIT over its one scan, which DuckDB's UPDATE and DELETE do not have.
WritesAreSimple ==
  \A b \in Plans : Writes(b) /\ ~Unsupported(Optimized(b)) =>
    Pushed(Streamed(b)) = {} /\ AssignmentsAreApart(b)

\* The tables under a write, from its planning to its end.
WriteInv ==
  /\ \A t \in DOMAIN Contents : RowsFit(t, tables[t]) /\ RowsFit(t, before[t])
  /\ Writes(bound) /\ phase \in {"running", "finished", "failed"} => ~Unsupported(Optimized(bound))
  /\ phase = "running" => tables = before
  /\ phase = "finished" /\ Writes(bound) =>
       /\ tables[Root(bound).table] = Changed(Statement(bound), before[Root(bound).table])
       /\ affected = AffectedRows(Statement(bound), before[Root(bound).table])

\* WriteInv at first.
LEMMA WriteInvInit == Init => WriteInv
<1> SUFFICES ASSUME Init PROVE WriteInv
  OBVIOUS
<1>1. tables = Contents /\ before = Contents /\ phase = "bound" BY DEF Init
<1>2. \A t \in DOMAIN Contents : RowsFit(t, Contents[t])
  BY PushdownConstants DEF RowsFit, RowFits
<1> QED BY <1>1, <1>2 DEF WriteInv

\* The statement of the plan that runs, on rows of its table.
LEMMA StatementIsResult ==
  ASSUME WritesAreSimple, PlanIs, WriteInv, Writes(bound), phase \in {"running", "finished"},
         NEW rows, RowsFit(Root(bound).table, rows)
  PROVE  /\ Changed(Statement(bound), rows) = Result(bound, rows)
         /\ RowsFit(Root(bound).table, Changed(Statement(bound), rows))
         /\ Statement(bound).table = Root(bound).table
         /\ Root(bound).op = "delete" => Statement(bound).kind = "DELETE"
         /\ Root(bound).table \in DOMAIN Contents
<1>1. PlanIsBound(bound) /\ bound \in Plans BY BoundPlan DEF PlanIs
<1>2. ~Unsupported(Optimized(bound)) BY DEF WriteInv
<1>3. Pushed(Streamed(bound)) = {} /\ AssignmentsAreApart(bound) BY <1>1, <1>2 DEF WritesAreSimple
<1> DEFINE top == Root(bound).children[1]
<1>4. PICK e : Accepted(bound, top, e) BY <1>1, <1>2, <1>3, AcceptedIs
<1>5. WriteIsBound(bound) BY <1>1 DEF PlanIsBound, Writes
<1>6. Root(bound).table \in DOMAIN Contents BY <1>5 DEF WriteIsBound
<1> HIDE DEF top
<1>7. /\ Changed(Statement(bound), rows) = Result(bound, rows)
      /\ RowsFit(Root(bound).table, Changed(Statement(bound), rows))
  BY <1>1, <1>3, <1>4, ChangedIsResult
<1> QED BY <1>4, <1>6, <1>7 DEF Accepted

\* The statement takes effect once, on the rows the execution began with.
LEMMA FinalizeStep ==
  ASSUME WritesAreSimple, PlanIs, TablesAre, WriteInv, Finalize
  PROVE  WriteInv'
<1>1. phase = "running" /\ Writes(plan) /\ bound' = bound /\ before' = before
  BY DEF Finalize, Refuse, planned, server
<1>2. Writes(bound) /\ query = Statement(bound) BY <1>1, PlanOfPhase DEF PlanIs
<1> DEFINE T == Root(bound).table
           statement == Statement(bound)
           new == Changed(statement, tables[T])
<1>3. tables = before /\ \A t \in DOMAIN Contents : RowsFit(t, tables[t]) /\ RowsFit(t, before[t])
  BY <1>1 DEF WriteInv
<1>4. T \in DOMAIN Contents
  <2>1. WriteIsBound(bound) BY <1>2, BoundPlan DEF PlanIsBound, Writes
  <2> QED BY <2>1 DEF WriteIsBound
<1>5. RowsFit(T, tables[T]) BY <1>3, <1>4
<1>6. RowsFit(T, new) /\ statement.table = T BY <1>1, <1>2, <1>5, StatementIsResult
<1>7. ~Unsupported(Optimized(bound)) BY <1>1, <1>2 DEF WriteInv
<1> HIDE DEF statement, new, T
<1>8. CASE Busy(Root(plan).catalog)
  <2>1. phase' = "failed" /\ tables' = tables BY <1>8 DEF Finalize, Refuse, server
  <2> QED BY <1>1, <1>3, <1>7, <2>1 DEF WriteInv
<1>9. CASE ~Busy(Root(plan).catalog)
  <2>1. /\ phase' = "finished"
        /\ tables' = [tables EXCEPT ![T] = new]
        /\ affected' = AffectedRows(statement, tables[T])
    <3>1. query = statement /\ query.table = T BY <1>2, <1>6 DEF statement
    <3>2. /\ phase' = "finished"
          /\ tables' = [tables EXCEPT ![query.table] = Changed(query, @)]
          /\ affected' = AffectedRows(query, tables[query.table])
      BY <1>9 DEF Finalize
    <3> QED BY <3>1, <3>2 DEF new
  <2>2. T \in DOMAIN tables /\ DOMAIN tables = DOMAIN Contents BY <1>4 DEF TablesAre
  <2>3. tables'[T] = new /\ \A t \in DOMAIN Contents : t # T => tables'[t] = tables[t]
    BY <2>1, <2>2
  <2>4. \A t \in DOMAIN Contents : RowsFit(t, tables'[t]) /\ RowsFit(t, before'[t])
    BY <1>1, <1>3, <1>6, <2>3
  <2>5. /\ tables'[T] = Changed(statement, before[T])
        /\ affected' = AffectedRows(statement, before[T])
    BY <1>3, <2>1, <2>3 DEF new
  <2>6. \A t \in DOMAIN Contents : (RowsFit(t, tables[t]) /\ RowsFit(t, before[t]))'
    BY <2>4 DEF RowsFit, RowFits
  <2> QED BY <1>1, <1>7, <2>1, <2>5, <2>6 DEF WriteInv, T, statement
<1> QED BY <1>8, <1>9

\* Every other step leaves the tables alone.
LEMMA WriteInvStep ==
  ASSUME WritesAreSimple, PlanIs, TablesAre, WriteInv, [Next]_vars
  PROVE  WriteInv'
<1> DEFINE Same == UNCHANGED <<bound, tables, before, affected>>
<1>1. ASSUME Same, phase' = phase \/ phase' \in {"bound", "optimized", "unsupported"}
                   \/ (phase = "running" /\ phase' = "failed")
                   \/ (phase = "running" /\ phase' = "finished" /\ ~Writes(bound))
      PROVE  WriteInv'
  BY <1>1 DEF WriteInv
<1>2. ASSUME Execute, bound' = bound, Writes(bound) => ~Unsupported(Optimized(bound))
      PROVE  WriteInv'
  <2>1. phase' = "running" /\ before' = tables /\ tables' = tables BY <1>2 DEF Execute
  <2> QED BY <1>2, <2>1 DEF WriteInv
<1>3. phase # "bound" => (Writes(plan) <=> Writes(bound)) BY PlanOfPhase
<1>d. Root(plan).op \in {"delete", "update"} <=> Writes(plan) BY DEF Writes
<1>4. CASE Optimize BY <1>1, <1>4 DEF Optimize, server
<1>5. CASE PlanQuery
  <2>1. ~Writes(bound) BY <1>3, <1>5 DEF PlanQuery
  <2> QED BY <1>2, <1>5, <2>1 DEF PlanQuery, planned
<1>6. CASE PlanDelete
  <2>1. plan = Optimized(bound) BY <1>6 DEF PlanDelete, PlanIs
  <2>2. CASE Unsupported(plan) BY <1>1, <1>6, <2>2 DEF PlanDelete, Refuse, planned, server
  <2>3. CASE ~Unsupported(plan)
    <3>1. Execute /\ bound' = bound BY <1>6, <2>3 DEF PlanDelete
    <3> QED BY <1>2, <2>1, <2>3, <3>1
  <2> QED BY <2>2, <2>3
<1>7. CASE PlanUpdate
  <2>1. plan = Optimized(bound) BY <1>7 DEF PlanUpdate, PlanIs
  <2>2. CASE Unsupported(plan) BY <1>1, <1>7, <2>2 DEF PlanUpdate, Refuse, planned, server
  <2>3. CASE ~Unsupported(plan)
    <3>1. Execute /\ bound' = bound BY <1>7, <2>3 DEF PlanUpdate
    <3> QED BY <1>2, <2>1, <2>3, <3>1
  <2> QED BY <2>2, <2>3
<1>8. CASE MySQLInitGlobalState
  <2>1. Same /\ phase = "running" /\ phase' \in {"running", "failed"}
    BY <1>8 DEF MySQLInitGlobalState, Send, Open, Unopened, planned, server
  <2> QED BY <1>1, <2>1
<1>9. CASE MySQLQueryInitGlobalState
  <2>1. Same /\ phase = "running" /\ phase' \in {"running", "failed"}
    BY <1>9 DEF MySQLQueryInitGlobalState, Send, Open, Unopened, planned, server
  <2> QED BY <1>1, <2>1
<1>10. CASE OpenLocal
  <2>1. Same /\ phase' = phase BY <1>10 DEF OpenLocal, Open, planned, server
  <2> QED BY <1>1, <2>1
<1>11. CASE MySQLScan
  <2>1. Same /\ phase' = phase BY <1>11 DEF MySQLScan, planned, server
  <2> QED BY <1>1, <2>1
<1>12. CASE Finish
  <2>1. Same /\ phase = "running" /\ phase' = "finished" /\ ~Writes(plan)
    BY <1>12 DEF Finish, planned, server
  <2> QED BY <1>1, <1>3, <2>1
<1>13. CASE Finalize BY <1>13, FinalizeStep
<1>14. CASE ExecuteAgain
  <2>1. phase = "finished" /\ Execute /\ bound' = bound BY <1>14 DEF ExecuteAgain, planned
  <2>2. Writes(bound) => ~Unsupported(Optimized(bound)) BY <2>1 DEF WriteInv
  <2> QED BY <1>2, <2>1, <2>2
<1>15. CASE UNCHANGED vars
  <2>1. Same /\ phase' = phase BY <1>15 DEF vars, planned, server
  <2> QED BY <1>1, <2>1
<1> QED BY <1>4, <1>5, <1>6, <1>7, <1>8, <1>9, <1>10, <1>11, <1>12, <1>13, <1>14, <1>15 DEF Next

\* An UPDATE or DELETE that was accepted changes the rows its plan selects, to
\* the values its expressions have on the row before, and no other row, as
\* long as no expression reads what the statement has assigned (WriteIsRight).
THEOREM ChangesAreRight ==
  ASSUME WritesAreSimple
  PROVE  Spec => []WriteIsRight
<1>1. Init => WriteInv BY WriteInvInit
<1>2. StatementInv /\ WriteInv /\ [Next]_vars => WriteInv'
  BY WriteInvStep DEF StatementInv
<1>3. StatementInv /\ WriteInv => WriteIsRight
  <2> SUFFICES ASSUME StatementInv, WriteInv, phase = "finished", Writes(bound)
               PROVE  LET table == Root(bound).table IN
                      /\ tables[table] = Result(bound, before[table])
                      /\ Root(bound).op = "delete" => affected = Len(before[table]) - Len(tables[table])
    BY DEF WriteIsRight
  <2> DEFINE T == Root(bound).table
             rows == before[T]
  <2>1. T \in DOMAIN Contents
    <3>1. WriteIsBound(bound) BY BoundPlan DEF StatementInv, PlanIsBound, Writes
    <3> QED BY <3>1 DEF WriteIsBound
  <2>2. RowsFit(T, rows) BY <2>1 DEF WriteInv
  <2>3. /\ Changed(Statement(bound), rows) = Result(bound, rows)
        /\ Root(bound).op = "delete" => Statement(bound).kind = "DELETE"
    BY <2>2, StatementIsResult DEF StatementInv
  <2>4. /\ tables[T] = Changed(Statement(bound), rows)
        /\ affected = AffectedRows(Statement(bound), rows)
    BY DEF WriteInv
  <2>5. Statement(bound).kind = "DELETE" =>
          affected = Len(rows) - Len(Changed(Statement(bound), rows))
    BY <2>4 DEF AffectedRows
  <2> QED BY <2>3, <2>4, <2>5
<1> QED BY <1>1, <1>2, <1>3, StatementInvariant, PTL DEF Spec
=============================================================================
