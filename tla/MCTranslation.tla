--------------------------- MODULE MCTranslation ---------------------------
(* An instance of Translation for TLC: queries of up to three expressions;   *)
(* with MongoDB u is nested in the documents of t, and w an alias.  0 is a   *)
(* text that JSON reads as another one, and 2 one that ends its quotes.      *)
EXTENDS Translation

C(v) == [kind |-> "const", value |-> v]
R(s, t, i) == [kind |-> "row", store |-> s, table |-> t, iter |-> i, col |-> "a"]
I(i) == [kind |-> "iter", iter |-> i, col |-> "a"]
X == [kind |-> "var", name |-> "x"]
T(x) == [op |-> "term", terms |-> <<x>>]
F(op, x, y) == [op |-> op, terms |-> <<x, y>>]
E(op, args) == [negated |-> FALSE, call |-> [op |-> op, args |-> args]]

ti == R("pg", "t", "i")
uj == R("pg", "u", "j")

MCSent == [v \in Value |-> IF v = 3 THEN 2 ELSE v]
MCName == [t \in Collection |-> IF t = "w" THEN "other" ELSE t]
MCQuoted == [v \in Value |-> CASE v = 0 -> 1 [] v = 2 -> None [] OTHER -> v]
Small == {s \in SUBSET [Column -> Value \ {3}] : Cardinality(s) <= 2}
MCDatabases == {[t \in Table |-> IF t = "t" THEN s1 ELSE IF t = "u" THEN s2 ELSE {}] :
                  s1 \in Small, s2 \in Small}

MCNested == [t \in Table |-> IF t = "t" THEN {"u"} ELSE {}]
Doc(x, s) == [coll |-> "t", rows |-> [t \in Table |->
                IF t = "t" THEN {[c \in Column |-> x]} ELSE IF t = "u" THEN s ELSE {}]]
Other == [coll |-> "w", rows |-> [t \in Table |-> IF t = "w" THEN {[c \in Column |-> 1]} ELSE {}]]
MCDocuments == {Doc(x, s) : x \in Value \ {3}, s \in Small}
MCCollections == {{}, {Other}, {Other, Doc(0, {})}} \cup {{d} : d \in MCDocuments}
                 \cup {{Doc(0, s), Doc(2, t)} : s \in Small, t \in Small}

Exprs ==
  {E("eq", <<T(x), T(y)>>) : x \in {ti, uj, X, I("i")}, y \in {C(1), uj, ti, X}} \cup
  {E("lt", <<T(x), T(y)>>) : x \in {ti, C(1)}, y \in {uj, I("i")}} \cup
  {E("minus", <<T(ti), T(C(1)), T(x)>>) : x \in {C(0), I("j")}} \cup
  {E("mul", <<T(C(2)), T(x), T(C(1))>>) : x \in {uj, I("j")}} \cup
  {E("eq", <<T(C(0)), F("minus", C(2), x)>>) : x \in {ti, X}} \cup
  {E("neq", <<T(ti), T(y)>>) : y \in {uj, C(1)}} \cup {E("neq", <<T(C(1)), T(uj)>>)} \cup
  {E("lt", <<T(x), T(C(1))>>) : x \in {ti, uj}} \cup
  {E("lt", <<F("mul", C(2), ti), T(C(1))>>), E("lt", <<F("minus", C(2), C(1)), T(uj)>>),
   [E("eq", <<T(ti), T(C(1))>>) EXCEPT !.negated = TRUE],
   E("eq", <<T(R("pg", "t", "k")), T(C(1))>>), E("eq", <<T(R("pg", "u", "i")), T(C(1))>>),
   E("eq", <<T(R("my", "u", "j")), T(C(1))>>), E("eq", <<T(R("no", "u", "j")), T(C(1))>>),
   E("eq", <<T(R("pg", "w", "k")), T(ti)>>), E("unmapped", <<T(ti), T(C(1))>>),
   E("eq", <<T(C(3)), T(ti)>>), E("eq", <<T(ti), T(C(2))>>), E("neq", <<T(ti), T(C(0))>>),
   E("eq", <<T(R("pg", "w", "k")), T(C(1))>>)}

(* Arithmetic within arithmetic. *)
Nestings ==
  {E("minus", <<T(ti), F("minus", C(2), uj), T(C(0))>>), E("mul", <<F("minus", C(2), ti), T(C(1)), T(C(0))>>),
   E("minus", <<F("minus", C(2), ti), F("mul", C(1), uj), F("mul", C(2), C(1))>>),
   E("mul", <<F("mul", C(2), ti), F("mul", C(1), C(2)), F("minus", uj, C(1))>>)}

Joins == {E("eq", <<T(ti), T(uj)>>), E("eq", <<T(X), T(ti)>>)}
MCQueries == {<<e>> : e \in Exprs} \cup {<<e, f>> : e \in Exprs, f \in Exprs} \cup
             {<<d, e, f>> : d \in Joins, e \in Exprs, f \in Exprs} \cup
             {<<e>> : e \in Nestings} \cup {<<d, e, f>> : d \in Joins, e \in Nestings, f \in Nestings}
=============================================================================
