---------------------------- MODULE Translation ----------------------------
(***************************************************************************)
(* From what partial evaluation leaves to an SQL statement or a MongoDB    *)
(* filter: one query, a conjunction of expressions, is preprocessed        *)
(* reference by reference, processed, translated and executed.  Iterators  *)
(* range over the rows of tables; a row stands for its key, too.  With     *)
(* MongoDB a table is a collection, or an entity nested in its documents.  *)
(*                                                                         *)
(* Texts are kept as the trees they are written from, with the operands in *)
(* the order in which the text has them.  Bounds: an operand of an operand *)
(* is no call, and no collection has the name that stands for another one. *)
(***************************************************************************)
EXTENDS Integers, SequencesExt

CONSTANTS
  Datastore,
  Pool,        \* the datastores of the request's mapping
  Table,
  Schema,      \* the tables of the configured schemas
  Collection,  \* MongoDB: the tables that are collections
  Nested,      \* MongoDB: the entities that a schema nests in one
  Name,        \* MongoDB: what a collection is called in the database
  Column, Iterator, LocalVar,
  Value,       \* constants, and what columns hold
  Sent,        \* what makeConstant makes of a constant
  Quoted,      \* MongoDB: what JSON reads of a constant, None if no constant
  Queries,     \* the queries partial evaluation may leave
  Databases,   \* the contents of the tables
  Collections, \* MongoDB: the contents of the collections, sets of documents
  None

(* Operators with a mapping, of each kind, and one without.  MongoDB has    *)
(* mappings for comparisons alone.                                          *)
Comparison == {"eq", "neq", "lt"}
Arithmetic == {"minus", "mul"}
Mapped     == Comparison \cup Arithmetic
Operator   == Mapped \cup {"unmapped"}

Platform == {"postgres", "mysql", "mongo"}

Row  == [Column -> Value]

(* A document has one row of its collection, and any of what is nested.     *)
Document ==
  {d \in [coll : Collection, rows : [Table -> SUBSET Row]] :
     /\ \E r \in Row : d.rows[d.coll] = {r}
     /\ \A t \in Table \ (Nested[d.coll] \cup {d.coll}) : d.rows[t] = {}}

Term == [kind : {"const"}, value : Value]
   \cup [kind : {"row"}, store : Datastore, table : Table, iter : Iterator, col : Column]
   \cup [kind : {"iter"}, iter : Iterator, col : Column]
   \cup [kind : {"var"}, name : LocalVar]
Attribute == [kind : {"attr"}, table : Table, col : Column]

(* An operand: a term, or a call of an operator with two terms. *)
Operand(terms) == [op : {"term"}, terms : [1..1 -> terms]]
             \cup [op : Arithmetic, terms : [1..2 -> terms]]
(* An arithmetic expression compares its result with a third operand. *)
Calls(operands) == [op : Comparison \cup {"unmapped"}, args : [1..2 -> operands]]
              \cup [op : Arithmetic, args : [1..3 -> operands]]
Expr == [negated : BOOLEAN, call : Calls(Operand(Term))]

ASSUME QueriesAssumption ==
  /\ Queries \subseteq Seq(Expr) /\ <<>> \notin Queries
  /\ Pool \subseteq Datastore /\ Schema \subseteq Table
  /\ Value \subseteq Int /\ Sent \in [Value -> Value]
  /\ Databases \subseteq [Table -> SUBSET Row]
  /\ Collection \subseteq Table /\ Nested \in [Table -> SUBSET (Table \ Collection)]
  /\ \A t \in Table, u \in Collection : Name[u] = t => u = t
  /\ Quoted \in [Value -> Value \cup {None}] /\ None \notin Value
  /\ Collections \subseteq SUBSET Document
  /\ None \notin Datastore \cup Table \cup Iterator \cup Attribute

VARIABLES
  query,       \* the query
  platform,    \* of the datastore
  pc,
  n,           \* the expression being preprocessed
  call,        \* what has become of it
  tableNames,  \* the iterator of each table
  tableVars,   \* the table of each iterator
  localVars,   \* the attributes local variables stand for
  expected,    \* the datastore
  body,        \* the preprocessed query
  from, link,  \* the tables the statement selects from
  db,          \* the documents, or all tables as one, when it is executed
  reply

inputVars == <<query, platform>>
preVars   == <<n, call, tableNames, tableVars, localVars, expected, body>>
sqlVars   == <<from, link, db>>
vars == <<inputVars, pc, preVars, sqlVars, reply>>

Tables(b) == {[coll |-> None, rows |-> b]}

TypeOK ==
  /\ query \in Seq(Expr) /\ platform \in Platform
  /\ pc \in {"refs", "process", "translate", "execute", "done"}
  /\ n \in 1 .. Len(query)
  /\ call \in Calls(Operand(Term \cup Attribute))
  /\ tableNames \in [Table -> Iterator \cup {None}]
  /\ tableVars \in [Iterator -> Table \cup {None}]
  /\ localVars \in [LocalVar -> Attribute \cup {None}]
  /\ expected \in Datastore \cup {None}
  /\ body \in Seq(Calls(Operand([kind : {"const"}, value : Value] \cup Attribute
                                \cup [kind : {"var"}, name : LocalVar])))
  /\ from \in Table \cup {None} /\ link \subseteq Table
  /\ db \in {Tables(b) : b \in Databases} \cup Collections \cup {None}
  /\ reply \in {"none", "found", "nothing", "error", "panic", "fatal"}

-----------------------------------------------------------------------------
(* The operands' terms, each at its operand and its place in it. *)
Places(c) == {p \in (1..3) \X (1..2) :
                p[1] \in DOMAIN c.args /\ p[2] \in DOMAIN c.args[p[1]].terms}
TermAt(c, p) == c.args[p[1]].terms[p[2]]
Before(p, q) == p[1] < q[1] \/ (p[1] = q[1] /\ p[2] < q[2])
Kinds(c, kinds) == {p \in Places(c) : TermAt(c, p).kind \in kinds}
First(ps) == CHOOSE p \in ps : \A q \in ps \ {p} : Before(p, q)
Attr(t, c) == [kind |-> "attr", table |-> t, col |-> c]

Refs == Kinds(call, {"row", "iter"})

Refuse(how) ==
  /\ pc' = "done" /\ reply' = how
  /\ UNCHANGED <<inputVars, preVars, sqlVars>>

Rewrite(p, t, c) ==
  /\ call' = [call EXCEPT !.args[p[1]].terms[p[2]] = Attr(t, c)]
  /\ UNCHANGED <<inputVars, pc, n, localVars, body, sqlVars, reply>>

(* Mutant: two iterators of one table are accepted. *)
SelfLink_Allowed(r) == FALSE

(* Self-links are not supported. *)
SelfLink(r) == tableNames[r.table] \notin {None, r.iter}

(* The first datastore must be one of the mapping's, the others the same.   *)
OtherStore(r) == IF expected = None THEN r.store \notin Pool ELSE r.store # expected

(* transformRefs: data.<datastore>.<table>[<iterator>].<column> becomes     *)
(* table and column, and so does <iterator>.<column> after it.  Before it,  *)
(* the column is taken for a datastore, and the row for a fourth part that  *)
(* is not there.                                                            *)
TransformRef ==
  /\ pc = "refs" /\ Refs # {}
  /\ LET p == First(Refs)
         r == TermAt(call, p)
     IN \/ /\ r.kind = "row" /\ (OtherStore(r) \/ SelfLink(r))
           /\ Refuse("error")
        \/ /\ r.kind = "row" /\ ~OtherStore(r) /\ ~SelfLink(r)
           /\ expected' = r.store
           /\ tableVars' = [tableVars EXCEPT ![r.iter] = r.table]
           /\ tableNames' = [tableNames EXCEPT ![r.table] = r.iter]
           /\ Rewrite(p, r.table, r.col)
        \/ /\ r.kind = "iter" /\ tableVars[r.iter] # None
           /\ Rewrite(p, tableVars[r.iter], r.col)
           /\ UNCHANGED <<tableNames, tableVars, expected>>
        \/ /\ r.kind = "iter" /\ tableVars[r.iter] = None
           /\ Refuse(IF expected = None THEN "error" ELSE "panic")

(* The top-level variables; those within a call are not substituted.        *)
Vars == {i \in DOMAIN call.args : call.args[i].op = "term" /\
                                  call.args[i].terms[1].kind = "var"}
VarAt(i) == call.args[i].terms[1].name

(* Mutant: whatever is on the right is taken for a reference.               *)
IsLocalVarDeclaration_Any == call.op = "eq" /\ 1 \in Vars /\ call.args[2].op = "term"

IsLocalVarDeclaration ==
  /\ call.op = "eq" /\ 1 \in Vars
  /\ call.args[2].op = "term" /\ call.args[2].terms[1].kind = "attr"

Advance ==
  /\ IF n = Len(query) THEN pc' = "process" /\ UNCHANGED <<n, call>>
     ELSE n' = n + 1 /\ call' = query[n + 1].call /\ UNCHANGED pc
  /\ UNCHANGED <<inputVars, tableNames, tableVars, expected, sqlVars, reply>>

(* substituteVars: a declaration, which may be the second of its variable,  *)
(* leaves the query.  Of other expressions the terms are kept and the       *)
(* negation is not.                                                         *)
SubstituteVars ==
  /\ pc = "refs" /\ Refs = {}
  /\ \/ /\ IsLocalVarDeclaration
        /\ localVars' = [localVars EXCEPT ![VarAt(1)] = call.args[2].terms[1]]
        /\ Advance /\ UNCHANGED body
     \/ /\ ~IsLocalVarDeclaration /\ \A i \in Vars : localVars[VarAt(i)] # None
        /\ body' = Append(body, [call EXCEPT !.args =
             [i \in DOMAIN call.args |->
                IF i \in Vars THEN [op |-> "term", terms |-> <<localVars[VarAt(i)]>>]
                ELSE call.args[i]]])
        /\ Advance /\ UNCHANGED localVars
     \/ /\ ~IsLocalVarDeclaration /\ \E i \in Vars : localVars[VarAt(i)] = None
        /\ Refuse("error")

-----------------------------------------------------------------------------
(* astProcessor.Process: the first attribute's table is selected from, the  *)
(* others of an expression with several are linked.  Without an attribute   *)
(* there is no table; a variable left over is an error, or with             *)
(* --ast-skip-unknown no operand.                                           *)
TablesOf(c) == {TermAt(c, p).table : p \in Kinds(c, {"attr"})}

Linked == UNION {TablesOf(body[k]) : k \in {k \in DOMAIN body : Cardinality(TablesOf(body[k])) > 1}}

Process ==
  /\ pc = "process"
  /\ LET having == {k \in DOMAIN body : TablesOf(body[k]) # {}}
         k0     == CHOOSE k \in having : \A m \in having : k <= m
         first  == TermAt(body[k0], First(Kinds(body[k0], {"attr"}))).table
     IN \/ having = {} /\ Refuse("panic")
        \/ /\ having # {} /\ \E k \in DOMAIN body : Kinds(body[k], {"var"}) # {}
           /\ Refuse("error")
        \/ /\ having # {}
           /\ from' = first /\ link' = Linked \ {first}
           /\ pc' = "translate"
           /\ UNCHANGED <<inputVars, preVars, db, reply>>

(* sqlTranslator.Translate: every operator needs a mapping and its operands,*)
(* every entity a schema.                                                   *)
HasStatement ==
  \A k \in DOMAIN body :
    /\ body[k].op \in Mapped /\ Kinds(body[k], {"var"}) = {}
    /\ TablesOf(body[k]) \subseteq Schema

(* mongoTranslator.Translate: one filter on one collection.  Links are      *)
(* dropped; every entity must be the collection or have a path in it.       *)
HasFilter ==
  \A k \in DOMAIN body :
    /\ body[k].op \in Comparison /\ \A i \in DOMAIN body[k].args : body[k].args[i].op = "term"
    /\ TablesOf(body[k]) \subseteq {from} \cup Nested[from]

Translate ==
  /\ pc = "translate"
  /\ IF IF platform = "mongo" THEN HasFilter ELSE HasStatement
     THEN /\ pc' = "execute"
          /\ UNCHANGED <<inputVars, preVars, sqlVars, reply>>
     ELSE Refuse("error")

-----------------------------------------------------------------------------
(* Mutant: minus is reversed as well. *)
Rearranged_Minus(op, i) == IF op \in Arithmetic /\ i < 3 THEN 3 - i ELSE i

(* The statement.  The texts of mul have its operands in reverse order.     *)
Rearranged(op, i) == IF op = "mul" /\ i < 3 THEN 3 - i ELSE i

Constants == UNION {{<<k, p>> : p \in Kinds(body[k], {"const"})} : k \in DOMAIN body}
InText(c) ==
  LET e == body[c[1]]
      p == c[2]
  IN <<c[1], <<Rearranged(e.op, p[1]), Rearranged(e.args[p[1]].op, p[2])>>>>
UpTo(c, d) == c[1] < d[1] \/ (c[1] = d[1] /\ (c[2] = d[2] \/ Before(c[2], d[2])))

(* Constants are collected as they are walked over; $n names the n-th of    *)
(* them, and the m-th ? of the text stands for the m-th.                    *)
Parameter(c) == Cardinality({d \in Constants : UpTo(d, c)})
Placeholder(c) == Cardinality({d \in Constants : UpTo(InText(d), InText(c))})

(* Mutant: each relation's placeholders are numbered anew. *)
Bound_Anew(c) ==
  LET m == Cardinality({d \in Constants : d[1] = c[1] /\ UpTo(d, c)})
      d == CHOOSE d \in Constants : Parameter(d) = m
  IN Sent[TermAt(body[d[1]], d[2]).value]

Bound(c) ==
  LET m == IF platform = "mysql" THEN Placeholder(c) ELSE Parameter(c)
      d == CHOOSE d \in Constants : Parameter(d) = m
  IN Sent[TermAt(body[d[1]], d[2]).value]

Compare(op, x, y) ==
  CASE op = "lt" -> x < y [] op = "neq" -> x # y [] OTHER -> x = y
Apply(op, x, y)   == IF op = "mul" THEN x * y ELSE x - y

(* Relation k on one row of each table.  A text of arithmetic is the        *)
(* sequence of its products, with their signs: texts are put together       *)
(* without parentheses, so that a product begins with the last one of the   *)
(* text before it, and a minus is that of the first one after it.           *)
TermValue(k, p, rows) ==
  LET x == TermAt(body[k], p)
  IN IF x.kind = "const" THEN Bound(<<k, p>>) ELSE rows[x.table][x.col]

(* The sum of a text, which has at most two products for each operand.      *)
Total(text) ==
  LET Product(i) == IF i \in DOMAIN text THEN text[i] ELSE 0
  IN Product(1) + Product(2) + Product(3) + Product(4)

Composed(op, x, y) ==
  IF op = "mul" THEN Front(x) \o <<Last(x) * Head(y)>> \o Tail(y)
  ELSE x \o <<-Head(y)>> \o Tail(y)

OperandText(k, i, rows) ==
  LET op == body[k].args[i].op
      At(j) == <<TermValue(k, <<i, Rearranged(op, j)>>, rows)>>
  IN IF op = "term" THEN At(1) ELSE Composed(op, At(1), At(2))

Relation(k, rows) ==
  LET op == body[k].op
      At(i) == OperandText(k, Rearranged(op, i), rows)
  IN IF op \in Comparison THEN Compare(op, Total(At(1)), Total(At(2)))
     ELSE Total(Composed(op, At(1), At(2))) = Total(At(3))

(* SELECT count( * ) FROM from, link WHERE relations: an error if a table   *)
(* is used that it does not select from.                                    *)
Execute ==
  /\ pc = "execute" /\ platform # "mongo" /\ pc' = "done"
  /\ \E b \in Databases :
       /\ db' = Tables(b)
       /\ reply' = IF \E k \in DOMAIN body : ~(TablesOf(body[k]) \subseteq {from} \cup link)
                   THEN "error"
                   ELSE IF \E rows \in [{from} \cup link -> Row] :
                             /\ \A t \in DOMAIN rows : rows[t] \in b[t]
                             /\ \A k \in DOMAIN body : Relation(k, rows)
                        THEN "found" ELSE "nothing"
  /\ UNCHANGED <<inputVars, preVars, from, link>>

-----------------------------------------------------------------------------
(* The filter.  walkCall puts the operand that is a column first, whatever  *)
(* the operator; the other one is its value.                                *)
Field(k) ==
  LET x == body[k].args[1].terms[1]
  IN IF x.kind = "attr" THEN x ELSE body[k].args[2].terms[1]
Compared(k) ==
  LET x == body[k].args[1].terms[1]
  IN IF x.kind = "attr" THEN body[k].args[2].terms[1] ELSE x

(* Mutant: the path of a nested entity begins with the collection.          *)
Elements_FullPath(d, f) == IF f.table = from THEN {r[f.col] : r \in d.rows[f.table]} ELSE {}

(* What a document has at the path of a field: of an array, all elements.   *)
Elements(d, f) == {r[f.col] : r \in d.rows[f.table]}

(* Mutant: "$lt" is mapped to "$lte". *)
Selects_Lte(d, k) ==
  IF body[k].op = "lt" /\ Compared(k).kind = "const"
  THEN \E x \in Elements(d, Field(k)) : x <= Quoted[Sent[Compared(k).value]]
  ELSE body[k].op # "neq" => \E x \in Elements(d, Field(k)) : x = Quoted[Sent[Compared(k).value]]

(* A condition is met by any element, "$ne" by all.  A second column is     *)
(* sent as a text, which no number equals.                                  *)
Selects(d, k) ==
  LET v  == Compared(k)
      op == body[k].op
  IN IF v.kind = "attr" THEN op = "neq"
     ELSE IF op = "neq" THEN Quoted[Sent[v.value]] \notin Elements(d, Field(k))
     ELSE \E x \in Elements(d, Field(k)) : Compare(op, x, Quoted[Sent[v.value]])

(* A text is written between quotes as it is: it may end them, or name an   *)
(* entity as {{entity.}} does.  So may a condition without a field.         *)
Garbled(k) ==
  \/ Field(k).kind # "attr"
  \/ Compared(k).kind = "const" /\ Quoted[Sent[Compared(k).value]] = None

(* The filter is read into a map: of two conditions on a field the last is  *)
(* kept.                                                                    *)
Kept(k) == \A m \in DOMAIN body : m > k => Field(m) # Field(k)

(* The collection asked is called as the policy calls it, also if that is   *)
(* an alias.  A garbled filter may be no JSON, which ends the process, no   *)
(* filter, or another one.                                                  *)
CountDocuments ==
  /\ pc = "execute" /\ platform = "mongo" /\ pc' = "done"
  /\ db' \in Collections
  /\ \/ /\ \E k \in DOMAIN body : Garbled(k)
        /\ reply' \in {"found", "nothing", "error", "panic", "fatal"}
     \/ /\ \A k \in DOMAIN body : ~Garbled(k)
        /\ reply' = IF \E d \in db' : /\ Name[d.coll] = from
                                     /\ \A k \in DOMAIN body : Kept(k) => Selects(d, k)
                    THEN "found" ELSE "nothing"
  /\ UNCHANGED <<inputVars, preVars, from, link>>

-----------------------------------------------------------------------------
Init ==
  /\ query \in Queries /\ platform \in Platform
  /\ pc = "refs" /\ n = 1 /\ call = query[1].call
  /\ tableNames = [t \in Table |-> None] /\ tableVars = [i \in Iterator |-> None]
  /\ localVars = [x \in LocalVar |-> None] /\ expected = None /\ body = <<>>
  /\ from = None /\ link = {} /\ db = None /\ reply = "none"

Next == TransformRef \/ SubstituteVars \/ Process \/ Translate \/ Execute \/ CountDocuments

Spec == Init /\ [][Next]_vars

-----------------------------------------------------------------------------
(* What the query means: there are rows, with MongoDB those of one          *)
(* document, and values of its variables, with which each expression is     *)
(* true.                                                                    *)
Meaning(x, rho, loc) ==
  CASE x.kind = "const" -> x.value
    [] x.kind = "var"   -> loc[x.name]
    [] OTHER            -> rho[x.iter][x.col]

Truth(c, rho, loc) ==
  LET At(i) == LET a == c.args[i]
                   x == Meaning(a.terms[1], rho, loc)
               IN IF a.op = "term" THEN x ELSE Apply(a.op, x, Meaning(a.terms[2], rho, loc))
  IN IF c.op \in Comparison THEN Compare(c.op, At(1), At(2)) ELSE Apply(c.op, At(1), At(2)) = At(3)

RowRefs == UNION {{TermAt(query[k].call, p) : p \in Kinds(query[k].call, {"row"})} :
                    k \in DOMAIN query}

Holds ==
  \E d \in db, rho \in [{r.iter : r \in RowRefs} -> Row], loc \in [LocalVar -> Value] :
    /\ \A r \in RowRefs : rho[r.iter] \in d.rows[r.table]
    /\ \A k \in DOMAIN query : query[k].negated # Truth(query[k].call, rho, loc)

Answered == reply \in {"found", "nothing"}

(* No negation, no arithmetic that needs parentheses, and no constant that  *)
(* is sent as another, such as a text of digits that begins with 0.         *)
Plain ==
  \A k \in DOMAIN query :
    /\ ~query[k].negated
    /\ LET c == query[k].call
       IN \A i \in 1 .. 2 : c.args[i].op = "minus" => c.op \in Comparison \/ (c.op = "minus" /\ i = 1)
    /\ \A p \in Kinds(query[k].call, {"const"}) :
         LET v == TermAt(query[k].call, p).value IN Sent[v] = v

(* No iterator is shared by two tables, and each variable is declared once  *)
(* and used.                                                                *)
Declares(k, x) ==
  LET c == query[k].call
  IN /\ c.op = "eq" /\ c.args[1].op = "term" /\ c.args[2].op = "term"
     /\ c.args[1].terms[1] = [kind |-> "var", name |-> x]
     /\ c.args[2].terms[1].kind \in {"row", "iter"}
Uses(k, x) == ~Declares(k, x) /\ \E p \in Kinds(query[k].call, {"var"}) : TermAt(query[k].call, p).name = x
Simple ==
  /\ \A r, s \in RowRefs : r.iter = s.iter => r.table = s.table
  /\ \A x \in LocalVar : \A k, m \in DOMAIN query :
       Declares(k, x) => /\ Declares(m, x) => k = m
                         /\ \E u \in DOMAIN query : Uses(u, x)

(* Relations that a filter states as they are, but for the documents' other *)
(* elements: of a column with a constant that JSON reads as it is sent, the *)
(* constant on the right of "lt", and no "neq" of a nested entity.          *)
Stated(k) ==
  LET x == body[k].args[1].terms[1]
      y == body[k].args[2].terms[1]
  IN /\ {x.kind, y.kind} = {"attr", "const"}
     /\ Quoted[Sent[Compared(k).value]] = Sent[Compared(k).value]
     /\ body[k].op = "lt" => x.kind = "attr"
     /\ body[k].op = "neq" => Field(k).table = from

(* The collection is called as its entity is.                               *)
Unaliased == from \in Collection /\ Name[from] = from

(* Each field, and of each nested entity each element, is asked about once. *)
AskedOnce ==
  \A k, m \in DOMAIN body : k # m => /\ Field(k) # Field(m)
                                     /\ Field(k).table = Field(m).table => Field(k).table = from

-----------------------------------------------------------------------------
(* Properties. *)

(* For a plain and simple query, an answer is that of the query: rewriting  *)
(* references, substituting variables, leaving out links, rearranging       *)
(* operands and numbering placeholders change nothing.                      *)
AnswersQuery ==
  platform # "mongo" /\ Answered /\ Plain /\ Simple => (reply = "found" <=> Holds)

(* For every plain query, also with shared iterators and repeated           *)
(* declarations, what makes it true is never missed.                        *)
NothingMissed == platform # "mongo" /\ reply = "nothing" /\ Plain => ~Holds

(* A filter is answered as the query is when it goes to a collection by its *)
(* own name, and each relation can be stated and is asked once, with texts  *)
(* that quotes do not change: then neither the order of operands, nor the   *)
(* map the filter is read into, nor the elements of arrays change anything. *)
DocumentsAnswered ==
  /\ platform = "mongo" /\ Answered /\ Plain /\ Simple
  /\ Unaliased /\ AskedOnce /\ \A k \in DOMAIN body : Stated(k)
  => (reply = "found" <=> Holds)

(* Conditions that overwrite each other, and conditions that are met by     *)
(* different elements of an array, find too many documents and never too    *)
(* few: no document is missed that the query asks for in a collection by    *)
(* its own name, with texts that quotes do not change.                      *)
DocumentsNotMissed ==
  /\ platform = "mongo" /\ reply = "nothing" /\ Plain
  /\ Unaliased /\ \A k \in DOMAIN body : Stated(k)
  => ~Holds

(* A query of several datastores, or of one that the mapping does not name, *)
(* or of two rows of one table, is refused and never answered.              *)
MixturesRefused ==
  Answered => \A r, s \in RowRefs :
    /\ r.store = s.store /\ r.store \in Pool
    /\ r.table = s.table => r.iter = s.iter
=============================================================================
