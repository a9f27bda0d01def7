------------------------- MODULE TranslationProofs -------------------------
(***************************************************************************)
(* Theorems about Translation, whatever the constants: its types; what is   *)
(* answered is a query of one datastore, with one iterator for each table;  *)
(* neither a statement's rows nor MongoDB's documents are missed, and a     *)
(* query that a statement or a filter states is answered.                   *)
(***************************************************************************)
EXTENDS Translation, FiniteSetTheorems, SequenceTheorems, WellFoundedInduction, TLAPS

(* A reference to a row is settled when the datastore and the iterator of   *)
(* its table are as it has them.                                            *)
Settled(r) ==
  /\ r.store = expected /\ r.store \in Pool
  /\ r.iter = tableNames[r.table]

RowsOf(k)   == Kinds(query[k].call, {"row"})
RowAt(k, p) == TermAt(query[k].call, p)

Written == Term \cup Attribute

Shape ==
  /\ query \in Seq(Expr)
  /\ pc \in {"refs", "process", "translate", "execute", "done"}
  /\ pc # "done" => reply = "none"
  /\ n \in 1 .. Len(query)
  /\ call \in Calls(Operand(Written))
  /\ tableNames \in [Table -> Iterator \cup {None}]
  /\ tableVars \in [Iterator -> Table \cup {None}]
  /\ expected \in Pool \cup {None}

(* Of the expression being preprocessed nothing but terms has changed.      *)
SamePlaces == pc = "refs" => Places(call) = Places(query[n].call)

(* References of earlier expressions are settled, and those of the current  *)
(* one are settled or as they were.                                         *)
Earlier == pc = "refs" => \A k \in 1 .. (n - 1) : \A p \in RowsOf(k) : Settled(RowAt(k, p))
Current ==
  pc = "refs" => \A p \in RowsOf(n) : TermAt(call, p) = RowAt(n, p) \/ Settled(RowAt(n, p))
AllSettled ==
  pc \in {"process", "translate", "execute"} \/ Answered =>
    \A k \in DOMAIN query : \A p \in RowsOf(k) : Settled(RowAt(k, p))

IInv == Shape /\ SamePlaces /\ Earlier /\ Current /\ AllSettled

-----------------------------------------------------------------------------
(* The terms of a call are among those it is made of.                       *)
LEMMA TermTyped ==
  ASSUME NEW S, NEW c \in Calls(Operand(S)), NEW p \in Places(c)
  PROVE  /\ p = <<p[1], p[2]>> /\ p[1] \in DOMAIN c.args
         /\ p[2] \in DOMAIN c.args[p[1]].terms
         /\ c.args[p[1]] \in Operand(S)
         /\ TermAt(c, p) \in S
<1>1. /\ p = <<p[1], p[2]>> /\ p[1] \in DOMAIN c.args /\ p[2] \in DOMAIN c.args[p[1]].terms
  BY DEF Places
<1>2. c.args[p[1]] \in Operand(S) BY <1>1 DEF Calls
<1>3. TermAt(c, p) \in S BY <1>1, <1>2 DEF Operand, TermAt
<1> QED BY <1>1, <1>2, <1>3

(* A rewritten reference changes one term and no more.                      *)
LEMMA OneTermRewritten ==
  ASSUME NEW S, NEW c \in Calls(Operand(S)), NEW p \in Places(c), NEW x \in S,
         NEW d, d = [c EXCEPT !.args[p[1]].terms[p[2]] = x]
  PROVE  /\ d \in Calls(Operand(S))
         /\ Places(d) = Places(c)
         /\ \A q \in Places(c) : q # p => TermAt(d, q) = TermAt(c, q)
<1> DEFINE i == p[1]
           j == p[2]
           o == [c.args[i] EXCEPT !.terms[j] = x]
<1>1. /\ p = <<i, j>> /\ i \in DOMAIN c.args /\ j \in DOMAIN c.args[i].terms
      /\ c.args[i] \in Operand(S)
  BY TermTyped
<1>2. /\ o \in Operand(S)
      /\ DOMAIN o.terms = DOMAIN c.args[i].terms
      /\ \A m \in DOMAIN o.terms : m # j => o.terms[m] = c.args[i].terms[m]
  <2>1. CASE c.args[i] \in [op : {"term"}, terms : [1..1 -> S]]
    BY <1>1, <2>1 DEF Operand
  <2>2. CASE c.args[i] \in [op : Arithmetic, terms : [1..2 -> S]]
    BY <1>1, <2>2 DEF Operand
  <2> QED BY <1>1, <2>1, <2>2 DEF Operand
<1> HIDE DEF o
<1>3. /\ d \in Calls(Operand(S))
      /\ DOMAIN d.args = DOMAIN c.args
      /\ d.args[i] = o
      /\ \A m \in DOMAIN c.args : m # i => d.args[m] = c.args[m]
  <2>1. d = [c EXCEPT !.args[i] = o] BY DEF o
  <2>2. CASE c \in [op : Comparison \cup {"unmapped"}, args : [1..2 -> Operand(S)]]
    BY <1>1, <1>2, <2>1, <2>2 DEF Calls
  <2>3. CASE c \in [op : Arithmetic, args : [1..3 -> Operand(S)]]
    BY <1>1, <1>2, <2>1, <2>3 DEF Calls
  <2> QED BY <2>2, <2>3 DEF Calls
<1>4. \A m \in DOMAIN c.args : DOMAIN d.args[m].terms = DOMAIN c.args[m].terms
  BY <1>2, <1>3
<1>5. Places(d) = Places(c) BY <1>3, <1>4 DEF Places
<1>6. ASSUME NEW q \in Places(c), q # p PROVE TermAt(d, q) = TermAt(c, q)
  <2>1. q = <<q[1], q[2]>> /\ q[1] \in DOMAIN c.args /\ q[2] \in DOMAIN c.args[q[1]].terms
    BY TermTyped
  <2>2. CASE q[1] # i BY <1>3, <2>1, <2>2 DEF TermAt
  <2>3. CASE q[1] = i
    <3>1. q[2] # j BY <1>1, <1>6, <2>1, <2>3
    <3> QED BY <1>2, <1>3, <2>1, <2>3, <3>1 DEF TermAt
  <2> QED BY <2>2, <2>3
<1> QED BY <1>3, <1>5, <1>6

(* Of some places there is a first.                                         *)
LEMMA FirstIsIn ==
  ASSUME NEW ps \in SUBSET ((1..3) \X (1..2)), ps # {}
  PROVE  First(ps) \in ps
<1> DEFINE Least(p) == p \in ps /\ \A q \in ps \ {p} : Before(p, q)
<1>1. \A q \in ps : \/ q = <<1, 1>> \/ q = <<1, 2>> \/ q = <<2, 1>>
                    \/ q = <<2, 2>> \/ q = <<3, 1>> \/ q = <<3, 2>>
  OBVIOUS
<1>2. \E p \in ps : Least(p)
  <2>1. CASE <<1, 1>> \in ps BY <1>1, <2>1 DEF Before
  <2>2. CASE <<1, 1>> \notin ps /\ <<1, 2>> \in ps BY <1>1, <2>2 DEF Before
  <2>3. CASE ps \subseteq {<<2, 1>>, <<2, 2>>, <<3, 1>>, <<3, 2>>} /\ <<2, 1>> \in ps
    BY <1>1, <2>3 DEF Before
  <2>4. CASE ps \subseteq {<<2, 2>>, <<3, 1>>, <<3, 2>>} /\ <<2, 2>> \in ps
    BY <1>1, <2>4 DEF Before
  <2>5. CASE ps \subseteq {<<3, 1>>, <<3, 2>>} /\ <<3, 1>> \in ps BY <1>1, <2>5 DEF Before
  <2>6. CASE ps \subseteq {<<3, 2>>} BY <2>6
  <2> QED BY <1>1, <2>1, <2>2, <2>3, <2>4, <2>5, <2>6
<1> QED BY <1>2 DEF First

(* The next reference to rewrite is one of the call's.                      *)
LEMMA NextRef ==
  ASSUME Refs # {}
  PROVE  /\ First(Refs) \in Places(call)
         /\ TermAt(call, First(Refs)).kind \in {"row", "iter"}
<1>1. Refs \subseteq (1..3) \X (1..2) BY DEF Refs, Kinds, Places
<1>2. First(Refs) \in Refs BY <1>1, FirstIsIn
<1> QED BY <1>2 DEF Refs, Kinds

(* What a reference to a row names.                                         *)
LEMMA RowTyped ==
  ASSUME NEW r \in Written, r.kind = "row"
  PROVE  r.store \in Datastore /\ r.table \in Table /\ r.iter \in Iterator /\ r.col \in Column
BY DEF Written, Term, Attribute

(* A query's expressions are calls of terms, which may be rewritten.        *)
LEMMA QueryTyped ==
  ASSUME query \in Seq(Expr), NEW k \in DOMAIN query
  PROVE  /\ query[k].call \in Calls(Operand(Term))
         /\ query[k].call \in Calls(Operand(Written))
<1>1. query[k] \in Expr OBVIOUS
<1>2. query[k].call \in Calls(Operand(Term)) BY <1>1 DEF Expr
<1>3. Operand(Term) \subseteq Operand(Written) BY DEF Operand, Written
<1>4. Calls(Operand(Term)) \subseteq Calls(Operand(Written)) BY <1>3 DEF Calls
<1> QED BY <1>2, <1>4

(* A row that a query refers to is typed, too.                              *)
LEMMA RowAtTyped ==
  ASSUME query \in Seq(Expr), NEW k \in DOMAIN query, NEW p \in RowsOf(k)
  PROVE  RowAt(k, p).store \in Datastore /\ RowAt(k, p).table \in Table /\ RowAt(k, p).iter \in Iterator
<1>1. p \in Places(query[k].call) /\ RowAt(k, p).kind = "row" BY DEF RowsOf, Kinds, RowAt
<1>2. RowAt(k, p) \in Written BY <1>1, QueryTyped, TermTyped DEF RowAt
<1> QED BY <1>1, <1>2, RowTyped

(* Nothing that a reference settles is unsettled by another one.            *)
LEMMA StaysSettled ==
  ASSUME NEW r, r.store \in Datastore, r.table \in Table, r.iter \in Iterator, Settled(r),
         NEW s, s.table \in Table, ~OtherStore(s), ~SelfLink(s),
         tableNames \in [Table -> Iterator \cup {None}],
         expected' = s.store,
         tableNames' = [tableNames EXCEPT ![s.table] = s.iter]
  PROVE  Settled(r)'
<1>1. None \notin Datastore /\ None \notin Iterator BY QueriesAssumption
<1>2. expected' = expected BY <1>1 DEF Settled, OtherStore
<1>3. tableNames'[r.table] = tableNames[r.table]
  <2>1. CASE r.table = s.table BY <1>1, <2>1 DEF Settled, SelfLink
  <2>2. CASE r.table # s.table BY <2>2
  <2> QED BY <2>1, <2>2
<1> QED BY <1>2, <1>3 DEF Settled

-----------------------------------------------------------------------------
(* What a query refers to, and what is settled, depends on these alone.     *)
LEMMA RowsFrame ==
  ASSUME UNCHANGED <<query, expected, tableNames>>
  PROVE  \A k : /\ RowsOf(k)' = RowsOf(k)
                /\ \A p : /\ RowAt(k, p)' = RowAt(k, p)
                          /\ Settled(RowAt(k, p))' <=> Settled(RowAt(k, p))
<1>1. \A k, p : RowAt(k, p)' = RowAt(k, p) BY DEF RowAt, TermAt
<1>2. \A k : RowsOf(k)' = RowsOf(k) BY DEF RowsOf, Kinds, Places, TermAt
<1> QED BY <1>1, <1>2 DEF Settled

(* A step that refuses keeps the invariant: nothing is answered.            *)
LEMMA RefuseKeeps ==
  ASSUME IInv, NEW how \in {"error", "panic"}, Refuse(how)
  PROVE  IInv'
<1>1. pc' = "done" /\ reply' = how /\ UNCHANGED <<query, n, call, tableNames, tableVars, expected>>
  BY DEF Refuse, inputVars, preVars
<1>2. Shape' BY <1>1 DEF IInv, Shape
<1> QED BY <1>1, <1>2 DEF IInv, SamePlaces, Earlier, Current, AllSettled, Answered

(* Rewriting a reference settles what it refers to, and unsettles nothing.  *)
LEMMA TransformRefKeeps == IInv /\ TransformRef => IInv'
<1> SUFFICES ASSUME IInv, TransformRef PROVE IInv'
  OBVIOUS
<1> PICK p : p = First(Refs) OBVIOUS
<1> PICK r : r = TermAt(call, p) OBVIOUS
<1> DEFINE Typed(s) == s.store \in Datastore /\ s.table \in Table /\ s.iter \in Iterator
<1>1. pc = "refs" /\ Refs # {} BY DEF TransformRef
<1>2. p \in Places(call) /\ r.kind \in {"row", "iter"} /\ r \in Written
  BY <1>1, NextRef, TermTyped DEF IInv, Shape
<1>3. n \in DOMAIN query /\ query \in Seq(Expr) BY DEF IInv, Shape
(* What all rewriting has in common.                                        *)
<1>4. ASSUME NEW t \in Table, NEW c \in Column, Rewrite(p, t, c),
             tableNames' \in [Table -> Iterator \cup {None}],
             tableVars' \in [Iterator -> Table \cup {None}],
             expected' \in Pool \cup {None},
             \A s : Typed(s) /\ Settled(s) => Settled(s)',
             r.kind = "row" => Settled(r)'
      PROVE  IInv'
  <2>1. /\ call' = [call EXCEPT !.args[p[1]].terms[p[2]] = Attr(t, c)]
        /\ UNCHANGED <<query, pc, n, reply>>
    BY <1>4 DEF Rewrite, inputVars
  <2>2. Attr(t, c) \in Written BY <1>4 DEF Attr, Written, Attribute
  <2>3. /\ call' \in Calls(Operand(Written))
        /\ Places(call)' = Places(call)
        /\ \A q \in Places(call) : q # p => TermAt(call', q) = TermAt(call, q)
    <3>1. call \in Calls(Operand(Written)) BY DEF IInv, Shape
    <3>2. Places(call') = Places(call) /\ call' \in Calls(Operand(Written))
          /\ \A q \in Places(call) : q # p => TermAt(call', q) = TermAt(call, q)
      BY <1>2, <2>1, <2>2, <3>1, OneTermRewritten
    <3> QED BY <3>2 DEF Places
  <2>4. Shape' BY <1>4, <2>1, <2>3 DEF IInv, Shape
  <2>5. SamePlaces' BY <2>1, <2>3 DEF IInv, SamePlaces, Places
  <2>6. \A k \in 1 .. (n - 1) : k \in DOMAIN query BY <1>3
  <2>7. \A k \in DOMAIN query : RowsOf(k)' = RowsOf(k) /\ \A q \in RowsOf(k) : RowAt(k, q)' = RowAt(k, q)
    BY <2>1 DEF RowsOf, RowAt, Kinds, Places, TermAt
  <2>8. Earlier'
    <3>1. ASSUME NEW k \in 1 .. (n - 1), NEW q \in RowsOf(k), NEW s, s = RowAt(k, q)
          PROVE  Settled(s)'
      <4>1. Settled(s) BY <1>1, <3>1 DEF IInv, Earlier
      <4>2. Typed(s) BY <1>3, <2>6, <3>1, RowAtTyped
      <4> QED BY <1>4, <4>1, <4>2
    <3>2. \A k \in 1 .. (n - 1) : \A q \in RowsOf(k) :
            /\ RowAt(k, q).store = expected' /\ RowAt(k, q).store \in Pool
            /\ RowAt(k, q).iter = tableNames'[RowAt(k, q).table]
      BY <3>1 DEF Settled
    <3> QED BY <2>1, <2>6, <2>7, <3>2 DEF Earlier, Settled
  <2>9. Current'
    <3>1. ASSUME NEW q \in RowsOf(n), NEW s, s = RowAt(n, q)
          PROVE  TermAt(call', q) = s \/ Settled(s)'
      <4>1. q \in Places(call) BY <1>1 DEF IInv, SamePlaces, RowsOf, Kinds
      <4>2. TermAt(call, q) = s \/ Settled(s) BY <1>1, <3>1 DEF IInv, Current
      <4>3. s.kind = "row" BY <3>1 DEF RowsOf, RowAt, Kinds
      <4>4. Typed(s) BY <1>3, <3>1, RowAtTyped
      <4>5. CASE Settled(s) BY <1>4, <4>4, <4>5
      <4>6. CASE TermAt(call, q) = s /\ q # p BY <2>3, <4>1, <4>6
      <4>7. CASE TermAt(call, q) = s /\ q = p BY <1>4, <4>3, <4>7
      <4> QED BY <4>2, <4>5, <4>6, <4>7
    <3>2. \A q \in RowsOf(n) :
            \/ TermAt(call', q) = RowAt(n, q)
            \/ /\ RowAt(n, q).store = expected' /\ RowAt(n, q).store \in Pool
               /\ RowAt(n, q).iter = tableNames'[RowAt(n, q).table]
      BY <3>1 DEF Settled
    <3>3. \A q : TermAt(call, q)' = TermAt(call', q) BY DEF TermAt
    <3> QED BY <1>3, <2>1, <2>7, <3>2, <3>3 DEF Current, Settled
  <2>10. AllSettled' BY <1>1, <2>1 DEF IInv, Shape, AllSettled, Answered
  <2> QED BY <2>4, <2>5, <2>8, <2>9, <2>10 DEF IInv
<1>5. CASE r.kind = "row" /\ (OtherStore(r) \/ SelfLink(r))
  <2>1. Refuse("error") BY <1>5 DEF TransformRef
  <2> QED BY <2>1, RefuseKeeps
<1>6. CASE r.kind = "row" /\ ~OtherStore(r) /\ ~SelfLink(r)
  <2>1. /\ expected' = r.store
        /\ tableVars' = [tableVars EXCEPT ![r.iter] = r.table]
        /\ tableNames' = [tableNames EXCEPT ![r.table] = r.iter]
        /\ Rewrite(p, r.table, r.col)
    BY <1>6 DEF TransformRef
  <2>2. Typed(r) /\ r.col \in Column BY <1>2, <1>6, RowTyped
  <2>3. /\ tableNames \in [Table -> Iterator \cup {None}]
        /\ tableVars \in [Iterator -> Table \cup {None}]
        /\ expected \in Pool \cup {None}
    BY DEF IInv, Shape
  <2>4. ASSUME NEW s, Typed(s), Settled(s) PROVE Settled(s)'
    BY <1>6, <2>1, <2>2, <2>3, <2>4, StaysSettled
  <2>5. Settled(r)'
    <3>1. r.store \in Pool
      <4>1. CASE expected = None BY <1>6, <4>1 DEF OtherStore
      <4>2. CASE expected # None BY <1>6, <2>3, <4>2 DEF OtherStore
      <4> QED BY <4>1, <4>2
    <3> QED BY <2>1, <2>2, <2>3, <3>1 DEF Settled
  <2>6. expected' \in Pool \cup {None} BY <2>1, <2>5 DEF Settled
  <2> QED BY <1>4, <2>1, <2>2, <2>3, <2>4, <2>5, <2>6
<1>7. CASE r.kind = "iter" /\ tableVars[r.iter] # None
  <2>1. /\ Rewrite(p, tableVars[r.iter], r.col)
        /\ UNCHANGED <<tableNames, tableVars, expected>>
    BY <1>7 DEF TransformRef
  <2>2. r.iter \in Iterator /\ r.col \in Column BY <1>2, <1>7 DEF Written, Term, Attribute
  <2>3. /\ tableVars[r.iter] \in Table
        /\ tableNames \in [Table -> Iterator \cup {None}]
        /\ tableVars \in [Iterator -> Table \cup {None}]
        /\ expected \in Pool \cup {None}
    BY <1>7, <2>2 DEF IInv, Shape
  <2>4. \A s : Settled(s) => Settled(s)' BY <2>1 DEF Settled
  <2> QED BY <1>4, <1>7, <2>1, <2>2, <2>3, <2>4
<1>8. CASE r.kind = "iter" /\ tableVars[r.iter] = None
  <2>1. Refuse("error") \/ Refuse("panic") BY <1>8 DEF TransformRef
  <2> QED BY <2>1, RefuseKeeps
<1> QED BY <1>2, <1>5, <1>6, <1>7, <1>8

(* An expression without references left to rewrite is settled as a whole.  *)
LEMMA SubstituteVarsKeeps == IInv /\ SubstituteVars => IInv'
<1> SUFFICES ASSUME IInv, SubstituteVars PROVE IInv'
  OBVIOUS
<1>1. pc = "refs" /\ Refs = {} BY DEF SubstituteVars
<1>2. /\ query \in Seq(Expr) /\ n \in 1 .. Len(query) /\ reply = "none"
      /\ call \in Calls(Operand(Written))
  BY <1>1 DEF IInv, Shape
<1>3. \A q \in RowsOf(n) : Settled(RowAt(n, q))
  <2>1. ASSUME NEW q \in RowsOf(n), TermAt(call, q) = RowAt(n, q) PROVE FALSE
    <3>1. q \in Places(call) BY <1>1 DEF IInv, SamePlaces, RowsOf, Kinds
    <3>2. TermAt(call, q).kind = "row" BY <2>1 DEF RowsOf, RowAt, Kinds
    <3> QED BY <1>1, <3>1, <3>2 DEF Refs, Kinds
  <2> QED BY <1>1, <2>1 DEF IInv, Current
<1>4. \A k \in 1 .. n : \A q \in RowsOf(k) : Settled(RowAt(k, q))
  BY <1>1, <1>2, <1>3 DEF IInv, Earlier
<1>5. CASE Refuse("error") BY <1>5, RefuseKeeps
<1>6. CASE Advance
  <2>1. UNCHANGED <<query, tableNames, tableVars, expected, reply>> BY <1>6 DEF Advance, inputVars
  <2>2. /\ \A k : RowsOf(k)' = RowsOf(k) /\ \A q : RowAt(k, q)' = RowAt(k, q)
        /\ \A s : Settled(s) <=> Settled(s)'
    BY <2>1 DEF RowsOf, RowAt, Kinds, Places, TermAt, Settled
  <2>3. \A k \in 1 .. n : \A q \in RowsOf(k)' : Settled(RowAt(k, q))'
    BY <1>4, <2>1, <2>2 DEF Settled
  <2>4. CASE n = Len(query)
    <3>1. pc' = "process" /\ n' = n /\ call' = call BY <1>6, <2>4 DEF Advance
    <3>2. DOMAIN query' = 1 .. n BY <1>2, <2>1, <2>4
    <3>3. AllSettled' BY <2>3, <3>2 DEF AllSettled
    <3> QED BY <1>2, <2>1, <3>1, <3>3 DEF IInv, Shape, SamePlaces, Earlier, Current
  <2>5. CASE n # Len(query)
    <3>1. pc' = "refs" /\ n' = n + 1 /\ call' = query[n + 1].call
      BY <1>1, <1>6, <2>5 DEF Advance
    <3>2. n + 1 \in 1 .. Len(query) /\ n + 1 \in DOMAIN query BY <1>2, <2>5
    <3>3. call' \in Calls(Operand(Written)) BY <1>2, <3>1, <3>2, QueryTyped
    <3>4. Shape' BY <1>2, <2>1, <3>1, <3>2, <3>3 DEF IInv, Shape
    <3>5. SamePlaces' BY <2>1, <3>1 DEF SamePlaces, Places
    <3>6. Earlier' BY <1>2, <2>3, <3>1 DEF Earlier
    <3>7. Current' BY <2>1, <3>1 DEF Current, RowAt, TermAt
    <3>8. AllSettled' BY <1>2, <2>1, <3>1 DEF AllSettled, Answered
    <3> QED BY <3>4, <3>5, <3>6, <3>7, <3>8 DEF IInv
  <2> QED BY <2>4, <2>5
<1> QED BY <1>5, <1>6 DEF SubstituteVars

-----------------------------------------------------------------------------
(* The inductive invariant of preprocessing.                                *)
THEOREM PreprocessingInductive == Spec => []IInv
<1>1. Init => IInv
  <2> SUFFICES ASSUME Init PROVE IInv
    OBVIOUS
  <2>1. query \in Seq(Expr) /\ query # <<>> BY QueriesAssumption DEF Init
  <2>2. 1 \in 1 .. Len(query) /\ 1 \in DOMAIN query BY <2>1
  <2>3. call \in Calls(Operand(Written)) BY <2>1, <2>2, QueryTyped DEF Init
  <2>4. Shape BY <2>1, <2>2, <2>3 DEF Init, Shape
  <2>5. SamePlaces /\ Earlier /\ Current /\ AllSettled
    BY DEF Init, SamePlaces, Earlier, Current, AllSettled, Answered, RowAt
  <2> QED BY <2>4, <2>5 DEF IInv
<1>2. IInv /\ [Next]_vars => IInv'
  <2> SUFFICES ASSUME IInv, [Next]_vars PROVE IInv'
    OBVIOUS
  <2>1. CASE TransformRef BY <2>1, TransformRefKeeps
  <2>2. CASE SubstituteVars BY <2>2, SubstituteVarsKeeps
  <2>3. ASSUME UNCHANGED <<query, n, call, tableNames, tableVars, expected>>,
               pc' \in {"process", "translate", "execute", "done"}, pc' # "done" => reply' = "none",
               pc \in {"process", "translate", "execute"}
        PROVE  IInv'
    <3>1. Shape' BY <2>3 DEF IInv, Shape
    <3>2. SamePlaces' /\ Earlier' /\ Current' BY <2>3 DEF SamePlaces, Earlier, Current
    <3>3. AllSettled'
      <4>1. \A k \in DOMAIN query : \A p \in RowsOf(k) : Settled(RowAt(k, p))
        BY <2>3 DEF IInv, AllSettled
      <4>2. QED
        BY <2>3, <4>1, RowsFrame DEF AllSettled
    <3> QED BY <3>1, <3>2, <3>3 DEF IInv
  <2>4. CASE Process
    <3>1. CASE \E how \in {"error", "panic"} : Refuse(how) BY <3>1, RefuseKeeps
    <3>2. CASE pc' = "translate" /\ UNCHANGED <<inputVars, preVars, reply>>
      BY <2>3, <2>4, <3>2 DEF Process, inputVars, preVars, IInv, Shape
    <3> QED BY <2>4, <3>1, <3>2 DEF Process
  <2>5. CASE Translate
    <3>1. CASE Refuse("error") BY <3>1, RefuseKeeps
    <3>2. CASE pc' = "execute" /\ UNCHANGED <<inputVars, preVars, reply>>
      BY <2>3, <2>5, <3>2 DEF Translate, inputVars, preVars, IInv, Shape
    <3> QED BY <2>5, <3>1, <3>2 DEF Translate
  <2>6. CASE Execute
    <3>1. pc = "execute" /\ pc' = "done" /\ UNCHANGED <<inputVars, preVars>> BY <2>6 DEF Execute
    <3> QED BY <2>3, <3>1 DEF inputVars, preVars
  <2>7. CASE CountDocuments
    <3>1. pc = "execute" /\ pc' = "done" /\ UNCHANGED <<inputVars, preVars>>
      BY <2>7 DEF CountDocuments
    <3> QED BY <2>3, <3>1 DEF inputVars, preVars
  <2>8. CASE UNCHANGED vars
    <3>1. UNCHANGED <<query, pc, n, call, tableNames, tableVars, expected, reply>>
      BY <2>8 DEF vars, inputVars, preVars
    <3>2. Shape' BY <3>1 DEF IInv, Shape
    <3>3. SamePlaces' BY <3>1 DEF IInv, SamePlaces, Places
    <3>4. Earlier' BY <3>1, RowsFrame DEF IInv, Earlier
    <3>5. Current'
      <4>1. \A q : TermAt(call, q)' = TermAt(call, q) BY <3>1 DEF TermAt
      <4>2. QED
        BY <3>1, <4>1, RowsFrame DEF IInv, Current
    <3>6. AllSettled' BY <3>1, RowsFrame DEF IInv, AllSettled, Answered
    <3> QED BY <3>2, <3>3, <3>4, <3>5, <3>6 DEF IInv
  <2> QED BY <2>1, <2>2, <2>4, <2>5, <2>6, <2>7, <2>8 DEF Next
<1> QED BY <1>1, <1>2, PTL DEF Spec

(* Mixtures are refused: the rows of an answered query are of one datastore *)
(* of the mapping, and a table's are of one iterator (transformRefs).       *)
THEOREM MixturesAlwaysRefused == Spec => []MixturesRefused
<1>1. IInv => MixturesRefused
  <2> SUFFICES ASSUME IInv, Answered, NEW r \in RowRefs, NEW s \in RowRefs
               PROVE  /\ r.store = s.store /\ r.store \in Pool
                      /\ r.table = s.table => r.iter = s.iter
    BY DEF MixturesRefused
  <2>1. \A x \in RowRefs : Settled(x)
    BY DEF IInv, AllSettled, RowRefs, RowsOf, RowAt
  <2> QED BY <2>1 DEF Settled
<1> QED BY <1>1, PreprocessingInductive, PTL
-----------------------------------------------------------------------------
(* Types.  Of an expression without references only constants, attributes   *)
(* and variables are left.                                                  *)
Leaf == [kind : {"const"}, value : Value] \cup Attribute \cup [kind : {"var"}, name : LocalVar]

(* What is left to type once preprocessing has its shape.                   *)
Rest ==
  /\ platform \in Platform
  /\ localVars \in [LocalVar -> Attribute \cup {None}]
  /\ body \in Seq(Calls(Operand(Leaf)))
  /\ from \in Table \cup {None} /\ link \subseteq Table
  /\ db \in {Tables(b) : b \in Databases} \cup Collections \cup {None}
  /\ reply \in {"none", "found", "nothing", "error", "panic", "fatal"}

(* Some natural numbers have a least one.                                   *)
LEMMA LeastExists ==
  ASSUME NEW S \in SUBSET Nat, S # {}
  PROVE  \E k \in S : \A m \in S : k <= m
<1> DEFINE R == {ss \in Nat \X Nat : ss[1] < ss[2]}
<1>1. IsWellFoundedOn(R, Nat)
  BY NatLessThanWellFounded DEF OpToRel
<1>2. \A x, y \in Nat : y < x => <<y, x>> \in R
  OBVIOUS
<1> HIDE DEF R
<1>3. PICK k \in S : \A m \in S : ~(<<m, k>> \in R)
  BY <1>1, WFMin
<1>4. \A m \in S : ~(m < k)
  BY <1>2, <1>3
<1>5. QED
  BY <1>4

(* Each term of an operand has a place.                                     *)
LEMMA PlacesOf ==
  ASSUME NEW S, NEW c \in Calls(Operand(S)), NEW i \in DOMAIN c.args,
         NEW j \in DOMAIN c.args[i].terms
  PROVE  <<i, j>> \in Places(c) /\ TermAt(c, <<i, j>>) = c.args[i].terms[j]
<1>1. i \in 1..3 /\ c.args[i] \in Operand(S)
  BY DEF Calls
<1>2. j \in 1..2
  BY <1>1 DEF Operand
<1>3. QED
  BY <1>1, <1>2 DEF Places, TermAt

(* A call of whose terms none is a reference.                               *)
LEMMA LeafCall ==
  ASSUME NEW c \in Calls(Operand(Written)), Kinds(c, {"row", "iter"}) = {}
  PROVE  c \in Calls(Operand(Leaf))
<1>1. ASSUME NEW i \in DOMAIN c.args
      PROVE  c.args[i] \in Operand(Leaf)
  <2>1. c.args[i] \in Operand(Written)
    BY DEF Calls
  <2>2. ASSUME NEW j \in DOMAIN c.args[i].terms
        PROVE  c.args[i].terms[j] \in Leaf
    <3>1. <<i, j>> \in Places(c) /\ TermAt(c, <<i, j>>) = c.args[i].terms[j]
      BY PlacesOf
    <3>2. c.args[i].terms[j] \in Written /\ c.args[i].terms[j].kind \notin {"row", "iter"}
      BY <2>1, <3>1 DEF Kinds, Operand
    <3>3. QED
      BY <3>2 DEF Written, Term, Leaf, Attribute
  <2>3. CASE c.args[i] \in [op : {"term"}, terms : [1..1 -> Written]]
    BY <2>2, <2>3 DEF Operand
  <2>4. CASE c.args[i] \in [op : Arithmetic, terms : [1..2 -> Written]]
    BY <2>2, <2>4 DEF Operand
  <2>5. QED
    BY <2>1, <2>3, <2>4 DEF Operand
<1>2. CASE c \in [op : Comparison \cup {"unmapped"}, args : [1..2 -> Operand(Written)]]
  BY <1>1, <1>2 DEF Calls
<1>3. CASE c \in [op : Arithmetic, args : [1..3 -> Operand(Written)]]
  BY <1>1, <1>3 DEF Calls
<1>4. QED
  BY <1>2, <1>3 DEF Calls

(* Of some operands others are put in place.                                *)
LEMMA ArgsReplaced ==
  ASSUME NEW S, NEW c \in Calls(S), NEW f, DOMAIN f = DOMAIN c.args,
         f = [i \in DOMAIN f |-> f[i]], \A i \in DOMAIN f : f[i] \in S
  PROVE  /\ [c EXCEPT !.args = f] \in Calls(S)
         /\ [c EXCEPT !.args = f].op = c.op /\ [c EXCEPT !.args = f].args = f
<1>1. CASE c \in [op : Comparison \cup {"unmapped"}, args : [1..2 -> S]]
  BY <1>1 DEF Calls
<1>2. CASE c \in [op : Arithmetic, args : [1..3 -> S]]
  BY <1>2 DEF Calls
<1>3. QED
  BY <1>1, <1>2 DEF Calls

(* What SubstituteVars adds to the body.                                    *)
Substituted ==
  [call EXCEPT !.args =
     [i \in DOMAIN call.args |->
        IF i \in Vars THEN [op |-> "term", terms |-> <<localVars[VarAt(i)]>>]
        ELSE call.args[i]]]

(* It is typed, and has the operands it should.                             *)
LEMMA SubstitutedTyped ==
  ASSUME IInv, Rest, Refs = {}, \A i \in Vars : localVars[VarAt(i)] # None
  PROVE  /\ call \in Calls(Operand(Leaf))
         /\ Substituted \in Calls(Operand(Leaf))
         /\ Substituted.op = call.op
         /\ Substituted.args =
              [i \in DOMAIN call.args |->
                IF i \in Vars THEN [op |-> "term", terms |-> <<localVars[VarAt(i)]>>]
                ELSE call.args[i]]
<1> DEFINE f == [i \in DOMAIN call.args |->
                  IF i \in Vars THEN [op |-> "term", terms |-> <<localVars[VarAt(i)]>>]
                  ELSE call.args[i]]
<1>1. call \in Calls(Operand(Leaf))
  BY LeafCall DEF IInv, Shape, Refs
<1>2. ASSUME NEW i \in DOMAIN call.args
      PROVE  f[i] \in Operand(Leaf)
  <2>1. CASE i \notin Vars
    BY <1>1, <2>1 DEF Calls
  <2>2. CASE i \in Vars
    <3>1. call.args[i] \in Operand(Leaf)
      BY <1>1 DEF Calls
    <3>2. call.args[i].terms[1] \in Leaf /\ call.args[i].terms[1].kind = "var"
      BY <2>2, <3>1 DEF Vars, Operand
    <3>3. VarAt(i) \in LocalVar
      BY <3>2 DEF VarAt, Leaf, Attribute
    <3>4. localVars[VarAt(i)] \in Leaf
      BY <2>2, <3>3 DEF Rest, Leaf
    <3>5. <<localVars[VarAt(i)]>> \in [1..1 -> Leaf]
      BY <3>4
    <3>6. QED
      BY <2>2, <3>5 DEF Operand
  <2>3. QED
    BY <2>1, <2>2
<1>3. DOMAIN f = DOMAIN call.args /\ f = [i \in DOMAIN f |-> f[i]]
  OBVIOUS
<1> HIDE DEF f
<1>4. /\ [call EXCEPT !.args = f] \in Calls(Operand(Leaf))
      /\ [call EXCEPT !.args = f].op = call.op /\ [call EXCEPT !.args = f].args = f
  BY <1>1, <1>2, <1>3, ArgsReplaced
<1>5. QED
  BY <1>1, <1>4 DEF Substituted, f

(* The attributes of a preprocessed expression are of tables.               *)
LEMMA TablesTyped ==
  ASSUME NEW c \in Calls(Operand(Leaf))
  PROVE  TablesOf(c) \subseteq Table
<1>1. \A p \in Places(c) : TermAt(c, p) \in Leaf
  BY TermTyped
<1>2. QED
  BY <1>1 DEF TablesOf, Kinds, Leaf, Attribute

(* The table that Process selects from.                                     *)
LEMMA FirstTable ==
  ASSUME Rest, NEW having, having = {k \in DOMAIN body : TablesOf(body[k]) # {}}, having # {},
         NEW k0, k0 = (CHOOSE k \in having : \A m \in having : k <= m),
         NEW p, p = First(Kinds(body[k0], {"attr"}))
  PROVE  /\ k0 \in DOMAIN body /\ p \in Kinds(body[k0], {"attr"})
         /\ TermAt(body[k0], p).table \in Table
<1>1. having \in SUBSET Nat
  BY DEF Rest
<1>2. k0 \in having
  <2>1. \E k \in having : \A m \in having : k <= m
    BY <1>1, LeastExists
  <2>2. QED
    BY <2>1
<1>3. Kinds(body[k0], {"attr"}) # {} /\ Kinds(body[k0], {"attr"}) \subseteq (1..3) \X (1..2)
  <2>0. \A k \in having : k \in DOMAIN body /\ TablesOf(body[k]) # {}
    OBVIOUS
  <2>1. TablesOf(body[k0]) # {}
    BY <1>2, <2>0
  <2>2. Kinds(body[k0], {"attr"}) # {}
    <3>1. \A c : TablesOf(c) # {} => Kinds(c, {"attr"}) # {}
      BY DEF TablesOf
    <3>2. QED
      BY <2>1, <3>1
  <2>3. \A c : Kinds(c, {"attr"}) \subseteq (1..3) \X (1..2)
    BY DEF Kinds, Places
  <2>4. QED
    BY <2>2, <2>3
<1>4. p \in Kinds(body[k0], {"attr"})
  <2>1. PICK ps : ps = Kinds(body[k0], {"attr"})
    OBVIOUS
  <2>2. First(ps) \in ps
    BY <1>3, <2>1, FirstIsIn
  <2>3. QED
    BY <2>1, <2>2
<1>5. body[k0] \in Calls(Operand(Leaf))
  BY <1>2 DEF Rest
<1>6. QED
  BY <1>2, <1>4, <1>5, TablesTyped DEF TablesOf

(* No step breaks the types.                                                *)
LEMMA RestKept ==
  ASSUME IInv, IInv', Rest, [Next]_vars
  PROVE  Rest'
<1>1. CASE TransformRef
  BY <1>1 DEF TransformRef, Refuse, Rewrite, inputVars, preVars, sqlVars, Rest
<1>2. CASE SubstituteVars
  <2>1. UNCHANGED <<platform, sqlVars>>
    BY <1>2 DEF SubstituteVars, Advance, Refuse, inputVars
  <2>2. reply' \in {reply, "error"}
    BY <1>2 DEF SubstituteVars, Advance, Refuse
  <2>3. localVars' \in [LocalVar -> Attribute \cup {None}]
    <3>1. CASE IsLocalVarDeclaration
               /\ localVars' = [localVars EXCEPT ![VarAt(1)] = call.args[2].terms[1]]
      <4>1. call \in Calls(Operand(Written))
        BY DEF IInv, Shape
      <4>2. call.args[2] \in Operand(Written)
        BY <3>1, <4>1 DEF IsLocalVarDeclaration, Calls, Comparison, Arithmetic
      <4>3. call.args[2].terms[1] \in Written
        BY <3>1, <4>2 DEF IsLocalVarDeclaration, Operand, Arithmetic
      <4>4. call.args[2].terms[1] \in Attribute
        BY <3>1, <4>3 DEF IsLocalVarDeclaration, Written, Term
      <4>5. QED
        BY <3>1, <4>4 DEF Rest
    <3>2. CASE UNCHANGED localVars
      BY <3>2 DEF Rest
    <3>3. QED
      BY <1>2, <3>1, <3>2 DEF SubstituteVars, Refuse, preVars
  <2>4. body' \in Seq(Calls(Operand(Leaf)))
    <3>1. CASE (\A i \in Vars : localVars[VarAt(i)] # None) /\ body' = Append(body, Substituted)
      <4>1. Substituted \in Calls(Operand(Leaf))
        BY <1>2, <3>1, SubstitutedTyped DEF SubstituteVars
      <4>2. QED
        BY <3>1, <4>1 DEF Rest
    <3>2. CASE UNCHANGED body
      BY <3>2 DEF Rest
    <3>3. QED
      BY <1>2, <3>1, <3>2 DEF SubstituteVars, Refuse, preVars, Substituted
  <2>5. QED
    BY <2>1, <2>2, <2>3, <2>4 DEF Rest, sqlVars
<1>3. CASE Process
  <2>0. UNCHANGED <<inputVars, preVars, db>> /\ reply' \in {reply, "panic", "error"}
    BY <1>3 DEF Process, Refuse, sqlVars
  <2>1. CASE UNCHANGED sqlVars
    BY <2>0, <2>1 DEF Rest, inputVars, preVars, sqlVars
  <2>2. CASE ~UNCHANGED sqlVars
    <3> DEFINE having == {k \in DOMAIN body : TablesOf(body[k]) # {}}
               k0 == CHOOSE k \in having : \A m \in having : k <= m
               p == First(Kinds(body[k0], {"attr"}))
    <3>1. /\ having # {}
          /\ from' = TermAt(body[k0], p).table
          /\ link' = Linked \ {from'}
      BY <1>3, <2>2 DEF Process, Refuse
    <3> HIDE DEF p
    <3>2. from' \in Table
      BY <3>1, FirstTable DEF p
    <3>3. Linked \subseteq Table
      BY TablesTyped DEF Rest, Linked
    <3>4. QED
      BY <2>0, <3>1, <3>2, <3>3 DEF Rest, inputVars, preVars
  <2>3. QED
    BY <2>1, <2>2
<1>4. CASE Translate
  BY <1>4 DEF Translate, Refuse, inputVars, preVars, sqlVars, Rest
<1>5. CASE Execute
  BY <1>5 DEF Execute, inputVars, preVars, Rest
<1>6. CASE CountDocuments
  BY <1>6 DEF CountDocuments, inputVars, preVars, Rest
<1>7. CASE UNCHANGED vars
  BY <1>7 DEF vars, inputVars, preVars, sqlVars, Rest
<1>8. QED
  BY <1>1, <1>2, <1>3, <1>4, <1>5, <1>6, <1>7 DEF Next

(* Type correctness, for any queries, schemas and contents.                 *)
THEOREM TranslationTypes == Spec => []TypeOK
<1>1. Init => Rest
  BY DEF Init, Rest
<1>2. IInv /\ Rest /\ IInv' /\ [Next]_vars => Rest'
  BY RestKept
<1>3. IInv /\ Rest => TypeOK
  <2> SUFFICES ASSUME IInv, Rest PROVE TypeOK
    OBVIOUS
  <2>1. expected \in Datastore \cup {None}
    BY QueriesAssumption DEF IInv, Shape
  <2>2. QED
    BY <2>1 DEF IInv, Shape, Rest, TypeOK, Leaf, Written
<1>4. QED
  BY <1>1, <1>2, <1>3, PreprocessingInductive, PTL DEF Spec

-----------------------------------------------------------------------------
(* Meanings.  What a term of the expression being preprocessed, or of the   *)
(* body, stands for: an attribute for the row of its table's iterator.      *)
Now(x, rho, loc) ==
  CASE x.kind = "const" -> x.value
    [] x.kind = "var"   -> loc[x.name]
    [] x.kind = "attr"  -> rho[tableNames[x.table]][x.col]
    [] x.kind \notin {"const", "var", "attr"} -> rho[x.iter][x.col]

ValueNow(a, rho, loc) ==
  IF a.op = "term" THEN Now(a.terms[1], rho, loc)
  ELSE Apply(a.op, Now(a.terms[1], rho, loc), Now(a.terms[2], rho, loc))
ValueOf(a, rho, loc) ==
  IF a.op = "term" THEN Meaning(a.terms[1], rho, loc)
  ELSE Apply(a.op, Meaning(a.terms[1], rho, loc), Meaning(a.terms[2], rho, loc))

TrueNow(c, rho, loc) ==
  LET At(i) == ValueNow(c.args[i], rho, loc)
  IN IF c.op \in Comparison THEN Compare(c.op, At(1), At(2)) ELSE Apply(c.op, At(1), At(2)) = At(3)

(* Attributes are of tables with an iterator; plain constants are sent as   *)
(* they are.                                                                *)
Good(x) == /\ x.kind = "attr" => tableNames[x.table] # None
           /\ x.kind = "const" /\ Plain => Sent[x.value] = x.value

(* The table of an iterator has it, and is referred to with it.             *)
Names   == \A i \in Iterator : tableVars[i] # None => tableNames[tableVars[i]] = i
Sources == \A t \in Table : tableNames[t] # None =>
             \E r \in RowRefs : r.table = t /\ r.iter = tableNames[t]

(* The expression being preprocessed means what it did.                     *)
SameTerm(x, y) ==
  /\ Good(x)
  /\ x.kind \in {"row", "iter"} => x = y
  /\ \A rho, loc : Now(x, rho, loc) = Meaning(y, rho, loc)
CallMeans ==
  pc = "refs" =>
    LET q == query[n].call
    IN /\ call.op = q.op /\ DOMAIN call.args = DOMAIN q.args
       /\ \A i \in DOMAIN call.args : call.args[i].op = q.args[i].op
       /\ \A p \in Places(call) : SameTerm(TermAt(call, p), TermAt(q, p))

(* When all that the query says is true, variables have the values of the   *)
(* attributes they stand for, and all that the body says is true.           *)
Satisfied(rho, loc) == \A k \in DOMAIN query : Truth(query[k].call, rho, loc)
LocalsMean ==
  \A x \in LocalVar : localVars[x] # None =>
    /\ Good(localVars[x])
    /\ \A rho, loc : Satisfied(rho, loc) => loc[x] = Now(localVars[x], rho, loc)
GoodCall(c) ==
  /\ \A p \in Places(c) : Good(TermAt(c, p))
  /\ \A rho, loc : Satisfied(rho, loc) /\ c.op \in Mapped => TrueNow(c, rho, loc)
BodyMeans == \A k \in DOMAIN body : GoodCall(body[k])

(* The table selected from has an iterator, and the filter its form.        *)
Selected == pc \in {"translate", "execute"} => from \in Table /\ tableNames[from] # None
Filtered == pc = "execute" /\ platform = "mongo" => HasFilter

Meant == Names /\ Sources /\ CallMeans /\ LocalsMean /\ BodyMeans /\ Selected /\ Filtered

-----------------------------------------------------------------------------
(* What a table's iterator makes of a term stays when iterators stay.       *)
LEMMA TermStays ==
  ASSUME UNCHANGED query, \A t \in Table : tableNames[t] # None => tableNames'[t] = tableNames[t],
         NEW x, x.kind = "attr" => x.table \in Table, Good(x)
  PROVE  Good(x)' /\ \A rho, loc : Now(x, rho, loc)' = Now(x, rho, loc)
<1>1. Plain' <=> Plain
  BY DEF Plain, Kinds, Places, TermAt
<1>2. Good(x)'
  BY <1>1 DEF Good
<1>3. \A rho, loc : Now(x, rho, loc)' = Now(x, rho, loc)
  <2>1. CASE x.kind = "attr"
    BY <2>1 DEF Now, Good
  <2>2. CASE x.kind # "attr"
    BY <2>2 DEF Now
  <2>3. QED
    BY <2>1, <2>2
<1>4. QED
  BY <1>2, <1>3

(* Operands and calls of such terms mean the same.                          *)
LEMMA CallStays ==
  ASSUME UNCHANGED query, \A t \in Table : tableNames[t] # None => tableNames'[t] = tableNames[t],
         NEW S, \A x \in S : x.kind = "attr" => x.table \in Table,
         NEW c \in Calls(Operand(S)), \A p \in Places(c) : Good(TermAt(c, p)), c.op \in Mapped
  PROVE  \A rho, loc : TrueNow(c, rho, loc)' <=> TrueNow(c, rho, loc)
<1>1. ASSUME NEW rho, NEW loc, NEW i \in DOMAIN c.args
      PROVE  ValueNow(c.args[i], rho, loc)' = ValueNow(c.args[i], rho, loc)
  <2>1. c.args[i] \in Operand(S)
    BY DEF Calls
  <2>2. ASSUME NEW j \in DOMAIN c.args[i].terms
        PROVE  Now(c.args[i].terms[j], rho, loc)' = Now(c.args[i].terms[j], rho, loc)
    <3>1. PICK x : x = c.args[i].terms[j]
      OBVIOUS
    <3>2. x \in S /\ Good(x)
      BY <3>1, <2>1, PlacesOf DEF Operand
    <3>3. Now(x, rho, loc)' = Now(x, rho, loc)
      BY <3>2, TermStays
    <3>4. QED
      BY <3>1, <3>3 DEF Now
  <2>3. CASE c.args[i].op = "term"
    <3>1. 1 \in DOMAIN c.args[i].terms
      BY <2>1 DEF Operand
    <3>2. QED
      BY <2>2, <2>3, <3>1 DEF ValueNow
  <2>4. CASE c.args[i].op # "term"
    <3>1. 1 \in DOMAIN c.args[i].terms /\ 2 \in DOMAIN c.args[i].terms
      BY <2>1, <2>4 DEF Operand
    <3>2. QED
      BY <2>2, <2>4, <3>1 DEF ValueNow
  <2>5. QED
    BY <2>3, <2>4
<1>2. /\ 1 \in DOMAIN c.args /\ 2 \in DOMAIN c.args
      /\ c.op \notin Comparison => 3 \in DOMAIN c.args
  BY DEF Calls, Mapped, Comparison, Arithmetic
<1>3. QED
  BY <1>1, <1>2 DEF TrueNow

(* Calls that differ in their terms only. *)
SameForm(c, q) ==
  /\ c.op = q.op /\ DOMAIN c.args = DOMAIN q.args /\ Places(c) = Places(q)
  /\ \A i \in DOMAIN c.args : c.args[i].op = q.args[i].op

(* A call with the same form, of terms that mean the same, is as true.      *)
LEMMA SameMeaning ==
  ASSUME NEW c \in Calls(Operand(Written)), NEW q \in Calls(Operand(Written)),
         SameForm(c, q), c.op \in Mapped, NEW rho, NEW loc,
         \A p \in Places(c) : Now(TermAt(c, p), rho, loc) = Meaning(TermAt(q, p), rho, loc)
  PROVE  TrueNow(c, rho, loc) <=> Truth(q, rho, loc)
<1>1. /\ c.op = q.op /\ DOMAIN c.args = DOMAIN q.args /\ Places(c) = Places(q)
      /\ \A i \in DOMAIN c.args : c.args[i].op = q.args[i].op
  BY DEF SameForm
<1>2. ASSUME NEW i \in DOMAIN c.args
      PROVE  ValueNow(c.args[i], rho, loc) = ValueOf(q.args[i], rho, loc)
  <2>1. c.args[i] \in Operand(Written) /\ q.args[i] \in Operand(Written)
    BY <1>1 DEF Calls
  <2>2. ASSUME NEW j \in DOMAIN c.args[i].terms, j \in DOMAIN q.args[i].terms
        PROVE  Now(c.args[i].terms[j], rho, loc) = Meaning(q.args[i].terms[j], rho, loc)
    <3>1. <<i, j>> \in Places(c) /\ TermAt(c, <<i, j>>) = c.args[i].terms[j]
      BY PlacesOf
    <3>2. TermAt(q, <<i, j>>) = q.args[i].terms[j]
      BY <1>1, <2>2, PlacesOf
    <3>3. QED
      BY <3>1, <3>2
  <2>3. CASE c.args[i].op = "term"
    <3>1. 1 \in DOMAIN c.args[i].terms /\ 1 \in DOMAIN q.args[i].terms
      BY <2>1 DEF Operand
    <3>2. QED
      BY <1>1, <2>2, <2>3, <3>1 DEF ValueNow, ValueOf
  <2>4. CASE c.args[i].op # "term"
    <3>1. /\ 1 \in DOMAIN c.args[i].terms /\ 2 \in DOMAIN c.args[i].terms
          /\ 1 \in DOMAIN q.args[i].terms /\ 2 \in DOMAIN q.args[i].terms
      BY <1>1, <2>1, <2>4 DEF Operand
    <3>2. QED
      BY <1>1, <2>2, <2>4, <3>1 DEF ValueNow, ValueOf
  <2>5. QED
    BY <2>3, <2>4
<1>3. /\ 1 \in DOMAIN c.args /\ 2 \in DOMAIN c.args
      /\ c.op \notin Comparison => 3 \in DOMAIN c.args
  BY DEF Calls, Mapped, Comparison, Arithmetic
<1>4. Truth(q, rho, loc) <=>
        IF q.op \in Comparison THEN Compare(q.op, ValueOf(q.args[1], rho, loc), ValueOf(q.args[2], rho, loc))
        ELSE Apply(q.op, ValueOf(q.args[1], rho, loc), ValueOf(q.args[2], rho, loc)) = ValueOf(q.args[3], rho, loc)
  BY DEF Truth, ValueOf
<1>5. QED
  BY <1>1, <1>2, <1>3, <1>4 DEF TrueNow

(* A preprocessed expression is true when the original one is.              *)
LEMMA CallIsTrue ==
  ASSUME pc = "refs", IInv, CallMeans, call.op \in Mapped, NEW rho, NEW loc
  PROVE  TrueNow(call, rho, loc) <=> Truth(query[n].call, rho, loc)
<1>1. PICK q : q = query[n].call
  OBVIOUS
<1>2. call \in Calls(Operand(Written)) /\ q \in Calls(Operand(Written)) /\ Places(call) = Places(q)
  BY <1>1, QueryTyped DEF IInv, Shape, SamePlaces
<1>3. SameForm(call, q)
  BY <1>1, <1>2 DEF CallMeans, SameForm
<1>4. \A p \in Places(call) : Now(TermAt(call, p), rho, loc) = Meaning(TermAt(q, p), rho, loc)
  BY <1>1 DEF CallMeans, SameTerm
<1>5. QED
  BY <1>1, <1>2, <1>3, <1>4, SameMeaning

(* An expression of the query means itself.                                 *)
LEMMA QueryMeans ==
  ASSUME query \in Seq(Expr), NEW k \in DOMAIN query, NEW p \in Places(query[k].call)
  PROVE  SameTerm(TermAt(query[k].call, p), TermAt(query[k].call, p))
<1>1. PICK x : x = TermAt(query[k].call, p)
  OBVIOUS
<1>2. x \in Term
  BY <1>1, QueryTyped, TermTyped
<1>3. x.kind \in {"const", "row", "iter", "var"}
  BY <1>2 DEF Term
<1>4. x.kind = "const" /\ Plain => Sent[x.value] = x.value
  BY <1>1 DEF Plain, Kinds
<1>5. \A rho, loc : Now(x, rho, loc) = Meaning(x, rho, loc)
  BY <1>3 DEF Now, Meaning
<1>6. SameTerm(x, x)
  BY <1>3, <1>4, <1>5 DEF SameTerm, Good
<1>7. QED
  BY <1>1, <1>6

(* A rewritten reference leaves operators alone.                            *)
LEMMA OneTermIn ==
  ASSUME NEW S, NEW c \in Calls(Operand(S)), NEW p \in Places(c), NEW x \in S,
         NEW d, d = [c EXCEPT !.args[p[1]].terms[p[2]] = x]
  PROVE  /\ d.op = c.op /\ DOMAIN d.args = DOMAIN c.args
         /\ \A i \in DOMAIN c.args : d.args[i].op = c.args[i].op
         /\ TermAt(d, p) = x
<1> DEFINE o == [c.args[p[1]] EXCEPT !.terms[p[2]] = x]
<1>1. p[1] \in DOMAIN c.args /\ p[2] \in DOMAIN c.args[p[1]].terms /\ c.args[p[1]] \in Operand(S)
  BY TermTyped
<1>2. o.op = c.args[p[1]].op /\ o.terms[p[2]] = x
  BY <1>1 DEF Operand
<1> HIDE DEF o
<1>3. d = [c EXCEPT !.args[p[1]] = o]
  BY DEF o
<1>4. d.op = c.op /\ d.args = [c.args EXCEPT ![p[1]] = o]
  BY <1>3 DEF Calls
<1>5. QED
  BY <1>1, <1>2, <1>4 DEF TermAt

(* The query is the same, and tables keep their iterators.                  *)
IteratorsKept == UNCHANGED query /\ \A t \in Table : tableNames[t] # None => tableNames'[t] = tableNames[t]

(* What the query says depends on the query alone.                          *)
LEMMA SatisfiedKept ==
  ASSUME UNCHANGED query
  PROVE  \A rho, loc : Satisfied(rho, loc)' <=> Satisfied(rho, loc)
BY DEF Satisfied, Truth, Meaning

(* So does what a local variable stands for.                                *)
LEMMA LocalsKept ==
  ASSUME IteratorsKept, Rest, LocalsMean, NEW x \in LocalVar, localVars[x] # None,
         localVars'[x] = localVars[x]
  PROVE  /\ Good(localVars[x])'
         /\ \A rho, loc : Satisfied(rho, loc)' => loc[x] = Now(localVars[x], rho, loc)'
<1>1. PICK a : a = localVars[x]
  OBVIOUS
<1>2. a \in Attribute /\ Good(a)
  BY <1>1 DEF Rest, LocalsMean
<1>3. Good(a)' /\ \A rho, loc : Now(a, rho, loc)' = Now(a, rho, loc)
  BY <1>2, TermStays DEF IteratorsKept, Attribute
<1>4. \A rho, loc : Satisfied(rho, loc)' => loc[x] = Now(a, rho, loc)'
  BY <1>1, <1>3, SatisfiedKept DEF IteratorsKept, LocalsMean
<1>5. QED
  BY <1>1, <1>3, <1>4 DEF Good, Now

(* What is said of the body stays.                                          *)
LEMMA GoodKept ==
  ASSUME IteratorsKept, NEW c \in Calls(Operand(Leaf)), GoodCall(c)
  PROVE  GoodCall(c)'
<1>1. \A p \in Places(c) : Good(TermAt(c, p))
  BY DEF GoodCall
<1>2. \A x \in Leaf : x.kind = "attr" => x.table \in Table
  BY DEF Leaf, Attribute
<1>3. ASSUME NEW p \in Places(c)
      PROVE  Good(TermAt(c, p))'
  <2>1. PICK x : x = TermAt(c, p)
    OBVIOUS
  <2>2. x \in Leaf /\ Good(x)
    BY <1>1, <2>1, TermTyped
  <2>3. Good(x)'
    BY <1>2, <2>2, TermStays DEF IteratorsKept
  <2>4. QED
    BY <2>1, <2>3 DEF TermAt
<1>4. ASSUME NEW rho, NEW loc, Satisfied(rho, loc)', c.op \in Mapped
      PROVE  TrueNow(c, rho, loc)'
  <2>1. TrueNow(c, rho, loc)
    BY <1>4, SatisfiedKept DEF IteratorsKept, GoodCall
  <2>2. QED
    BY <1>1, <1>2, <1>4, <2>1, CallStays DEF IteratorsKept
<1>5. QED
  BY <1>3, <1>4 DEF GoodCall

(* What is said of an expression is said of it in the body.                 *)
LEMMA GoodInBody ==
  ASSUME NEW k, NEW c, c = body'[k], GoodCall(c)'
  PROVE  GoodCall(body[k])'
<1>1. \A p \in Places(body[k])' : Good(TermAt(body[k], p))'
  <2>1. \A p \in Places(c) : Good(TermAt(c, p))'
    BY DEF GoodCall
  <2>2. Places(body[k])' = Places(c)
    BY DEF Places
  <2>3. QED
    BY <2>1, <2>2 DEF TermAt, Good
<1>2. \A rho, loc : Satisfied(rho, loc)' /\ body'[k].op \in Mapped => TrueNow(body[k], rho, loc)'
  <2>1. \A rho, loc : Satisfied(rho, loc)' /\ c.op \in Mapped => TrueNow(c, rho, loc)'
    BY DEF GoodCall
  <2>2. \A rho, loc : TrueNow(body[k], rho, loc)' <=> TrueNow(c, rho, loc)'
    BY DEF TrueNow, ValueNow, Now
  <2>3. QED
    BY <2>1, <2>2
<1>3. QED
  BY <1>1, <1>2 DEF GoodCall

(* A step that keeps locals and body keeps what they mean.                  *)
LEMMA MeansKept ==
  ASSUME IteratorsKept, Rest, Meant
  PROVE  /\ UNCHANGED localVars => LocalsMean'
         /\ \A k \in DOMAIN body : body'[k] = body[k] => GoodCall(body[k])'
         /\ UNCHANGED body => BodyMeans'
<1>1. ASSUME UNCHANGED localVars
      PROVE  LocalsMean'
  <2>1. \A x \in LocalVar : localVars[x] # None =>
          /\ Good(localVars[x])'
          /\ \A rho, loc : Satisfied(rho, loc)' => loc[x] = Now(localVars[x], rho, loc)'
    BY <1>1, LocalsKept DEF Meant
  <2>2. QED
    BY <1>1, <2>1 DEF LocalsMean
<1>2. ASSUME NEW k \in DOMAIN body, body'[k] = body[k]
      PROVE  GoodCall(body[k])'
  <2>1. PICK c : c = body[k]
    OBVIOUS
  <2>2. c \in Calls(Operand(Leaf)) /\ GoodCall(c)
    BY <2>1 DEF Rest, Meant, BodyMeans
  <2>3. GoodCall(c)'
    BY <2>2, GoodKept
  <2>4. QED
    BY <1>2, <2>1, <2>3, GoodInBody
<1>3. ASSUME UNCHANGED body
      PROVE  BodyMeans'
  BY <1>2, <1>3 DEF BodyMeans
<1>4. QED
  BY <1>1, <1>2, <1>3

(* A term that means what it did still does.                                *)
LEMMA SameTermKept ==
  ASSUME IteratorsKept, NEW x, x.kind = "attr" => x.table \in Table, NEW y, SameTerm(x, y)
  PROVE  SameTerm(x, y)'
<1>1. Good(x)' /\ \A rho, loc : Now(x, rho, loc)' = Now(x, rho, loc)
  BY TermStays DEF IteratorsKept, SameTerm
<1>2. QED
  BY <1>1 DEF SameTerm

(* Rewriting a row gives its table an iterator and takes none away.         *)
LEMMA StepKeeps ==
  ASSUME IInv, [Next]_vars
  PROVE  IteratorsKept
<1>1. CASE TransformRef
  <2>1. UNCHANGED query
    BY <1>1 DEF TransformRef, Refuse, Rewrite, inputVars
  <2>2. CASE UNCHANGED tableNames
    BY <2>1, <2>2 DEF IteratorsKept
  <2>3. CASE tableNames' # tableNames
    <3>1. PICK r : r = TermAt(call, First(Refs))
      OBVIOUS
    <3>2. ~SelfLink(r) /\ tableNames' = [tableNames EXCEPT ![r.table] = r.iter]
      BY <1>1, <2>3, <3>1 DEF TransformRef, Refuse, preVars
    <3>3. QED
      BY <2>1, <3>2 DEF IteratorsKept, SelfLink, IInv, Shape
  <2>4. QED
    BY <2>2, <2>3
<1>2. CASE SubstituteVars
  BY <1>2 DEF SubstituteVars, Advance, Refuse, inputVars, preVars, IteratorsKept
<1>3. CASE Process \/ Translate \/ Execute \/ CountDocuments \/ UNCHANGED vars
  BY <1>3 DEF Process, Translate, Execute, CountDocuments, Refuse, vars, inputVars, preVars, IteratorsKept
<1>4. QED
  BY <1>1, <1>2, <1>3 DEF Next

(* A step that leaves preprocessing alone.                                  *)
LEMMA FrameMeans ==
  ASSUME Rest, Meant, UNCHANGED <<query, n, call, tableNames, tableVars, localVars, body>>,
         pc' = "refs" => pc = "refs", Selected', Filtered'
  PROVE  Meant'
<1>1. IteratorsKept
  BY DEF IteratorsKept
<1>2. Names' /\ Sources'
  <2>1. RowRefs' = RowRefs
    BY DEF RowRefs, Kinds, Places, TermAt
  <2>2. QED
    BY <2>1 DEF Meant, Names, Sources
<1>3. LocalsMean' /\ BodyMeans'
  BY <1>1, MeansKept
<1>4. CallMeans'
  <2>1. ASSUME pc = "refs", NEW p \in Places(call), NEW x, x = TermAt(call, p),
               NEW y, y = TermAt(query[n].call, p)
        PROVE  SameTerm(x, y)'
    <3>1. SameTerm(x, y)
      BY <2>1 DEF Meant, CallMeans
    <3>2. Plain' <=> Plain
      BY DEF Plain, Kinds, Places, TermAt
    <3>3. QED
      BY <3>1, <3>2 DEF SameTerm, Good, Now
  <2>2. pc = "refs" => \A p \in Places(call) : SameTerm(TermAt(call, p), TermAt(query[n].call, p))'
    <3>1. ASSUME pc = "refs", NEW p \in Places(call)
          PROVE  SameTerm(TermAt(call, p), TermAt(query[n].call, p))'
      <4>1. PICK x, y : x = TermAt(call, p) /\ y = TermAt(query[n].call, p)
        OBVIOUS
      <4>2. SameTerm(x, y)'
        BY <2>1, <3>1, <4>1
      <4>3. x = TermAt(call, p)' /\ y = TermAt(query[n].call, p)'
        BY <4>1 DEF TermAt
      <4>4. QED
        BY <4>2, <4>3 DEF SameTerm, Good, Now
    <3>2. QED
      BY <3>1
  <2>3. Places(call)' = Places(call)
    BY DEF Places
  <2>4. QED
    BY <2>2, <2>3 DEF Meant, CallMeans
<1>5. QED
  BY <1>2, <1>3, <1>4 DEF Meant

(* So does one that refuses.                                                 *)
LEMMA RefuseMeans ==
  ASSUME Rest, Meant, NEW how, Refuse(how)
  PROVE  Meant'
BY FrameMeans DEF Refuse, inputVars, preVars, Selected, Filtered

(* A rewritten reference means what it did.                                 *)
LEMMA TransformRefMeans ==
  ASSUME IInv, Rest, Meant, TransformRef
  PROVE  Meant'
<1> PICK p : p = First(Refs) OBVIOUS
<1> PICK r : r = TermAt(call, p) OBVIOUS
<1>1. pc = "refs" /\ Refs # {} BY DEF TransformRef
<1>2. p \in Places(call) /\ r.kind \in {"row", "iter"} /\ r \in Written
  BY <1>1, NextRef, TermTyped DEF IInv, Shape
<1>3. call \in Calls(Operand(Written)) /\ n \in DOMAIN query /\ query \in Seq(Expr)
  BY DEF IInv, Shape
<1>4. IteratorsKept
  BY StepKeeps DEF Next
<1>5. r = TermAt(query[n].call, p) /\ SameTerm(r, r)
  BY <1>1, <1>2 DEF Meant, CallMeans, SameTerm
<1>6. ASSUME NEW t \in Table, Rewrite(p, t, r.col), r.col \in Column, tableNames'[t] = r.iter, r.iter # None,
             Names', Sources'
      PROVE  Meant'
  <2>1. call' = [call EXCEPT !.args[p[1]].terms[p[2]] = Attr(t, r.col)]
        /\ UNCHANGED <<query, pc, n, localVars, body>>
    BY <1>6 DEF Rewrite, inputVars
  <2>2. Attr(t, r.col) \in Written
    BY <1>6 DEF Attr, Written, Attribute
  <2>3. /\ Places(call') = Places(call)
        /\ \A q \in Places(call) : q # p => TermAt(call', q) = TermAt(call, q)
    BY <1>2, <1>3, <2>1, <2>2, OneTermRewritten
  <2>4. /\ call'.op = call.op /\ DOMAIN call'.args = DOMAIN call.args
        /\ \A i \in DOMAIN call.args : call'.args[i].op = call.args[i].op
        /\ TermAt(call', p) = Attr(t, r.col)
    BY <1>2, <1>3, <2>1, <2>2, OneTermIn
  <2>5. LocalsMean' /\ BodyMeans'
    BY <1>4, <2>1, MeansKept
  <2>6. Selected' /\ Filtered'
    BY <1>1, <2>1 DEF Selected, Filtered
  <2>7. ASSUME NEW q \in Places(call), NEW x, x = TermAt(call', q), NEW y, y = TermAt(query[n].call, q)
        PROVE  SameTerm(x, y)'
    <3>1. CASE q # p
      <4>1. SameTerm(x, y)
        BY <1>1, <2>3, <2>7, <3>1 DEF Meant, CallMeans
      <4>2. x \in Written
        BY <1>3, <2>3, <2>7, <3>1, TermTyped
      <4>3. x.kind = "attr" => x.table \in Table
        BY <4>2 DEF Written, Term, Attribute
      <4>4. QED
        BY <1>4, <4>1, <4>3, SameTermKept
    <3>2. CASE q = p
      <4>1. x = Attr(t, r.col) /\ y = r
        BY <1>5, <2>4, <2>7, <3>2
      <4>2. \A rho, loc : Meaning(y, rho, loc) = rho[r.iter][r.col]
        BY <1>2, <4>1 DEF Meaning
      <4>3. \A rho, loc : Now(x, rho, loc)' = rho[r.iter][r.col]
        BY <1>6, <4>1 DEF Now, Attr
      <4>4. QED
        BY <1>6, <4>1, <4>2, <4>3 DEF SameTerm, Good, Attr
    <3>3. QED
      BY <3>1, <3>2
  <2>8. \A q \in Places(call) : SameTerm(TermAt(call, q), TermAt(query[n].call, q))'
    <3>1. ASSUME NEW q \in Places(call)
          PROVE  SameTerm(TermAt(call, q), TermAt(query[n].call, q))'
      <4>1. PICK x, y : x = TermAt(call', q) /\ y = TermAt(query[n].call, q)
        OBVIOUS
      <4>2. SameTerm(x, y)'
        BY <2>7, <4>1
      <4>3. x = TermAt(call, q)' /\ y = TermAt(query[n].call, q)'
        BY <2>1, <4>1 DEF TermAt
      <4>4. QED
        BY <4>2, <4>3 DEF SameTerm, Good, Now
    <3>2. QED
      BY <3>1
  <2>9. Places(call)' = Places(call)
    BY <2>3 DEF Places
  <2>10. CallMeans'
    BY <1>1, <2>1, <2>4, <2>8, <2>9 DEF Meant, CallMeans
  <2>11. QED
    BY <1>6, <2>5, <2>6, <2>10 DEF Meant
<1>7. CASE \E how \in {"error", "panic"} : Refuse(how)
  BY <1>7, RefuseMeans
<1>8. CASE r.kind = "row" /\ ~OtherStore(r) /\ ~SelfLink(r)
  <2>1. /\ tableVars' = [tableVars EXCEPT ![r.iter] = r.table]
        /\ tableNames' = [tableNames EXCEPT ![r.table] = r.iter]
        /\ Rewrite(p, r.table, r.col)
    BY <1>8 DEF TransformRef
  <2>2. r.table \in Table /\ r.iter \in Iterator /\ r.col \in Column
    BY <1>2, <1>8, RowTyped
  <2>3. /\ tableNames \in [Table -> Iterator \cup {None}]
        /\ tableVars \in [Iterator -> Table \cup {None}]
        /\ None \notin Iterator /\ None \notin Table
    BY QueriesAssumption DEF IInv, Shape
  <2>4. Names'
    BY <1>8, <2>1, <2>2, <2>3 DEF Meant, Names, SelfLink
  <2>5. Sources'
    <3>1. r \in RowRefs
      <4>1. p \in Kinds(query[n].call, {"row"})
        BY <1>1, <1>2, <1>5, <1>8 DEF Kinds, IInv, SamePlaces
      <4>2. QED
        BY <1>3, <1>5, <4>1 DEF RowRefs
    <3>2. RowRefs' = RowRefs
      BY <1>4 DEF IteratorsKept, RowRefs, Kinds, Places, TermAt
    <3>3. QED
      BY <2>1, <2>2, <2>3, <3>1, <3>2 DEF Meant, Sources
  <2>6. QED
    BY <1>6, <2>1, <2>2, <2>3, <2>4, <2>5
<1>9. CASE r.kind = "iter" /\ tableVars[r.iter] # None
  <2>1. /\ Rewrite(p, tableVars[r.iter], r.col)
        /\ UNCHANGED <<tableNames, tableVars>>
    BY <1>9 DEF TransformRef
  <2>2. r.iter \in Iterator /\ r.col \in Column BY <1>2, <1>9 DEF Written, Term, Attribute
  <2>3. /\ tableVars[r.iter] \in Table /\ r.iter # None
        /\ tableNames[tableVars[r.iter]] = r.iter
    BY <1>9, <2>2, QueriesAssumption DEF IInv, Shape, Meant, Names
  <2>4. Names' /\ Sources'
    <3>1. RowRefs' = RowRefs
      BY <1>4 DEF IteratorsKept, RowRefs, Kinds, Places, TermAt
    <3>2. QED
      BY <2>1, <3>1 DEF Meant, Names, Sources
  <2>5. QED
    BY <1>6, <2>1, <2>2, <2>3, <2>4
<1>10. QED
  BY <1>2, <1>7, <1>8, <1>9 DEF TransformRef

(* Going on to the next expression, which means itself.                     *)
LEMMA AdvanceMeans ==
  ASSUME IInv, Rest, Meant, IteratorsKept, pc = "refs", Advance, LocalsMean', BodyMeans'
  PROVE  Meant'
<1>1. UNCHANGED <<query, tableNames, tableVars>>
  BY DEF Advance, inputVars
<1>2. Names' /\ Sources'
  <2>1. RowRefs' = RowRefs
    BY <1>1 DEF RowRefs, Kinds, Places, TermAt
  <2>2. QED
    BY <1>1, <2>1 DEF Meant, Names, Sources
<1>3. Selected' /\ Filtered'
  BY DEF Advance, Selected, Filtered
<1>4. CallMeans'
  <2>1. CASE n = Len(query)
    BY <2>1 DEF Advance, CallMeans
  <2>2. CASE n # Len(query)
    <3>1. PICK k, c : k = n + 1 /\ c = query[k].call
      OBVIOUS
    <3>2. k \in DOMAIN query /\ query \in Seq(Expr)
      BY <2>2, <3>1 DEF IInv, Shape
    <3>3. n' = k /\ call' = c /\ query'[k].call = c
      BY <1>1, <2>2, <3>1 DEF Advance
    <3>4. ASSUME NEW p \in Places(c), NEW x, x = TermAt(c, p)
          PROVE  SameTerm(x, x)'
      <4>1. SameTerm(x, x)
        BY <3>1, <3>2, <3>4, QueryMeans
      <4>2. x \in Term
        BY <3>1, <3>2, <3>4, QueryTyped, TermTyped
      <4>3. x.kind = "attr" => x.table \in Table
        BY <4>2 DEF Term
      <4>4. QED
        BY <4>1, <4>3, SameTermKept
    <3>5. ASSUME NEW p \in Places(call)'
          PROVE  SameTerm(TermAt(call, p), TermAt(query[n].call, p))'
      <4>1. PICK x : x = TermAt(c, p)
        OBVIOUS
      <4>2. p \in Places(c)
        BY <3>3, <3>5 DEF Places
      <4>3. SameTerm(x, x)'
        BY <3>4, <4>1, <4>2
      <4>4. x = TermAt(call, p)' /\ x = TermAt(query[n].call, p)'
        BY <3>3, <4>1 DEF TermAt
      <4>5. QED
        BY <4>3, <4>4 DEF SameTerm, Good, Now
    <3>6. QED
      BY <3>3, <3>5 DEF CallMeans
  <2>3. QED
    BY <2>1, <2>2
<1>5. QED
  BY <1>2, <1>3, <1>4 DEF Meant

(* A declared variable has, whenever the query is true, the value of the    *)
(* attribute it is declared to be.                                          *)
LEMMA DeclarationMeans ==
  ASSUME IInv, Rest, Meant, IteratorsKept, pc = "refs", Refs = {}, IsLocalVarDeclaration,
         localVars' = [localVars EXCEPT ![VarAt(1)] = call.args[2].terms[1]]
  PROVE  LocalsMean'
<1>1. PICK x, a : x = VarAt(1) /\ a = call.args[2].terms[1]
  OBVIOUS
<1>2. call \in Calls(Operand(Leaf)) /\ 1 \in DOMAIN call.args /\ 2 \in DOMAIN call.args
  <2>1. call \in Calls(Operand(Leaf))
    BY LeafCall DEF IInv, Shape, Refs
  <2>2. QED
    BY <2>1 DEF Calls
<1>3. call.args[1].op = "term" /\ call.args[2].op = "term" /\ call.op = "eq"
      /\ call.args[1].terms[1].kind = "var" /\ a.kind = "attr"
  BY <1>1 DEF IsLocalVarDeclaration, Vars
<1>4. call.args[1] \in Operand(Leaf) /\ call.args[2] \in Operand(Leaf)
  BY <1>2 DEF Calls
<1>5. 1 \in DOMAIN call.args[2].terms /\ a \in Leaf /\ call.args[1].terms[1] \in Leaf
  BY <1>1, <1>3, <1>4 DEF Operand, Arithmetic
<1>6. a \in Attribute /\ x \in LocalVar
  BY <1>1, <1>3, <1>5 DEF Leaf, VarAt, Attribute
<1>7. Good(a)
  <2>1. <<2, 1>> \in Places(call) /\ TermAt(call, <<2, 1>>) = a
    BY <1>1, <1>2, <1>5, PlacesOf
  <2>2. SameTerm(a, TermAt(query[n].call, <<2, 1>>))
    BY <2>1 DEF Meant, CallMeans
  <2>3. QED
    BY <2>2 DEF SameTerm
<1>8. ASSUME NEW rho, NEW loc, Satisfied(rho, loc)
      PROVE  loc[x] = Now(a, rho, loc)
  <2>1. n \in DOMAIN query
    BY DEF IInv, Shape
  <2>2. TrueNow(call, rho, loc)
    BY <1>3, <1>8, <2>1, CallIsTrue DEF Satisfied, Meant, Mapped, Comparison
  <2>3. ValueNow(call.args[1], rho, loc) = ValueNow(call.args[2], rho, loc)
    BY <1>3, <2>2 DEF TrueNow, Compare, Comparison
  <2>4. ValueNow(call.args[1], rho, loc) = loc[x]
    BY <1>1, <1>3 DEF ValueNow, Now, VarAt
  <2>5. ValueNow(call.args[2], rho, loc) = Now(a, rho, loc)
    BY <1>1, <1>3 DEF ValueNow
  <2>6. QED
    BY <2>3, <2>4, <2>5
<1>9. Good(a)' /\ \A rho, loc : Satisfied(rho, loc)' => loc[x] = Now(a, rho, loc)'
  <2>1. Good(a)' /\ \A rho, loc : Now(a, rho, loc)' = Now(a, rho, loc)
    BY <1>6, <1>7, TermStays DEF IteratorsKept, Attribute
  <2>2. QED
    BY <1>8, <2>1, SatisfiedKept DEF IteratorsKept
<1>10. /\ localVars'[x] = a
       /\ \A y \in LocalVar : y # x => localVars'[y] = localVars[y]
  BY <1>1, <1>6 DEF Rest
<1>11. ASSUME NEW y \in LocalVar, localVars'[y] # None
       PROVE  /\ Good(localVars[y])'
              /\ \A rho, loc : Satisfied(rho, loc)' => loc[y] = Now(localVars[y], rho, loc)'
  <2>1. CASE y = x
    <3>1. localVars'[y] = a
      BY <1>10, <2>1
    <3>2. Good(localVars[y])'
      BY <1>9, <3>1 DEF Good
    <3>3. \A rho, loc : Now(localVars[y], rho, loc)' = Now(a, rho, loc)'
      BY <3>1 DEF Now
    <3>4. QED
      BY <1>9, <2>1, <3>2, <3>3
  <2>2. CASE y # x
    BY <1>10, <1>11, <2>2, LocalsKept DEF Meant
  <2>3. QED
    BY <2>1, <2>2
<1>12. QED
  BY <1>11 DEF LocalsMean

(* With variables replaced by what they stand for, an expression is true    *)
(* whenever the query is.                                                   *)
LEMMA SubstitutedMeans ==
  ASSUME IInv, Rest, Meant, pc = "refs", Refs = {}, \A i \in Vars : localVars[VarAt(i)] # None
  PROVE  GoodCall(Substituted)
<1>1. PICK c : c = Substituted
  OBVIOUS
<1>2. /\ call \in Calls(Operand(Leaf)) /\ c \in Calls(Operand(Leaf))
      /\ c.op = call.op /\ DOMAIN c.args = DOMAIN call.args
      /\ \A i \in Vars : c.args[i] = [op |-> "term", terms |-> <<localVars[VarAt(i)]>>]
      /\ \A i \in DOMAIN call.args \ Vars : c.args[i] = call.args[i]
  BY <1>1, SubstitutedTyped DEF Vars
<1>3. ASSUME NEW i \in Vars
      PROVE  /\ c.args[i].op = "term" /\ DOMAIN c.args[i].terms = {1}
             /\ c.args[i].terms[1] = localVars[VarAt(i)]
  <2>1. PICK x : x = localVars[VarAt(i)]
    OBVIOUS
  <2>2. c.args[i] = [op |-> "term", terms |-> <<x>>]
    BY <1>2, <2>1
  <2>3. QED
    BY <2>1, <2>2
<1>4. ASSUME NEW i \in Vars
      PROVE  /\ call.args[i].op = "term" /\ VarAt(i) \in LocalVar /\ Good(localVars[VarAt(i)])
             /\ \A rho, loc : Satisfied(rho, loc) =>
                  Now(localVars[VarAt(i)], rho, loc) = Now(call.args[i].terms[1], rho, loc)
  <2>1. PICK y : y = call.args[i].terms[1]
    OBVIOUS
  <2>2. call.args[i].op = "term" /\ y.kind = "var" /\ i \in DOMAIN call.args /\ VarAt(i) = y.name
    BY <2>1 DEF Vars, VarAt
  <2>3. call.args[i] \in Operand(Leaf)
    BY <1>2, <2>2 DEF Calls
  <2>4. y \in Leaf
    BY <2>1, <2>2, <2>3 DEF Operand, Arithmetic
  <2>5. y.name \in LocalVar
    BY <2>2, <2>4 DEF Leaf, Attribute
  <2>6. \A rho, loc : Now(y, rho, loc) = loc[y.name]
    BY <2>2 DEF Now
  <2>7. QED
    BY <2>1, <2>2, <2>5, <2>6 DEF Meant, LocalsMean
<1>5. ASSUME NEW p \in Places(c)
      PROVE  Good(TermAt(c, p))
  <2>1. p[1] \in DOMAIN call.args /\ p[2] \in DOMAIN c.args[p[1]].terms /\ p = <<p[1], p[2]>>
    BY <1>2, TermTyped
  <2>2. CASE p[1] \in Vars
    <3>1. TermAt(c, p) = localVars[VarAt(p[1])]
      BY <1>3, <2>1, <2>2 DEF TermAt
    <3>2. QED
      BY <1>4, <2>2, <3>1
  <2>3. CASE p[1] \notin Vars
    <3>1. c.args[p[1]] = call.args[p[1]]
      BY <1>2, <2>1, <2>3
    <3>2. p \in Places(call) /\ TermAt(c, p) = TermAt(call, p)
      BY <2>1, <3>1, <1>2, PlacesOf DEF TermAt
    <3>3. QED
      BY <3>2 DEF Meant, CallMeans, SameTerm
  <2>4. QED
    BY <2>2, <2>3
<1>6. ASSUME NEW rho, NEW loc, Satisfied(rho, loc), c.op \in Mapped
      PROVE  TrueNow(c, rho, loc)
  <2>1. TrueNow(call, rho, loc)
    <3>1. n \in DOMAIN query
      BY DEF IInv, Shape
    <3>2. QED
      BY <1>2, <1>6, <3>1, CallIsTrue DEF Satisfied, Meant
  <2>2. ASSUME NEW i \in DOMAIN call.args
        PROVE  ValueNow(c.args[i], rho, loc) = ValueNow(call.args[i], rho, loc)
    <3>1. CASE i \in Vars
      <4>1. ValueNow(c.args[i], rho, loc) = Now(localVars[VarAt(i)], rho, loc)
        BY <1>3, <3>1 DEF ValueNow
      <4>2. ValueNow(call.args[i], rho, loc) = Now(call.args[i].terms[1], rho, loc)
        BY <1>4, <3>1 DEF ValueNow
      <4>3. QED
        BY <1>4, <1>6, <3>1, <4>1, <4>2
    <3>2. CASE i \notin Vars
      BY <1>2, <3>2
    <3>3. QED
      BY <3>1, <3>2
  <2>3. /\ 1 \in DOMAIN call.args /\ 2 \in DOMAIN call.args
        /\ call.op \notin Comparison => 3 \in DOMAIN call.args
    BY <1>2, <1>6 DEF Calls, Mapped, Comparison, Arithmetic
  <2>4. QED
    BY <1>2, <2>1, <2>2, <2>3 DEF TrueNow
<1>7. GoodCall(c)
  BY <1>5, <1>6 DEF GoodCall
<1>8. QED
  BY <1>1, <1>7

(* Preprocessing an expression keeps what locals and body mean.             *)
LEMMA SubstituteVarsMeans ==
  ASSUME IInv, Rest, Meant, SubstituteVars
  PROVE  Meant'
<1>1. IteratorsKept
  BY StepKeeps DEF Next
<1>2. pc = "refs" /\ Refs = {}
  BY DEF SubstituteVars
<1>3. CASE Refuse("error")
  BY <1>3, RefuseMeans
<1>4. CASE /\ IsLocalVarDeclaration
           /\ localVars' = [localVars EXCEPT ![VarAt(1)] = call.args[2].terms[1]]
           /\ Advance /\ UNCHANGED body
  <2>1. LocalsMean'
    BY <1>1, <1>2, <1>4, DeclarationMeans
  <2>2. BodyMeans'
    BY <1>1, <1>4, MeansKept
  <2>3. QED
    BY <1>1, <1>2, <1>4, <2>1, <2>2, AdvanceMeans
<1>5. CASE /\ \A i \in Vars : localVars[VarAt(i)] # None
           /\ body' = Append(body, Substituted)
           /\ Advance /\ UNCHANGED localVars
  <2>1. LocalsMean'
    BY <1>1, <1>5, MeansKept
  <2>2. PICK c : c = Substituted
    OBVIOUS
  <2>3. GoodCall(c) /\ c \in Calls(Operand(Leaf))
    BY <1>2, <1>5, <2>2, SubstitutedMeans, SubstitutedTyped
  <2>4. GoodCall(c)'
    BY <1>1, <2>3, GoodKept
  <2>5. ASSUME NEW k \in DOMAIN body'
        PROVE  GoodCall(body[k])'
    <3>1. body \in Seq(Calls(Operand(Leaf))) /\ body' = Append(body, c)
      BY <1>5, <2>2 DEF Rest
    <3>2. CASE k \in DOMAIN body
      <4>1. body'[k] = body[k]
        BY <3>1, <3>2
      <4>2. QED
        BY <1>1, <3>2, <4>1, MeansKept
    <3>3. CASE k \notin DOMAIN body
      <4>1. body'[k] = c
        BY <3>1, <3>3
      <4>2. QED
        BY <2>4, <4>1, GoodInBody
    <3>4. QED
      BY <3>2, <3>3
  <2>6. BodyMeans'
    BY <2>5 DEF BodyMeans
  <2>7. QED
    BY <1>1, <1>2, <1>5, <2>1, <2>6, AdvanceMeans
<1>6. QED
  BY <1>3, <1>4, <1>5 DEF SubstituteVars, Substituted

(* The table that is selected from has an iterator.                         *)
LEMMA ProcessMeans ==
  ASSUME IInv, Rest, Meant, Process
  PROVE  Meant'
<1>1. CASE \E how \in {"error", "panic"} : Refuse(how)
  BY <1>1, RefuseMeans
<1>2. CASE pc' = "translate"
  <2> DEFINE having == {k \in DOMAIN body : TablesOf(body[k]) # {}}
             k0 == CHOOSE k \in having : \A m \in having : k <= m
             p == First(Kinds(body[k0], {"attr"}))
  <2>1. /\ having # {} /\ from' = TermAt(body[k0], p).table
        /\ UNCHANGED <<inputVars, preVars>>
    BY <1>2 DEF Process, Refuse
  <2> HIDE DEF p
  <2>2. /\ k0 \in DOMAIN body /\ p \in Kinds(body[k0], {"attr"})
        /\ TermAt(body[k0], p).table \in Table
    BY <2>1, FirstTable DEF p
  <2> HIDE DEF k0, having
  <2>3. PICK x : x = TermAt(body[k0], p)
    OBVIOUS
  <2>4. x.kind = "attr" /\ Good(x)
    BY <2>2, <2>3 DEF Kinds, Meant, BodyMeans, GoodCall
  <2>5. tableNames[x.table] # None /\ x.table = from' /\ x.table \in Table
    BY <2>1, <2>2, <2>3, <2>4 DEF Good
  <2>6. Selected'
    BY <2>1, <2>5 DEF Selected, preVars
  <2>7. Filtered'
    BY <1>2 DEF Filtered
  <2>8. QED
    BY <1>2, <2>1, <2>6, <2>7, FrameMeans DEF inputVars, preVars
<1>3. QED
  BY <1>1, <1>2 DEF Process

(* What an expression says is true or not.                                  *)
LEMMA TruthIsTruth ==
  ASSUME NEW c, NEW rho, NEW loc
  PROVE  Truth(c, rho, loc) \in BOOLEAN
<1>1. ASSUME NEW op, NEW x, NEW y
      PROVE  Compare(op, x, y) \in BOOLEAN
  <2>1. CASE op = "lt"
    BY <2>1 DEF Compare
  <2>2. CASE op = "neq"
    BY <2>2 DEF Compare
  <2>3. CASE op # "lt" /\ op # "neq"
    BY <2>3 DEF Compare
  <2>4. QED
    BY <2>1, <2>2, <2>3
<1>2. QED
  BY <1>1 DEF Truth

(* The relations of a filter, one by one: a column and what it is compared  *)
(* with, and nothing else.                                                  *)
LEMMA FilterPlaces ==
  ASSUME Rest, HasFilter, NEW m \in DOMAIN body, Stated(m)
  PROVE  /\ body[m].op \in Comparison
         /\ Field(m) \in Attribute /\ Compared(m) \in Leaf /\ Compared(m).kind = "const"
         /\ \A p \in Places(body[m]) : TermAt(body[m], p) \in {Field(m), Compared(m)}
         /\ \E p \in Places(body[m]) : TermAt(body[m], p) = Field(m)
         /\ \E p \in Places(body[m]) : TermAt(body[m], p) = Compared(m)
         /\ \A rho, loc : Compare(body[m].op, Now(Field(m), rho, loc), Now(Compared(m), rho, loc))
                            => TrueNow(body[m], rho, loc)
<1>1. PICK c, x, y : c = body[m] /\ x = c.args[1].terms[1] /\ y = c.args[2].terms[1]
  OBVIOUS
<1>2. /\ c \in Calls(Operand(Leaf)) /\ c.op \in Comparison
      /\ \A i \in DOMAIN c.args : c.args[i].op = "term"
  BY <1>1 DEF Rest, HasFilter
<1>3. DOMAIN c.args = {1, 2}
  BY <1>2 DEF Calls, Comparison, Arithmetic
<1>4. ASSUME NEW i \in DOMAIN c.args
      PROVE  DOMAIN c.args[i].terms = {1} /\ c.args[i].terms[1] \in Leaf
  <2>1. c.args[i] \in Operand(Leaf)
    BY <1>2 DEF Calls
  <2>2. QED
    BY <1>2, <2>1 DEF Operand, Arithmetic
<1>5. x \in Leaf /\ y \in Leaf
  BY <1>1, <1>3, <1>4
<1>6. /\ <<1, 1>> \in Places(c) /\ TermAt(c, <<1, 1>>) = x
      /\ <<2, 1>> \in Places(c) /\ TermAt(c, <<2, 1>>) = y
  BY <1>1, <1>2, <1>3, <1>4, PlacesOf
<1>7. \A p \in Places(c) : p = <<1, 1>> \/ p = <<2, 1>>
  <2>1. ASSUME NEW p \in Places(c)
        PROVE  p = <<1, 1>> \/ p = <<2, 1>>
    <3>1. p = <<p[1], p[2]>> /\ p[1] \in DOMAIN c.args /\ p[2] \in DOMAIN c.args[p[1]].terms
      BY <1>2, TermTyped
    <3>2. QED
      BY <1>3, <1>4, <3>1
  <2>2. QED
    BY <2>1
<1>8. {x.kind, y.kind} = {"attr", "const"} /\ (c.op = "lt" => x.kind = "attr")
  BY <1>1 DEF Stated
<1>9. \A rho, loc : TrueNow(c, rho, loc) <=> Compare(c.op, Now(x, rho, loc), Now(y, rho, loc))
  BY <1>1, <1>2, <1>3 DEF TrueNow, ValueNow
<1>10. \A z \in Leaf : z.kind = "attr" => z \in Attribute
  BY DEF Leaf, Attribute
<1>11. CASE x.kind = "attr"
  <2>1. Field(m) = x /\ Compared(m) = y /\ y.kind = "const"
    BY <1>1, <1>8, <1>11 DEF Field, Compared
  <2>2. QED
    BY <1>1, <1>2, <1>5, <1>6, <1>7, <1>9, <1>10, <1>11, <2>1
<1>12. CASE x.kind # "attr"
  <2>1. Field(m) = y /\ Compared(m) = x /\ x.kind = "const" /\ y.kind = "attr" /\ c.op \in {"eq", "neq"}
    BY <1>1, <1>2, <1>8, <1>12 DEF Field, Compared, Comparison
  <2>2. \A u, v : Compare(c.op, u, v) => Compare(c.op, v, u)
    BY <2>1 DEF Compare
  <2>3. QED
    BY <1>1, <1>2, <1>5, <1>6, <1>7, <1>9, <1>10, <2>1, <2>2
<1>13. QED
  BY <1>11, <1>12

(* What can be stated is not garbled: JSON reads what was sent.             *)
LEMMA StatedAsSent ==
  ASSUME Rest, HasFilter, NEW m \in DOMAIN body, Stated(m)
  PROVE  ~Garbled(m) /\ Quoted[Sent[Compared(m).value]] = Sent[Compared(m).value]
<1>1. Field(m).kind = "attr" /\ Compared(m).kind = "const" /\ Compared(m).value \in Value
  BY FilterPlaces DEF Attribute, Leaf
<1>2. Quoted[Sent[Compared(m).value]] = Sent[Compared(m).value]
  BY DEF Stated
<1>3. Sent[Compared(m).value] \in Value /\ None \notin Value
  BY <1>1, QueriesAssumption
<1>4. QED
  BY <1>1, <1>2, <1>3 DEF Garbled

(* By its own name only the collection is asked.                            *)
LEMMA OwnName ==
  ASSUME Unaliased, NEW d \in Document
  PROVE  Name[d.coll] = from <=> d.coll = from
<1>1. d.coll \in Collection /\ from \in Table
  BY QueriesAssumption DEF Unaliased, Document
<1>2. QED
  BY <1>1, QueriesAssumption DEF Unaliased

(* A document with rows for the query is one of the collection.             *)
LEMMA OfCollection ==
  ASSUME Meant, pc = "execute", from \in Collection, NEW d \in Document, NEW rho,
         \A r \in RowRefs : rho[r.iter] \in d.rows[r.table]
  PROVE  d.coll = from
<1>1. rho[tableNames[from]] \in d.rows[from] /\ from \in Table
  BY DEF Meant, Selected, Sources
<1>2. d.coll \in Collection /\ \A t \in Table \ (Nested[d.coll] \cup {d.coll}) : d.rows[t] = {}
  BY DEF Document
<1>3. Nested[d.coll] \subseteq Table \ Collection
  BY <1>2, QueriesAssumption
<1>4. QED
  BY <1>1, <1>2, <1>3

(* When they make the query true, each condition of the filter is met.      *)
LEMMA ConditionMet ==
  ASSUME IInv, Rest, Meant, pc = "execute", platform = "mongo", Plain,
         from \in Collection, NEW d \in Document, NEW rho, NEW loc, Satisfied(rho, loc),
         \A r \in RowRefs : rho[r.iter] \in d.rows[r.table],
         NEW k \in DOMAIN body, Stated(k)
  PROVE  Selects(d, k)
<1>1. ASSUME NEW t \in Table, tableNames[t] # None
      PROVE  rho[tableNames[t]] \in d.rows[t]
  BY <1>1 DEF Meant, Sources
<1>2. d.coll = from
  BY OfCollection
<1>3. PICK c, x, y : c = body[k] /\ x = c.args[1].terms[1] /\ y = c.args[2].terms[1]
  OBVIOUS
<1>4. c \in Calls(Operand(Leaf)) /\ GoodCall(c) /\ c.op \in Comparison
      /\ 1 \in DOMAIN c.args /\ 2 \in DOMAIN c.args
      /\ c.args[1].op = "term" /\ c.args[2].op = "term"
  <2>1. HasFilter
    BY DEF Meant, Filtered
  <2>2. c \in Calls(Operand(Leaf)) /\ GoodCall(c)
    BY <1>3 DEF Rest, Meant, BodyMeans
  <2>3. 1 \in DOMAIN c.args /\ 2 \in DOMAIN c.args
    BY <2>2 DEF Calls
  <2>4. QED
    BY <1>3, <2>1, <2>2, <2>3 DEF HasFilter
<1>5. x \in Leaf /\ y \in Leaf /\ Good(x) /\ Good(y)
  <2>1. c.args[1] \in Operand(Leaf) /\ c.args[2] \in Operand(Leaf)
    BY <1>4 DEF Calls
  <2>2. 1 \in DOMAIN c.args[1].terms /\ 1 \in DOMAIN c.args[2].terms /\ x \in Leaf /\ y \in Leaf
    BY <1>3, <1>4, <2>1 DEF Operand, Arithmetic
  <2>3. /\ <<1, 1>> \in Places(c) /\ TermAt(c, <<1, 1>>) = x
        /\ <<2, 1>> \in Places(c) /\ TermAt(c, <<2, 1>>) = y
    BY <1>3, <1>4, <2>2, PlacesOf
  <2>4. QED
    BY <1>4, <2>2, <2>3 DEF GoodCall
<1>6. Compare(c.op, Now(x, rho, loc), Now(y, rho, loc))
  <2>1. TrueNow(c, rho, loc)
    BY <1>4 DEF GoodCall, Mapped
  <2>2. QED
    BY <1>3, <1>4, <2>1 DEF TrueNow, ValueNow
<1>7. \A z : Good(z) /\ z.kind = "const" => Now(z, rho, loc) = Sent[z.value]
  BY DEF Good, Now
<1>8. ASSUME NEW z \in Leaf, Good(z), z.kind = "attr"
      PROVE  /\ Now(z, rho, loc) \in Elements(d, z)
             /\ z.table = from => Elements(d, z) = {Now(z, rho, loc)}
  <2>1. PICK row : row = rho[tableNames[z.table]]
    OBVIOUS
  <2>2. Now(z, rho, loc) = row[z.col]
    BY <1>8, <2>1 DEF Now
  <2>3. row \in d.rows[z.table]
    BY <1>1, <1>8, <2>1 DEF Good, Leaf, Attribute
  <2>4. z.table = from => d.rows[z.table] = {row}
    BY <1>2, <2>3 DEF Document
  <2>5. QED
    BY <2>2, <2>3, <2>4 DEF Elements
<1>9. {x.kind, y.kind} = {"attr", "const"} /\ (c.op = "lt" => x.kind = "attr")
      /\ (c.op = "neq" => Field(k).table = from)
  BY <1>3 DEF Stated
<1>10. Quoted[Sent[Compared(k).value]] = Sent[Compared(k).value]
  BY <1>3 DEF Stated
<1>11. CASE x.kind = "attr"
  <2>1. y.kind = "const" /\ Field(k) = x /\ Compared(k) = y
    BY <1>3, <1>9, <1>11 DEF Field, Compared
  <2>2. Compare(c.op, Now(x, rho, loc), Sent[y.value]) /\ Now(x, rho, loc) \in Elements(d, x)
        /\ (c.op = "neq" => Elements(d, x) = {Now(x, rho, loc)})
    BY <1>5, <1>6, <1>7, <1>8, <1>9, <1>11, <2>1
  <2>3. CASE c.op = "neq"
    <3>1. Sent[y.value] \notin Elements(d, x)
      BY <2>2, <2>3 DEF Compare
    <3>2. QED
      BY <1>2, <1>3, <1>10, <2>1, <2>3, <3>1 DEF Selects
  <2>4. CASE c.op # "neq"
    BY <1>2, <1>3, <1>10, <2>1, <2>2, <2>4 DEF Selects
  <2>5. QED
    BY <2>3, <2>4
<1>12. CASE x.kind # "attr"
  <2>1. x.kind = "const" /\ y.kind = "attr" /\ Field(k) = y /\ Compared(k) = x /\ c.op \in {"eq", "neq"}
    BY <1>3, <1>4, <1>9, <1>12 DEF Field, Compared, Comparison
  <2>2. Compare(c.op, Sent[x.value], Now(y, rho, loc)) /\ Now(y, rho, loc) \in Elements(d, y)
        /\ (c.op = "neq" => Elements(d, y) = {Now(y, rho, loc)})
    BY <1>5, <1>6, <1>7, <1>8, <1>9, <2>1
  <2>3. CASE c.op = "neq"
    <3>1. Sent[x.value] \notin Elements(d, y)
      BY <2>2, <2>3 DEF Compare
    <3>2. QED
      BY <1>2, <1>3, <1>10, <2>1, <2>3, <3>1 DEF Selects
  <2>4. CASE c.op = "eq"
    <3>1. Compare(c.op, Now(y, rho, loc), Sent[x.value])
      BY <2>2, <2>4 DEF Compare
    <3>2. QED
      BY <1>2, <1>3, <1>10, <2>1, <2>2, <2>4, <3>1 DEF Selects
  <2>5. QED
    BY <2>1, <2>3, <2>4
<1>13. QED
  BY <1>11, <1>12

(* Rows and values that make the query true make each expression of a       *)
(* plain one true.                                                          *)
MakesTrue(rho, loc) == \A k \in DOMAIN query : query[k].negated # Truth(query[k].call, rho, loc)

(* A plain query negates nothing.                                           *)
LEMMA AllTrue ==
  ASSUME IInv, Plain, UNCHANGED query, NEW rho, NEW loc, MakesTrue(rho, loc)'
  PROVE  Satisfied(rho, loc)
<1>1. ASSUME NEW k \in DOMAIN query
      PROVE  Truth(query[k].call, rho, loc)
  <2>1. query[k].negated = FALSE
    <3>1. query[k] \in Expr
      BY DEF IInv, Shape
    <3>2. query[k].negated \in BOOLEAN
      BY <3>1 DEF Expr
    <3>3. QED
      BY <3>2 DEF Plain
  <2>2. PICK b \in BOOLEAN : b = Truth(query[k].call, rho, loc)
    BY TruthIsTruth
  <2>3. b # FALSE
    <3>1. (query[k].negated # Truth(query[k].call, rho, loc))'
      BY DEF MakesTrue
    <3>2. query' = query
      OBVIOUS
    <3>3. Truth(query[k].call, rho, loc)' = Truth(query[k].call, rho, loc)
      BY <3>2 DEF Truth, Meaning
    <3>4. QED
      BY <2>1, <2>2, <3>1, <3>2, <3>3
  <2>4. QED
    BY <2>2, <2>3
<1>2. QED
  BY <1>1 DEF Satisfied

(* What is counted misses no document that the query asks for.              *)
LEMMA CountMissesNothing ==
  ASSUME IInv, Rest, Meant, CountDocuments
  PROVE  DocumentsNotMissed'
<1>1. pc = "execute" /\ platform = "mongo" /\ db' \in Collections
      /\ UNCHANGED <<query, platform, body, from>>
  BY DEF CountDocuments, inputVars, preVars
<1>2. (Plain' <=> Plain) /\ RowRefs' = RowRefs
  BY <1>1 DEF Plain, RowRefs, Kinds, Places, TermAt
<1>3. \A k : Stated(k)' <=> Stated(k)
  BY <1>1 DEF Stated, Field, Compared
<1>4. ASSUME Plain, Unaliased, \A k \in DOMAIN body : Stated(k), Holds'
      PROVE  reply' # "nothing"
  <2>1. PICK d, rho, loc :
          /\ d \in db'
          /\ (\A r \in RowRefs : rho[r.iter] \in d.rows[r.table])'
          /\ (\A k \in DOMAIN query : query[k].negated # Truth(query[k].call, rho, loc))'
    BY <1>4, Zenon DEF Holds
  <2>2. Satisfied(rho, loc)
    BY <1>1, <1>4, <2>1, AllTrue DEF MakesTrue
  <2>3. d \in Document
    BY <1>1, <2>1, QueriesAssumption
  <2>4. d.coll = from /\ Name[d.coll] = from
    BY <1>1, <1>2, <1>4, <2>1, <2>3, OfCollection DEF Unaliased
  <2>5. \A k \in DOMAIN body : Selects(d, k)
    BY <1>1, <1>2, <1>4, <2>1, <2>2, <2>3, ConditionMet DEF Unaliased
  <2>6. \A k \in DOMAIN body : ~Garbled(k)
    BY <1>1, <1>4, StatedAsSent DEF Meant, Filtered
  <2>7. QED
    BY <2>1, <2>4, <2>5, <2>6 DEF CountDocuments
<1>5. Unaliased' <=> Unaliased
  BY <1>1 DEF Unaliased
<1>6. QED
  BY <1>1, <1>2, <1>3, <1>4, <1>5 DEF DocumentsNotMissed

-----------------------------------------------------------------------------
(* At first, nothing has been rewritten.                                    *)
LEMMA MeantAtFirst ==
  ASSUME Init, IInv
  PROVE  Meant
<1>1. query \in Seq(Expr) /\ 1 \in DOMAIN query /\ n = 1 /\ call = query[1].call
  BY DEF Init, IInv, Shape
<1>2. Names /\ Sources /\ LocalsMean /\ BodyMeans /\ Selected /\ Filtered
  BY DEF Init, Names, Sources, LocalsMean, BodyMeans, Selected, Filtered
<1>3. CallMeans
  BY <1>1, QueryMeans DEF CallMeans
<1>4. QED
  BY <1>2, <1>3 DEF Meant

(* What the query and the body mean is kept by every step.                  *)
LEMMA MeantKept ==
  ASSUME IInv, Rest, Meant, [Next]_vars
  PROVE  Meant'
<1>1. CASE TransformRef
  BY <1>1, TransformRefMeans
<1>2. CASE SubstituteVars
  BY <1>2, SubstituteVarsMeans
<1>3. CASE Process
  BY <1>3, ProcessMeans
<1>4. CASE Translate
  <2>1. CASE Refuse("error")
    BY <2>1, RefuseMeans
  <2>2. CASE pc' = "execute"
    <3>1. UNCHANGED <<inputVars, preVars, sqlVars>> /\ pc = "translate"
          /\ (platform = "mongo" => HasFilter)
      BY <1>4, <2>2 DEF Translate, Refuse
    <3>2. HasFilter' <=> HasFilter
      BY <3>1 DEF HasFilter, TablesOf, Kinds, Places, TermAt, preVars, sqlVars
    <3>3. Selected' /\ Filtered'
      BY <3>1, <3>2 DEF Selected, Filtered, Meant, inputVars, preVars, sqlVars
    <3>4. QED
      BY <2>2, <3>1, <3>3, FrameMeans DEF inputVars, preVars
  <2>3. QED
    BY <1>4, <2>1, <2>2 DEF Translate
<1>5. CASE Execute \/ CountDocuments
  <2>1. pc' = "done" /\ UNCHANGED <<inputVars, preVars>>
    BY <1>5 DEF Execute, CountDocuments
  <2>2. QED
    BY <2>1, FrameMeans DEF Selected, Filtered, inputVars, preVars
<1>6. CASE UNCHANGED vars
  <2>1. UNCHANGED <<inputVars, pc, preVars, sqlVars>>
    BY <1>6 DEF vars
  <2>2. HasFilter' <=> HasFilter
    BY <2>1 DEF HasFilter, TablesOf, Kinds, Places, TermAt, preVars, sqlVars
  <2>3. Selected' /\ Filtered'
    BY <2>1, <2>2 DEF Selected, Filtered, Meant, inputVars, preVars, sqlVars
  <2>4. QED
    BY <2>1, <2>3, FrameMeans DEF inputVars, preVars
<1>7. QED
  BY <1>1, <1>2, <1>3, <1>4, <1>5, <1>6 DEF Next

(* Only counting documents answers that there are none.                     *)
LEMMA NotMissedKept ==
  ASSUME IInv, Rest, Meant, DocumentsNotMissed, [Next]_vars
  PROVE  DocumentsNotMissed'
<1>1. CASE CountDocuments
  BY <1>1, CountMissesNothing
<1>2. CASE TransformRef \/ SubstituteVars \/ Process \/ Translate \/ Execute
  <2>1. pc # "done" /\ reply = "none"
    BY <1>2 DEF TransformRef, SubstituteVars, Process, Translate, Execute, IInv, Shape
  <2>2. CASE Execute
    BY <2>2 DEF Execute, inputVars, DocumentsNotMissed
  <2>3. CASE TransformRef \/ SubstituteVars \/ Process \/ Translate
    <3>1. reply' \in {reply, "error", "panic"}
      BY <2>3 DEF TransformRef, SubstituteVars, Process, Translate, Advance, Rewrite, Refuse
    <3>2. QED
      BY <2>1, <3>1 DEF DocumentsNotMissed
  <2>4. QED
    BY <1>2, <2>2, <2>3
<1>3. CASE UNCHANGED vars
  <2>1. UNCHANGED <<query, platform, reply, from, body, db>>
    BY <1>3 DEF vars, inputVars, preVars, sqlVars
  <2>2. (Plain' <=> Plain) /\ RowRefs' = RowRefs
    BY <2>1 DEF Plain, RowRefs, Kinds, Places, TermAt
  <2>3. (Unaliased' <=> Unaliased) /\ \A k : Stated(k)' <=> Stated(k)
    BY <2>1 DEF Unaliased, Stated, Field, Compared
  <2>4. \A k, rho, loc : Truth(query[k].call, rho, loc)' = Truth(query[k].call, rho, loc)
    BY <2>1 DEF Truth, Meaning
  <2>5. Holds' <=> Holds
    BY <2>1, <2>2, <2>4 DEF Holds
  <2>6. QED
    BY <2>1, <2>2, <2>3, <2>5 DEF DocumentsNotMissed
<1>4. QED
  BY <1>1, <1>2, <1>3 DEF Next

(* Of a MongoDB collection asked by its own name, with texts that quotes do *)
(* not change, no document that the query asks for is missed, whatever the  *)
(* queries, the schemas and the contents of the collections                 *)
(* (mongo-datastore-translator.go, filters read into a map).                *)
THEOREM DocumentsNeverMissed == Spec => []DocumentsNotMissed
<1>1. Init => Rest /\ DocumentsNotMissed
  BY DEF Init, Rest, DocumentsNotMissed
<1>2. Init /\ IInv => Meant
  BY MeantAtFirst
<1>3. IInv /\ Rest /\ Meant /\ DocumentsNotMissed /\ IInv' /\ [Next]_vars
        => Rest' /\ Meant' /\ DocumentsNotMissed'
  BY RestKept, MeantKept, NotMissedKept
<1>4. QED
  BY <1>1, <1>2, <1>3, PreprocessingInductive, PTL DEF Spec

-----------------------------------------------------------------------------
(* The way back.  What each term has become: a reference an attribute of a  *)
(* table with its iterator, a variable what it stands for.                  *)
OfRef(x, y) ==
  \/ x = y
  \/ /\ y.kind \in {"row", "iter"} /\ x.kind = "attr" /\ x.table \in Table /\ x.col = y.col
     /\ y.iter # None /\ tableNames[x.table] = y.iter
     /\ y.kind = "row" => x.table = y.table
OfTerm(x, y) == OfRef(x, y) \/ (y.kind = "var" /\ y.name \in LocalVar /\ x = localVars[y.name] /\ x # None)

CallComes ==
  pc = "refs" => /\ SameForm(call, query[n].call)
                 /\ \A p \in Places(call) : OfRef(TermAt(call, p), TermAt(query[n].call, p))

(* Each expression dealt with is in the body, or has declared a variable.   *)
Origin(k, m) ==
  /\ SameForm(body[m], query[k].call)
  /\ \A p \in Places(body[m]) : OfTerm(TermAt(body[m], p), TermAt(query[k].call, p))
Declared(k) ==
  \E x \in LocalVar : /\ Declares(k, x) /\ localVars[x] # None
                      /\ OfRef(localVars[x], query[k].call.args[2].terms[1])
DealtWith(k) == (pc = "refs" /\ k < n) \/ pc \in {"process", "translate", "execute"}
BodyComes ==
  Simple => \A k \in DOMAIN query : DealtWith(k) => Declared(k) \/ \E m \in DOMAIN body : Origin(k, m)
LocalsDeclared ==
  pc = "refs" => \A x \in LocalVar : localVars[x] # None => \E k \in DOMAIN query : k < n /\ Declares(k, x)

Comes == CallComes /\ BodyComes /\ LocalsDeclared

(* What a term has become stays when iterators stay.                        *)
LEMMA OfRefKept ==
  ASSUME IteratorsKept, NEW x, NEW y, OfRef(x, y)
  PROVE  OfRef(x, y)'
BY DEF IteratorsKept, OfRef

(* So does where an expression is, when what it uses stays, too.            *)
LEMMA OriginKept ==
  ASSUME IteratorsKept, NEW k, NEW m, Origin(k, m), body'[m] = body[m],
         \A p \in Places(query[k].call) :
           LET y == TermAt(query[k].call, p)
           IN y.kind = "var" /\ y.name \in LocalVar /\ localVars[y.name] # None
                => localVars'[y.name] = localVars[y.name]
  PROVE  Origin(k, m)'
<1>1. PICK b, q : b = body[m] /\ q = query[k].call
  OBVIOUS
<1>2. body'[m] = b /\ query'[k].call = q
  BY <1>1 DEF IteratorsKept
<1>3. SameForm(b, q)
  BY <1>1 DEF Origin
<1>4. ASSUME NEW p \in Places(b), NEW x, x = TermAt(b, p), NEW y, y = TermAt(q, p)
      PROVE  OfTerm(x, y)'
  <2>1. OfTerm(x, y) /\ p \in Places(q)
    BY <1>1, <1>3, <1>4 DEF Origin, SameForm
  <2>2. CASE OfRef(x, y)
    BY <2>2, OfRefKept DEF OfTerm
  <2>3. CASE y.kind = "var" /\ y.name \in LocalVar /\ x = localVars[y.name] /\ x # None
    BY <1>1, <1>4, <2>1, <2>3 DEF OfTerm
  <2>4. QED
    BY <2>1, <2>2, <2>3 DEF OfTerm
<1>5. SameForm(body[m], query[k].call)'
  BY <1>2, <1>3 DEF SameForm, Places
<1>6. \A p \in Places(body[m])' : OfTerm(TermAt(body[m], p), TermAt(query[k].call, p))'
  <2>1. Places(body[m])' = Places(b)
    BY <1>2 DEF Places
  <2>2. ASSUME NEW p \in Places(b)
        PROVE  OfTerm(TermAt(body[m], p), TermAt(query[k].call, p))'
    <3>1. PICK x, y : x = TermAt(b, p) /\ y = TermAt(q, p)
      OBVIOUS
    <3>2. OfTerm(x, y)'
      BY <1>4, <2>2, <3>1
    <3>3. x = TermAt(body[m], p)' /\ y = TermAt(query[k].call, p)'
      BY <1>2, <3>1 DEF TermAt
    <3>4. QED
      BY <3>2, <3>3 DEF OfTerm, OfRef
  <2>3. QED
    BY <2>1, <2>2
<1>7. QED
  BY <1>5, <1>6 DEF Origin

(* And what a declaration has made of its variable.                         *)
LEMMA DeclaredKept ==
  ASSUME IteratorsKept, NEW k, NEW x \in LocalVar, Declares(k, x), localVars[x] # None,
         OfRef(localVars[x], query[k].call.args[2].terms[1]), localVars'[x] = localVars[x]
  PROVE  Declared(k)'
<1>1. PICK a, y : a = localVars[x] /\ y = query[k].call.args[2].terms[1]
  OBVIOUS
<1>2. OfRef(a, y)'
  BY <1>1, OfRefKept
<1>3. a = localVars'[x] /\ y = query'[k].call.args[2].terms[1] /\ Declares(k, x)'
  BY <1>1 DEF IteratorsKept, Declares
<1>4. QED
  BY <1>1, <1>2, <1>3 DEF Declared, OfRef

(* The simplicity of a query is its own.                                    *)
LEMMA SimpleKept ==
  ASSUME UNCHANGED query
  PROVE  /\ Simple' <=> Simple
         /\ \A k, x : Declares(k, x)' <=> Declares(k, x)
<1>1. \A k, x : Declares(k, x)' <=> Declares(k, x)
  BY DEF Declares
<1>2. \A k, x : Uses(k, x)' <=> Uses(k, x)
  BY <1>1 DEF Uses, Kinds, Places, TermAt
<1>3. RowRefs' = RowRefs
  BY DEF RowRefs, Kinds, Places, TermAt
<1>4. QED
  BY <1>1, <1>2, <1>3 DEF Simple

(* A step that changes neither locals nor body.                             *)
LEMMA BodyComesKept ==
  ASSUME IteratorsKept, BodyComes, UNCHANGED <<localVars, body>>,
         \A k \in DOMAIN query : DealtWith(k)' => DealtWith(k)
  PROVE  BodyComes'
<1>1. ASSUME Simple, NEW k \in DOMAIN query, DealtWith(k)'
      PROVE  Declared(k)' \/ \E m \in DOMAIN body : Origin(k, m)'
  <2>1. DealtWith(k)
    BY <1>1
  <2>2. CASE Declared(k)
    BY <2>2, DeclaredKept DEF Declared
  <2>3. ASSUME NEW m \in DOMAIN body, Origin(k, m)
        PROVE  Origin(k, m)'
    BY <2>3, OriginKept
  <2>4. QED
    BY <1>1, <2>1, <2>2, <2>3 DEF BodyComes
<1>2. QED
  BY <1>1, SimpleKept DEF BodyComes, IteratorsKept

(* A step that leaves preprocessing alone.                                  *)
LEMMA FrameComes ==
  ASSUME Comes, IteratorsKept, UNCHANGED <<query, n, call, localVars, body>>,
         pc' = "refs" => pc = "refs", \A k \in DOMAIN query : DealtWith(k)' => DealtWith(k)
  PROVE  Comes'
<1>1. BodyComes'
  BY BodyComesKept DEF Comes
<1>2. LocalsDeclared'
  BY SimpleKept DEF Comes, LocalsDeclared
<1>3. CallComes'
  <2>1. ASSUME pc = "refs", NEW p \in Places(call)
        PROVE  OfRef(TermAt(call, p), TermAt(query[n].call, p))'
    <3>1. PICK x, y : x = TermAt(call, p) /\ y = TermAt(query[n].call, p)
      OBVIOUS
    <3>2. OfRef(x, y)'
      BY <2>1, <3>1, OfRefKept DEF Comes, CallComes
    <3>3. x = TermAt(call, p)' /\ y = TermAt(query[n].call, p)'
      BY <3>1 DEF TermAt
    <3>4. QED
      BY <3>2, <3>3 DEF OfRef
  <2>2. Places(call)' = Places(call) /\ Places(query[n].call)' = Places(query[n].call)
    BY DEF Places
  <2>3. QED
    BY <2>1, <2>2 DEF Comes, CallComes, SameForm
<1>4. QED
  BY <1>1, <1>2, <1>3 DEF Comes

(* A query that is refused is dealt with no more.                           *)
LEMMA RefuseComes ==
  ASSUME Comes, NEW how, Refuse(how)
  PROVE  Comes'
<1>1. IteratorsKept
  BY DEF Refuse, inputVars, preVars, IteratorsKept
<1>2. QED
  BY <1>1, FrameComes DEF Refuse, inputVars, preVars, DealtWith

(* A rewritten reference comes of the one it was.                           *)
LEMMA TransformRefComes ==
  ASSUME IInv, Rest, Meant, Comes, TransformRef
  PROVE  Comes'
<1> PICK p : p = First(Refs) OBVIOUS
<1> PICK r : r = TermAt(call, p) OBVIOUS
<1>1. pc = "refs" /\ Refs # {}
  BY DEF TransformRef
<1>2. p \in Places(call) /\ r.kind \in {"row", "iter"} /\ r \in Written
  BY <1>1, NextRef, TermTyped DEF IInv, Shape
<1>3. call \in Calls(Operand(Written)) /\ n \in DOMAIN query /\ query \in Seq(Expr)
  BY DEF IInv, Shape
<1>4. IteratorsKept
  BY StepKeeps DEF Next
<1>5. r = TermAt(query[n].call, p)
  BY <1>1, <1>2 DEF Comes, CallComes, OfRef
<1>6. ASSUME NEW t \in Table, Rewrite(p, t, r.col), r.col \in Column, tableNames'[t] = r.iter, r.iter # None,
             r.kind = "row" => t = r.table
      PROVE  Comes'
  <2>1. call' = [call EXCEPT !.args[p[1]].terms[p[2]] = Attr(t, r.col)]
        /\ UNCHANGED <<query, pc, n, localVars, body>>
    BY <1>6 DEF Rewrite, inputVars
  <2>2. PICK a, d : a = Attr(t, r.col) /\ d = call'
    OBVIOUS
  <2>3. a \in Written /\ d = [call EXCEPT !.args[p[1]].terms[p[2]] = a]
    BY <1>6, <2>1, <2>2 DEF Attr, Written, Attribute
  <2>4. /\ Places(d) = Places(call)
        /\ \A q \in Places(call) : q # p => TermAt(d, q) = TermAt(call, q)
    <3>1. PICK c : c = call
      OBVIOUS
    <3>2. c \in Calls(Operand(Written)) /\ p \in Places(c) /\ a \in Written
          /\ d = [c EXCEPT !.args[p[1]].terms[p[2]] = a]
      BY <1>2, <1>3, <2>3, <3>1
    <3>3. Places(d) = Places(c) /\ \A q \in Places(c) : q # p => TermAt(d, q) = TermAt(c, q)
      BY <3>2, OneTermRewritten
    <3>4. QED
      BY <3>1, <3>3
  <2>5. /\ d.op = call.op /\ DOMAIN d.args = DOMAIN call.args
        /\ \A i \in DOMAIN call.args : d.args[i].op = call.args[i].op
        /\ TermAt(d, p) = a
    BY <1>2, <1>3, <2>3, OneTermIn
  <2>6. ASSUME NEW q \in Places(call), NEW x, x = TermAt(d, q), NEW y, y = TermAt(query[n].call, q)
        PROVE  OfRef(x, y)'
    <3>1. CASE q # p
      <4>1. OfRef(x, y)
        BY <1>1, <2>4, <2>6, <3>1 DEF Comes, CallComes
      <4>2. QED
        BY <1>4, <4>1, OfRefKept
    <3>2. CASE q = p
      <4>1. x = Attr(t, r.col) /\ y = r
        BY <1>5, <2>2, <2>5, <2>6, <3>2
      <4>2. QED
        BY <1>2, <1>6, <4>1 DEF OfRef, Attr
    <3>3. QED
      BY <3>1, <3>2
  <2>7. \A q \in Places(call) : OfRef(TermAt(call, q), TermAt(query[n].call, q))'
    <3>1. ASSUME NEW q \in Places(call)
          PROVE  OfRef(TermAt(call, q), TermAt(query[n].call, q))'
      <4>1. PICK x, y : x = TermAt(d, q) /\ y = TermAt(query[n].call, q)
        OBVIOUS
      <4>2. OfRef(x, y)'
        BY <2>6, <4>1
      <4>3. x = TermAt(call, q)' /\ y = TermAt(query[n].call, q)'
        BY <2>1, <2>2, <4>1 DEF TermAt
      <4>4. QED
        BY <4>2, <4>3 DEF OfRef
    <3>2. QED
      BY <3>1
  <2>8. Places(call)' = Places(call) /\ Places(query[n].call)' = Places(query[n].call)
    BY <2>1, <2>2, <2>4 DEF Places
  <2>9. CallComes'
    BY <1>1, <2>1, <2>2, <2>5, <2>7, <2>8 DEF Comes, CallComes, SameForm
  <2>10. BodyComes'
    BY <1>4, <2>1, BodyComesKept DEF Comes, DealtWith
  <2>11. LocalsDeclared'
    BY <2>1, SimpleKept DEF Comes, LocalsDeclared
  <2>12. QED
    BY <2>9, <2>10, <2>11 DEF Comes
<1>7. CASE \E how \in {"error", "panic"} : Refuse(how)
  BY <1>7, RefuseComes
<1>8. CASE r.kind = "row" /\ ~OtherStore(r) /\ ~SelfLink(r)
  <2>1. /\ tableNames' = [tableNames EXCEPT ![r.table] = r.iter]
        /\ Rewrite(p, r.table, r.col)
    BY <1>8 DEF TransformRef
  <2>2. r.table \in Table /\ r.iter \in Iterator /\ r.col \in Column
    BY <1>2, <1>8, RowTyped
  <2>3. tableNames \in [Table -> Iterator \cup {None}] /\ None \notin Iterator
    BY QueriesAssumption DEF IInv, Shape
  <2>4. QED
    BY <1>6, <2>1, <2>2, <2>3
<1>9. CASE r.kind = "iter" /\ tableVars[r.iter] # None
  <2>1. Rewrite(p, tableVars[r.iter], r.col) /\ UNCHANGED tableNames
    BY <1>9 DEF TransformRef
  <2>2. r.iter \in Iterator /\ r.col \in Column
    BY <1>2, <1>9 DEF Written, Term, Attribute
  <2>3. /\ tableVars[r.iter] \in Table /\ r.iter # None
        /\ tableNames[tableVars[r.iter]] = r.iter
    BY <1>9, <2>2, QueriesAssumption DEF IInv, Shape, Meant, Names
  <2>4. QED
    BY <1>6, <1>9, <2>1, <2>2, <2>3
<1>10. QED
  BY <1>2, <1>7, <1>8, <1>9 DEF TransformRef

(* Going on to the next expression.                                         *)
LEMMA AdvanceComes ==
  ASSUME IInv, IteratorsKept, pc = "refs", Advance,
         Simple => \A k \in DOMAIN query : k <= n => Declared(k)' \/ \E m \in DOMAIN body' : Origin(k, m)',
         \A x \in LocalVar : localVars'[x] # None => \E k \in DOMAIN query : k <= n /\ Declares(k, x)
  PROVE  Comes'
<1>1. UNCHANGED query /\ n \in 1 .. Len(query) /\ query \in Seq(Expr)
  BY DEF Advance, inputVars, IInv, Shape
<1>2. \/ n = Len(query) /\ pc' = "process"
      \/ n # Len(query) /\ pc' = "refs" /\ n' = n + 1 /\ call' = query[n + 1].call
  BY DEF Advance
<1>3. \A k \in DOMAIN query : DealtWith(k)' => k <= n
  BY <1>1, <1>2 DEF DealtWith
<1>4. BodyComes'
  BY <1>1, <1>3, SimpleKept DEF BodyComes
<1>5. LocalsDeclared'
  BY <1>1, <1>2, SimpleKept DEF LocalsDeclared
<1>6. CallComes'
  BY <1>1, <1>2 DEF CallComes, SameForm, OfRef
<1>7. QED
  BY <1>4, <1>5, <1>6 DEF Comes

(* What a declaration is made of.                                           *)
LEMMA DeclarationTyped ==
  ASSUME call \in Calls(Operand(Leaf)), IsLocalVarDeclaration
  PROVE  /\ call.op = "eq" /\ call.args[1].op = "term" /\ call.args[2].op = "term"
         /\ 1 \in DOMAIN call.args /\ 2 \in DOMAIN call.args
         /\ <<1, 1>> \in Places(call) /\ VarAt(1) \in LocalVar
         /\ TermAt(call, <<1, 1>>) = [kind |-> "var", name |-> VarAt(1)]
         /\ <<2, 1>> \in Places(call) /\ call.args[2].terms[1] \in Attribute
         /\ TermAt(call, <<2, 1>>) = call.args[2].terms[1]
<1>1. /\ call.op = "eq" /\ call.args[1].op = "term" /\ call.args[2].op = "term"
      /\ call.args[1].terms[1].kind = "var" /\ call.args[2].terms[1].kind = "attr"
  BY DEF IsLocalVarDeclaration, Vars
<1>2. 1 \in DOMAIN call.args /\ 2 \in DOMAIN call.args
  BY DEF Calls
<1>3. call.args[1] \in Operand(Leaf) /\ call.args[2] \in Operand(Leaf)
  BY <1>2 DEF Calls
<1>4. PICK x, a : x = call.args[1].terms[1] /\ a = call.args[2].terms[1]
  OBVIOUS
<1>5. /\ 1 \in DOMAIN call.args[1].terms /\ 1 \in DOMAIN call.args[2].terms
      /\ x \in Leaf /\ a \in Leaf
  BY <1>1, <1>3, <1>4 DEF Operand, Arithmetic
<1>6. /\ <<1, 1>> \in Places(call) /\ TermAt(call, <<1, 1>>) = x
      /\ <<2, 1>> \in Places(call) /\ TermAt(call, <<2, 1>>) = a
  BY <1>2, <1>4, <1>5, PlacesOf
<1>7. a \in Attribute /\ x \in [kind : {"var"}, name : LocalVar]
  BY <1>1, <1>4, <1>5 DEF Leaf, Attribute
<1>8. VarAt(1) = x.name /\ x = [kind |-> "var", name |-> x.name] /\ x.name \in LocalVar
  BY <1>4, <1>7 DEF VarAt
<1>9. QED
  BY <1>1, <1>2, <1>4, <1>6, <1>7, <1>8

(* A declaration that is carried out is one of the query.                   *)
LEMMA DeclarationDeclares ==
  ASSUME IInv, Comes, pc = "refs", Refs = {}, IsLocalVarDeclaration
  PROVE  /\ Declares(n, VarAt(1)) /\ VarAt(1) \in LocalVar
         /\ call.args[2].terms[1] \in Attribute
         /\ OfRef(call.args[2].terms[1], query[n].call.args[2].terms[1])
<1>1. call \in Calls(Operand(Leaf))
  BY LeafCall DEF IInv, Shape, Refs
<1>2. PICK q, x, a, y : q = query[n].call /\ x = VarAt(1) /\ a = call.args[2].terms[1]
                        /\ y = q.args[2].terms[1]
  OBVIOUS
<1>3. /\ call.op = "eq" /\ call.args[1].op = "term" /\ call.args[2].op = "term"
      /\ 1 \in DOMAIN call.args /\ 2 \in DOMAIN call.args /\ x \in LocalVar
      /\ <<1, 1>> \in Places(call) /\ TermAt(call, <<1, 1>>) = [kind |-> "var", name |-> x]
      /\ <<2, 1>> \in Places(call) /\ TermAt(call, <<2, 1>>) = a /\ a \in Attribute
  BY <1>1, <1>2, DeclarationTyped
<1>4. SameForm(call, q) /\ \A p \in Places(call) : OfRef(TermAt(call, p), TermAt(q, p))
  BY <1>2 DEF Comes, CallComes
<1>5. q.op = "eq" /\ q.args[1].op = "term" /\ q.args[2].op = "term"
  BY <1>3, <1>4 DEF SameForm
<1>6. TermAt(q, <<2, 1>>) = y /\ TermAt(q, <<1, 1>>) = q.args[1].terms[1]
  BY <1>2 DEF TermAt
<1>7. q.args[1].terms[1] = [kind |-> "var", name |-> x]
  <2>1. OfRef([kind |-> "var", name |-> x], q.args[1].terms[1])
    BY <1>3, <1>4, <1>6
  <2>2. QED
    BY <2>1 DEF OfRef
<1>8. OfRef(a, y)
  BY <1>3, <1>4, <1>6
<1>9. y.kind \in {"row", "iter"}
  <2>1. n \in DOMAIN query /\ query \in Seq(Expr)
    BY DEF IInv, Shape
  <2>2. q \in Calls(Operand(Term)) /\ <<2, 1>> \in Places(q)
    BY <1>2, <1>3, <1>4, <2>1, QueryTyped DEF SameForm
  <2>3. y \in Term
    BY <1>6, <2>2, TermTyped
  <2>4. a # y
    BY <1>3, <2>3 DEF Term, Attribute
  <2>5. QED
    BY <1>8, <2>4 DEF OfRef
<1>10. Declares(n, x)
  BY <1>2, <1>5, <1>7, <1>9 DEF Declares
<1>11. QED
  BY <1>2, <1>3, <1>8, <1>10

(* Carrying out a declaration, the only one of its variable.                *)
LEMMA DeclarationComes ==
  ASSUME IInv, Rest, Comes, IteratorsKept, pc = "refs", Refs = {}, IsLocalVarDeclaration,
         localVars' = [localVars EXCEPT ![VarAt(1)] = call.args[2].terms[1]],
         Advance, UNCHANGED body
  PROVE  Comes'
<1>1. PICK j, x, a : j = n /\ x = VarAt(1) /\ a = call.args[2].terms[1]
  OBVIOUS
<1>2. Declares(j, x) /\ x \in LocalVar /\ a \in Attribute /\ OfRef(a, query[j].call.args[2].terms[1])
  BY <1>1, DeclarationDeclares
<1>3. /\ localVars'[x] = a /\ a # None
      /\ \A y \in LocalVar : y # x => localVars'[y] = localVars[y]
  BY <1>1, <1>2, QueriesAssumption DEF Rest
<1>4. j \in DOMAIN query /\ UNCHANGED query
  BY <1>1 DEF IInv, Shape, IteratorsKept
<1>5. Simple => \A k \in DOMAIN query : Declares(k, x) => k = j
  BY <1>2, <1>4 DEF Simple
<1>6. Declared(j)'
  <2>1. PICK y : y = query[j].call.args[2].terms[1]
    OBVIOUS
  <2>2. OfRef(a, y)'
    BY <1>2, <2>1, OfRefKept
  <2>3. Declares(j, x)' /\ localVars'[x] # None
    BY <1>2, <1>3, <1>4, SimpleKept
  <2>4. OfRef(localVars[x], query[j].call.args[2].terms[1])'
    <3>1. a = localVars'[x] /\ y = query'[j].call.args[2].terms[1]
      BY <1>3, <1>4, <2>1
    <3>2. QED
      BY <2>2, <3>1 DEF OfRef
  <2>5. QED
    BY <1>2, <2>3, <2>4 DEF Declared
<1>7. ASSUME Simple, NEW k \in DOMAIN query, k < n
      PROVE  Declared(k)' \/ \E m \in DOMAIN body' : Origin(k, m)'
  <2>1. Declared(k) \/ \E m \in DOMAIN body : Origin(k, m)
    BY <1>7 DEF Comes, BodyComes, DealtWith
  <2>2. CASE Declared(k)
    <3>1. PICK z \in LocalVar : /\ Declares(k, z) /\ localVars[z] # None
                                /\ OfRef(localVars[z], query[k].call.args[2].terms[1])
      BY <2>2 DEF Declared
    <3>2. z # x
      BY <1>1, <1>5, <1>7, <3>1 DEF IInv, Shape
    <3>3. QED
      BY <1>3, <3>1, <3>2, DeclaredKept
  <2>3. ASSUME NEW m \in DOMAIN body, Origin(k, m)
        PROVE  Origin(k, m)'
    <3>1. localVars[x] = None
      <4>1. localVars[x] # None => \E i \in DOMAIN query : i < n /\ Declares(i, x)
        BY <1>2 DEF Comes, LocalsDeclared
      <4>2. QED
        BY <1>1, <1>5, <1>7, <4>1 DEF IInv, Shape
    <3>2. QED
      BY <1>3, <2>3, <3>1, OriginKept
  <2>4. QED
    BY <2>1, <2>2, <2>3
<1>8. \A y \in LocalVar : localVars'[y] # None => \E k \in DOMAIN query : k <= n /\ Declares(k, y)
  <2>1. \A k \in DOMAIN query : k < n => k <= n
    BY DEF IInv, Shape
  <2>2. n <= n
    BY DEF IInv, Shape
  <2>3. QED
    BY <1>1, <1>2, <1>3, <1>4, <2>1, <2>2 DEF Comes, LocalsDeclared
<1>9. Simple => \A k \in DOMAIN query : k <= n => Declared(k)' \/ \E m \in DOMAIN body' : Origin(k, m)'
  <2>1. \A k \in DOMAIN query : k <= n => k < n \/ k = j
    BY <1>1 DEF IInv, Shape
  <2>2. QED
    BY <1>6, <1>7, <2>1
<1>10. QED
  BY <1>8, <1>9, AdvanceComes

(* What is added to the body comes of the expression.                       *)
LEMMA SubstitutedComes ==
  ASSUME IInv, Rest, Comes, IteratorsKept, pc = "refs", Refs = {},
         \A i \in Vars : localVars[VarAt(i)] # None, UNCHANGED localVars,
         NEW k, k = n, NEW m, body'[m] = Substituted
  PROVE  Origin(k, m)'
<1>1. PICK c, q : c = Substituted /\ q = query[k].call
  OBVIOUS
<1>2. /\ call \in Calls(Operand(Leaf)) /\ c \in Calls(Operand(Leaf))
      /\ c.op = call.op /\ DOMAIN c.args = DOMAIN call.args
      /\ \A i \in Vars : c.args[i] = [op |-> "term", terms |-> <<localVars[VarAt(i)]>>]
      /\ \A i \in DOMAIN call.args \ Vars : c.args[i] = call.args[i]
  BY <1>1, SubstitutedTyped DEF Vars
<1>3. ASSUME NEW i \in Vars
      PROVE  /\ i \in DOMAIN call.args /\ call.args[i].op = "term" /\ c.args[i].op = "term"
             /\ DOMAIN c.args[i].terms = {1} /\ DOMAIN call.args[i].terms = {1}
             /\ c.args[i].terms[1] = localVars[VarAt(i)]
  <2>1. PICK x : x = localVars[VarAt(i)]
    OBVIOUS
  <2>2. c.args[i] = [op |-> "term", terms |-> <<x>>]
    BY <1>2, <2>1
  <2>3. i \in DOMAIN call.args /\ call.args[i].op = "term"
    BY DEF Vars
  <2>4. call.args[i] \in Operand(Leaf)
    BY <1>2, <2>3 DEF Calls
  <2>5. DOMAIN call.args[i].terms = {1}
    BY <2>3, <2>4 DEF Operand, Arithmetic
  <2>6. QED
    BY <2>1, <2>2, <2>3, <2>5
<1>4. /\ \A i \in DOMAIN call.args : c.args[i].op = call.args[i].op
      /\ \A i \in DOMAIN call.args : DOMAIN c.args[i].terms = DOMAIN call.args[i].terms
  BY <1>2, <1>3
<1>5. Places(c) = Places(call)
  BY <1>2, <1>4 DEF Places
<1>6. SameForm(call, q) /\ \A p \in Places(call) : OfRef(TermAt(call, p), TermAt(q, p))
  BY <1>1 DEF Comes, CallComes
<1>7. SameForm(c, q)
  BY <1>2, <1>4, <1>5, <1>6 DEF SameForm
<1>8. ASSUME NEW p \in Places(c), NEW x, x = TermAt(c, p), NEW y, y = TermAt(q, p)
      PROVE  OfTerm(x, y)'
  <2>1. p[1] \in DOMAIN call.args /\ p[2] \in DOMAIN c.args[p[1]].terms /\ p = <<p[1], p[2]>>
    BY <1>2, TermTyped
  <2>2. PICK z : z = TermAt(call, p)
    OBVIOUS
  <2>3. OfRef(z, y)
    BY <1>5, <1>6, <1>8, <2>2
  <2>4. CASE p[1] \in Vars
    <3>1. p[2] = 1 /\ x = localVars[VarAt(p[1])]
      BY <1>3, <1>8, <2>1, <2>4 DEF TermAt
    <3>2. z.kind = "var" /\ z.name = VarAt(p[1])
      BY <2>2, <2>4, <3>1 DEF TermAt, Vars, VarAt
    <3>3. z = y
      BY <2>3, <3>2 DEF OfRef
    <3>4. z \in Leaf
      BY <1>2, <1>5, <1>8, <2>2, TermTyped
    <3>5. z.name \in LocalVar
      BY <3>2, <3>4 DEF Leaf, Attribute
    <3>6. x # None
      BY <2>4, <3>1
    <3>7. QED
      BY <3>1, <3>2, <3>3, <3>5, <3>6 DEF OfTerm
  <2>5. CASE p[1] \notin Vars
    <3>1. x = z
      BY <1>2, <1>8, <2>1, <2>2, <2>5 DEF TermAt
    <3>2. QED
      BY <2>3, <3>1, OfRefKept DEF OfTerm
  <2>6. QED
    BY <2>4, <2>5
<1>9. body'[m] = c /\ query'[k].call = q
  BY <1>1 DEF IteratorsKept
<1>10. SameForm(body[m], query[k].call)' /\ Places(body[m])' = Places(c)
  BY <1>7, <1>9 DEF SameForm, Places
<1>11. ASSUME NEW p \in Places(c)
       PROVE  OfTerm(TermAt(body[m], p), TermAt(query[k].call, p))'
  <2>1. PICK x, y : x = TermAt(c, p) /\ y = TermAt(q, p)
    OBVIOUS
  <2>2. OfTerm(x, y)'
    BY <1>8, <2>1
  <2>3. x = TermAt(body[m], p)' /\ y = TermAt(query[k].call, p)'
    BY <1>9, <2>1 DEF TermAt
  <2>4. QED
    BY <2>2, <2>3 DEF OfTerm, OfRef
<1>12. QED
  BY <1>10, <1>11 DEF Origin

(* An expression is dealt with.                                             *)
LEMMA SubstituteVarsComes ==
  ASSUME IInv, Rest, Comes, SubstituteVars
  PROVE  Comes'
<1>1. IteratorsKept
  BY StepKeeps DEF Next
<1>2. pc = "refs" /\ Refs = {}
  BY DEF SubstituteVars
<1>3. CASE Refuse("error")
  BY <1>3, RefuseComes
<1>4. CASE /\ IsLocalVarDeclaration
           /\ localVars' = [localVars EXCEPT ![VarAt(1)] = call.args[2].terms[1]]
           /\ Advance /\ UNCHANGED body
  BY <1>1, <1>2, <1>4, DeclarationComes
<1>5. CASE /\ \A i \in Vars : localVars[VarAt(i)] # None
           /\ body' = Append(body, Substituted)
           /\ Advance /\ UNCHANGED localVars
  <2>1. PICK j, c : j = n /\ c = Substituted
    OBVIOUS
  <2>2. body \in Seq(Calls(Operand(Leaf))) /\ body' = Append(body, c)
    BY <1>5, <2>1 DEF Rest
  <2>3. \E m \in DOMAIN body' : Origin(j, m)'
    <3>1. PICK m : m = Len(body) + 1
      OBVIOUS
    <3>2. m \in DOMAIN body' /\ body'[m] = c
      BY <2>2, <3>1
    <3>3. Origin(j, m)'
      BY <1>1, <1>2, <1>5, <2>1, <3>2, SubstitutedComes
    <3>4. QED
      BY <3>2, <3>3
  <2>4. ASSUME Simple, NEW k \in DOMAIN query, k < n
        PROVE  Declared(k)' \/ \E m \in DOMAIN body' : Origin(k, m)'
    <3>1. Declared(k) \/ \E m \in DOMAIN body : Origin(k, m)
      BY <1>2, <2>4 DEF Comes, BodyComes, DealtWith
    <3>2. CASE Declared(k)
      BY <1>1, <1>5, <3>2, DeclaredKept DEF Declared
    <3>3. ASSUME NEW m \in DOMAIN body, Origin(k, m)
          PROVE  m \in DOMAIN body' /\ Origin(k, m)'
      <4>1. m \in DOMAIN body' /\ body'[m] = body[m]
        BY <2>2
      <4>2. QED
        BY <1>1, <1>5, <3>3, <4>1, OriginKept
    <3>4. QED
      BY <3>1, <3>2, <3>3
  <2>5. Simple => \A k \in DOMAIN query : k <= n => Declared(k)' \/ \E m \in DOMAIN body' : Origin(k, m)'
    <3>1. \A k \in DOMAIN query : k <= n => k < n \/ k = j
      BY <2>1 DEF IInv, Shape
    <3>2. QED
      BY <2>3, <2>4, <3>1
  <2>6. \A y \in LocalVar : localVars'[y] # None => \E k \in DOMAIN query : k <= n /\ Declares(k, y)
    <3>1. \A k \in DOMAIN query : k < n => k <= n
      BY DEF IInv, Shape
    <3>2. QED
      BY <1>2, <1>5, <3>1 DEF Comes, LocalsDeclared
  <2>7. QED
    BY <1>1, <1>2, <1>5, <2>5, <2>6, AdvanceComes
<1>6. QED
  BY <1>3, <1>4, <1>5 DEF SubstituteVars, Substituted

(* No step loses where the query's expressions have gone.                   *)
LEMMA ComesKept ==
  ASSUME IInv, Rest, Meant, Comes, [Next]_vars
  PROVE  Comes'
<1>1. CASE TransformRef
  BY <1>1, TransformRefComes
<1>2. CASE SubstituteVars
  BY <1>2, SubstituteVarsComes
<1>3. CASE Process \/ Translate \/ Execute \/ CountDocuments \/ UNCHANGED vars
  <2>1. UNCHANGED <<inputVars, preVars>>
    BY <1>3 DEF Process, Translate, Execute, CountDocuments, Refuse, vars
  <2>2. \/ pc \in {"process", "translate", "execute"} /\ pc' \in {"translate", "execute", "done"}
        \/ pc' = pc
    BY <1>3 DEF Process, Translate, Execute, CountDocuments, Refuse, vars
  <2>3. \A k \in DOMAIN query : DealtWith(k)' => DealtWith(k)
    BY <2>1, <2>2 DEF DealtWith, preVars
  <2>4. IteratorsKept
    BY StepKeeps
  <2>5. QED
    BY <2>1, <2>2, <2>3, <2>4, FrameComes DEF inputVars, preVars
<1>4. QED
  BY <1>1, <1>2, <1>3 DEF Next

(* At first, nothing has been dealt with.                                   *)
LEMMA ComesAtFirst ==
  ASSUME Init, IInv
  PROVE  Comes
<1>1. CallComes
  BY DEF Init, CallComes, SameForm, OfRef
<1>2. BodyComes
  BY DEF Init, BodyComes, DealtWith, IInv, Shape
<1>3. LocalsDeclared
  BY DEF Init, LocalsDeclared
<1>4. QED
  BY <1>1, <1>2, <1>3 DEF Comes

-----------------------------------------------------------------------------
(* An expression that has declared a variable uses no other.                *)
LEMMA DeclarationUses ==
  ASSUME IInv, NEW k \in DOMAIN query, NEW x, Declares(k, x),
         NEW p \in Places(query[k].call)
  PROVE  \/ p = <<1, 1>> /\ TermAt(query[k].call, p) = [kind |-> "var", name |-> x]
         \/ p = <<2, 1>> /\ TermAt(query[k].call, p).kind \in {"row", "iter"}
<1>1. PICK q : q = query[k].call
  OBVIOUS
<1>2. q \in Calls(Operand(Term)) /\ p \in Places(q)
  BY <1>1, QueryTyped DEF IInv, Shape
<1>3. /\ q.op = "eq" /\ q.args[1].op = "term" /\ q.args[2].op = "term"
      /\ q.args[1].terms[1] = [kind |-> "var", name |-> x] /\ q.args[2].terms[1].kind \in {"row", "iter"}
  BY <1>1 DEF Declares
<1>4. DOMAIN q.args = {1, 2}
  BY <1>2, <1>3 DEF Calls, Arithmetic
<1>5. p = <<p[1], p[2]>> /\ p[1] \in DOMAIN q.args /\ p[2] \in DOMAIN q.args[p[1]].terms
      /\ q.args[p[1]] \in Operand(Term)
  BY <1>2, TermTyped
<1>6. p[2] = 1
  BY <1>3, <1>4, <1>5 DEF Operand, Arithmetic
<1>7. CASE p[1] = 1
  BY <1>1, <1>3, <1>5, <1>6, <1>7 DEF TermAt
<1>8. CASE p[1] = 2
  BY <1>1, <1>3, <1>5, <1>6, <1>8 DEF TermAt
<1>9. QED
  BY <1>4, <1>5, <1>7, <1>8

(* An expression that uses a variable has declared none.                    *)
LEMMA UsesDeclaresNone ==
  ASSUME IInv, NEW u \in DOMAIN query, NEW x, Uses(u, x)
  PROVE  \A z : ~Declares(u, z)
<1>1. PICK p \in Places(query[u].call) :
        TermAt(query[u].call, p).kind = "var" /\ TermAt(query[u].call, p).name = x
  BY DEF Uses, Kinds
<1>2. PICK y : y = TermAt(query[u].call, p)
  OBVIOUS
<1>3. ASSUME NEW z, Declares(u, z)
      PROVE  FALSE
  <2>1. y = [kind |-> "var", name |-> z]
    BY <1>1, <1>2, <1>3, DeclarationUses
  <2>2. z = x
    BY <1>1, <1>2, <2>1
  <2>3. QED
    BY <1>3, <2>2 DEF Uses
<1>4. QED
  BY <1>3

(* No variable is left.                                                     *)
NoVars == \A m \in DOMAIN body : Kinds(body[m], {"var"}) = {}

(* Then what is left are constants and columns.                             *)
LEMMA LeftTyped ==
  ASSUME Rest, NoVars, NEW m \in DOMAIN body, NEW p \in Places(body[m])
  PROVE  LET x == TermAt(body[m], p)
         IN x \in Leaf /\ x.kind \in {"const", "attr"} /\ (x.kind = "attr" => x \in Attribute)
<1>1. PICK x : x = TermAt(body[m], p)
  OBVIOUS
<1>2. x \in Leaf
  <2>1. body[m] \in Calls(Operand(Leaf))
    BY DEF Rest
  <2>2. QED
    BY <1>1, <2>1, TermTyped
<1>3. x.kind # "var"
  BY <1>1 DEF NoVars, Kinds
<1>4. x.kind \in {"const", "attr"} /\ (x.kind = "attr" => x \in Attribute)
  BY <1>2, <1>3 DEF Leaf, Attribute
<1>5. QED
  BY <1>1, <1>2, <1>4

(* Every table that a simple query refers to is one of the body's.          *)
LEMMA AskedAbout ==
  ASSUME IInv, Rest, Comes, Simple, pc = "execute", NoVars, NEW r \in RowRefs
  PROVE  \E m \in DOMAIN body : r.table \in TablesOf(body[m])
<1>1. PICK k \in DOMAIN query : \E p \in Kinds(query[k].call, {"row"}) : r = TermAt(query[k].call, p)
  BY DEF RowRefs
<1>2. PICK p \in Places(query[k].call) : r = TermAt(query[k].call, p) /\ r.kind = "row"
  BY <1>1 DEF Kinds
<1>3. \A j \in DOMAIN query : Declared(j) \/ \E m \in DOMAIN body : Origin(j, m)
  BY DEF Comes, BodyComes, DealtWith
<1>4. ASSUME NEW m \in DOMAIN body, NEW p1 \in Places(body[m]), NEW x, x = TermAt(body[m], p1)
      PROVE  x.kind \in {"attr", "const"} /\ (x.kind = "attr" => x.table \in TablesOf(body[m]))
  BY <1>4, LeftTyped DEF TablesOf, Kinds
<1>5. ASSUME NEW m \in DOMAIN body, Origin(k, m)
      PROVE  r.table \in TablesOf(body[m])
  <2>1. PICK x : x = TermAt(body[m], p)
    OBVIOUS
  <2>2. p \in Places(body[m]) /\ OfTerm(x, r)
    BY <1>2, <1>5, <2>1 DEF Origin, SameForm
  <2>3. OfRef(x, r)
    BY <1>2, <2>2 DEF OfTerm
  <2>4. x # r
    <3>1. x.kind \in {"attr", "const"}
      BY <1>4, <2>1, <2>2
    <3>2. QED
      BY <1>2, <3>1
  <2>5. x.kind = "attr" /\ x.table = r.table
    BY <1>2, <2>3, <2>4 DEF OfRef
  <2>6. QED
    BY <1>4, <2>1, <2>2, <2>5
<1>6. CASE Declared(k)
  <2>1. PICK x \in LocalVar : /\ Declares(k, x) /\ localVars[x] # None
                              /\ OfRef(localVars[x], query[k].call.args[2].terms[1])
    BY <1>6 DEF Declared
  <2>2. PICK a : a = localVars[x]
    OBVIOUS
  <2>3. a \in Attribute
    BY <2>1, <2>2 DEF Rest
  <2>4. a.table = r.table
    <3>1. p = <<2, 1>>
      <4>1. PICK y : y = TermAt(query[k].call, p)
        OBVIOUS
      <4>2. y.kind = "row"
        BY <1>2, <4>1
      <4>3. p = <<2, 1>> \/ y = [kind |-> "var", name |-> x]
        BY <2>1, <4>1, DeclarationUses
      <4>4. QED
        BY <4>2, <4>3
    <3>2. r = query[k].call.args[2].terms[1]
      BY <1>2, <3>1 DEF TermAt
    <3>3. OfRef(a, r)
      BY <2>1, <2>2, <3>2
    <3>4. QED
      BY <1>2, <2>3, <3>3 DEF OfRef, Attribute
  <2>5. PICK u \in DOMAIN query : Uses(u, x)
    BY <1>1, <2>1 DEF Simple
  <2>6. PICK p1 \in Places(query[u].call) :
          TermAt(query[u].call, p1).kind = "var" /\ TermAt(query[u].call, p1).name = x
    BY <2>5 DEF Uses, Kinds
  <2>7. PICK y : y = TermAt(query[u].call, p1)
    OBVIOUS
  <2>8. ~Declared(u)
    BY <2>5, UsesDeclaresNone DEF Declared
  <2>9. PICK m \in DOMAIN body : Origin(u, m)
    BY <1>3, <2>8
  <2>10. PICK b : b = TermAt(body[m], p1)
    OBVIOUS
  <2>11. p1 \in Places(body[m]) /\ OfTerm(b, y)
    BY <2>6, <2>7, <2>9, <2>10 DEF Origin, SameForm
  <2>12. b = a
    <3>1. b.kind \in {"attr", "const"}
      BY <1>4, <2>10, <2>11
    <3>2. b # y
      BY <2>6, <2>7, <3>1
    <3>3. QED
      BY <2>2, <2>6, <2>7, <2>11, <3>2 DEF OfTerm, OfRef
  <2>13. a.table \in TablesOf(body[m])
    BY <1>4, <2>3, <2>10, <2>11, <2>12 DEF Attribute
  <2>14. QED
    BY <2>4, <2>13
<1>7. QED
  BY <1>3, <1>5, <1>6

(* A document that a filter selects has in each table a row with which all  *)
(* that is asked about the table is true.                                   *)
Meets(m, row) == Compare(body[m].op, row[Field(m).col], Sent[Compared(m).value])
MetBy(t, row) == \A m \in DOMAIN body : Field(m).table = t => Meets(m, row)

(* There is one row for all that is asked about its table.                  *)
LEMMA RowMeets ==
  ASSUME Rest, HasFilter, AskedOnce, NEW d \in Document, d.coll = from,
         \A k \in DOMAIN body : Stated(k) /\ Selects(d, k),
         NEW m \in DOMAIN body, NEW t, t = Field(m).table
  PROVE  \E row \in d.rows[t] : MetBy(t, row)
<1>1. ASSUME NEW k \in DOMAIN body
      PROVE  /\ Field(k) \in Attribute /\ body[k].op \in Comparison
             /\ IF body[k].op = "neq" THEN Sent[Compared(k).value] \notin Elements(d, Field(k))
                ELSE \E x \in Elements(d, Field(k)) : Compare(body[k].op, x, Sent[Compared(k).value])
  <2>1. Compared(k).kind = "const" /\ Field(k) \in Attribute /\ body[k].op \in Comparison
    BY FilterPlaces
  <2>2. Selects(d, k)
    OBVIOUS
  <2>3. Quoted[Sent[Compared(k).value]] = Sent[Compared(k).value]
    BY StatedAsSent
  <2>4. QED
    BY <2>1, <2>2, <2>3 DEF Selects
<1>2. CASE t = from
  <2>1. PICK row \in Row : d.rows[t] = {row}
    BY <1>2 DEF Document
  <2>2. ASSUME NEW k \in DOMAIN body, Field(k).table = t
        PROVE  Meets(k, row)
    <3>1. Elements(d, Field(k)) = {row[Field(k).col]}
      BY <2>1, <2>2 DEF Elements
    <3>2. CASE body[k].op = "neq"
      BY <1>1, <3>1, <3>2 DEF Meets, Compare
    <3>3. CASE body[k].op # "neq"
      BY <1>1, <3>1, <3>3 DEF Meets
    <3>4. QED
      BY <3>2, <3>3
  <2>3. QED
    BY <2>1, <2>2 DEF MetBy
<1>3. CASE t # from
  <2>1. body[m].op # "neq"
    BY <1>3 DEF Stated
  <2>2. PICK x \in Elements(d, Field(m)) : Compare(body[m].op, x, Sent[Compared(m).value])
    BY <1>1, <2>1
  <2>3. PICK row \in d.rows[t] : x = row[Field(m).col]
    BY <2>2 DEF Elements
  <2>4. Meets(m, row)
    BY <2>2, <2>3 DEF Meets
  <2>5. \A k \in DOMAIN body : Field(k).table = t => k = m
    BY <1>3 DEF AskedOnce
  <2>6. QED
    BY <2>4, <2>5 DEF MetBy
<1>4. QED
  BY <1>2, <1>3

(* A body of a query that is not empty and simple is not empty.             *)
LEMMA BodyNotEmpty ==
  ASSUME IInv, Comes, Simple, pc = "execute"
  PROVE  DOMAIN body # {}
<1>1. \A k \in DOMAIN query : Declared(k) \/ \E m \in DOMAIN body : Origin(k, m)
  BY DEF Comes, BodyComes, DealtWith
<1>2. PICK k \in DOMAIN query : TRUE
  <2>1. n \in DOMAIN query
    BY DEF IInv, Shape
  <2>2. QED
    BY <2>1
<1>3. CASE Declared(k)
  <2>1. PICK x \in LocalVar : Declares(k, x)
    BY <1>3 DEF Declared
  <2>2. PICK u \in DOMAIN query : Uses(u, x)
    BY <2>1 DEF Simple
  <2>3. ~Declared(u)
    BY <2>2, UsesDeclaresNone DEF Declared
  <2>4. QED
    BY <1>1, <2>3
<1>4. QED
  BY <1>1, <1>3

(* Rows of the tables, as values of the iterators and of the variables.     *)
RowsOfTables(d, rw) == \A r \in RowRefs : rw[r.table] \in d.rows[r.table] /\ MetBy(r.table, rw[r.table])
IteratorsOf(rw) == [i \in {r.iter : r \in RowRefs} |-> rw[(CHOOSE r \in RowRefs : r.iter = i).table]]
LocalsOf(rho, v) ==
  [x \in LocalVar |-> IF localVars[x] = None THEN v
                      ELSE rho[tableNames[localVars[x].table]][localVars[x].col]]

(* The iterator of a table has the table's row.                             *)
LEMMA IteratorRows ==
  ASSUME IInv, Meant, Simple, NEW rw, NEW rho, rho = IteratorsOf(rw)
  PROVE  /\ \A r \in RowRefs : rho[r.iter] = rw[r.table]
         /\ \A t \in Table : tableNames[t] # None =>
              rho[tableNames[t]] = rw[t] /\ \E r \in RowRefs : r.table = t /\ r.iter = tableNames[t]
<1>1. ASSUME NEW r \in RowRefs
      PROVE  rho[r.iter] = rw[r.table]
  <2>1. PICK s : s = CHOOSE z \in RowRefs : z.iter = r.iter
    OBVIOUS
  <2>2. s \in RowRefs /\ s.iter = r.iter
    BY <2>1
  <2>3. s.table = r.table
    BY <2>2 DEF Simple
  <2>4. rho[r.iter] = rw[s.table]
    BY <2>1 DEF IteratorsOf
  <2>5. QED
    BY <2>3, <2>4
<1>2. ASSUME NEW t \in Table, tableNames[t] # None
      PROVE  rho[tableNames[t]] = rw[t] /\ \E r \in RowRefs : r.table = t /\ r.iter = tableNames[t]
  <2>1. PICK r \in RowRefs : r.table = t /\ r.iter = tableNames[t]
    BY <1>2 DEF Meant, Sources
  <2>2. QED
    BY <1>1, <2>1
<1>3. QED
  BY <1>1, <1>2

(* With them, what a term has become has the value of the term.             *)
LEMMA TermValues ==
  ASSUME IInv, Rest, NEW rho, NEW v, NEW loc, loc = LocalsOf(rho, v),
         NEW x \in Leaf, x.kind # "var", NEW y \in Term, OfTerm(x, y)
  PROVE  Now(x, rho, loc) = Meaning(y, rho, loc)
<1>1. CASE x = y
  <2>1. x.kind = "const"
    BY <1>1 DEF Leaf, Term, Attribute
  <2>2. QED
    BY <1>1, <2>1 DEF Now, Meaning
<1>2. CASE x # y /\ OfRef(x, y)
  BY <1>2 DEF OfRef, Now, Meaning
<1>3. CASE y.kind = "var" /\ y.name \in LocalVar /\ x = localVars[y.name] /\ x # None
  <2>1. x \in Attribute
    BY <1>3 DEF Rest
  <2>2. x.kind = "attr"
    BY <2>1 DEF Attribute
  <2>3. loc[y.name] = rho[tableNames[x.table]][x.col]
    BY <1>3 DEF LocalsOf
  <2>4. QED
    BY <1>3, <2>2, <2>3 DEF Now, Meaning
<1>4. QED
  BY <1>1, <1>2, <1>3 DEF OfTerm

(* The body has mapped operators only and is true, whatever the variables.  *)
BodyTrue(rho) == \A m \in DOMAIN body : body[m].op \in Mapped /\ \A loc : TrueNow(body[m], rho, loc)

(* And when the body is true, each expression of the query is.              *)
LEMMA ExpressionTrue ==
  ASSUME IInv, Rest, Comes, Simple, pc = "execute", NoVars, NEW rho, NEW v,
         NEW loc, loc = LocalsOf(rho, v),
         \A m \in DOMAIN body : body[m].op \in Mapped /\ TrueNow(body[m], rho, loc),
         NEW k \in DOMAIN query
  PROVE  Truth(query[k].call, rho, loc)
<1>1. PICK q : q = query[k].call
  OBVIOUS
<1>2. q \in Calls(Operand(Term)) /\ q \in Calls(Operand(Written))
  BY <1>1, QueryTyped DEF IInv, Shape
<1>3. ASSUME NEW m \in DOMAIN body, Origin(k, m)
      PROVE  Truth(q, rho, loc)
  <2>1. PICK c : c = body[m]
    OBVIOUS
  <2>2. c \in Calls(Operand(Leaf)) /\ c \in Calls(Operand(Written)) /\ c.op \in Mapped
    <3>1. c \in Calls(Operand(Leaf))
      BY <2>1 DEF Rest
    <3>2. Operand(Leaf) \subseteq Operand(Written)
      BY DEF Operand, Leaf, Written, Term
    <3>3. Calls(Operand(Leaf)) \subseteq Calls(Operand(Written))
      BY <3>2 DEF Calls
    <3>4. QED
      BY <2>1, <3>1, <3>3
  <2>3. ASSUME NEW p \in Places(c)
         PROVE  Now(TermAt(c, p), rho, loc) = Meaning(TermAt(q, p), rho, loc)
    <3>1. PICK x, y : x = TermAt(c, p) /\ y = TermAt(q, p)
      OBVIOUS
    <3>2. x \in Leaf /\ x.kind # "var"
      BY <2>1, <3>1, LeftTyped
    <3>3. OfTerm(x, y) /\ p \in Places(q)
      BY <1>1, <1>3, <2>1, <3>1 DEF Origin, SameForm
    <3>4. y \in Term
      BY <1>2, <3>1, <3>3, TermTyped
    <3>5. QED
      BY <3>1, <3>2, <3>3, <3>4, TermValues
  <2>4. SameForm(c, q)
    BY <1>1, <1>3, <2>1 DEF Origin
  <2>5. TrueNow(c, rho, loc)
    BY <2>1
  <2>6. QED
    BY <1>2, <2>2, <2>3, <2>4, <2>5, SameMeaning
<1>4. CASE Declared(k)
  <2>1. PICK x \in LocalVar : Declares(k, x) /\ localVars[x] # None /\ OfRef(localVars[x], q.args[2].terms[1])
    BY <1>1, <1>4 DEF Declared
  <2>2. PICK a, y : a = localVars[x] /\ y = q.args[2].terms[1]
    OBVIOUS
  <2>3. a \in Attribute /\ OfRef(a, y)
    BY <2>1, <2>2 DEF Rest
  <2>4. /\ q.op = "eq" /\ q.args[1].op = "term" /\ q.args[2].op = "term"
        /\ q.args[1].terms[1] = [kind |-> "var", name |-> x] /\ y.kind \in {"row", "iter"}
    BY <1>1, <2>1, <2>2 DEF Declares
  <2>5. a.kind = "attr" /\ tableNames[a.table] = y.iter /\ a.col = y.col
    BY <2>3, <2>4 DEF OfRef, Attribute
  <2>6. loc[x] = rho[y.iter][y.col]
    BY <2>1, <2>2, <2>5 DEF LocalsOf
  <2>7. Meaning(y, rho, loc) = rho[y.iter][y.col]
    BY <2>4 DEF Meaning
  <2>8. Meaning(q.args[1].terms[1], rho, loc) = loc[x]
    BY <2>4 DEF Meaning
  <2>9. QED
    BY <1>1, <2>2, <2>4, <2>6, <2>7, <2>8 DEF Truth, Comparison, Compare
<1>5. Declared(k) \/ \E m \in DOMAIN body : Origin(k, m)
  BY DEF Comes, BodyComes, DealtWith
<1>6. QED
  BY <1>1, <1>3, <1>4, <1>5

(* Then rows of the tables make the query true.                             *)
LEMMA RowsMakeTrue ==
  ASSUME IInv, Rest, Meant, Comes, Simple, Plain, pc = "execute", NoVars,
         NEW rw, \A r \in RowRefs : rw[r.table] \in Row, NEW rho, rho = IteratorsOf(rw),
         BodyTrue(rho)
  PROVE  /\ rho \in [{r.iter : r \in RowRefs} -> Row]
         /\ \A r \in RowRefs : rho[r.iter] = rw[r.table]
         /\ \E loc \in [LocalVar -> Value] :
              \A k \in DOMAIN query : query[k].negated # Truth(query[k].call, rho, loc)
<1>1. \A r \in RowRefs : rho[r.iter] = rw[r.table]
  BY IteratorRows
<1>2. rho \in [{r.iter : r \in RowRefs} -> Row]
  <2>1. \A i \in {r.iter : r \in RowRefs} : rho[i] \in Row
    BY <1>1
  <2>2. QED
    BY <2>1 DEF IteratorsOf
<1>3. ASSUME NEW a \in Attribute, Good(a)
      PROVE  rho[tableNames[a.table]][a.col] \in Value
  <2>1. a.table \in Table /\ a.col \in Column /\ tableNames[a.table] # None
    BY <1>3 DEF Attribute, Good
  <2>2. PICK r \in RowRefs : r.table = a.table /\ r.iter = tableNames[a.table]
    BY <2>1 DEF Meant, Sources
  <2>3. rho[tableNames[a.table]] \in Row
    BY <1>1, <2>2
  <2>4. QED
    BY <2>1, <2>3 DEF Row
<1>4. PICK v : v \in Value
  <2>1. PICK m \in DOMAIN body : TRUE
    BY BodyNotEmpty
  <2>2. PICK p : p \in Places(body[m])
    <3>1. body[m] \in Calls(Operand(Leaf))
      BY DEF Rest
    <3>2. 1 \in DOMAIN body[m].args /\ body[m].args[1] \in Operand(Leaf)
      BY <3>1 DEF Calls
    <3>3. 1 \in DOMAIN body[m].args[1].terms
      BY <3>2 DEF Operand
    <3>4. QED
      BY <3>1, <3>2, <3>3, PlacesOf
  <2>3. PICK x : x = TermAt(body[m], p)
    OBVIOUS
  <2>4. x \in Leaf /\ x.kind \in {"const", "attr"} /\ (x.kind = "attr" => x \in Attribute) /\ Good(x)
    BY <2>2, <2>3, LeftTyped DEF Meant, BodyMeans, GoodCall
  <2>5. CASE x.kind = "const"
    <3>1. x.value \in Value
      BY <2>4, <2>5 DEF Leaf, Attribute
    <3>2. QED
      BY <3>1
  <2>6. CASE x.kind = "attr"
    BY <1>3, <2>4, <2>6
  <2>7. QED
    BY <2>4, <2>5, <2>6
<1>5. PICK loc : loc = LocalsOf(rho, v)
  OBVIOUS
<1>6. loc \in [LocalVar -> Value]
  <2>1. ASSUME NEW x \in LocalVar, localVars[x] # None
        PROVE  rho[tableNames[localVars[x].table]][localVars[x].col] \in Value
    <3>1. PICK a : a = localVars[x]
      OBVIOUS
    <3>2. a \in Attribute /\ Good(a)
      BY <2>1, <3>1 DEF Rest, Meant, LocalsMean
    <3>3. QED
      BY <1>3, <3>1, <3>2
  <2>2. QED
    BY <1>4, <1>5, <2>1 DEF LocalsOf
<1>7. ASSUME NEW k \in DOMAIN query
      PROVE  query[k].negated # Truth(query[k].call, rho, loc)
  <2>1. query[k].negated = FALSE
    <3>1. query[k] \in Expr
      BY DEF IInv, Shape
    <3>2. query[k].negated \in BOOLEAN
      BY <3>1 DEF Expr
    <3>3. QED
      BY <3>2 DEF Plain
  <2>2. PICK b \in BOOLEAN : b = Truth(query[k].call, rho, loc)
    BY TruthIsTruth
  <2>3. Truth(query[k].call, rho, loc)
    BY <1>5, ExpressionTrue DEF BodyTrue
  <2>4. b = TRUE
    BY <2>2, <2>3
  <2>5. QED
    BY <2>1, <2>2, <2>4
<1>8. QED
  BY <1>1, <1>2, <1>6, <1>7

-----------------------------------------------------------------------------
(* A filter has no variables, and each of its relations is true of rows     *)
(* that meet it.                                                            *)
LEMMA FilterTrue ==
  ASSUME IInv, Rest, Meant, Simple, Plain, HasFilter, \A m \in DOMAIN body : Stated(m),
         NEW d, NEW rw, RowsOfTables(d, rw), NEW rho, rho = IteratorsOf(rw),
         NEW m \in DOMAIN body
  PROVE  body[m].op \in Mapped /\ \A loc : TrueNow(body[m], rho, loc)
<1>1. PICK c, f, g : c = body[m] /\ f = Field(m) /\ g = Compared(m)
  OBVIOUS
<1>2. /\ c.op \in Comparison /\ f \in Attribute /\ g \in Leaf /\ g.kind = "const"
      /\ \E p \in Places(c) : TermAt(c, p) = f
      /\ \E p \in Places(c) : TermAt(c, p) = g
      /\ \A loc : Compare(c.op, Now(f, rho, loc), Now(g, rho, loc)) => TrueNow(c, rho, loc)
  BY <1>1, FilterPlaces
<1>3. Good(f) /\ Good(g)
  BY <1>1, <1>2 DEF Meant, BodyMeans, GoodCall
<1>4. \A loc : Now(f, rho, loc) = rw[f.table][f.col]
  <2>1. f.kind = "attr" /\ f.table \in Table /\ tableNames[f.table] # None
    BY <1>2, <1>3 DEF Good, Attribute
  <2>2. rho[tableNames[f.table]] = rw[f.table]
    BY <2>1, IteratorRows
  <2>3. QED
    BY <2>1, <2>2 DEF Now
<1>5. \A loc : Now(g, rho, loc) = Sent[g.value]
  BY <1>2, <1>3 DEF Good, Now
<1>6. Compare(c.op, rw[f.table][f.col], Sent[g.value])
  <2>1. PICK r \in RowRefs : r.table = f.table
    BY <1>2, <1>3 DEF Good, Attribute, Meant, Sources
  <2>2. MetBy(f.table, rw[f.table])
    BY <2>1 DEF RowsOfTables
  <2>3. QED
    BY <1>1, <2>2 DEF MetBy, Meets
<1>7. QED
  BY <1>1, <1>2, <1>4, <1>5, <1>6 DEF Mapped

(* Each of its relations is about one table.                                *)
LEMMA FilterHasNoVars ==
  ASSUME Rest, HasFilter, \A m \in DOMAIN body : Stated(m)
  PROVE  NoVars /\ \A m \in DOMAIN body : TablesOf(body[m]) = {Field(m).table}
<1>1. ASSUME NEW m \in DOMAIN body
      PROVE  Kinds(body[m], {"var"}) = {} /\ TablesOf(body[m]) = {Field(m).table}
  <2>1. PICK f, g : f = Field(m) /\ g = Compared(m)
    OBVIOUS
  <2>2. /\ f.kind = "attr" /\ g.kind = "const"
        /\ \A p \in Places(body[m]) : TermAt(body[m], p) \in {f, g}
        /\ \E p \in Places(body[m]) : TermAt(body[m], p) = f
    BY <2>1, FilterPlaces DEF Attribute
  <2>3. QED
    BY <2>1, <2>2 DEF Kinds, TablesOf
<1>2. QED
  BY <1>1 DEF NoVars

(* When a document is selected, the query is true of it.                    *)
LEMMA SelectedHolds ==
  ASSUME IInv, Rest, Meant, Comes, Simple, Plain, pc = "execute", HasFilter, AskedOnce,
         NEW d \in Document, d.coll = from, \A m \in DOMAIN body : Stated(m) /\ Selects(d, m)
  PROVE  \E rho \in [{r.iter : r \in RowRefs} -> Row], loc \in [LocalVar -> Value] :
           /\ \A r \in RowRefs : rho[r.iter] \in d.rows[r.table]
           /\ \A k \in DOMAIN query : query[k].negated # Truth(query[k].call, rho, loc)
<1>1. PICK rw : rw = [t \in Table |-> CHOOSE row \in d.rows[t] : MetBy(t, row)]
  OBVIOUS
<1>2. ASSUME NEW m \in DOMAIN body
      PROVE  Field(m) \in Attribute /\ Field(m).table \in Table /\ Field(m).col \in Column
  <2>1. Field(m) \in Attribute
    BY FilterPlaces
  <2>2. QED
    BY <2>1 DEF Attribute
<1>3. ASSUME NEW m \in DOMAIN body, NEW t, t = Field(m).table
      PROVE  rw[t] \in d.rows[t] /\ MetBy(t, rw[t])
  <2>1. \E row \in d.rows[t] : MetBy(t, row)
    BY <1>3, RowMeets
  <2>2. rw[t] = CHOOSE row \in d.rows[t] : MetBy(t, row)
    BY <1>1, <1>2, <1>3
  <2>3. QED
    BY <2>1, <2>2
<1>4. NoVars /\ \A m \in DOMAIN body : TablesOf(body[m]) = {Field(m).table}
  BY FilterHasNoVars
<1>5. ASSUME NEW r \in RowRefs
      PROVE  /\ rw[r.table] \in d.rows[r.table] /\ MetBy(r.table, rw[r.table])
             /\ rw[r.table] \in Row
  <2>1. PICK m \in DOMAIN body : Field(m).table = r.table
    BY <1>4, AskedAbout
  <2>2. rw[r.table] \in d.rows[r.table] /\ MetBy(r.table, rw[r.table]) /\ r.table \in Table
    BY <1>2, <1>3, <2>1
  <2>3. d.rows[r.table] \subseteq Row
    BY <2>2 DEF Document
  <2>4. QED
    BY <2>2, <2>3
<1>6. RowsOfTables(d, rw)
  BY <1>5 DEF RowsOfTables
<1>7. PICK rho : rho = IteratorsOf(rw)
  OBVIOUS
<1>8. BodyTrue(rho)
  BY <1>6, <1>7, FilterTrue DEF BodyTrue
<1>9. /\ rho \in [{r.iter : r \in RowRefs} -> Row]
      /\ \A r \in RowRefs : rho[r.iter] = rw[r.table]
      /\ \E loc \in [LocalVar -> Value] :
           \A k \in DOMAIN query : query[k].negated # Truth(query[k].call, rho, loc)
  BY <1>4, <1>5, <1>7, <1>8, RowsMakeTrue
<1>10. PICK loc \in [LocalVar -> Value] :
         \A k \in DOMAIN query : query[k].negated # Truth(query[k].call, rho, loc)
  BY <1>9, Zenon
<1>11. \A r \in RowRefs : rho[r.iter] \in d.rows[r.table]
  BY <1>5, <1>9
<1>12. QED
  BY <1>9, <1>10, <1>11, Zenon

(* So what is found is what the query asks for.                             *)
LEMMA CountAnswers ==
  ASSUME IInv, Rest, Meant, Comes, CountDocuments
  PROVE  DocumentsAnswered'
<1>1. pc = "execute" /\ platform = "mongo" /\ db' \in Collections
      /\ UNCHANGED <<query, platform, body, from>>
  BY DEF CountDocuments, inputVars, preVars
<1>2. (Plain' <=> Plain) /\ RowRefs' = RowRefs /\ (Simple' <=> Simple) /\ (AskedOnce' <=> AskedOnce)
      /\ (Unaliased' <=> Unaliased) /\ \A k : Stated(k)' <=> Stated(k)
  <2>1. (Plain' <=> Plain) /\ RowRefs' = RowRefs
    BY <1>1 DEF Plain, RowRefs, Kinds, Places, TermAt
  <2>2. Simple' <=> Simple
    BY <1>1, SimpleKept
  <2>3. (AskedOnce' <=> AskedOnce) /\ (Unaliased' <=> Unaliased) /\ \A k : Stated(k)' <=> Stated(k)
    BY <1>1 DEF AskedOnce, Unaliased, Stated, Field, Compared
  <2>4. QED
    BY <2>1, <2>2, <2>3
<1>3. DocumentsNotMissed'
  BY CountMissesNothing
<1>4. ASSUME Plain, Simple, Unaliased, AskedOnce, \A k \in DOMAIN body : Stated(k), reply' = "found"
      PROVE  Holds'
  <2>1. PICK d \in db' : d.coll = from /\ \A k \in DOMAIN body : Kept(k) => Selects(d, k)
    <3>1. \A k \in DOMAIN body : ~Garbled(k)
      BY <1>1, <1>4, StatedAsSent DEF Meant, Filtered
    <3>2. PICK d \in db' : Name[d.coll] = from /\ \A k \in DOMAIN body : Kept(k) => Selects(d, k)
      BY <1>4, <3>1 DEF CountDocuments
    <3>3. d.coll = from
      BY <1>1, <1>4, <3>2, OwnName, QueriesAssumption
    <3>4. QED
      BY <3>2, <3>3
  <2>2. \A k \in DOMAIN body : Kept(k)
    <3>1. \A k \in DOMAIN body, m \in DOMAIN body : m > k => m # k
      BY DEF Rest
    <3>2. QED
      BY <1>4, <3>1 DEF Kept, AskedOnce
  <2>3. d \in Document
    BY <1>1, <2>1, QueriesAssumption
  <2>4. HasFilter
    BY <1>1 DEF Meant, Filtered
  <2>5. \A m \in DOMAIN body : Stated(m) /\ Selects(d, m)
    BY <1>4, <2>1, <2>2
  <2>6. PICK rho, loc :
          /\ rho \in [{r.iter : r \in RowRefs} -> Row] /\ loc \in [LocalVar -> Value]
          /\ \A r \in RowRefs : rho[r.iter] \in d.rows[r.table]
          /\ \A k \in DOMAIN query : query[k].negated # Truth(query[k].call, rho, loc)
    <3>1. \E rho \in [{r.iter : r \in RowRefs} -> Row], loc \in [LocalVar -> Value] :
            /\ \A r \in RowRefs : rho[r.iter] \in d.rows[r.table]
            /\ \A k \in DOMAIN query : query[k].negated # Truth(query[k].call, rho, loc)
      BY <1>1, <1>4, <2>1, <2>3, <2>4, <2>5, SelectedHolds
    <3>2. QED
      BY <3>1, Zenon
  <2>7. ASSUME NEW k \in DOMAIN query
        PROVE  (query[k].negated # Truth(query[k].call, rho, loc))'
    <3>1. Truth(query[k].call, rho, loc)' = Truth(query[k].call, rho, loc)
      BY <1>1 DEF Truth, Meaning
    <3>2. query[k].negated # Truth(query[k].call, rho, loc) /\ query'[k].negated = query[k].negated
      BY <1>1, <2>6
    <3>3. QED
      BY <3>1, <3>2
  <2>8. DOMAIN query' = DOMAIN query
    BY <1>1
  <2>9. QED
    BY <1>2, <2>1, <2>6, <2>7, <2>8, Zenon DEF Holds
<1>5. QED
  BY <1>1, <1>2, <1>3, <1>4 DEF DocumentsAnswered, DocumentsNotMissed, Answered

(* Only counting documents answers, of documents.                           *)
LEMMA AnsweredKept ==
  ASSUME IInv, Rest, Meant, Comes, DocumentsAnswered, [Next]_vars
  PROVE  DocumentsAnswered'
<1>1. CASE CountDocuments
  BY <1>1, CountAnswers
<1>2. CASE TransformRef \/ SubstituteVars \/ Process \/ Translate \/ Execute
  <2>1. pc # "done" /\ reply = "none"
    BY <1>2 DEF TransformRef, SubstituteVars, Process, Translate, Execute, IInv, Shape
  <2>2. CASE Execute
    BY <2>2 DEF Execute, inputVars, DocumentsAnswered
  <2>3. CASE TransformRef \/ SubstituteVars \/ Process \/ Translate
    <3>1. reply' \in {reply, "error", "panic"}
      BY <2>3 DEF TransformRef, SubstituteVars, Process, Translate, Advance, Rewrite, Refuse
    <3>2. QED
      BY <2>1, <3>1 DEF DocumentsAnswered, Answered
  <2>4. QED
    BY <1>2, <2>2, <2>3
<1>3. CASE UNCHANGED vars
  <2>1. UNCHANGED <<query, platform, reply, from, body, db>>
    BY <1>3 DEF vars, inputVars, preVars, sqlVars
  <2>2. (Plain' <=> Plain) /\ RowRefs' = RowRefs
    BY <2>1 DEF Plain, RowRefs, Kinds, Places, TermAt
  <2>3. /\ (Simple' <=> Simple) /\ (AskedOnce' <=> AskedOnce) /\ (Unaliased' <=> Unaliased)
        /\ \A k : Stated(k)' <=> Stated(k)
    <3>1. Simple' <=> Simple
      BY <2>1, SimpleKept
    <3>2. QED
      BY <2>1, <3>1 DEF AskedOnce, Unaliased, Stated, Field, Compared
  <2>4. \A k, rho, loc : Truth(query[k].call, rho, loc)' = Truth(query[k].call, rho, loc)
    BY <2>1 DEF Truth, Meaning
  <2>5. Holds' <=> Holds
    BY <2>1, <2>2, <2>4 DEF Holds
  <2>6. QED
    BY <2>1, <2>2, <2>3, <2>5 DEF DocumentsAnswered, Answered
<1>4. QED
  BY <1>1, <1>2, <1>3 DEF Next

(* A filter that states its query, asks about each field once and goes to a *)
(* collection by its own name is answered as the query is, whatever the queries, the schemas and the      *)
(* contents of the collections (mongo-datastore-translator.go, walkCall).   *)
THEOREM DocumentsAlwaysAnswered == Spec => []DocumentsAnswered
<1>1. Init => Rest /\ DocumentsAnswered
  BY DEF Init, Rest, DocumentsAnswered, Answered
<1>2. Init /\ IInv => Meant /\ Comes
  BY MeantAtFirst, ComesAtFirst
<1>3. IInv /\ Rest /\ Meant /\ Comes /\ DocumentsAnswered /\ IInv' /\ [Next]_vars
        => Rest' /\ Meant' /\ Comes' /\ DocumentsAnswered'
  BY RestKept, MeantKept, ComesKept, AnsweredKept
<1>4. QED
  BY <1>1, <1>2, <1>3, PreprocessingInductive, PTL DEF Spec

-----------------------------------------------------------------------------
(* Placeholders.  The constants up to one, as they are walked over and as   *)
(* they stand in the text.                                                  *)
Walked(c) == {d \in Constants : UpTo(d, c)}
InFront(c) == {d \in Constants : UpTo(InText(d), InText(c))}

(* What a constant is, and that there are finitely many.                    *)
LEMMA ConstantsTyped ==
  ASSUME Rest
  PROVE  /\ IsFiniteSet(Constants)
         /\ \A c \in Constants :
              /\ c[1] \in DOMAIN body /\ c[1] \in Nat
              /\ c[2] \in Kinds(body[c[1]], {"const"})
              /\ c[2][1] \in 1..3 /\ c[2][2] \in 1..2
              /\ c = <<c[1], c[2]>> /\ c[2] = <<c[2][1], c[2][2]>>
         /\ \A k \in DOMAIN body : \A p \in Kinds(body[k], {"const"}) : <<k, p>> \in Constants
<1>1. \A c : Kinds(c, {"const"}) \subseteq (1..3) \X (1..2)
  BY DEF Kinds, Places
<1>2. \A k \in DOMAIN body : \A p \in Kinds(body[k], {"const"}) : <<k, p>> \in Constants
  BY DEF Constants
<1>3. ASSUME NEW c \in Constants
      PROVE  /\ c[1] \in DOMAIN body /\ c[1] \in Nat
             /\ c[2] \in Kinds(body[c[1]], {"const"})
             /\ c[2][1] \in 1..3 /\ c[2][2] \in 1..2
             /\ c = <<c[1], c[2]>> /\ c[2] = <<c[2][1], c[2][2]>>
  <2>1. PICK k \in DOMAIN body : c \in {<<k, p>> : p \in Kinds(body[k], {"const"})}
    BY DEF Constants
  <2>2. PICK p \in Kinds(body[k], {"const"}) : c = <<k, p>>
    BY <2>1
  <2>3. k \in Nat
    BY DEF Rest
  <2>4. p \in (1..3) \X (1..2)
    BY <1>1
  <2>5. p = <<p[1], p[2]>> /\ p[1] \in 1..3 /\ p[2] \in 1..2
    BY <2>4
  <2>6. c[1] = k /\ c[2] = p
    BY <2>2
  <2>7. QED
    BY <2>2, <2>3, <2>5, <2>6
<1>4. IsFiniteSet(Constants)
  <2>1. IsFiniteSet(1..Len(body)) /\ IsFiniteSet(1..3) /\ IsFiniteSet(1..2)
    <3>1. Len(body) \in Int /\ 3 \in Int /\ 2 \in Int
      BY DEF Rest
    <3>2. \A m \in Int : IsFiniteSet(1..m)
      BY FS_Interval
    <3>3. QED
      BY <3>1, <3>2, Zenon
  <2>2. IsFiniteSet((1..Len(body)) \X ((1..3) \X (1..2)))
    BY <2>1, FS_Product
  <2>3. Constants \subseteq (1..Len(body)) \X ((1..3) \X (1..2))
    BY <1>3 DEF Rest
  <2>4. QED
    BY <2>2, <2>3, FS_Subset
<1>5. QED
  BY <1>2, <1>3, <1>4

(* Walking over constants counts each of them on its own.                   *)
LEMMA ParametersDiffer ==
  ASSUME Rest, NEW c \in Constants, NEW d \in Constants, Parameter(c) = Parameter(d)
  PROVE  c = d
<1>1. IsFiniteSet(Constants) /\ Walked(c) \subseteq Constants /\ Walked(d) \subseteq Constants
  BY ConstantsTyped DEF Walked
<1>2. IsFiniteSet(Walked(c)) /\ IsFiniteSet(Walked(d))
  BY <1>1, FS_Subset
<1>3. Cardinality(Walked(c)) = Cardinality(Walked(d))
  BY DEF Parameter, Walked
<1>4. c \in Walked(c) /\ d \in Walked(d)
  BY DEF Walked, UpTo
<1>5. ASSUME NEW a \in Constants, NEW b \in Constants, UpTo(a, b), Cardinality(Walked(a)) = Cardinality(Walked(b)),
             IsFiniteSet(Walked(b)), b \in Walked(b)
      PROVE  a = b
  <2>1. Walked(a) \subseteq Walked(b)
    BY <1>5, ConstantsTyped DEF Walked, UpTo, Before
  <2>2. Walked(a) = Walked(b)
    BY <1>5, <2>1, FS_Subset
  <2>3. UpTo(b, a)
    BY <1>5, <2>2 DEF Walked
  <2>4. QED
    BY <1>5, <2>3, ConstantsTyped DEF UpTo, Before
<1>6. UpTo(c, d) \/ UpTo(d, c)
  BY ConstantsTyped DEF UpTo, Before
<1>7. QED
  BY <1>2, <1>3, <1>4, <1>5, <1>6

(* So the number that stands for a constant leads to one constant alone.    *)
LEMMA BoundIs ==
  ASSUME Rest, NEW c \in Constants, NEW d \in Constants,
         Parameter(d) = IF platform = "mysql" THEN Placeholder(c) ELSE Parameter(c)
  PROVE  Bound(c) = Sent[TermAt(body[d[1]], d[2]).value]
<1>1. PICK e : e = CHOOSE e1 \in Constants : Parameter(e1) = Parameter(d)
  OBVIOUS
<1>2. e \in Constants /\ Parameter(e) = Parameter(d)
  BY <1>1
<1>3. e = d
  BY <1>2, ParametersDiffer
<1>4. QED
  BY <1>1, <1>3 DEF Bound

(* Of some elements, those that are in K are counted.                       *)
In(x, K) == IF x \in K THEN 1 ELSE 0

(* One more element counts when it is in K.                                 *)
LEMMA OneCounted ==
  ASSUME NEW S, IsFiniteSet(S), NEW K, NEW x, x \notin S
  PROVE  /\ IsFiniteSet(S \cup (K \cap {x}))
         /\ Cardinality(S \cup (K \cap {x})) = Cardinality(S) + In(x, K)
<1>1. PICK T : T = S \cup (K \cap {x})
  OBVIOUS
<1>2. Cardinality(S) \in Nat
  BY FS_CardinalityType
<1>3. CASE x \in K
  <2>1. T = S \cup {x}
    BY <1>1, <1>3
  <2>2. IsFiniteSet(T) /\ Cardinality(T) = Cardinality(S) + 1
    BY <2>1, FS_AddElement
  <2>3. In(x, K) = 1
    BY <1>3 DEF In
  <2>4. QED
    BY <1>1, <2>2, <2>3
<1>4. CASE x \notin K
  <2>1. T = S
    BY <1>1, <1>4
  <2>2. In(x, K) = 0
    BY <1>4 DEF In
  <2>3. IsFiniteSet(T) /\ Cardinality(T) = Cardinality(S) + 0
    BY <1>2, <2>1
  <2>4. QED
    BY <1>1, <2>2, <2>3
<1>5. QED
  BY <1>3, <1>4

(* S with those of X that are in K.                                         *)
With(S, K, X) == S \cup (K \cap X)

(* Four that differ and are not in S.                                       *)
Apart(S, f) ==
  /\ f[1] \notin S /\ f[2] \notin S /\ f[3] \notin S /\ f[4] \notin S
  /\ f[1] # f[2] /\ f[1] # f[3] /\ f[1] # f[4] /\ f[2] # f[3] /\ f[2] # f[4] /\ f[3] # f[4]

(* Each of the four counts when it is in K.                                 *)
LEMMA FourCounted ==
  ASSUME NEW S, IsFiniteSet(S), NEW K, NEW f, Apart(S, f)
  PROVE  /\ Cardinality(With(S, K, {f[1]})) = Cardinality(S) + In(f[1], K)
         /\ Cardinality(With(S, K, {f[1], f[2]})) = Cardinality(S) + In(f[1], K) + In(f[2], K)
         /\ Cardinality(With(S, K, {f[1], f[2], f[3]})) =
              Cardinality(S) + In(f[1], K) + In(f[2], K) + In(f[3], K)
         /\ Cardinality(With(S, K, {f[1], f[2], f[3], f[4]})) =
              Cardinality(S) + In(f[1], K) + In(f[2], K) + In(f[3], K) + In(f[4], K)
<1>1. PICK a, b, c, d : a = f[1] /\ b = f[2] /\ c = f[3] /\ d = f[4]
  OBVIOUS
<1>2. PICK S1, S2, S3, S4 : /\ S1 = S \cup (K \cap {a}) /\ S2 = S1 \cup (K \cap {b})
                            /\ S3 = S2 \cup (K \cap {c}) /\ S4 = S3 \cup (K \cap {d})
  OBVIOUS
<1>3. IsFiniteSet(S1) /\ Cardinality(S1) = Cardinality(S) + In(a, K)
  BY <1>1, <1>2, OneCounted DEF Apart
<1>4. IsFiniteSet(S2) /\ Cardinality(S2) = Cardinality(S1) + In(b, K)
  <2>1. b \notin S1
    BY <1>1, <1>2 DEF Apart
  <2>2. QED
    BY <1>2, <1>3, <2>1, OneCounted
<1>5. IsFiniteSet(S3) /\ Cardinality(S3) = Cardinality(S2) + In(c, K)
  <2>1. c \notin S2
    BY <1>1, <1>2 DEF Apart
  <2>2. QED
    BY <1>2, <1>4, <2>1, OneCounted
<1>6. Cardinality(S4) = Cardinality(S3) + In(d, K)
  <2>1. d \notin S3
    BY <1>1, <1>2 DEF Apart
  <2>2. QED
    BY <1>2, <1>5, <2>1, OneCounted
<1>7. /\ S2 = S \cup (K \cap {a, b}) /\ S3 = S \cup (K \cap {a, b, c})
      /\ S4 = S \cup (K \cap {a, b, c, d})
  BY <1>2
<1>8. /\ S1 = With(S, K, {f[1]}) /\ S2 = With(S, K, {f[1], f[2]})
      /\ S3 = With(S, K, {f[1], f[2], f[3]}) /\ S4 = With(S, K, {f[1], f[2], f[3], f[4]})
  BY <1>1, <1>2, <1>7 DEF With
<1>9. QED
  BY <1>1, <1>3, <1>4, <1>5, <1>6, <1>8

(* Four factors, of which those that are constants change places with each  *)
(* other in reverse, have the same product.                                 *)
LEMMA ReversedProduct ==
  ASSUME NEW k1 \in {0, 1}, NEW k2 \in {0, 1}, NEW k3 \in {0, 1}, NEW k4 \in {0, 1},
         NEW v1 \in Int, NEW v2 \in Int, NEW v3 \in Int, NEW v4 \in Int,
         NEW w1 \in Int, NEW w2 \in Int, NEW w3 \in Int, NEW w4 \in Int,
         NEW up1, NEW up2, NEW up3, NEW up4, NEW down1, NEW down2, NEW down3, NEW down4,
         up1 = k1 /\ up2 = k1 + k2 /\ up3 = k1 + k2 + k3 /\ up4 = k1 + k2 + k3 + k4,
         down4 = k4 /\ down3 = k4 + k3 /\ down2 = k4 + k3 + k2 /\ down1 = k4 + k3 + k2 + k1,
         k1 = 0 => w1 = v1, k2 = 0 => w2 = v2, k3 = 0 => w3 = v3, k4 = 0 => w4 = v4,
         k1 = 1 => /\ (k1 = 1 /\ down1 = up1 => w1 = v1) /\ (k2 = 1 /\ down1 = up2 => w1 = v2)
                   /\ (k3 = 1 /\ down1 = up3 => w1 = v3) /\ (k4 = 1 /\ down1 = up4 => w1 = v4),
         k2 = 1 => /\ (k1 = 1 /\ down2 = up1 => w2 = v1) /\ (k2 = 1 /\ down2 = up2 => w2 = v2)
                   /\ (k3 = 1 /\ down2 = up3 => w2 = v3) /\ (k4 = 1 /\ down2 = up4 => w2 = v4),
         k3 = 1 => /\ (k1 = 1 /\ down3 = up1 => w3 = v1) /\ (k2 = 1 /\ down3 = up2 => w3 = v2)
                   /\ (k3 = 1 /\ down3 = up3 => w3 = v3) /\ (k4 = 1 /\ down3 = up4 => w3 = v4),
         k4 = 1 => /\ (k1 = 1 /\ down4 = up1 => w4 = v1) /\ (k2 = 1 /\ down4 = up2 => w4 = v2)
                   /\ (k3 = 1 /\ down4 = up3 => w4 = v3) /\ (k4 = 1 /\ down4 = up4 => w4 = v4)
  PROVE  (w1 * w2) * (w3 * w4) = (v1 * v2) * (v3 * v4)
<1>1. \/ w1 = v1 /\ w2 = v2 /\ w3 = v3 /\ w4 = v4
      \/ w1 = v2 /\ w2 = v1 /\ w3 = v3 /\ w4 = v4
      \/ w1 = v3 /\ w2 = v2 /\ w3 = v1 /\ w4 = v4
      \/ w1 = v4 /\ w2 = v2 /\ w3 = v3 /\ w4 = v1
      \/ w1 = v1 /\ w2 = v3 /\ w3 = v2 /\ w4 = v4
      \/ w1 = v1 /\ w2 = v4 /\ w3 = v3 /\ w4 = v2
      \/ w1 = v1 /\ w2 = v2 /\ w3 = v4 /\ w4 = v3
      \/ w1 = v4 /\ w2 = v3 /\ w3 = v2 /\ w4 = v1
  OBVIOUS
<1>2. QED
  BY <1>1

(* What a constant is sent as when it is bound to itself.                   *)
Own(c) == Sent[TermAt(body[c[1]], c[2]).value]

(* Four terms of which the constants come one after the other, after those  *)
(* in S, as they are walked over, and in reverse in the text.               *)
InReverse(S, f) ==
  /\ S \in SUBSET Constants
  /\ Apart(S, f)
  /\ f[1] \in Constants => /\ Walked(f[1]) = With(S, Constants, {f[1]})
                           /\ InFront(f[1]) = With(S, Constants, {f[4], f[3], f[2], f[1]})
  /\ f[2] \in Constants => /\ Walked(f[2]) = With(S, Constants, {f[1], f[2]})
                           /\ InFront(f[2]) = With(S, Constants, {f[4], f[3], f[2]})
  /\ f[3] \in Constants => /\ Walked(f[3]) = With(S, Constants, {f[1], f[2], f[3]})
                           /\ InFront(f[3]) = With(S, Constants, {f[4], f[3]})
  /\ f[4] \in Constants => /\ Walked(f[4]) = With(S, Constants, {f[1], f[2], f[3], f[4]})
                           /\ InFront(f[4]) = With(S, Constants, {f[4]})

(* A term's value in the statement and in the body.                         *)
Binds(c, w, v) ==
  /\ v \in Int
  /\ IF c \in Constants THEN w = Bound(c) /\ v = Own(c) ELSE w = v

(* Terms in reverse have the same product, as their constants are bound.    *)
LEMMA SlotsReversed ==
  ASSUME Rest, platform = "mysql", NEW S, NEW f, InReverse(S, f), NEW w, NEW v,
         Binds(f[1], w[1], v[1]), Binds(f[2], w[2], v[2]),
         Binds(f[3], w[3], v[3]), Binds(f[4], w[4], v[4])
  PROVE  /\ w[1] \in Int /\ w[2] \in Int /\ w[3] \in Int /\ w[4] \in Int
         /\ (w[1] * w[2]) * (w[3] * w[4]) = (v[1] * v[2]) * (v[3] * v[4])
<1>0. PICK v1, v2, v3, v4, w1, w2, w3, w4 :
        /\ v1 = v[1] /\ v2 = v[2] /\ v3 = v[3] /\ v4 = v[4]
        /\ w1 = w[1] /\ w2 = w[2] /\ w3 = w[3] /\ w4 = w[4]
  OBVIOUS
<1>1. PICK k1, k2, k3, k4, m : /\ k1 = In(f[1], Constants) /\ k2 = In(f[2], Constants)
                               /\ k3 = In(f[3], Constants) /\ k4 = In(f[4], Constants)
                               /\ m = Cardinality(S)
  OBVIOUS
<1>2. IsFiniteSet(S) /\ m \in Nat
  BY <1>1, ConstantsTyped, FS_Subset, FS_CardinalityType DEF InReverse
<1>3. /\ k1 \in {0, 1} /\ k2 \in {0, 1} /\ k3 \in {0, 1} /\ k4 \in {0, 1}
      /\ k1 = 1 <=> f[1] \in Constants
      /\ k2 = 1 <=> f[2] \in Constants
      /\ k3 = 1 <=> f[3] \in Constants
      /\ k4 = 1 <=> f[4] \in Constants
  BY <1>1 DEF In
<1>4. PICK up1, up2, up3, up4, down1, down2, down3, down4 :
        /\ up1 = k1 /\ up2 = k1 + k2 /\ up3 = k1 + k2 + k3 /\ up4 = k1 + k2 + k3 + k4
        /\ down4 = k4 /\ down3 = k4 + k3 /\ down2 = k4 + k3 + k2 /\ down1 = k4 + k3 + k2 + k1
  OBVIOUS
<1>5. /\ k1 = 1 => Parameter(f[1]) = m + up1 /\ Placeholder(f[1]) = m + down1
      /\ k2 = 1 => Parameter(f[2]) = m + up2 /\ Placeholder(f[2]) = m + down2
      /\ k3 = 1 => Parameter(f[3]) = m + up3 /\ Placeholder(f[3]) = m + down3
      /\ k4 = 1 => Parameter(f[4]) = m + up4 /\ Placeholder(f[4]) = m + down4
  <2>0. Apart(S, f)
    BY DEF InReverse
  <2> DEFINE T(X) == With(S, Constants, X)
  <2>1. /\ Cardinality(T({f[1]})) = Cardinality(S) + In(f[1], Constants)
        /\ Cardinality(T({f[1], f[2]})) = Cardinality(S) + In(f[1], Constants) + In(f[2], Constants)
        /\ Cardinality(T({f[1], f[2], f[3]})) =
             Cardinality(S) + In(f[1], Constants) + In(f[2], Constants) + In(f[3], Constants)
        /\ Cardinality(T({f[1], f[2], f[3], f[4]})) =
             Cardinality(S) + In(f[1], Constants) + In(f[2], Constants) + In(f[3], Constants) + In(f[4], Constants)
    BY <1>2, <2>0, FourCounted
  <2>2. PICK g : g = <<f[4], f[3], f[2], f[1]>>
    OBVIOUS
  <2>3. g[1] = f[4] /\ g[2] = f[3] /\ g[3] = f[2] /\ g[4] = f[1]
    BY <2>2
  <2>4. /\ Cardinality(T({g[1]})) = Cardinality(S) + In(g[1], Constants)
        /\ Cardinality(T({g[1], g[2]})) = Cardinality(S) + In(g[1], Constants) + In(g[2], Constants)
        /\ Cardinality(T({g[1], g[2], g[3]})) =
             Cardinality(S) + In(g[1], Constants) + In(g[2], Constants) + In(g[3], Constants)
        /\ Cardinality(T({g[1], g[2], g[3], g[4]})) =
             Cardinality(S) + In(g[1], Constants) + In(g[2], Constants) + In(g[3], Constants) + In(g[4], Constants)
    <3>1. Apart(S, g)
      BY <2>0, <2>3 DEF Apart
    <3>2. QED
      BY <1>2, <3>1, FourCounted
  <2>5. \A x : Parameter(x) = Cardinality(Walked(x)) /\ Placeholder(x) = Cardinality(InFront(x))
    BY DEF Parameter, Placeholder, Walked, InFront
  <2>6. /\ k1 = 1 => Walked(f[1]) = T({f[1]}) /\ InFront(f[1]) = T({g[1], g[2], g[3], g[4]})
        /\ k2 = 1 => Walked(f[2]) = T({f[1], f[2]}) /\ InFront(f[2]) = T({g[1], g[2], g[3]})
        /\ k3 = 1 => Walked(f[3]) = T({f[1], f[2], f[3]}) /\ InFront(f[3]) = T({g[1], g[2]})
        /\ k4 = 1 => Walked(f[4]) = T({f[1], f[2], f[3], f[4]}) /\ InFront(f[4]) = T({g[1]})
    BY <1>3, <2>3 DEF InReverse
  <2> HIDE DEF T
  <2>7. PICK a1, a2, a3, a4 : /\ a1 = T({f[1]}) /\ a2 = T({f[1], f[2]})
                              /\ a3 = T({f[1], f[2], f[3]}) /\ a4 = T({f[1], f[2], f[3], f[4]})
    OBVIOUS
  <2>8. PICK b1, b2, b3, b4 : /\ b1 = T({g[1]}) /\ b2 = T({g[1], g[2]})
                              /\ b3 = T({g[1], g[2], g[3]}) /\ b4 = T({g[1], g[2], g[3], g[4]})
    OBVIOUS
  <2>9. /\ Cardinality(a1) = m + k1 /\ Cardinality(a2) = m + k1 + k2
        /\ Cardinality(a3) = m + k1 + k2 + k3 /\ Cardinality(a4) = m + k1 + k2 + k3 + k4
    BY <1>1, <2>1, <2>7, Zenon
  <2>10. /\ In(g[1], Constants) = k4 /\ In(g[2], Constants) = k3
         /\ In(g[3], Constants) = k2 /\ In(g[4], Constants) = k1
    BY <1>1, <2>3, Zenon
  <2>11. /\ Cardinality(b1) = m + k4 /\ Cardinality(b2) = m + k4 + k3
         /\ Cardinality(b3) = m + k4 + k3 + k2 /\ Cardinality(b4) = m + k4 + k3 + k2 + k1
    BY <1>1, <2>4, <2>8, <2>10, Zenon
  <2>12. /\ k1 = 1 => Walked(f[1]) = a1 /\ InFront(f[1]) = b4
         /\ k2 = 1 => Walked(f[2]) = a2 /\ InFront(f[2]) = b3
         /\ k3 = 1 => Walked(f[3]) = a3 /\ InFront(f[3]) = b2
         /\ k4 = 1 => Walked(f[4]) = a4 /\ InFront(f[4]) = b1
    BY <2>6, <2>7, <2>8, Zenon
  <2>13. /\ k1 = 1 => Parameter(f[1]) = Cardinality(a1) /\ Placeholder(f[1]) = Cardinality(b4)
         /\ k2 = 1 => Parameter(f[2]) = Cardinality(a2) /\ Placeholder(f[2]) = Cardinality(b3)
         /\ k3 = 1 => Parameter(f[3]) = Cardinality(a3) /\ Placeholder(f[3]) = Cardinality(b2)
         /\ k4 = 1 => Parameter(f[4]) = Cardinality(a4) /\ Placeholder(f[4]) = Cardinality(b1)
    BY <2>5, <2>12, Zenon
  <2>14. QED
    BY <1>2, <1>3, <1>4, <2>9, <2>11, <2>13
<1>6. ASSUME NEW x \in {f[1], f[2], f[3], f[4]} \cap Constants,
             NEW y \in {f[1], f[2], f[3], f[4]} \cap Constants,
             Placeholder(x) = Parameter(y)
      PROVE  Bound(x) = Own(y)
  BY <1>6, BoundIs DEF Own
<1>7. /\ k1 = 0 => w1 = v1
      /\ k2 = 0 => w2 = v2
      /\ k3 = 0 => w3 = v3
      /\ k4 = 0 => w4 = v4
  BY <1>0, <1>3 DEF Binds
<1>8. k1 = 1 => /\ (k1 = 1 /\ down1 = up1 => w1 = v1) /\ (k2 = 1 /\ down1 = up2 => w1 = v2)
                /\ (k3 = 1 /\ down1 = up3 => w1 = v3) /\ (k4 = 1 /\ down1 = up4 => w1 = v4)
  BY <1>0, <1>3, <1>5, <1>6 DEF Binds
<1>9. k2 = 1 => /\ (k1 = 1 /\ down2 = up1 => w2 = v1) /\ (k2 = 1 /\ down2 = up2 => w2 = v2)
                /\ (k3 = 1 /\ down2 = up3 => w2 = v3) /\ (k4 = 1 /\ down2 = up4 => w2 = v4)
  BY <1>0, <1>3, <1>5, <1>6 DEF Binds
<1>10. k3 = 1 => /\ (k1 = 1 /\ down3 = up1 => w3 = v1) /\ (k2 = 1 /\ down3 = up2 => w3 = v2)
                 /\ (k3 = 1 /\ down3 = up3 => w3 = v3) /\ (k4 = 1 /\ down3 = up4 => w3 = v4)
  BY <1>0, <1>3, <1>5, <1>6 DEF Binds
<1>11. k4 = 1 => /\ (k1 = 1 /\ down4 = up1 => w4 = v1) /\ (k2 = 1 /\ down4 = up2 => w4 = v2)
                 /\ (k3 = 1 /\ down4 = up3 => w4 = v3) /\ (k4 = 1 /\ down4 = up4 => w4 = v4)
  BY <1>0, <1>3, <1>5, <1>6 DEF Binds
<1>12. v1 \in Int /\ v2 \in Int /\ v3 \in Int /\ v4 \in Int
  BY <1>0 DEF Binds
<1>13. w1 \in Int /\ w2 \in Int /\ w3 \in Int /\ w4 \in Int
  BY <1>3, <1>4, <1>7, <1>8, <1>9, <1>10, <1>11, <1>12
<1>14. (w1 * w2) * (w3 * w4) = (v1 * v2) * (v3 * v4)
  BY <1>3, <1>4, <1>7, <1>8, <1>9, <1>10, <1>11, <1>12, <1>13, ReversedProduct
<1>15. QED
  BY <1>0, <1>13, <1>14

(* The two orders, with numbers.                                            *)
LEMMA InOrder ==
  ASSUME Rest, NEW c \in Constants, NEW d \in Constants,
         NEW op, op = body[c[1]].op, NEW o, o = body[c[1]].args[c[2][1]].op
  PROVE  /\ d \in Walked(c) <=>
              \/ d[1] < c[1]
              \/ d[1] = c[1] /\ \/ d[2][1] < c[2][1]
                                \/ d[2][1] = c[2][1] /\ d[2][2] <= c[2][2]
         /\ d \in InFront(c) <=>
              \/ d[1] < c[1]
              \/ d[1] = c[1] /\ \/ Rearranged(op, d[2][1]) < Rearranged(op, c[2][1])
                                \/ d[2][1] = c[2][1] /\ Rearranged(o, d[2][2]) <= Rearranged(o, c[2][2])
<1>1. /\ c[1] \in Nat /\ d[1] \in Nat
      /\ c[2][1] \in 1..3 /\ d[2][1] \in 1..3 /\ c[2][2] \in 1..2 /\ d[2][2] \in 1..2
      /\ c[2] = <<c[2][1], c[2][2]>> /\ d[2] = <<d[2][1], d[2][2]>>
  BY ConstantsTyped
<1>2. d \in Walked(c) <=>
        \/ d[1] < c[1]
        \/ d[1] = c[1] /\ \/ d[2][1] < c[2][1]
                          \/ d[2][1] = c[2][1] /\ d[2][2] <= c[2][2]
  BY <1>1 DEF Walked, UpTo, Before
<1>3. \A x, i : i \in 1..3 => Rearranged(x, i) \in 1..3
  BY DEF Rearranged
<1>4. \A x, i, j : i \in 1..3 /\ j \in 1..3 /\ Rearranged(x, i) = Rearranged(x, j) => i = j
  BY DEF Rearranged
<1>5. PICK a, b, a1, b1 : /\ a = Rearranged(op, d[2][1]) /\ b = Rearranged(op, c[2][1])
                          /\ a1 = Rearranged(body[d[1]].args[d[2][1]].op, d[2][2])
                          /\ b1 = Rearranged(o, c[2][2])
  OBVIOUS
<1>6. a \in 1..3 /\ b \in 1..3 /\ a1 \in 1..3 /\ b1 \in 1..3 /\ (a = b <=> d[2][1] = c[2][1])
  <2>1. c[2][2] \in 1..3 /\ d[2][2] \in 1..3
    BY <1>1
  <2>2. a \in 1..3 /\ b \in 1..3 /\ a1 \in 1..3 /\ b1 \in 1..3
    BY <1>1, <1>3, <1>5, <2>1, Zenon
  <2>3. a = b <=> d[2][1] = c[2][1]
    BY <1>1, <1>4, <1>5, Zenon
  <2>4. QED
    BY <2>2, <2>3
<1>7. InText(c) = <<c[1], <<b, b1>>>> /\ d[1] = c[1] => InText(d) = <<d[1], <<a, a1>>>>
  BY <1>5 DEF InText
<1>8. InText(c) = <<c[1], <<b, b1>>>> /\ InText(d)[1] = d[1]
  BY <1>5 DEF InText
<1>9. d \in InFront(c) <=> d[1] < c[1] \/ (d[1] = c[1] /\ (a < b \/ (a = b /\ a1 <= b1)))
  BY <1>1, <1>6, <1>7, <1>8 DEF InFront, UpTo, Before
<1>10. d[1] = c[1] /\ d[2][1] = c[2][1] => a1 = Rearranged(o, d[2][2])
  BY <1>5
<1>11. QED
  BY <1>2, <1>5, <1>6, <1>9, <1>10

(* Outside of mul both orders have the same in front of a constant, which   *)
(* is then bound to itself; and so are all where constants are numbered.    *)
LEMMA OutsideMul ==
  ASSUME Rest, NEW c \in Constants,
         \/ platform # "mysql"
         \/ /\ body[c[1]].op # "mul" \/ c[2][1] = 3
            /\ body[c[1]].args[c[2][1]].op # "mul"
  PROVE  Bound(c) = Own(c)
<1>1. CASE platform # "mysql"
  BY <1>1, BoundIs DEF Own
<1>2. CASE /\ body[c[1]].op # "mul" \/ c[2][1] = 3
           /\ body[c[1]].args[c[2][1]].op # "mul"
  <2>1. PICK op, o : op = body[c[1]].op /\ o = body[c[1]].args[c[2][1]].op
    OBVIOUS
  <2>2. c[2][1] \in 1..3 /\ c[2][2] \in 1..2
    BY ConstantsTyped
  <2>3. ASSUME NEW d \in Constants
        PROVE  d \in InFront(c) <=> d \in Walked(c)
    <3>1. d[2][1] \in 1..3 /\ d[2][2] \in 1..2
      BY ConstantsTyped
    <3>2. Rearranged(o, d[2][2]) = d[2][2] /\ Rearranged(o, c[2][2]) = c[2][2]
      BY <1>2, <2>1 DEF Rearranged
    <3>3. Rearranged(op, d[2][1]) < Rearranged(op, c[2][1]) <=> d[2][1] < c[2][1]
      BY <1>2, <2>1, <2>2, <3>1 DEF Rearranged
    <3>4. QED
      BY <2>1, <3>2, <3>3, InOrder
  <2>4. InFront(c) = Walked(c)
    BY <2>3 DEF InFront, Walked
  <2>5. Placeholder(c) = Parameter(c)
    BY <2>4 DEF Placeholder, Parameter, InFront, Walked
  <2>6. QED
    BY <2>5, BoundIs DEF Own
<1>3. QED
  BY <1>1, <1>2

(* An operand that is no factor of mul.                                     *)
NoFactor(k, i) == body[k].op # "mul" \/ i = 3

(* The values of the two terms of an operand.                               *)
BindTwo(k, i, w, v) == Binds(<<k, <<i, 1>>>>, w[1], v[1]) /\ Binds(<<k, <<i, 2>>>>, w[2], v[2])

(* In mul, both come after the same constants.  An operand of a relation... *)
LEMMA OperandProduct ==
  ASSUME Rest, platform = "mysql", NEW k \in DOMAIN body, NEW i \in 1..3,
         NoFactor(k, i), body[k].args[i].op = "mul",
         NEW w, NEW v, BindTwo(k, i, w, v)
  PROVE  w[1] \in Int /\ w[2] \in Int /\ w[1] * w[2] = v[1] * v[2]
<1>1. PICK f : f = <<<<k, <<i, 1>>>>, <<k, <<i, 2>>>>, <<k, <<4, 1>>>>, <<k, <<4, 2>>>>>>
  OBVIOUS
<1>2. f[1] = <<k, <<i, 1>>>> /\ f[2] = <<k, <<i, 2>>>> /\ f[3] = <<k, <<4, 1>>>> /\ f[4] = <<k, <<4, 2>>>>
  BY <1>1
<1>3. PICK S : S = {d \in Constants : d[1] < k \/ (d[1] = k /\ d[2][1] < i)}
  OBVIOUS
<1>4. k \in Nat /\ f[3] \notin Constants /\ f[4] \notin Constants
  <2>1. \A d \in Constants : d[2][1] \in 1..3
    BY ConstantsTyped
  <2>2. f[3][2][1] = 4 /\ f[4][2][1] = 4
    BY <1>2
  <2>3. 4 \notin 1..3
    OBVIOUS
  <2>4. f[3] \notin Constants /\ f[4] \notin Constants
    BY <2>1, <2>2, <2>3, Zenon
  <2>5. QED
    BY <2>4 DEF Rest
<1>5. /\ f[1] # f[2] /\ f[1] # f[3] /\ f[1] # f[4] /\ f[2] # f[3] /\ f[2] # f[4] /\ f[3] # f[4]
      /\ f[1] \notin S /\ f[2] \notin S /\ f[3] \notin S /\ f[4] \notin S
      /\ S \in SUBSET Constants
  BY <1>2, <1>3, <1>4
<1>6. ASSUME NEW j \in 1..2, NEW c \in Constants, c = <<k, <<i, j>>>>, NEW d \in Constants
      PROVE  /\ d \in Walked(c) <=> d \in S \/ (j = 1 /\ d = f[1]) \/ (j = 2 /\ d \in {f[1], f[2]})
             /\ d \in InFront(c) <=> d \in S \/ (j = 1 /\ d \in {f[1], f[2]}) \/ (j = 2 /\ d = f[2])
  <2>1. d[1] \in Nat /\ d[2][1] \in 1..3 /\ d[2][2] \in 1..2 /\ d = <<d[1], <<d[2][1], d[2][2]>>>>
    BY ConstantsTyped
  <2>2. c[1] = k /\ c[2][1] = i /\ c[2][2] = j
    BY <1>6
  <2>3. PICK op : op = body[k].op
    OBVIOUS
  <2>4. /\ d \in Walked(c) <=>
             d[1] < k \/ (d[1] = k /\ (d[2][1] < i \/ (d[2][1] = i /\ d[2][2] <= j)))
        /\ d \in InFront(c) <=>
             \/ d[1] < k
             \/ d[1] = k /\ \/ Rearranged(op, d[2][1]) < Rearranged(op, i)
                            \/ d[2][1] = i /\ Rearranged("mul", d[2][2]) <= Rearranged("mul", j)
    BY <2>2, <2>3, InOrder
  <2>5. Rearranged(op, d[2][1]) < Rearranged(op, i) <=> d[2][1] < i
    BY <2>1, <2>3 DEF Rearranged, NoFactor
  <2>6. Rearranged("mul", d[2][2]) = 3 - d[2][2] /\ Rearranged("mul", j) = 3 - j
    BY <2>1 DEF Rearranged
  <2>7. /\ d = f[1] <=> d[1] = k /\ d[2][1] = i /\ d[2][2] = 1
        /\ d = f[2] <=> d[1] = k /\ d[2][1] = i /\ d[2][2] = 2
        /\ d \in S <=> d[1] < k \/ (d[1] = k /\ d[2][1] < i)
    BY <1>2, <1>3, <2>1
  <2>8. QED
    BY <1>4, <2>1, <2>4, <2>5, <2>6, <2>7
<1>7. \A c : Walked(c) \subseteq Constants /\ InFront(c) \subseteq Constants
  BY DEF Walked, InFront
<1>8. f[1] \in Constants => /\ Walked(f[1]) = With(S, Constants, {f[1]})
                            /\ InFront(f[1]) = With(S, Constants, {f[4], f[3], f[2], f[1]})
  BY <1>2, <1>4, <1>5, <1>6, <1>7 DEF With
<1>9. f[2] \in Constants => /\ Walked(f[2]) = With(S, Constants, {f[1], f[2]})
                            /\ InFront(f[2]) = With(S, Constants, {f[4], f[3], f[2]})
  BY <1>2, <1>4, <1>5, <1>6, <1>7 DEF With
<1>10. InReverse(S, f)
  BY <1>4, <1>5, <1>8, <1>9 DEF InReverse, Apart
<1>11. PICK y, x : y = <<w[1], w[2], 1, 1>> /\ x = <<v[1], v[2], 1, 1>>
  OBVIOUS
<1>12. /\ y[1] = w[1] /\ y[2] = w[2] /\ y[3] = 1 /\ y[4] = 1
       /\ x[1] = v[1] /\ x[2] = v[2] /\ x[3] = 1 /\ x[4] = 1
  BY <1>11
<1>13. /\ Binds(f[1], y[1], x[1]) /\ Binds(f[2], y[2], x[2])
       /\ Binds(f[3], y[3], x[3]) /\ Binds(f[4], y[4], x[4])
  BY <1>2, <1>4, <1>12 DEF Binds, BindTwo
<1>14. /\ y[1] \in Int /\ y[2] \in Int
       /\ (y[1] * y[2]) * (y[3] * y[4]) = (x[1] * x[2]) * (x[3] * x[4])
  BY <1>10, <1>13, SlotsReversed
<1>15. v[1] \in Int /\ v[2] \in Int
  BY DEF Binds, BindTwo
<1>16. QED
  BY <1>12, <1>14, <1>15

(* ... and all four terms of a relation.                                    *)
LEMMA RelationProduct ==
  ASSUME Rest, platform = "mysql", NEW k \in DOMAIN body, body[k].op = "mul",
         \A i \in 1..2 : \/ body[k].args[i].op = "mul"
                         \/ body[k].args[i].op = "term" /\ <<k, <<i, 2>>>> \notin Constants,
         NEW w, NEW v,
         Binds(<<k, <<1, 1>>>>, w[1], v[1]), Binds(<<k, <<1, 2>>>>, w[2], v[2]),
         Binds(<<k, <<2, 1>>>>, w[3], v[3]), Binds(<<k, <<2, 2>>>>, w[4], v[4])
  PROVE  /\ w[1] \in Int /\ w[2] \in Int /\ w[3] \in Int /\ w[4] \in Int
         /\ (w[1] * w[2]) * (w[3] * w[4]) = (v[1] * v[2]) * (v[3] * v[4])
<1>1. PICK f : f = <<<<k, <<1, 1>>>>, <<k, <<1, 2>>>>, <<k, <<2, 1>>>>, <<k, <<2, 2>>>>>>
  OBVIOUS
<1>2. f[1] = <<k, <<1, 1>>>> /\ f[2] = <<k, <<1, 2>>>> /\ f[3] = <<k, <<2, 1>>>> /\ f[4] = <<k, <<2, 2>>>>
  BY <1>1
<1>3. PICK S : S = {d \in Constants : d[1] < k}
  OBVIOUS
<1>4. k \in Nat
  BY DEF Rest
<1>5. /\ f[1] # f[2] /\ f[1] # f[3] /\ f[1] # f[4] /\ f[2] # f[3] /\ f[2] # f[4] /\ f[3] # f[4]
      /\ f[1] \notin S /\ f[2] \notin S /\ f[3] \notin S /\ f[4] \notin S
      /\ S \in SUBSET Constants
  BY <1>2, <1>3, <1>4
<1>6. ASSUME NEW i \in 1..2, NEW j \in 1..2, NEW c \in Constants, c = <<k, <<i, j>>>>, NEW d \in Constants
      PROVE  /\ d \in Walked(c) <=>
                  d \in S \/ (d[1] = k /\ (d[2][1] < i \/ (d[2][1] = i /\ d[2][2] <= j)))
             /\ d \in InFront(c) <=>
                  d \in S \/ (d[1] = k /\ ((d[2][1] < 3 /\ d[2][1] > i) \/ (d[2][1] = i /\ d[2][2] >= j)))
  <2>1. d[1] \in Nat /\ d[2][1] \in 1..3 /\ d[2][2] \in 1..2 /\ d = <<d[1], <<d[2][1], d[2][2]>>>>
    BY ConstantsTyped
  <2>2. c[1] = k /\ c[2][1] = i /\ c[2][2] = j
    BY <1>6
  <2>3. PICK o : o = body[k].args[i].op
    OBVIOUS
  <2>4. /\ d \in Walked(c) <=>
             d[1] < k \/ (d[1] = k /\ (d[2][1] < i \/ (d[2][1] = i /\ d[2][2] <= j)))
        /\ d \in InFront(c) <=>
             \/ d[1] < k
             \/ d[1] = k /\ \/ Rearranged("mul", d[2][1]) < Rearranged("mul", i)
                            \/ d[2][1] = i /\ Rearranged(o, d[2][2]) <= Rearranged(o, j)
    BY <2>2, <2>3, InOrder
  <2>5. Rearranged("mul", d[2][1]) < Rearranged("mul", i) <=> d[2][1] < 3 /\ d[2][1] > i
    BY <2>1 DEF Rearranged
  <2>6. d[1] = k /\ d[2][1] = i => (Rearranged(o, d[2][2]) <= Rearranged(o, j) <=> d[2][2] >= j)
    <3>1. CASE o = "mul"
      BY <2>1, <3>1 DEF Rearranged
    <3>2. CASE o # "mul"
      <4>1. <<k, <<i, 2>>>> \notin Constants
        BY <2>3, <3>2
      <4>2. j = 1
        BY <1>6, <4>1
      <4>3. d[1] = k /\ d[2][1] = i => d[2][2] = 1
        BY <2>1, <4>1
      <4>4. QED
        BY <4>2, <4>3 DEF Rearranged
    <3>3. QED
      BY <3>1, <3>2
  <2>7. d \in S <=> d[1] < k
    BY <1>3
  <2>8. QED
    BY <2>4, <2>5, <2>6, <2>7
<1>7. ASSUME NEW d \in Constants
      PROVE  /\ d[1] \in Nat /\ d[2][1] \in 1..3 /\ d[2][2] \in 1..2
             /\ d = f[1] <=> d[1] = k /\ d[2][1] = 1 /\ d[2][2] = 1
             /\ d = f[2] <=> d[1] = k /\ d[2][1] = 1 /\ d[2][2] = 2
             /\ d = f[3] <=> d[1] = k /\ d[2][1] = 2 /\ d[2][2] = 1
             /\ d = f[4] <=> d[1] = k /\ d[2][1] = 2 /\ d[2][2] = 2
  BY <1>2, ConstantsTyped
<1>8. \A c : Walked(c) \subseteq Constants /\ InFront(c) \subseteq Constants
  BY DEF Walked, InFront
<1>9. f[1] \in Constants => /\ Walked(f[1]) = With(S, Constants, {f[1]})
                            /\ InFront(f[1]) = With(S, Constants, {f[4], f[3], f[2], f[1]})
  <2>1. ASSUME f[1] \in Constants, NEW d \in Constants
        PROVE  /\ d \in Walked(f[1]) <=> d \in S \/ d = f[1]
               /\ d \in InFront(f[1]) <=> d \in S \/ d = f[4] \/ d = f[3] \/ d = f[2] \/ d = f[1]
    BY <1>2, <1>6, <1>7, <2>1
  <2>2. QED
    BY <1>5, <1>8, <2>1 DEF With
<1>10. f[2] \in Constants => /\ Walked(f[2]) = With(S, Constants, {f[1], f[2]})
                             /\ InFront(f[2]) = With(S, Constants, {f[4], f[3], f[2]})
  <2>1. ASSUME f[2] \in Constants, NEW d \in Constants
        PROVE  /\ d \in Walked(f[2]) <=> d \in S \/ d = f[1] \/ d = f[2]
               /\ d \in InFront(f[2]) <=> d \in S \/ d = f[4] \/ d = f[3] \/ d = f[2]
    BY <1>2, <1>6, <1>7, <2>1
  <2>2. QED
    BY <1>5, <1>8, <2>1 DEF With
<1>11. f[3] \in Constants => /\ Walked(f[3]) = With(S, Constants, {f[1], f[2], f[3]})
                             /\ InFront(f[3]) = With(S, Constants, {f[4], f[3]})
  <2>1. ASSUME f[3] \in Constants, NEW d \in Constants
        PROVE  /\ d \in Walked(f[3]) <=> d \in S \/ d = f[1] \/ d = f[2] \/ d = f[3]
               /\ d \in InFront(f[3]) <=> d \in S \/ d = f[4] \/ d = f[3]
    BY <1>2, <1>6, <1>7, <2>1
  <2>2. QED
    BY <1>5, <1>8, <2>1 DEF With
<1>12. f[4] \in Constants => /\ Walked(f[4]) = With(S, Constants, {f[1], f[2], f[3], f[4]})
                             /\ InFront(f[4]) = With(S, Constants, {f[4]})
  <2>1. ASSUME f[4] \in Constants, NEW d \in Constants
        PROVE  /\ d \in Walked(f[4]) <=> d \in S \/ d = f[1] \/ d = f[2] \/ d = f[3] \/ d = f[4]
               /\ d \in InFront(f[4]) <=> d \in S \/ d = f[4]
    BY <1>2, <1>6, <1>7, <2>1
  <2>2. QED
    BY <1>5, <1>8, <2>1 DEF With
<1>13. InReverse(S, f)
  BY <1>5, <1>9, <1>10, <1>11, <1>12 DEF InReverse, Apart
<1>14. /\ Binds(f[1], w[1], v[1]) /\ Binds(f[2], w[2], v[2])
       /\ Binds(f[3], w[3], v[3]) /\ Binds(f[4], w[4], v[4])
  BY <1>2
<1>15. QED
  BY <1>13, <1>14, SlotsReversed

-----------------------------------------------------------------------------
(* Relations.  Rows of the tables that are the values of their iterators.   *)
Fits(k, rows, rho) ==
  /\ \A p \in Places(body[k]) : Good(TermAt(body[k], p)) /\ TermAt(body[k], p).kind # "var"
  /\ \A t \in TablesOf(body[k]) : rows[t] = rho[tableNames[t]] /\ rows[t] \in Row

(* A term of the statement has the value of the term in the body, or is a   *)
(* constant that another one may be bound to.                               *)
LEMMA TermBinds ==
  ASSUME Rest, Plain, NEW k \in DOMAIN body, NEW rows, NEW rho, NEW loc, Fits(k, rows, rho),
         NEW p \in Places(body[k])
  PROVE  Binds(<<k, p>>, TermValue(k, p, rows), Now(TermAt(body[k], p), rho, loc))
<1>1. PICK x : x = TermAt(body[k], p)
  OBVIOUS
<1>2. PICK c : c = <<k, p>>
  OBVIOUS
<1>3. x \in Leaf /\ Good(x) /\ x.kind # "var"
  <2>1. body[k] \in Calls(Operand(Leaf))
    BY DEF Rest
  <2>2. QED
    BY <1>1, <2>1, TermTyped DEF Fits
<1>4. c[1] = k /\ c[2] = p
  BY <1>2
<1>5. CASE x.kind = "const"
  <2>1. c \in Constants
    BY <1>1, <1>2, <1>5, ConstantsTyped DEF Kinds
  <2>2. TermValue(k, p, rows) = Bound(c)
    BY <1>1, <1>2, <1>5 DEF TermValue
  <2>3. x.value \in Value /\ Sent[x.value] = x.value
    BY <1>3, <1>5 DEF Leaf, Attribute, Good
  <2>4. Now(x, rho, loc) = x.value
    BY <1>5 DEF Now
  <2>5. Own(c) = x.value
    BY <1>1, <1>4, <2>3 DEF Own
  <2>6. x.value \in Int
    BY <2>3, QueriesAssumption
  <2>7. QED
    BY <1>1, <1>2, <2>1, <2>2, <2>4, <2>5, <2>6 DEF Binds
<1>6. CASE x.kind # "const"
  <2>1. x \in Attribute /\ x.kind = "attr"
    BY <1>3, <1>6 DEF Leaf, Attribute
  <2>2. x.table \in TablesOf(body[k])
    BY <1>1, <2>1 DEF TablesOf, Kinds
  <2>3. rows[x.table] = rho[tableNames[x.table]] /\ rows[x.table] \in Row /\ x.col \in Column
    BY <2>1, <2>2 DEF Fits, Attribute
  <2>4. rows[x.table][x.col] \in Int
    BY <2>3, QueriesAssumption DEF Row
  <2>5. TermValue(k, p, rows) = rows[x.table][x.col]
    BY <1>1, <1>6 DEF TermValue
  <2>6. Now(x, rho, loc) = rows[x.table][x.col]
    BY <2>1, <2>3 DEF Now
  <2>7. c \notin Constants
    BY <1>1, <1>4, <1>6, ConstantsTyped DEF Kinds
  <2>8. QED
    BY <1>1, <1>2, <2>4, <2>5, <2>6, <2>7 DEF Binds
<1>7. QED
  BY <1>5, <1>6

(* Texts of one product or two.                                             *)
LEMMA ShortTexts ==
  ASSUME NEW x \in Int, NEW y \in Int, NEW z \in Int
  PROVE  /\ Total(<<x>>) = x /\ Total(<<x, y>>) = x + y /\ Total(<<x, y, z>>) = x + y + z
         /\ Composed("mul", <<x>>, <<y>>) = <<x * y>>
         /\ Composed("minus", <<x>>, <<y>>) = <<x, -y>>
         /\ Composed("minus", <<x, y>>, <<z>>) = <<x, y, -z>>
<1>1. /\ Len(<<x>>) = 1 /\ <<x>>[1] = x /\ Len(<<x, y>>) = 2 /\ <<y>>[1] = y
      /\ DOMAIN <<x>> = {1} /\ DOMAIN <<x, y>> = {1, 2} /\ DOMAIN <<x, y, z>> = {1, 2, 3}
  OBVIOUS
<1>2. Front(<<x>>) = <<>> /\ Last(<<x>>) = x /\ Head(<<y>>) = y /\ Tail(<<y>>) = <<>>
      /\ Head(<<z>>) = z /\ Tail(<<z>>) = <<>>
  BY DEF Front, Last
<1>3. Total(<<x>>) = x /\ Total(<<x, y>>) = x + y /\ Total(<<x, y, z>>) = x + y + z
  BY <1>1 DEF Total
<1>4. Composed("mul", <<x>>, <<y>>) = <<x * y>>
  BY <1>2 DEF Composed
<1>5. Composed("minus", <<x>>, <<y>>) = <<x, -y>> /\ Composed("minus", <<x, y>>, <<z>>) = <<x, y, -z>>
  <2>1. /\ Composed("minus", <<x>>, <<y>>) = <<x>> \o <<-y>> \o <<>>
        /\ Composed("minus", <<x, y>>, <<z>>) = <<x, y>> \o <<-z>> \o <<>>
    BY <1>2 DEF Composed
  <2>2. PICK u, v : u = -y /\ v = -z
    OBVIOUS
  <2>3. u \in Int /\ v \in Int
    BY <2>2
  <2>4. \A s \in Seq(Int) : s \o <<>> = s
    OBVIOUS
  <2>5. <<x>> \o <<u>> = <<x, u>>
    <3>1. PICK s, t : s = <<x>> \o <<u>> /\ t = <<x, u>>
      OBVIOUS
    <3>2. s \in Seq(Int) /\ Len(s) = 2 /\ s[1] = x /\ s[2] = u
      BY <2>3, <3>1
    <3>3. t \in Seq(Int) /\ Len(t) = 2 /\ t[1] = x /\ t[2] = u
      BY <2>3, <3>1
    <3>4. s = t
      BY <3>2, <3>3, SeqEqual
    <3>5. QED
      BY <3>1, <3>4, Zenon
  <2>6. <<x, y>> \o <<v>> = <<x, y, v>>
    <3>1. PICK s, t : s = <<x, y>> \o <<v>> /\ t = <<x, y, v>>
      OBVIOUS
    <3>2. s \in Seq(Int) /\ Len(s) = 3 /\ s[1] = x /\ s[2] = y /\ s[3] = v
      BY <2>3, <3>1
    <3>3. t \in Seq(Int) /\ Len(t) = 3 /\ t[1] = x /\ t[2] = y /\ t[3] = v
      BY <2>3, <3>1
    <3>4. Len(s) = Len(t) /\ \A i \in 1..Len(s) : s[i] = t[i]
      BY <3>2, <3>3
    <3>5. s = t
      BY <3>2, <3>3, <3>4, SeqEqual, Zenon
    <3>6. QED
      BY <3>1, <3>5, Zenon
  <2>7. <<x, u>> \in Seq(Int) /\ <<x, y, v>> \in Seq(Int)
    BY <2>3
  <2>8. /\ Composed("minus", <<x>>, <<y>>) = <<x>> \o <<u>> \o <<>>
        /\ Composed("minus", <<x, y>>, <<z>>) = <<x, y>> \o <<v>> \o <<>>
    BY <2>1, <2>2, Zenon
  <2>9. Composed("minus", <<x>>, <<y>>) = <<x, u>> /\ Composed("minus", <<x, y>>, <<z>>) = <<x, y, v>>
    BY <2>4, <2>5, <2>6, <2>7, <2>8, Zenon
  <2>10. QED
    BY <2>2, <2>9, Zenon
<1>6. QED
  BY <1>3, <1>4, <1>5

(* The terms of an operand, and that a term has no second one.              *)
LEMMA OperandBinds ==
  ASSUME Rest, Plain, NEW k \in DOMAIN body, NEW rows, NEW rho, NEW loc, Fits(k, rows, rho),
         NEW i \in DOMAIN body[k].args
  PROVE  /\ i \in 1..3 /\ body[k].args[i].op \in {"term", "minus", "mul"}
         /\ Binds(<<k, <<i, 1>>>>, TermValue(k, <<i, 1>>, rows), Now(body[k].args[i].terms[1], rho, loc))
         /\ IF body[k].args[i].op = "term" THEN <<k, <<i, 2>>>> \notin Constants
            ELSE Binds(<<k, <<i, 2>>>>, TermValue(k, <<i, 2>>, rows), Now(body[k].args[i].terms[2], rho, loc))
<1>1. PICK c, o : c = body[k] /\ o = body[k].args[i]
  OBVIOUS
<1>2. c \in Calls(Operand(Leaf))
  BY <1>1 DEF Rest
<1>3. o \in Operand(Leaf) /\ i \in 1..3
  BY <1>1, <1>2 DEF Calls
<1>4. /\ o.op \in {"term", "minus", "mul"} /\ 1 \in DOMAIN o.terms
      /\ o.op # "term" => 2 \in DOMAIN o.terms
  BY <1>3 DEF Operand, Arithmetic
<1>5. ASSUME NEW j \in DOMAIN o.terms
      PROVE  Binds(<<k, <<i, j>>>>, TermValue(k, <<i, j>>, rows), Now(o.terms[j], rho, loc))
  <2>1. <<i, j>> \in Places(body[k]) /\ TermAt(body[k], <<i, j>>) = o.terms[j]
    BY <1>1, <1>2, PlacesOf
  <2>2. QED
    BY <2>1, TermBinds
<1>6. ASSUME o.op = "term"
      PROVE  <<k, <<i, 2>>>> \notin Constants
  <2>1. 2 \notin DOMAIN o.terms
    BY <1>3, <1>6 DEF Operand, Arithmetic
  <2>2. <<i, 2>> \notin Places(body[k])
    BY <1>1, <2>1 DEF Places
  <2>3. PICK d : d = <<k, <<i, 2>>>>
    OBVIOUS
  <2>4. d[1] = k /\ d[2] = <<i, 2>>
    BY <2>3
  <2>5. d \in Constants => d[2] \in Kinds(body[d[1]], {"const"})
    BY ConstantsTyped
  <2>6. QED
    BY <2>2, <2>3, <2>4, <2>5 DEF Kinds
<1>7. QED
  BY <1>1, <1>3, <1>4, <1>5, <1>6

(* The text of an operand that has a value.                                 *)
TextOf(k, i, rows, e) ==
  /\ e \in Int
  /\ body[k].args[i].op # "minus" => OperandText(k, i, rows) = <<e>>
  /\ body[k].args[i].op = "minus" =>
       \E x \in Int, y \in Int : OperandText(k, i, rows) = <<x, -y>> /\ e = x - y

(* The text of an operand outside of mul has the operand's value.           *)
LEMMA OperandIs ==
  ASSUME Rest, Plain, NEW k \in DOMAIN body, NEW rows, NEW rho, NEW loc, Fits(k, rows, rho),
         NEW i \in DOMAIN body[k].args, NoFactor(k, i)
  PROVE  TextOf(k, i, rows, ValueNow(body[k].args[i], rho, loc))
<1>0. PICK e : e = ValueNow(body[k].args[i], rho, loc)
  OBVIOUS
<1>1. PICK o, w1, w2, v1, v2 :
        /\ o = body[k].args[i].op
        /\ w1 = TermValue(k, <<i, 1>>, rows) /\ w2 = TermValue(k, <<i, 2>>, rows)
        /\ v1 = Now(body[k].args[i].terms[1], rho, loc) /\ v2 = Now(body[k].args[i].terms[2], rho, loc)
  OBVIOUS
<1>2. /\ i \in 1..3 /\ body[k].args[i].op \in {"term", "minus", "mul"}
      /\ Binds(<<k, <<i, 1>>>>, TermValue(k, <<i, 1>>, rows), Now(body[k].args[i].terms[1], rho, loc))
      /\ IF body[k].args[i].op = "term" THEN <<k, <<i, 2>>>> \notin Constants
         ELSE Binds(<<k, <<i, 2>>>>, TermValue(k, <<i, 2>>, rows), Now(body[k].args[i].terms[2], rho, loc))
  BY OperandBinds, Zenon
<1>3. o \in {"term", "minus", "mul"} /\ (o # "term" => Binds(<<k, <<i, 2>>>>, w2, v2))
  BY <1>1, <1>2
<1>4. Binds(<<k, <<i, 1>>>>, w1, v1)
  BY <1>1, <1>2
<1>5. ASSUME o # "mul", NEW j \in 1..2, NEW w, NEW v, Binds(<<k, <<i, j>>>>, w, v)
      PROVE  w = v /\ v \in Int
  <2>1. CASE <<k, <<i, j>>>> \in Constants
    <3>1. PICK c : c = <<k, <<i, j>>>>
      OBVIOUS
    <3>2. c \in Constants /\ c[1] = k /\ c[2][1] = i
      BY <2>1, <3>1
    <3>3. Bound(c) = Own(c)
      BY <1>1, <1>5, <3>2, OutsideMul DEF NoFactor
    <3>4. QED
      BY <1>5, <2>1, <3>1, <3>3 DEF Binds
  <2>2. CASE <<k, <<i, j>>>> \notin Constants
    BY <1>5, <2>2 DEF Binds
  <2>3. QED
    BY <2>1, <2>2
<1>6. CASE o = "term"
  <2>1. w1 = v1 /\ v1 \in Int
    BY <1>4, <1>5, <1>6
  <2>2. e = v1
    BY <1>0, <1>1, <1>6 DEF ValueNow
  <2>3. OperandText(k, i, rows) = <<w1>>
    BY <1>1, <1>6 DEF OperandText, Rearranged
  <2>4. QED
    BY <1>0, <1>1, <1>6, <2>1, <2>2, <2>3 DEF TextOf
<1>7. CASE o = "minus"
  <2>1. w1 = v1 /\ v1 \in Int /\ w2 = v2 /\ v2 \in Int
    BY <1>3, <1>4, <1>5, <1>7
  <2>2. e = v1 - v2
    BY <1>0, <1>1, <1>7 DEF ValueNow, Apply
  <2>3. OperandText(k, i, rows) = Composed("minus", <<w1>>, <<w2>>)
    BY <1>1, <1>7 DEF OperandText, Rearranged
  <2>4. Composed("minus", <<w1>>, <<w2>>) = <<w1, -w2>>
    BY <2>1, ShortTexts
  <2>5. OperandText(k, i, rows) = <<v1, -v2>>
    BY <2>1, <2>3, <2>4, Zenon
  <2>6. e \in Int
    BY <2>1, <2>2
  <2>7. QED
    BY <1>0, <1>1, <1>7, <2>1, <2>2, <2>5, <2>6 DEF TextOf
<1>8. CASE o = "mul"
  <2>1. Binds(<<k, <<i, 1>>>>, w1, v1) /\ Binds(<<k, <<i, 2>>>>, w2, v2)
    BY <1>3, <1>4, <1>8
  <2>2. v1 \in Int /\ v2 \in Int
    BY <2>1 DEF Binds
  <2>3. w1 \in Int /\ w2 \in Int /\ w1 * w2 = v1 * v2
    <3>1. CASE platform = "mysql"
      <4>1. PICK w, v : w = <<w1, w2>> /\ v = <<v1, v2>>
        OBVIOUS
      <4>2. w[1] = w1 /\ w[2] = w2 /\ v[1] = v1 /\ v[2] = v2
        BY <4>1
      <4>3. w[1] \in Int /\ w[2] \in Int /\ w[1] * w[2] = v[1] * v[2]
        <5>1. BindTwo(k, i, w, v)
          BY <2>1, <4>2 DEF BindTwo
        <5>2. body[k].args[i].op = "mul"
          BY <1>1, <1>8
        <5>3. i \in 1..3
          BY <1>2
        <5>4. QED
          BY <3>1, <5>1, <5>2, <5>3, OperandProduct
      <4>4. QED
        BY <4>2, <4>3
    <3>2. CASE platform # "mysql"
      <4>1. \A c \in Constants : Bound(c) = Own(c)
        BY <3>2, OutsideMul
      <4>2. w1 = v1 /\ w2 = v2
        BY <2>1, <4>1 DEF Binds
      <4>3. QED
        BY <2>2, <4>2
    <3>3. QED
      BY <3>1, <3>2
  <2>4. e = v1 * v2
    BY <1>0, <1>1, <1>8 DEF ValueNow, Apply
  <2>5. OperandText(k, i, rows) = Composed("mul", <<w2>>, <<w1>>)
    BY <1>1, <1>8 DEF OperandText, Rearranged
  <2>6. Composed("mul", <<w2>>, <<w1>>) = <<w2 * w1>>
    BY <2>3, ShortTexts
  <2>7. w2 * w1 = e /\ e \in Int
    BY <2>2, <2>3, <2>4
  <2>8. OperandText(k, i, rows) = <<e>>
    BY <2>5, <2>6, <2>7, Zenon
  <2>9. QED
    BY <1>0, <1>1, <1>8, <2>7, <2>8 DEF TextOf
<1>9. QED
  BY <1>3, <1>6, <1>7, <1>8

(* What is needed for texts without parentheses.                            *)
Composes(k) ==
  \A i \in 1..2 : body[k].args[i].op = "minus" =>
    body[k].op \in Comparison \/ (body[k].op = "minus" /\ i = 1)

(* Two texts of one product each, which multiply to that of d and e.        *)
Factors(k, rows, d, e) ==
  \E x \in Int, y \in Int :
    /\ OperandText(k, 1, rows) = <<x>> /\ OperandText(k, 2, rows) = <<y>>
    /\ d \in Int /\ e \in Int /\ x * y = d * e

(* The factors of mul: their product is that of the operands' values.       *)
LEMMA FactorsAre ==
  ASSUME Rest, Plain, NEW k \in DOMAIN body, NEW rows, NEW rho, NEW loc, Fits(k, rows, rho),
         body[k].op = "mul", Composes(k)
  PROVE  Factors(k, rows, ValueNow(body[k].args[1], rho, loc), ValueNow(body[k].args[2], rho, loc))
<1>0. PICK e : e = [i \in 1..2 |-> ValueNow(body[k].args[i], rho, loc)]
  OBVIOUS
<1>1. 1 \in DOMAIN body[k].args /\ 2 \in DOMAIN body[k].args
  <2>1. body[k] \in Calls(Operand(Leaf))
    BY DEF Rest
  <2>2. QED
    BY <2>1 DEF Calls
<1>2. PICK o : o = [i \in 1..2 |-> body[k].args[i].op]
  OBVIOUS
<1>3. \A i \in 1..2 : o[i] = body[k].args[i].op /\ o[i] \in {"term", "mul"}
  <2>1. \A i \in 1..2 : i \in DOMAIN body[k].args
    BY <1>1
  <2>2. \A i \in 1..2 : body[k].args[i].op \in {"term", "minus", "mul"}
    BY <2>1, OperandBinds
  <2>3. \A i \in 1..2 : body[k].args[i].op # "minus"
    BY DEF Composes, Comparison
  <2>4. QED
    BY <1>2, <2>2, <2>3
<1>4. PICK w, v :
        /\ w = [i \in 1..2 |-> <<TermValue(k, <<i, 1>>, rows),
                                 IF o[i] = "mul" THEN TermValue(k, <<i, 2>>, rows) ELSE 1>>]
        /\ v = [i \in 1..2 |-> <<Now(body[k].args[i].terms[1], rho, loc),
                                 IF o[i] = "mul" THEN Now(body[k].args[i].terms[2], rho, loc) ELSE 1>>]
  OBVIOUS
<1>5. ASSUME NEW i \in 1..2
      PROVE  /\ w[i][1] = TermValue(k, <<i, 1>>, rows)
             /\ v[i][1] = Now(body[k].args[i].terms[1], rho, loc)
             /\ w[i][2] = IF o[i] = "mul" THEN TermValue(k, <<i, 2>>, rows) ELSE 1
             /\ v[i][2] = IF o[i] = "mul" THEN Now(body[k].args[i].terms[2], rho, loc) ELSE 1
  BY <1>4
<1>6. ASSUME NEW i \in 1..2
      PROVE  Binds(<<k, <<i, 1>>>>, w[i][1], v[i][1]) /\ Binds(<<k, <<i, 2>>>>, w[i][2], v[i][2])
  <2>1. i \in DOMAIN body[k].args
    BY <1>1
  <2>0. /\ i \in 1..3 /\ body[k].args[i].op \in {"term", "minus", "mul"}
        /\ Binds(<<k, <<i, 1>>>>, TermValue(k, <<i, 1>>, rows), Now(body[k].args[i].terms[1], rho, loc))
        /\ IF body[k].args[i].op = "term" THEN <<k, <<i, 2>>>> \notin Constants
           ELSE Binds(<<k, <<i, 2>>>>, TermValue(k, <<i, 2>>, rows), Now(body[k].args[i].terms[2], rho, loc))
    BY <2>1, OperandBinds, Zenon
  <2>2. Binds(<<k, <<i, 1>>>>, w[i][1], v[i][1])
    BY <1>5, <2>0
  <2>3. CASE o[i] = "mul"
    BY <1>3, <1>5, <2>0, <2>2, <2>3
  <2>4. CASE o[i] # "mul"
    <3>1. <<k, <<i, 2>>>> \notin Constants
      BY <1>3, <2>0, <2>4
    <3>2. w[i][2] = 1 /\ v[i][2] = 1
      BY <1>5, <2>4
    <3>3. QED
      BY <2>2, <3>1, <3>2 DEF Binds
  <2>5. QED
    BY <2>3, <2>4
<1>7. ASSUME NEW i \in 1..2
      PROVE  v[i][1] \in Int /\ v[i][2] \in Int /\ e[i] = v[i][1] * v[i][2]
  <2>1. v[i][1] \in Int /\ v[i][2] \in Int
    BY <1>6 DEF Binds
  <2>2. CASE o[i] = "mul"
    <3>1. e[i] = ValueNow(body[k].args[i], rho, loc) /\ body[k].args[i].op = "mul"
      BY <1>0, <1>3, <2>2
    <3>2. e[i] = Now(body[k].args[i].terms[1], rho, loc) * Now(body[k].args[i].terms[2], rho, loc)
      BY <3>1 DEF ValueNow, Apply
    <3>3. QED
      BY <1>5, <2>1, <2>2, <3>2
  <2>3. CASE o[i] # "mul"
    <3>1. e[i] = v[i][1] /\ v[i][2] = 1
      BY <1>0, <1>3, <1>5, <2>3 DEF ValueNow
    <3>2. QED
      BY <2>1, <3>1
  <2>4. QED
    BY <2>1, <2>2, <2>3
<1>8. /\ w[1][1] \in Int /\ w[1][2] \in Int /\ w[2][1] \in Int /\ w[2][2] \in Int
      /\ (w[1][1] * w[1][2]) * (w[2][1] * w[2][2]) = (v[1][1] * v[1][2]) * (v[2][1] * v[2][2])
  <2>1. CASE platform = "mysql"
    <3>1. PICK y, x : y = <<w[1][1], w[1][2], w[2][1], w[2][2]>> /\ x = <<v[1][1], v[1][2], v[2][1], v[2][2]>>
      OBVIOUS
    <3>2. /\ y[1] = w[1][1] /\ y[2] = w[1][2] /\ y[3] = w[2][1] /\ y[4] = w[2][2]
          /\ x[1] = v[1][1] /\ x[2] = v[1][2] /\ x[3] = v[2][1] /\ x[4] = v[2][2]
      BY <3>1
    <3>3. /\ Binds(<<k, <<1, 1>>>>, y[1], x[1]) /\ Binds(<<k, <<1, 2>>>>, y[2], x[2])
          /\ Binds(<<k, <<2, 1>>>>, y[3], x[3]) /\ Binds(<<k, <<2, 2>>>>, y[4], x[4])
      BY <1>6, <3>2
    <3>4. \A i \in 1..2 : \/ body[k].args[i].op = "mul"
                          \/ body[k].args[i].op = "term" /\ <<k, <<i, 2>>>> \notin Constants
      <4>1. ASSUME NEW i \in 1..2
            PROVE  IF body[k].args[i].op = "term" THEN <<k, <<i, 2>>>> \notin Constants
                   ELSE Binds(<<k, <<i, 2>>>>, TermValue(k, <<i, 2>>, rows), Now(body[k].args[i].terms[2], rho, loc))
        <5>1. i \in DOMAIN body[k].args
          BY <1>1
        <5>2. QED
          BY <5>1, OperandBinds, Zenon
      <4>2. QED
        BY <1>3, <4>1
    <3>5. /\ y[1] \in Int /\ y[2] \in Int /\ y[3] \in Int /\ y[4] \in Int
          /\ (y[1] * y[2]) * (y[3] * y[4]) = (x[1] * x[2]) * (x[3] * x[4])
      BY <2>1, <3>3, <3>4, RelationProduct
    <3>6. QED
      BY <3>2, <3>5
  <2>2. CASE platform # "mysql"
    <3>1. \A c \in Constants : Bound(c) = Own(c)
      BY <2>2, OutsideMul
    <3>2. w[1][1] = v[1][1] /\ w[1][2] = v[1][2] /\ w[2][1] = v[2][1] /\ w[2][2] = v[2][2]
      BY <1>6, <3>1 DEF Binds
    <3>3. QED
      BY <1>7, <3>2
  <2>3. QED
    BY <2>1, <2>2
<1>9. ASSUME NEW i \in 1..2
      PROVE  OperandText(k, i, rows) = <<w[i][1] * w[i][2]>>
  <2>1. w[i][1] \in Int /\ w[i][2] \in Int
    BY <1>8
  <2>2. CASE o[i] = "mul"
    <3>1. OperandText(k, i, rows) = Composed("mul", <<w[i][2]>>, <<w[i][1]>>)
      BY <1>3, <1>5, <2>2 DEF OperandText, Rearranged
    <3>2. Composed("mul", <<w[i][2]>>, <<w[i][1]>>) = <<w[i][2] * w[i][1]>>
      BY <2>1, ShortTexts
    <3>3. w[i][2] * w[i][1] = w[i][1] * w[i][2]
      BY <2>1
    <3>4. QED
      BY <3>1, <3>2, <3>3, Zenon
  <2>3. CASE o[i] # "mul"
    <3>1. OperandText(k, i, rows) = <<w[i][1]>>
      BY <1>3, <1>5, <2>3 DEF OperandText, Rearranged
    <3>2. w[i][1] * w[i][2] = w[i][1]
      BY <1>5, <2>1, <2>3
    <3>3. QED
      BY <3>1, <3>2, Zenon
  <2>4. QED
    BY <2>2, <2>3
<1>10. PICK x, y, z, u : /\ x = w[1][1] * w[1][2] /\ y = w[2][1] * w[2][2]
                         /\ z = v[1][1] * v[1][2] /\ u = v[2][1] * v[2][2]
  OBVIOUS
<1>11. x \in Int /\ y \in Int /\ z \in Int /\ u \in Int /\ x * y = z * u
  BY <1>7, <1>8, <1>10
<1>12. OperandText(k, 1, rows) = <<x>> /\ OperandText(k, 2, rows) = <<y>> /\ e[1] = z /\ e[2] = u
  BY <1>7, <1>9, <1>10
<1>13. e[1] = ValueNow(body[k].args[1], rho, loc) /\ e[2] = ValueNow(body[k].args[2], rho, loc)
  BY <1>0
<1>14. QED
  BY <1>11, <1>12, <1>13 DEF Factors

(* So a relation of the statement says what the body does.                  *)
LEMMA RelationIs ==
  ASSUME Rest, Plain, NEW k \in DOMAIN body, NEW rows, NEW rho, NEW loc, Fits(k, rows, rho),
         body[k].op \in Mapped, Composes(k)
  PROVE  Relation(k, rows) <=> TrueNow(body[k], rho, loc)
<1>1. PICK op, e : op = body[k].op /\ e = [i \in 1..3 |-> ValueNow(body[k].args[i], rho, loc)]
  OBVIOUS
<1>2. /\ op \in Comparison \/ op = "minus" \/ op = "mul"
      /\ 1 \in DOMAIN body[k].args /\ 2 \in DOMAIN body[k].args
      /\ op \notin Comparison => 3 \in DOMAIN body[k].args
  <2>1. body[k] \in Calls(Operand(Leaf))
    BY DEF Rest
  <2>2. QED
    BY <1>1, <2>1 DEF Calls, Mapped, Comparison, Arithmetic
<1>3. TrueNow(body[k], rho, loc) <=>
        IF op \in Comparison THEN Compare(op, e[1], e[2]) ELSE Apply(op, e[1], e[2]) = e[3]
  BY <1>1 DEF TrueNow
<1>4. ASSUME NEW i \in 1..3, i \in DOMAIN body[k].args, op # "mul" \/ i = 3
      PROVE  /\ e[i] \in Int /\ Total(OperandText(k, i, rows)) = e[i]
             /\ body[k].args[i].op # "minus" => OperandText(k, i, rows) = <<e[i]>>
             /\ body[k].args[i].op = "minus" =>
                  \E x \in Int, y \in Int : OperandText(k, i, rows) = <<x, -y>> /\ e[i] = x - y
  <2>1. e[i] = ValueNow(body[k].args[i], rho, loc)
    BY <1>1
  <2>2. /\ e[i] \in Int
        /\ body[k].args[i].op # "minus" => OperandText(k, i, rows) = <<e[i]>>
        /\ body[k].args[i].op = "minus" =>
             \E x \in Int, y \in Int : OperandText(k, i, rows) = <<x, -y>> /\ e[i] = x - y
    <3>1. NoFactor(k, i)
      BY <1>1, <1>4 DEF NoFactor
    <3>2. TextOf(k, i, rows, ValueNow(body[k].args[i], rho, loc))
      BY <1>4, <3>1, OperandIs, Zenon
    <3>3. QED
      BY <2>1, <3>2 DEF TextOf
  <2>3. CASE body[k].args[i].op # "minus"
    BY <2>2, <2>3, ShortTexts
  <2>4. CASE body[k].args[i].op = "minus"
    <3>1. PICK x \in Int, y \in Int : OperandText(k, i, rows) = <<x, -y>> /\ e[i] = x - y
      BY <2>2, <2>4
    <3>2. PICK z : z = -y
      OBVIOUS
    <3>3. z \in Int /\ x + z = x - y /\ OperandText(k, i, rows) = <<x, z>>
      BY <3>1, <3>2
    <3>4. Total(<<x, z>>) = x + z
      BY <3>3, ShortTexts
    <3>5. QED
      BY <2>2, <3>1, <3>3, <3>4
  <2>5. QED
    BY <2>2, <2>3, <2>4
<1>5. CASE op \in Comparison
  <2>1. op # "mul"
    BY <1>5 DEF Comparison
  <2>2. Relation(k, rows) <=> Compare(op, Total(OperandText(k, 1, rows)), Total(OperandText(k, 2, rows)))
    BY <1>1, <1>5, <2>1 DEF Relation, Rearranged
  <2>3. QED
    BY <1>2, <1>3, <1>4, <1>5, <2>1, <2>2
<1>6. CASE op = "minus"
  <2>1. Relation(k, rows) <=>
          Total(Composed("minus", OperandText(k, 1, rows), OperandText(k, 2, rows))) = Total(OperandText(k, 3, rows))
    BY <1>1, <1>6 DEF Relation, Rearranged, Comparison
  <2>2. TrueNow(body[k], rho, loc) <=> e[1] - e[2] = e[3]
    BY <1>3, <1>6 DEF Comparison, Apply
  <2>3. OperandText(k, 2, rows) = <<e[2]>> /\ e[2] \in Int /\ e[1] \in Int
    <3>1. body[k].args[2].op # "minus"
      BY <1>1, <1>6 DEF Composes, Comparison
    <3>2. QED
      BY <1>2, <1>4, <1>6, <3>1
  <2>4. Total(Composed("minus", OperandText(k, 1, rows), OperandText(k, 2, rows))) = e[1] - e[2]
    <3>1. CASE body[k].args[1].op # "minus"
      <4>1. OperandText(k, 1, rows) = <<e[1]>>
        BY <1>2, <1>4, <1>6, <3>1
      <4>2. PICK z : z = -e[2]
        OBVIOUS
      <4>3. z \in Int /\ e[1] + z = e[1] - e[2]
        BY <2>3, <4>2
      <4>4. Composed("minus", <<e[1]>>, <<e[2]>>) = <<e[1], z>> /\ Total(<<e[1], z>>) = e[1] + z
        BY <2>3, <4>2, <4>3, ShortTexts
      <4>5. QED
        BY <2>3, <4>1, <4>3, <4>4
    <3>2. CASE body[k].args[1].op = "minus"
      <4>1. PICK x \in Int, y \in Int : OperandText(k, 1, rows) = <<x, -y>> /\ e[1] = x - y
        BY <1>2, <1>4, <1>6, <3>2
      <4>2. PICK z, u : z = -e[2] /\ u = -y
        OBVIOUS
      <4>3. z \in Int /\ u \in Int /\ (x + u) + z = e[1] - e[2]
        BY <2>3, <4>1, <4>2
      <4>4. Composed("minus", <<x, u>>, <<e[2]>>) = <<x, u, z>>
        BY <2>3, <4>2, <4>3, ShortTexts
      <4>5. Total(<<x, u, z>>) = (x + u) + z
        BY <4>1, <4>3, ShortTexts, Zenon
      <4>6. QED
        BY <2>3, <4>1, <4>2, <4>3, <4>4, <4>5
    <3>3. QED
      BY <3>1, <3>2
  <2>5. Total(OperandText(k, 3, rows)) = e[3]
    BY <1>2, <1>4, <1>6 DEF Comparison
  <2>6. QED
    BY <2>1, <2>2, <2>4, <2>5
<1>7. CASE op = "mul"
  <2>1. Relation(k, rows) <=>
          Total(Composed("mul", OperandText(k, 2, rows), OperandText(k, 1, rows))) = Total(OperandText(k, 3, rows))
    BY <1>1, <1>7 DEF Relation, Rearranged, Comparison
  <2>2. TrueNow(body[k], rho, loc) <=> e[1] * e[2] = e[3]
    BY <1>3, <1>7 DEF Comparison, Apply
  <2>3. PICK f1, f2 : f1 = ValueNow(body[k].args[1], rho, loc) /\ f2 = ValueNow(body[k].args[2], rho, loc)
    OBVIOUS
  <2>4. f1 = e[1] /\ f2 = e[2]
    BY <1>1, <2>3
  <2>5. PICK x \in Int, y \in Int :
          /\ OperandText(k, 1, rows) = <<x>> /\ OperandText(k, 2, rows) = <<y>>
          /\ f1 \in Int /\ f2 \in Int /\ x * y = f1 * f2
    <3>1. body[k].op = "mul"
      BY <1>1, <1>7
    <3>2. Factors(k, rows, f1, f2)
      BY <2>3, <3>1, FactorsAre
    <3>3. QED
      BY <3>2 DEF Factors
  <2>6. Composed("mul", <<y>>, <<x>>) = <<y * x>>
    BY ShortTexts
  <2>7. PICK z : z = y * x
    OBVIOUS
  <2>8. z \in Int /\ z = e[1] * e[2]
    BY <2>4, <2>5, <2>7
  <2>9. Total(<<z>>) = z
    BY <2>8, ShortTexts
  <2>10. Total(OperandText(k, 3, rows)) = e[3]
    BY <1>2, <1>4, <1>7 DEF Comparison
  <2>11. Total(Composed("mul", OperandText(k, 2, rows), OperandText(k, 1, rows))) = z
    BY <2>5, <2>6, <2>7, <2>9
  <2>12. QED
    BY <2>1, <2>2, <2>8, <2>10, <2>11
<1>8. QED
  BY <1>2, <1>5, <1>6, <1>7

-----------------------------------------------------------------------------
(* Statements.  What a statement is made of: relations that need no         *)
(* parentheses, tables that have an iterator, operators with a mapping.     *)
Composable   == Plain => \A m \in DOMAIN body : Composes(m)
Joined       == pc \in {"translate", "execute"} => \A t \in link : tableNames[t] # None
Translatable == pc = "execute" /\ platform # "mongo" => HasStatement
Ready == Composable /\ Joined /\ Translatable

(* A body that stays has the same relations.                                *)
LEMMA StatementKept ==
  ASSUME UNCHANGED <<query, body>>
  PROVE  /\ Composable => Composable'
         /\ HasStatement' <=> HasStatement
<1>1. Plain' <=> Plain
  BY DEF Plain, Kinds, Places, TermAt
<1>2. \A m : Composes(m)' <=> Composes(m)
  BY DEF Composes
<1>3. HasStatement' <=> HasStatement
  BY DEF HasStatement, TablesOf, Kinds, Places, TermAt
<1>4. QED
  BY <1>1, <1>2, <1>3 DEF Composable

(* An expression of a plain query needs no parentheses when it is added.    *)
LEMMA SubstituteVarsReady ==
  ASSUME IInv, Rest, Meant, Ready, SubstituteVars
  PROVE  Composable'
<1>1. CASE UNCHANGED <<query, body>>
  BY <1>1, StatementKept DEF Ready
<1>2. CASE /\ \A i \in Vars : localVars[VarAt(i)] # None
           /\ body' = Append(body, Substituted)
           /\ UNCHANGED query
  <2>1. Plain' <=> Plain
    BY <1>2 DEF Plain, Kinds, Places, TermAt
  <2>2. PICK c, q : c = Substituted /\ q = query[n].call
    OBVIOUS
  <2>3. pc = "refs" /\ n \in DOMAIN query /\ Refs = {}
    BY DEF SubstituteVars, IInv, Shape
  <2>4. /\ c.op = q.op /\ DOMAIN call.args = DOMAIN q.args
        /\ \A i \in DOMAIN call.args : c.args[i].op = "minus" => q.args[i].op = "minus"
    <3>1. /\ Substituted.op = call.op
          /\ Substituted.args =
               [i \in DOMAIN call.args |->
                 IF i \in Vars THEN [op |-> "term", terms |-> <<localVars[VarAt(i)]>>]
                 ELSE call.args[i]]
      BY <1>2, <2>3, SubstitutedTyped
    <3>2. /\ call.op = q.op /\ DOMAIN call.args = DOMAIN q.args
          /\ \A i \in DOMAIN call.args : call.args[i].op = q.args[i].op
      BY <2>2, <2>3 DEF Ready, Meant, CallMeans
    <3>3. ASSUME NEW i \in DOMAIN call.args, c.args[i].op = "minus"
          PROVE  q.args[i].op = "minus"
      <4>1. CASE i \in Vars
        <5>1. c.args[i] = [op |-> "term", terms |-> <<localVars[VarAt(i)]>>]
          BY <2>2, <3>1, <4>1
        <5>2. c.args[i].op = "term"
          BY <5>1
        <5>3. QED
          BY <3>3, <5>2
      <4>2. CASE i \notin Vars
        BY <2>2, <3>1, <3>2, <3>3, <4>2
      <4>3. QED
        BY <4>1, <4>2
    <3>4. QED
      BY <2>2, <3>1, <3>2, <3>3
  <2>5. 1 \in DOMAIN call.args /\ 2 \in DOMAIN call.args
    <3>1. call \in Calls(Operand(Leaf))
      BY <1>2, <2>3, SubstitutedTyped
    <3>2. QED
      BY <3>1 DEF Calls
  <2>6. Plain => \A i \in 1..2 : c.args[i].op = "minus" =>
                   c.op \in Comparison \/ (c.op = "minus" /\ i = 1)
    <3>1. Plain => \A i \in 1..2 : q.args[i].op = "minus" =>
                     q.op \in Comparison \/ (q.op = "minus" /\ i = 1)
      BY <2>2, <2>3 DEF Plain
    <3>2. \A i \in 1..2 : i \in DOMAIN call.args
      BY <2>5
    <3>3. QED
      BY <2>4, <3>1, <3>2
  <2>7. ASSUME Plain, NEW m \in DOMAIN body'
        PROVE  Composes(m)'
    <3>1. body \in Seq(Calls(Operand(Leaf))) /\ body' = Append(body, c)
      BY <1>2, <2>2 DEF Rest
    <3>2. CASE m \in DOMAIN body
      <4>1. body'[m] = body[m] /\ Composes(m)
        BY <2>7, <3>1, <3>2 DEF Ready, Composable
      <4>2. QED
        BY <4>1 DEF Composes
    <3>3. CASE m \notin DOMAIN body
      <4>1. body'[m] = c
        BY <3>1, <3>3
      <4>2. QED
        BY <2>6, <2>7, <4>1 DEF Composes
    <3>4. QED
      BY <3>2, <3>3
  <2>8. QED
    BY <2>1, <2>7 DEF Composable
<1>3. QED
  BY <1>1, <1>2 DEF SubstituteVars, Advance, Refuse, inputVars, preVars, Substituted

(* The tables that are linked have iterators.                               *)
LEMMA ProcessReady ==
  ASSUME Rest, Meant, Process
  PROVE  Joined'
<1>1. CASE \E how \in {"error", "panic"} : Refuse(how)
  BY <1>1 DEF Refuse, Joined
<1>2. CASE pc' = "translate"
  <2>1. link' \subseteq Linked /\ UNCHANGED <<tableNames, body>>
    BY <1>2 DEF Process, Refuse, preVars
  <2>2. ASSUME NEW t \in Linked
        PROVE  tableNames[t] # None
    <3>1. PICK k \in DOMAIN body : t \in TablesOf(body[k])
      BY DEF Linked
    <3>2. PICK p \in Kinds(body[k], {"attr"}) : t = TermAt(body[k], p).table
      BY <3>1 DEF TablesOf
    <3>3. PICK x : x = TermAt(body[k], p)
      OBVIOUS
    <3>4. Good(x) /\ x.kind = "attr" /\ x.table = t
      BY <3>2, <3>3 DEF Kinds, Meant, BodyMeans, GoodCall
    <3>5. QED
      BY <3>4 DEF Good
  <2>3. QED
    BY <2>1, <2>2 DEF Joined
<1>3. QED
  BY <1>1, <1>2 DEF Process

(* Every step keeps what a statement is made of.                            *)
LEMMA ReadyKept ==
  ASSUME IInv, Rest, Meant, Ready, [Next]_vars
  PROVE  Ready'
<1>1. CASE TransformRef
  <2>1. UNCHANGED <<query, body>> /\ pc' \in {"refs", "done"}
    BY <1>1 DEF TransformRef, Rewrite, Refuse, inputVars, preVars
  <2>2. QED
    BY <2>1, StatementKept DEF Ready, Joined, Translatable
<1>2. CASE SubstituteVars
  <2>1. pc' \in {"refs", "process", "done"}
    BY <1>2 DEF SubstituteVars, Advance, Refuse
  <2>2. Composable'
    BY <1>2, SubstituteVarsReady
  <2>3. QED
    BY <2>1, <2>2 DEF Ready, Joined, Translatable
<1>3. CASE Process
  <2>1. UNCHANGED <<query, body>> /\ pc' \in {"translate", "done"}
    BY <1>3 DEF Process, Refuse, inputVars, preVars
  <2>2. Joined'
    BY <1>3, ProcessReady
  <2>3. QED
    BY <2>1, <2>2, StatementKept DEF Ready, Translatable
<1>4. CASE Translate
  <2>1. UNCHANGED <<query, platform, body, tableNames, link>> /\ pc = "translate" /\ pc' \in {"execute", "done"}
        /\ (pc' = "execute" /\ platform # "mongo" => HasStatement)
    BY <1>4 DEF Translate, Refuse, inputVars, preVars, sqlVars
  <2>2. QED
    BY <2>1, StatementKept DEF Ready, Joined, Translatable
<1>5. CASE Execute \/ CountDocuments
  <2>1. UNCHANGED <<query, body>> /\ pc' = "done"
    BY <1>5 DEF Execute, CountDocuments, inputVars, preVars
  <2>2. QED
    BY <2>1, StatementKept DEF Ready, Joined, Translatable
<1>6. CASE UNCHANGED vars
  <2>1. UNCHANGED <<query, platform, pc, body, tableNames, link>>
    BY <1>6 DEF vars, inputVars, preVars, sqlVars
  <2>2. QED
    BY <2>1, StatementKept DEF Ready, Joined, Translatable
<1>7. QED
  BY <1>1, <1>2, <1>3, <1>4, <1>5, <1>6 DEF Next

(* Each relation of the statement says what the body does, of rows that are *)
(* the values of the iterators.                                             *)
LEMMA StatementIs ==
  ASSUME Rest, Meant, Ready, Plain, pc = "execute", platform # "mongo",
         NEW rows, NEW rho, NEW loc, NEW k \in DOMAIN body,
         \A t \in TablesOf(body[k]) : rows[t] = rho[tableNames[t]] /\ rows[t] \in Row
  PROVE  body[k].op \in Mapped /\ (Relation(k, rows) <=> TrueNow(body[k], rho, loc))
<1>1. body[k].op \in Mapped /\ Kinds(body[k], {"var"}) = {}
  BY DEF Ready, Translatable, HasStatement
<1>2. \A p \in Places(body[k]) : Good(TermAt(body[k], p)) /\ TermAt(body[k], p).kind # "var"
  BY <1>1 DEF Meant, BodyMeans, GoodCall, Kinds
<1>3. Fits(k, rows, rho)
  BY <1>2 DEF Fits
<1>4. Composes(k)
  BY DEF Ready, Composable
<1>5. QED
  BY <1>1, <1>3, <1>4, RelationIs

(* The rows that make the query true are among those that are counted.      *)
LEMMA ExecuteMissesNothing ==
  ASSUME IInv, Rest, Meant, Ready, Execute
  PROVE  NothingMissed'
<1>1. pc = "execute" /\ platform # "mongo" /\ UNCHANGED <<query, platform, body, from, link>>
  BY DEF Execute, inputVars, preVars
<1>2. (Plain' <=> Plain) /\ RowRefs' = RowRefs
  BY <1>1 DEF Plain, RowRefs, Kinds, Places, TermAt
<1>3. PICK b \in Databases :
        /\ db' = Tables(b)
        /\ reply' = IF \E k \in DOMAIN body : ~(TablesOf(body[k]) \subseteq {from} \cup link)
                    THEN "error"
                    ELSE IF \E rows \in [{from} \cup link -> Row] :
                              /\ \A t \in DOMAIN rows : rows[t] \in b[t]
                              /\ \A k \in DOMAIN body : Relation(k, rows)
                         THEN "found" ELSE "nothing"
  BY DEF Execute
<1>4. ASSUME Plain, Holds', \A k \in DOMAIN body : TablesOf(body[k]) \subseteq {from} \cup link
      PROVE  \E rows \in [{from} \cup link -> Row] :
               /\ \A t \in DOMAIN rows : rows[t] \in b[t]
               /\ \A k \in DOMAIN body : Relation(k, rows)
  <2>1. PICK d, rho, loc :
          /\ d \in db'
          /\ (\A r \in RowRefs : rho[r.iter] \in d.rows[r.table])'
          /\ (\A k \in DOMAIN query : query[k].negated # Truth(query[k].call, rho, loc))'
    BY <1>4, Zenon DEF Holds
  <2>2. Satisfied(rho, loc)
    BY <1>1, <1>4, <2>1, AllTrue DEF MakesTrue
  <2>3. d.rows = b
    BY <1>3, <2>1 DEF Tables
  <2>4. PICK rows : rows = [t \in {from} \cup link |-> rho[tableNames[t]]]
    OBVIOUS
  <2>5. ASSUME NEW t \in {from} \cup link
        PROVE  rows[t] = rho[tableNames[t]] /\ rows[t] \in b[t] /\ rows[t] \in Row
    <3>1. t \in Table /\ tableNames[t] # None
      BY <1>1 DEF Meant, Selected, Ready, Joined, Rest
    <3>2. PICK r \in RowRefs : r.table = t /\ r.iter = tableNames[t]
      BY <3>1 DEF Meant, Sources
    <3>3. rows[t] = rho[tableNames[t]]
      BY <2>4
    <3>4. rows[t] \in b[t]
      BY <1>2, <2>1, <2>3, <3>2, <3>3
    <3>5. b \in [Table -> SUBSET Row]
      BY QueriesAssumption
    <3>6. QED
      BY <3>1, <3>3, <3>4, <3>5
  <2>6. ASSUME NEW k \in DOMAIN body
        PROVE  Relation(k, rows)
    <3>1. \A t \in TablesOf(body[k]) : rows[t] = rho[tableNames[t]] /\ rows[t] \in Row
      BY <1>4, <2>5
    <3>2. body[k].op \in Mapped /\ (Relation(k, rows) <=> TrueNow(body[k], rho, loc))
      BY <1>1, <1>4, <3>1, StatementIs
    <3>3. TrueNow(body[k], rho, loc)
      BY <2>2, <3>2 DEF Meant, BodyMeans, GoodCall
    <3>4. QED
      BY <3>2, <3>3
  <2>7. rows \in [{from} \cup link -> Row] /\ \A t \in DOMAIN rows : rows[t] \in b[t]
    BY <2>4, <2>5
  <2>8. QED
    BY <2>6, <2>7
<1>5. ASSUME Plain, Holds'
      PROVE  reply' # "nothing"
  <2>1. CASE \A k \in DOMAIN body : TablesOf(body[k]) \subseteq {from} \cup link
    BY <1>3, <1>4, <1>5, <2>1
  <2>2. CASE \E k \in DOMAIN body : ~(TablesOf(body[k]) \subseteq {from} \cup link)
    BY <1>3, <2>2
  <2>3. QED
    BY <2>1, <2>2
<1>6. QED
  BY <1>2, <1>5 DEF NothingMissed

(* And the rows that are counted make the query true.                       *)
LEMMA CountedHolds ==
  ASSUME IInv, Rest, Meant, Comes, Ready, Simple, Plain, pc = "execute", platform # "mongo",
         NEW b \in [Table -> SUBSET Row],
         \A k \in DOMAIN body : TablesOf(body[k]) \subseteq {from} \cup link,
         NEW rows, \A t \in {from} \cup link : rows[t] \in b[t],
         \A k \in DOMAIN body : Relation(k, rows)
  PROVE  \E rho \in [{r.iter : r \in RowRefs} -> Row], loc \in [LocalVar -> Value] :
           /\ \A r \in RowRefs : rho[r.iter] \in b[r.table]
           /\ \A k \in DOMAIN query : query[k].negated # Truth(query[k].call, rho, loc)
<1>1. NoVars
  BY DEF NoVars, Ready, Translatable, HasStatement
<1>2. PICK rho : rho = IteratorsOf(rows)
  OBVIOUS
<1>3. ASSUME NEW k \in DOMAIN body, NEW t \in TablesOf(body[k])
      PROVE  t \in Table /\ tableNames[t] # None /\ rows[t] \in b[t] /\ rows[t] \in Row
  <2>1. PICK p \in Kinds(body[k], {"attr"}) : t = TermAt(body[k], p).table
    BY <1>3 DEF TablesOf
  <2>2. PICK x : x = TermAt(body[k], p)
    OBVIOUS
  <2>3. p \in Places(body[k]) /\ x.kind = "attr" /\ x.table = t
    BY <2>1, <2>2 DEF Kinds
  <2>4. x \in Attribute
    BY <1>1, <2>2, <2>3, LeftTyped
  <2>5. Good(x)
    BY <2>2, <2>3 DEF Meant, BodyMeans, GoodCall
  <2>6. t \in Table /\ tableNames[t] # None
    BY <2>3, <2>4, <2>5 DEF Attribute, Good
  <2>7. rows[t] \in b[t]
    BY <1>3
  <2>8. QED
    BY <2>6, <2>7
<1>4. ASSUME NEW r \in RowRefs
      PROVE  rows[r.table] \in b[r.table] /\ rows[r.table] \in Row
  <2>1. PICK m \in DOMAIN body : r.table \in TablesOf(body[m])
    BY <1>1, AskedAbout
  <2>2. QED
    BY <1>3, <2>1
<1>5. ASSUME NEW k \in DOMAIN body
      PROVE  body[k].op \in Mapped /\ \A loc : TrueNow(body[k], rho, loc)
  <2>1. \A t \in TablesOf(body[k]) : rows[t] = rho[tableNames[t]] /\ rows[t] \in Row
    <3>1. \A t \in Table : tableNames[t] # None => rho[tableNames[t]] = rows[t]
      BY <1>2, IteratorRows
    <3>2. QED
      BY <1>3, <3>1
  <2>2. ASSUME NEW loc
        PROVE  body[k].op \in Mapped /\ (Relation(k, rows) <=> TrueNow(body[k], rho, loc))
    BY <2>1, StatementIs
  <2>3. QED
    BY <2>2
<1>6. /\ rho \in [{r.iter : r \in RowRefs} -> Row]
      /\ \A r \in RowRefs : rho[r.iter] = rows[r.table]
      /\ \E loc \in [LocalVar -> Value] :
           \A k \in DOMAIN query : query[k].negated # Truth(query[k].call, rho, loc)
  <2>1. \A r \in RowRefs : rows[r.table] \in Row
    BY <1>4
  <2>2. BodyTrue(rho)
    BY <1>5 DEF BodyTrue
  <2>3. QED
    BY <1>1, <1>2, <2>1, <2>2, RowsMakeTrue
<1>7. PICK loc \in [LocalVar -> Value] :
        \A k \in DOMAIN query : query[k].negated # Truth(query[k].call, rho, loc)
  BY <1>6, Zenon
<1>8. \A r \in RowRefs : rho[r.iter] \in b[r.table]
  BY <1>4, <1>6
<1>9. QED
  BY <1>6, <1>7, <1>8, Zenon

(* So what is counted is what the query asks for.                           *)
LEMMA ExecuteAnswers ==
  ASSUME IInv, Rest, Meant, Comes, Ready, Execute
  PROVE  AnswersQuery' /\ NothingMissed'
<1>1. pc = "execute" /\ platform # "mongo" /\ UNCHANGED <<query, platform, body, from, link>>
  BY DEF Execute, inputVars, preVars
<1>2. (Plain' <=> Plain) /\ RowRefs' = RowRefs /\ (Simple' <=> Simple)
  BY <1>1, SimpleKept DEF Plain, RowRefs, Kinds, Places, TermAt
<1>3. NothingMissed'
  BY ExecuteMissesNothing
<1>4. PICK b \in Databases :
        /\ db' = Tables(b)
        /\ reply' = IF \E k \in DOMAIN body : ~(TablesOf(body[k]) \subseteq {from} \cup link)
                    THEN "error"
                    ELSE IF \E rows \in [{from} \cup link -> Row] :
                              /\ \A t \in DOMAIN rows : rows[t] \in b[t]
                              /\ \A k \in DOMAIN body : Relation(k, rows)
                         THEN "found" ELSE "nothing"
  BY DEF Execute
<1>5. b \in [Table -> SUBSET Row]
  BY QueriesAssumption
<1>6. ASSUME Plain, Simple, reply' = "found"
      PROVE  Holds'
  <2>1. \A k \in DOMAIN body : TablesOf(body[k]) \subseteq {from} \cup link
    BY <1>4, <1>6
  <2>2. PICK rows \in [{from} \cup link -> Row] :
          /\ \A t \in DOMAIN rows : rows[t] \in b[t]
          /\ \A k \in DOMAIN body : Relation(k, rows)
    BY <1>4, <1>6, <2>1
  <2>3. \A t \in {from} \cup link : rows[t] \in b[t]
    BY <2>2
  <2>4. \E rho \in [{r.iter : r \in RowRefs} -> Row], loc \in [LocalVar -> Value] :
          /\ \A r \in RowRefs : rho[r.iter] \in b[r.table]
          /\ \A k \in DOMAIN query : query[k].negated # Truth(query[k].call, rho, loc)
    BY <1>1, <1>5, <1>6, <2>1, <2>2, <2>3, CountedHolds
  <2>5. PICK rho, loc :
          /\ rho \in [{r.iter : r \in RowRefs} -> Row] /\ loc \in [LocalVar -> Value]
          /\ \A r \in RowRefs : rho[r.iter] \in b[r.table]
          /\ \A k \in DOMAIN query : query[k].negated # Truth(query[k].call, rho, loc)
    BY <2>4, Zenon
  <2>6. ASSUME NEW k \in DOMAIN query
        PROVE  (query[k].negated # Truth(query[k].call, rho, loc))'
    <3>1. Truth(query[k].call, rho, loc)' = Truth(query[k].call, rho, loc)
      BY <1>1 DEF Truth, Meaning
    <3>2. query[k].negated # Truth(query[k].call, rho, loc) /\ query'[k].negated = query[k].negated
      BY <1>1, <2>5
    <3>3. QED
      BY <3>1, <3>2
  <2>7. PICK d : d = [coll |-> None, rows |-> b]
    OBVIOUS
  <2>8. d \in db' /\ d.rows = b /\ DOMAIN query' = DOMAIN query
    BY <1>1, <1>4, <2>7 DEF Tables
  <2>9. \A r \in RowRefs : rho[r.iter] \in d.rows[r.table]
    BY <2>5, <2>8
  <2>10. QED
    BY <1>2, <2>5, <2>6, <2>8, <2>9, Zenon DEF Holds
<1>7. QED
  BY <1>1, <1>2, <1>3, <1>6 DEF AnswersQuery, NothingMissed, Answered

(* Only executing a statement answers, of a database.                       *)
LEMMA StatementsKept ==
  ASSUME IInv, Rest, Meant, Comes, Ready, AnswersQuery, NothingMissed, [Next]_vars
  PROVE  AnswersQuery' /\ NothingMissed'
<1>1. CASE Execute
  BY <1>1, ExecuteAnswers
<1>2. CASE TransformRef \/ SubstituteVars \/ Process \/ Translate \/ CountDocuments
  <2>1. pc # "done" /\ reply = "none"
    BY <1>2 DEF TransformRef, SubstituteVars, Process, Translate, CountDocuments, IInv, Shape
  <2>2. CASE CountDocuments
    BY <2>2 DEF CountDocuments, inputVars, AnswersQuery, NothingMissed
  <2>3. CASE TransformRef \/ SubstituteVars \/ Process \/ Translate
    <3>1. reply' \in {reply, "error", "panic"}
      BY <2>3 DEF TransformRef, SubstituteVars, Process, Translate, Advance, Rewrite, Refuse
    <3>2. QED
      BY <2>1, <3>1 DEF AnswersQuery, NothingMissed, Answered
  <2>4. QED
    BY <1>2, <2>2, <2>3
<1>3. CASE UNCHANGED vars
  <2>1. UNCHANGED <<query, platform, reply, db>>
    BY <1>3 DEF vars, inputVars, preVars, sqlVars
  <2>2. (Plain' <=> Plain) /\ RowRefs' = RowRefs /\ (Simple' <=> Simple)
    BY <2>1, SimpleKept DEF Plain, RowRefs, Kinds, Places, TermAt
  <2>3. \A k, rho, loc : Truth(query[k].call, rho, loc)' = Truth(query[k].call, rho, loc)
    BY <2>1 DEF Truth, Meaning
  <2>4. Holds' <=> Holds
    BY <2>1, <2>2, <2>3 DEF Holds
  <2>5. QED
    BY <2>1, <2>2, <2>4 DEF AnswersQuery, NothingMissed, Answered
<1>4. QED
  BY <1>1, <1>2, <1>3 DEF Next

(* At first, nothing is stated.                                             *)
LEMMA ReadyAtFirst ==
  ASSUME Init
  PROVE  Rest /\ Ready /\ AnswersQuery /\ NothingMissed
BY DEF Init, Rest, Ready, Composable, Joined, Translatable, AnswersQuery, NothingMissed, Answered

(* Answers stay those of the query.                                         *)
LEMMA StatementsAnswered == Spec => [](AnswersQuery /\ NothingMissed)
<1>1. Init => Rest /\ Ready /\ AnswersQuery /\ NothingMissed
  BY ReadyAtFirst
<1>2. Init /\ IInv => Meant /\ Comes
  BY MeantAtFirst, ComesAtFirst
<1>3. IInv /\ Rest /\ Meant /\ Comes /\ Ready /\ AnswersQuery /\ NothingMissed /\ IInv' /\ [Next]_vars
        => Rest' /\ Meant' /\ Comes' /\ Ready' /\ AnswersQuery' /\ NothingMissed'
  BY RestKept, MeantKept, ComesKept, ReadyKept, StatementsKept
<1>4. QED
  BY <1>1, <1>2, <1>3, PreprocessingInductive, PTL DEF Spec

(* A statement counts rows of a plain and simple query exactly when there   *)
(* are rows of which the query is true, whatever the queries, the schemas   *)
(* and the contents of the tables: neither what the preprocessor rewrites   *)
(* and the processor leaves out, nor the order of operands and placeholders *)
(* loses or adds any (sql-datastore-translator.go).                         *)
THEOREM StatementsAlwaysAnswer == Spec => []AnswersQuery
BY StatementsAnswered, PTL

(* And of every plain query, also of one that shares iterators or declares  *)
(* a variable again, it misses no rows.                                     *)
THEOREM StatementsMissNothing == Spec => []NothingMissed
BY StatementsAnswered, PTL
=============================================================================
