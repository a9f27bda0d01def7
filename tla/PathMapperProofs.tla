-------------------------- MODULE PathMapperProofs --------------------------
(***************************************************************************)
(* Proofs about PathMapper, for any mappings, methods and paths.           *)
(***************************************************************************)
EXTENDS PathMapper, FiniteSetTheorems, TLAPS

(* Requests are answered once all of the file is compiled.                  *)
Complete == main = "serving" => mappings = file
Answered == main # "serving" => reply = "none"

IInv == TypeOK /\ Complete /\ Answered /\ OneMostImportant /\ DescribedIsFound

-----------------------------------------------------------------------------
(* Importances are numbers: of two, one is not the smaller.                 *)
LEMMA ImportanceNat == \A m \in Mapping : Importance(m) \in Nat
<1> SUFFICES ASSUME NEW m \in Mapping PROVE Importance(m) \in Nat
  OBVIOUS
<1>1. Cardinality(Queries[m]) \in Nat /\ Cardinality(Methods[m]) \in Nat
  BY FS_CardinalityType, MapperAssumption
<1>2. Length[m] \in Nat BY MapperAssumption
<1> QED BY <1>1, <1>2 DEF Importance

(* The class of characters admits each of the methods it is made of, so     *)
(* that a mapping without queries matches all it describes.                 *)
LEMMA DescribedMatches ==
  ASSUME NEW m \in Mapping, NEW r \in Request, Queries[m] = {}, Describes(m, r)
  PROVE  Matches(m, r)
<1>1. r.method \in Method /\ r.path \in Path BY DEF Request
<1>2. Last[r.method] \in Letters[r.method] BY <1>1, MapperAssumption
<1>3. Last[r.method] \in Class(m) BY <1>2 DEF Class, Describes
<1> QED BY <1>3 DEF Matches, Describes

-----------------------------------------------------------------------------
(* The inductive invariant: the answer refers to the whole file.            *)
THEOREM MapperInductive == Spec => []IInv
<1>1. Init => IInv
  <2> SUFFICES ASSUME Init PROVE IInv
    OBVIOUS
  <2>1. Request # {}
    <3>1. PICK p \in Path : TRUE BY MapperAssumption
    <3>2. "GET" \in Method BY MapperAssumption DEF AllMethods
    <3>3. [method |-> "GET", path |-> p, query |-> {}] \in Request
      BY <3>1, <3>2 DEF Request
    <3> QED BY <3>3
  <2>2. request \in Request BY <2>1 DEF Init
  <2>3. reply = "none" /\ reply \notin Mapping BY MapperAssumption DEF Init, NoMapping
  <2> QED BY <2>2, <2>3 DEF Init, IInv, TypeOK, Complete, Answered, OneMostImportant, DescribedIsFound, NoMapping
<1>2. IInv /\ [Next]_vars => IInv'
  <2> SUFFICES ASSUME IInv, [Next]_vars PROVE IInv'
    OBVIOUS
  <2>0. \A x \in NoMapping : x \notin Mapping BY MapperAssumption
  <2>1. CASE \E m \in Mapping : Generate(m)
    <3>1. PICK m \in Mapping : Generate(m) BY <2>1
    <3>2. reply = "none" /\ reply' = "none" /\ main' # "serving"
      BY <3>1 DEF Generate, IInv, Answered
    <3>3. TypeOK' BY <3>1, <3>2 DEF Generate, IInv, TypeOK, NoMapping
    <3> QED BY <2>0, <3>2, <3>3 DEF IInv, Complete, Answered, OneMostImportant, DescribedIsFound, NoMapping
  <2>2. CASE Serve
    <3>1. reply' = "none" BY <2>2 DEF Serve, IInv, Answered
    <3>2. TypeOK' /\ Complete' /\ Answered'
      BY <2>2, <3>1 DEF Serve, IInv, TypeOK, Complete, Answered
    <3> QED BY <2>0, <3>1, <3>2 DEF IInv, OneMostImportant, DescribedIsFound, NoMapping
  <2>3. CASE \E r \in Request : Receive(r)
    <3>1. PICK r \in Request : Receive(r) BY <2>3
    <3>2. reply' = "waiting" /\ main' = "serving" BY <3>1 DEF Receive
    <3>3. TypeOK' /\ Complete' /\ Answered'
      BY <3>1, <3>2 DEF Receive, IInv, TypeOK, Complete, Answered, NoMapping
    <3> QED BY <2>0, <3>2, <3>3 DEF IInv, OneMostImportant, DescribedIsFound, NoMapping
  <2>4. CASE HandleInput
    <3>1. main = "serving" /\ mappings = file /\ UNCHANGED <<file, main, mappings, request>>
      BY <2>4 DEF HandleInput, IInv, Complete
    <3>2. file \subseteq Mapping /\ request \in Request BY DEF IInv, TypeOK
    <3>3. CASE Found(request) = {} /\ reply' = "notFound"
      <4>1. TypeOK' /\ Complete' /\ Answered'
        BY <3>1, <3>3 DEF IInv, TypeOK, Complete, Answered, NoMapping
      <4>2. OneMostImportant' BY <2>0, <3>3 DEF OneMostImportant, NoMapping
      <4>3. DescribedIsFound'
        BY <3>1, <3>2, <3>3, DescribedMatches DEF DescribedIsFound, Found, Describes
      <4> QED BY <4>1, <4>2, <4>3 DEF IInv
    <3>4. CASE \E first \in Found(request) :
                 /\ \A m \in Found(request) : Importance(first) >= Importance(m)
                 /\ reply' = IF \E m \in Found(request) \ {first} : Importance(m) = Importance(first)
                             THEN "ambiguous" ELSE first
      <4>1. PICK first \in Found(request) :
              /\ \A m \in Found(request) : Importance(first) >= Importance(m)
              /\ reply' = IF \E m \in Found(request) \ {first} : Importance(m) = Importance(first)
                          THEN "ambiguous" ELSE first
        BY <3>4
      <4>2. first \in mappings /\ first \in Mapping BY <3>1, <3>2 DEF Found
      <4>3. TypeOK' /\ Complete' /\ Answered'
        BY <3>1, <4>1, <4>2 DEF IInv, TypeOK, Complete, Answered, NoMapping
      <4>4. DescribedIsFound'
        BY <2>0, <4>1, <4>2 DEF DescribedIsFound, NoMapping
      <4>5. CASE reply' = "ambiguous"
        BY <2>0, <4>3, <4>4, <4>5 DEF IInv, OneMostImportant, NoMapping
      <4>6. CASE reply' = first /\ ~\E m \in Found(request) \ {first} : Importance(m) = Importance(first)
        <5> SUFFICES ASSUME NEW m \in file \ {first}, Matches(m, request)
                     PROVE  Importance(m) < Importance(first)
          BY <3>1, <4>3, <4>4, <4>6 DEF IInv, OneMostImportant, Matches, Importance
        <5>1. m \in Found(request) \ {first} BY <3>1 DEF Found
        <5>2. Importance(first) >= Importance(m) /\ Importance(m) # Importance(first)
          BY <4>1, <4>6, <5>1
        <5>3. Importance(m) \in Nat /\ Importance(first) \in Nat
          BY <3>2, <4>2, ImportanceNat
        <5> QED BY <5>2, <5>3
      <4> QED BY <4>1, <4>5, <4>6
    <3> QED BY <2>4, <3>3, <3>4 DEF HandleInput
  <2>5. CASE UNCHANGED vars
    BY <2>5 DEF vars, IInv, TypeOK, Complete, Answered, OneMostImportant, DescribedIsFound,
                Matches, Describes, Class, Limit, Importance
  <2> QED BY <2>1, <2>2, <2>3, <2>4, <2>5 DEF Next
<1> QED BY <1>1, <1>2, PTL DEF Spec

(* Type correctness: nothing is compiled that is not in the file.           *)
THEOREM MapperTypes == Spec => []TypeOK
<1>1. IInv => TypeOK BY DEF IInv
<1> QED BY <1>1, MapperInductive, PTL

(* A mapping is given only to a request of which it is the most important,  *)
(* for any file and whatever order the sort leaves.                         *)
THEOREM MostImportantGiven == Spec => []OneMostImportant
<1>1. IInv => OneMostImportant BY DEF IInv
<1> QED BY <1>1, MapperInductive, PTL

(* What the file describes without queries is never unknown.                *)
THEOREM DescribedNotLost == Spec => []DescribedIsFound
<1>1. IInv => DescribedIsFound BY DEF IInv
<1> QED BY <1>1, MapperInductive, PTL
=============================================================================
