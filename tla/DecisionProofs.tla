--------------------------- MODULE DecisionProofs ---------------------------
(***************************************************************************)
(* Proofs about Decision: types, that allowing and forbidding are          *)
(* justified by what was there while the request lasted, and that a        *)
(* request during which nothing changes gets the answer to expect.         *)
(***************************************************************************)
EXTENDS Decision, TLAPS

(* The history of a request contains the world as it is.                    *)
Lived ==
  During => /\ policy \in policies
            /\ Finding(rows, "rows") \subseteq yes
            /\ Missing(rows) \subseteq no

Held(r) == Required(r) => \E p \in policies : Could(p, r)

(* Who gets to allow has passed verify.                                     *)
Verified == During /\ rule = "allow" => Held("verify")

(* The queries asked are what some policy of the request left of the rule.  *)
Asking ==
  pc \in {"ask", "wait"} =>
    /\ Required(rule)
    /\ \E p \in policies :
         Residue[p][rule].kind = "queries" /\ Residue[p][rule].asks = asks

(* What queries found was there, and what queries no longer have to be      *)
(* asked found nothing.                                                     *)
Found ==
  /\ pc # "wait" => found = Unasked
  /\ pc \in {"ask", "wait"} =>
       \A q \in Query :
         /\ found[q] # "unasked" => q \in asks
         /\ found[q] = "rows" => q \in yes
         /\ found[q] = "nothing" => q \in no
         /\ found[q] \notin {"cut", "unclosed"}
         /\ q \in asks /\ q \notin no => Of[q] \in left \/ found[q] # "unasked"

IInv == /\ TypeOK /\ Lived /\ Verified /\ Asking /\ Found
        /\ AllowsJustified /\ DenialsJustified

-----------------------------------------------------------------------------
LEMMA TypeStep == TypeOK /\ [Next]_vars => TypeOK'
<1> SUFFICES ASSUME TypeOK, [Next]_vars PROVE TypeOK'
  OBVIOUS
<1> USE QueryAssumption, MappingAssumption
<1>u. Unasked \in [Query -> Finds \cup {"unasked", "running"}] BY DEF Unasked
<1>a. ASSUME NEW s \in Status, Answer(s), UNCHANGED <<worldVars, historyVars>> PROVE TypeOK'
  BY <1>a, <1>u DEF Answer, TypeOK, worldVars, historyVars
<1>c. ASSUME NEW b \in BOOLEAN, Conclude(b), UNCHANGED <<worldVars, historyVars>> PROVE TypeOK'
  <2>1. CASE Answer("200") BY <2>1, <1>c, <1>a DEF Status
  <2>2. CASE Answer("401") BY <2>2, <1>c, <1>a DEF Status
  <2>3. CASE Answer("403") BY <2>3, <1>c, <1>a DEF Status
  <2>4. CASE /\ rule' = "allow" /\ pc' = "evaluate"
             /\ asks' = {} /\ left' = {} /\ found' = Unasked
             /\ UNCHANGED <<front, mapping, reply>>
    BY <2>4, <1>c, <1>u DEF TypeOK, worldVars, historyVars, Rule
  <2> QED BY <1>c, <2>1, <2>2, <2>3, <2>4 DEF Conclude
<1>1. CASE Receive
  BY <1>1 DEF Receive, Begins, TypeOK, worldVars, Finding, Missing, Rule, Status
<1>2. CASE Check
  BY <1>2 DEF Check, Begins, TypeOK, worldVars, Finding, Missing, Status
<1>3. CASE EvalFunction
  <2>w. UNCHANGED <<worldVars, historyVars>> BY <1>3 DEF EvalFunction
  <2>1. CASE Conclude(FALSE) BY <2>1, <2>w, <1>c
  <2>2. CASE Conclude(TRUE) BY <2>2, <2>w, <1>c
  <2>3. CASE Answer("500") BY <2>3, <2>w, <1>a DEF Status
  <2>4. CASE Answer("401") BY <2>4, <2>w, <1>a DEF Status
  <2>5. CASE Answer("dropped") BY <2>5, <2>w, <1>a DEF Status
  <2>6. CASE /\ pc' = "ask" /\ asks' = Left.asks /\ left' = {Of[q] : q \in Left.asks}
             /\ UNCHANGED <<front, mapping, rule, found, reply>>
    <3>1. Left.asks \subseteq Query BY ResidueAssumption DEF TypeOK, Left
    <3> QED BY <2>6, <2>w, <3>1 DEF TypeOK, worldVars, historyVars
  <2> QED BY <1>3, <2>1, <2>2, <2>3, <2>4, <2>5, <2>6 DEF EvalFunction
<1>4. CASE Skip BY <1>4, <1>c DEF Skip
<1>5. CASE Decide
  <2>w. UNCHANGED <<worldVars, historyVars>> BY <1>5 DEF Decide
  <2>1. CASE Answer("500") BY <2>1, <2>w, <1>a DEF Status
  <2>2. CASE Conclude(TRUE) BY <2>2, <2>w, <1>c
  <2>3. CASE /\ pc' = "ask" /\ found' = Unasked
             /\ UNCHANGED <<front, mapping, rule, asks, left, reply>>
    BY <2>3, <2>w, <1>u DEF TypeOK, worldVars, historyVars
  <2> QED BY <1>5, <2>1, <2>2, <2>3 DEF Decide
<1>6. CASE NothingLeft BY <1>6, <1>c DEF NothingLeft
<1>7. CASE Close BY <1>7 DEF Close, TypeOK, worldVars
<1>8. ASSUME NEW d \in Datastore, Ask(d) PROVE TypeOK'
  <2>w. UNCHANGED <<worldVars, historyVars>> BY <1>8 DEF Ask
  <2>1. CASE Answer("dropped") BY <2>1, <2>w, <1>a DEF Status
  <2>2. CASE ~Answer("dropped")
    BY <2>2, <2>w, <1>8 DEF Ask, TypeOK, worldVars, historyVars
  <2> QED BY <2>1, <2>2
<1>9. ASSUME NEW q \in Query, Find(q) PROVE TypeOK'
  <2>w. UNCHANGED <<worldVars, historyVars>> BY <1>9 DEF Find
  <2>1. CASE Answer("fatal") \/ Answer("dropped") BY <2>1, <2>w, <1>a DEF Status
  <2>2. CASE /\ found' = [found EXCEPT ![q] = Read(rows[q])]
             /\ UNCHANGED <<front, pc, mapping, rule, asks, left, reply>>
    <3>1. Read(rows[q]) \in Finds BY DEF TypeOK, World, Read, Finds
    <3> QED BY <2>2, <2>w, <3>1 DEF TypeOK, worldVars, historyVars
  <2> QED BY <1>9, <2>1, <2>2 DEF Find
<1>10. CASE Reload
  <2>1. steady' \in BOOLEAN BY <1>10 DEF Reload
  <2>2. policies' \subseteq Policy /\ policy' \in Policy BY <1>10 DEF Reload, TypeOK
  <2> QED BY <1>10, <2>1, <2>2 DEF Reload, TypeOK, requestVars
<1>11. CASE Change
  <2>1. steady' \in BOOLEAN BY <1>11 DEF Change
  <2>2. rows' \in World BY <1>11 DEF Change
  <2>3. yes' \subseteq Query /\ no' \subseteq Query
    BY <1>11 DEF Change, TypeOK, Finding, Missing
  <2> QED BY <1>11, <2>1, <2>2, <2>3 DEF Change, TypeOK, requestVars
<1>12. CASE UNCHANGED vars
  BY <1>12 DEF vars, worldVars, historyVars, requestVars, TypeOK
<1> QED BY <1>1, <1>2, <1>3, <1>4, <1>5, <1>6, <1>7, <1>8, <1>9, <1>10, <1>11, <1>12 DEF Next

(* An answer that neither allows nor forbids needs no reason.               *)
LEMMA AnswerStep ==
  ASSUME IInv, TypeOK', NEW s \in Status, Answer(s), UNCHANGED <<worldVars, historyVars>>,
         s = "200" => \A r \in Rule : Held(r),
         s = "403" => Required("allow") /\ \E p \in policies : CouldNot(p, "allow")
  PROVE  IInv'
<1>1. ~During' /\ pc' = "done" BY DEF Answer, During
<1>2. Lived' /\ Verified' /\ Asking' /\ Found'
  BY <1>1 DEF Lived, Verified, Asking, Found, Answer, Unasked
<1>3. AllowsJustified'
  BY DEF Answer, AllowsJustified, Held, Required, Could, historyVars
<1>4. DenialsJustified'
  BY DEF Answer, DenialsJustified, Required, CouldNot, historyVars
<1> QED BY <1>2, <1>3, <1>4 DEF IInv

(* A rule that holds, or is refuted, for a reason leads on, or to an answer *)
(* with that reason.                                                        *)
LEMMA ConcludeStep ==
  ASSUME IInv, TypeOK', NEW b \in BOOLEAN, Conclude(b), UNCHANGED <<worldVars, historyVars>>,
         During,
         b => Held(rule),
         ~b => Required(rule) /\ \E p \in policies : CouldNot(p, rule)
  PROVE  IInv'
<1>1. CASE b /\ rule = "allow" /\ Answer("200")
  <2>1. Held("verify") /\ Held("allow") BY <1>1 DEF IInv, Verified
  <2>2. \A r \in Rule : Held(r) BY <2>1 DEF Rule
  <2> QED BY <1>1, <2>2, AnswerStep DEF Status
<1>2. CASE ~b /\ rule = "verify" /\ Answer("401")
  BY <1>2, AnswerStep DEF Status
<1>3. CASE ~b /\ rule = "allow" /\ Answer("403")
  BY <1>3, AnswerStep DEF Status
<1>4. CASE /\ b /\ rule = "verify"
           /\ rule' = "allow" /\ pc' = "evaluate"
           /\ asks' = {} /\ left' = {} /\ found' = Unasked
           /\ UNCHANGED <<front, mapping, reply>>
  <2>1. Lived' BY <1>4 DEF IInv, Lived, During, historyVars, worldVars
  <2>2. Verified' BY <1>4 DEF Verified, Held, Required, Could, historyVars
  <2>3. Asking' /\ Found' BY <1>4 DEF Asking, Found, Unasked
  <2>4. AllowsJustified' BY <1>4 DEF IInv, AllowsJustified, Required, Could, historyVars
  <2>5. DenialsJustified' BY <1>4 DEF IInv, DenialsJustified, Required, CouldNot, historyVars
  <2> QED BY <2>1, <2>2, <2>3, <2>4, <2>5 DEF IInv
<1> QED BY <1>1, <1>2, <1>3, <1>4 DEF Conclude

LEMMA EvalStep ==
  ASSUME IInv, TypeOK', EvalFunction \/ Skip
  PROVE  IInv'
<1>w. UNCHANGED <<worldVars, historyVars>> BY DEF EvalFunction, Skip
<1>d. During BY DEF EvalFunction, Skip, During
<1>p. policy \in policies BY <1>d DEF IInv, Lived
<1>t. policy \in Policy /\ rule \in Rule BY DEF IInv, TypeOK
<1>1. CASE Skip
  BY <1>1, <1>w, <1>d, ConcludeStep DEF Skip, Held
<1>2. CASE EvalFunction /\ Left.kind = "undefined" /\ Conclude(FALSE)
  <2>1. CouldNot(policy, rule) BY <1>2 DEF CouldNot, Left
  <2> QED BY <1>2, <2>1, <1>w, <1>d, <1>p, ConcludeStep DEF EvalFunction
<1>3. CASE Left.kind = "true" /\ Conclude(TRUE)
  <2>1. Could(policy, rule) BY <1>3 DEF Could, Left
  <2> QED BY <1>3, <2>1, <1>w, <1>d, <1>p, ConcludeStep DEF Held
<1>4. CASE Answer("500") \/ Answer("401") \/ Answer("dropped")
  BY <1>4, <1>w, AnswerStep DEF Status
<1>5. CASE /\ EvalFunction /\ Left.kind = "queries"
           /\ pc' = "ask" /\ asks' = Left.asks /\ left' = {Of[q] : q \in Left.asks}
           /\ UNCHANGED <<front, mapping, rule, found, reply>>
  <2> USE <1>w, <1>5 DEF worldVars, historyVars
  <2>1. Lived' BY <1>d DEF IInv, Lived, During
  <2>2. Verified' BY <1>d DEF IInv, Verified, Held, Required, Could, During
  <2>3. Asking' BY <1>p DEF Asking, EvalFunction, Required, Left
  <2>4. Found'
    <3>1. found' = Unasked BY <1>5 DEF IInv, Found, EvalFunction
    <3>2. \A q \in Query : found'[q] = "unasked" BY <3>1 DEF Unasked
    <3>3. \A q \in asks' : Of[q] \in left' OBVIOUS
    <3> QED BY <3>1, <3>2, <3>3 DEF Found, Unasked
  <2>5. AllowsJustified' BY DEF IInv, AllowsJustified, Required, Could
  <2>6. DenialsJustified' BY DEF IInv, DenialsJustified, Required, CouldNot
  <2> QED BY <2>1, <2>2, <2>3, <2>4, <2>5, <2>6 DEF IInv
<1> QED BY <1>1, <1>2, <1>3, <1>4, <1>5 DEF EvalFunction

-----------------------------------------------------------------------------
(* What the steps that leave rule, mapping and history alone preserve.      *)
LEMMA Frame ==
  ASSUME IInv, During, During', UNCHANGED <<worldVars, historyVars, mapping, rule, reply>>
  PROVE  Lived' /\ Verified' /\ AllowsJustified' /\ DenialsJustified'
<1> USE DEF worldVars, historyVars
<1>1. Lived' BY DEF IInv, Lived
<1>2. Verified' BY DEF IInv, Verified, Held, Required, Could
<1>3. AllowsJustified' BY DEF IInv, AllowsJustified, Required, Could
<1>4. DenialsJustified' BY DEF IInv, DenialsJustified, Required, CouldNot
<1> QED BY <1>1, <1>2, <1>3, <1>4

LEMMA AskStep ==
  ASSUME IInv, TypeOK', NEW d \in Datastore, Ask(d)
  PROVE  IInv'
<1>w. UNCHANGED <<worldVars, historyVars>> BY DEF Ask
<1>1. CASE Answer("dropped") BY <1>1, <1>w, AnswerStep DEF Status
<1>2. CASE ~Answer("dropped")
  <2>0. /\ pc = "ask" /\ pc' = "wait" /\ left' = left \ {d}
        /\ found' = [q \in Query |-> IF q \in asks /\ Of[q] = d THEN "running"
                                     ELSE "unasked"]
        /\ UNCHANGED <<front, mapping, rule, asks, reply>>
    BY <1>2 DEF Ask
  <2>1. Lived' /\ Verified' /\ AllowsJustified' /\ DenialsJustified'
    BY <2>0, <1>w, Frame DEF During
  <2>2. Asking' BY <2>0, <1>w DEF IInv, Asking, Required, historyVars
  <2>3. Found'
    <3>1. found = Unasked BY <2>0 DEF IInv, Found
    <3>2. \A q \in asks : q \in Query BY DEF IInv, TypeOK
    <3>3. \A q \in asks : q \notin no => Of[q] \in left
      BY <3>1, <3>2, <2>0 DEF IInv, Found, Unasked
    <3> QED BY <3>3, <2>0, <1>w DEF Found, historyVars
  <2> QED BY <2>1, <2>2, <2>3 DEF IInv
<1> QED BY <1>1, <1>2

LEMMA FindStep ==
  ASSUME IInv, TypeOK', NEW q \in Query, Find(q)
  PROVE  IInv'
<1> USE DEF Find
<1>w. UNCHANGED <<worldVars, historyVars>>
  OBVIOUS
<1>1. CASE Answer("fatal") \/ Answer("dropped")
  BY <1>1, <1>w, AnswerStep DEF Status
<1>2. CASE /\ rows[q] # "unclosed"
           /\ found' = [found EXCEPT ![q] = Read(rows[q])]
           /\ UNCHANGED <<front, pc, mapping, rule, asks, left, reply>>
  <2>1. Lived' /\ Verified' /\ AllowsJustified' /\ DenialsJustified'
    BY <1>2, <1>w, Frame DEF During
  <2>2. Asking' BY <1>2, <1>w DEF IInv, Asking, Required, historyVars
  <2>3. Found'
    <3>1. /\ Read(rows[q]) = "rows" => q \in yes
          /\ Read(rows[q]) = "nothing" => q \in no
          /\ Read(rows[q]) \notin {"unasked", "cut", "unclosed"}
      BY <1>2 DEF IInv, TypeOK, World, Lived, During, Finding, Missing, Read, Finds
    <3>2. found'[q] = Read(rows[q]) /\ \A x \in Query : x # q => found'[x] = found[x]
      BY <1>2 DEF IInv, TypeOK
    <3> QED BY <1>2, <1>w, <3>1, <3>2 DEF IInv, Found, historyVars
  <2> QED BY <2>1, <2>2, <2>3 DEF IInv
<1> QED BY <1>1, <1>2

LEMMA DecideStep ==
  ASSUME IInv, TypeOK', Decide
  PROVE  IInv'
<1>w. UNCHANGED <<worldVars, historyVars>> BY DEF Decide
<1>d. pc = "wait" /\ During BY DEF Decide, Finished, During
<1>r. Finding(found, "running") = {} BY DEF Decide, Finished
<1>1. CASE Answer("500") BY <1>1, <1>w, AnswerStep DEF Status
<1>2. CASE Finding(found, "rows") # {} /\ Conclude(TRUE)
  <2>1. PICK q \in Query : found[q] = "rows" BY <1>2 DEF Finding
  <2>2. q \in asks /\ q \in yes BY <2>1, <1>d DEF IInv, Found
  <2>3. \E p \in policies : Could(p, rule) BY <2>2, <1>d DEF IInv, Asking, Could
  <2> QED BY <1>2, <1>w, <1>d, <2>3, ConcludeStep DEF Held
<1>3. CASE /\ Finding(found, "failure") = {} /\ Finding(found, "rows") = {}
           /\ pc' = "ask" /\ found' = Unasked
           /\ UNCHANGED <<front, mapping, rule, asks, left, reply>>
  <2>1. Lived' /\ Verified' /\ AllowsJustified' /\ DenialsJustified'
    BY <1>3, <1>w, <1>d, Frame DEF During
  <2>2. Asking' BY <1>3, <1>w, <1>d DEF IInv, Asking, Required, historyVars
  <2>3. \A q \in Query : found[q] \in {"nothing", "unasked", "cut", "unclosed"}
    BY <1>3, <1>r DEF Finding, IInv, TypeOK, Finds
  <2>4. \A q \in asks : q \notin no => Of[q] \in left
    BY <2>3, <1>d DEF IInv, TypeOK, Found
  <2>5. Found' BY <2>4, <1>3, <1>w DEF Found, Unasked, historyVars
  <2> QED BY <2>1, <2>2, <2>5 DEF IInv
<1> QED BY <1>1, <1>2, <1>3 DEF Decide

LEMMA NothingLeftStep ==
  ASSUME IInv, TypeOK', NothingLeft
  PROVE  IInv'
<1>w. UNCHANGED <<worldVars, historyVars>> BY DEF NothingLeft
<1>d. pc = "ask" /\ left = {} /\ During BY DEF NothingLeft, During
<1>1. found = Unasked BY <1>d DEF IInv, Found
<1>2. asks \subseteq no BY <1>1, <1>d DEF IInv, TypeOK, Found, Unasked
<1>3. Required(rule) /\ \E p \in policies : CouldNot(p, rule)
  BY <1>2, <1>d DEF IInv, Asking, CouldNot
<1> QED BY <1>3, <1>w, <1>d, ConcludeStep DEF NothingLeft

(* The beginning and the end of a request.                                  *)
LEMMA RequestStep ==
  ASSUME IInv, TypeOK', Receive \/ Check \/ Close
  PROVE  IInv'
<1>0. found' = Unasked BY DEF IInv, Found, Receive, Check, Close
<1>1. CASE Receive
  <2>1. Lived' BY <1>1 DEF Receive, Begins, Lived, worldVars, Finding, Missing
  <2>2. Verified' /\ Asking' /\ AllowsJustified' /\ DenialsJustified'
    BY <1>1 DEF Receive, Verified, Asking, AllowsJustified, DenialsJustified
  <2>3. Found' BY <1>1, <1>0 DEF Receive, Found, Unasked
  <2> QED BY <2>1, <2>2, <2>3 DEF IInv
<1>2. CASE Check \/ Close
  <2>1. Lived' /\ Verified' /\ Asking' /\ AllowsJustified' /\ DenialsJustified'
    BY <1>2 DEF Check, Close, Lived, During, Verified, Asking, AllowsJustified,
                DenialsJustified
  <2>2. Found' BY <1>2, <1>0 DEF Check, Close, Found, Unasked
  <2> QED BY <2>1, <2>2 DEF IInv
<1> QED BY <1>1, <1>2

(* Reloads and changes only add to the history.                             *)
LEMMA WorldStep ==
  ASSUME IInv, TypeOK', Reload \/ Change
  PROVE  IInv'
<1>1. UNCHANGED requestVars /\ policies \subseteq policies'
  BY DEF Reload, Change
<1>2. yes \subseteq yes' /\ no \subseteq no'
  BY DEF Reload, Change
<1>3. Lived'
  <2>1. CASE Reload BY <2>1 DEF Reload, IInv, Lived, requestVars, During, Finding, Missing
  <2>2. CASE Change BY <2>2 DEF Change, IInv, Lived, requestVars, During, Finding, Missing
  <2> QED BY <2>1, <2>2
<1>4. /\ \A p, r : Could(p, r) => Could(p, r)'
      /\ \A p, r : CouldNot(p, r) => CouldNot(p, r)'
  BY <1>2 DEF Could, CouldNot
<1>5. Verified' BY <1>1, <1>4 DEF IInv, Verified, Held, Required, During, requestVars
<1>6. Asking' BY <1>1 DEF IInv, Asking, Required, requestVars
<1>7. Found' BY <1>1, <1>2 DEF IInv, Found, Unasked, requestVars
<1>8. AllowsJustified' BY <1>1, <1>4 DEF IInv, AllowsJustified, Required, requestVars
<1>9. DenialsJustified' BY <1>1, <1>4 DEF IInv, DenialsJustified, Required, requestVars
<1> QED BY <1>3, <1>5, <1>6, <1>7, <1>8, <1>9 DEF IInv

-----------------------------------------------------------------------------
(* The inductive invariant of a decision: the history contains the world,   *)
(* allow is only reached past verify, and every query that is not asked any *)
(* more found nothing while the request lasted.                             *)
THEOREM DecisionInductive == Spec => []IInv
<1>1. Init => IInv
  <2> SUFFICES ASSUME Init PROVE IInv
    OBVIOUS
  <2>1. TypeOK
    BY DEF Init, TypeOK, Unasked, Rule
  <2>2. Lived /\ Verified /\ Asking /\ Found /\ AllowsJustified /\ DenialsJustified
    BY DEF Init, Lived, During, Verified, Asking, Found, AllowsJustified, DenialsJustified
  <2> QED BY <2>1, <2>2 DEF IInv
<1>2. IInv /\ [Next]_vars => IInv'
  <2> SUFFICES ASSUME IInv, [Next]_vars PROVE IInv'
    OBVIOUS
  <2>t. TypeOK' BY TypeStep DEF IInv
  <2>1. CASE EvalFunction \/ Skip BY <2>1, <2>t, EvalStep
  <2>2. CASE Receive \/ Check \/ Close BY <2>2, <2>t, RequestStep
  <2>3. CASE Decide BY <2>3, <2>t, DecideStep
  <2>4. CASE NothingLeft BY <2>4, <2>t, NothingLeftStep
  <2>5. CASE \E d \in Datastore : Ask(d) BY <2>5, <2>t, AskStep
  <2>6. CASE \E q \in Query : Find(q) BY <2>6, <2>t, FindStep
  <2>7. CASE Reload \/ Change BY <2>7, <2>t, WorldStep
  <2>8. CASE UNCHANGED vars
    BY <2>8, <2>t DEF vars, worldVars, historyVars, requestVars, IInv, Lived, During,
       Verified, Held, Required, Could, CouldNot, Asking, Found, Unasked,
       AllowsJustified, DenialsJustified
  <2> QED BY <2>1, <2>2, <2>3, <2>4, <2>5, <2>6, <2>7, <2>8 DEF Next
<1> QED BY <1>1, <1>2, PTL DEF Spec

(* Type correctness, for any policies, mappings, datastores and queries.    *)
THEOREM DecisionTypes == Spec => []TypeOK
<1>1. IInv => TypeOK BY DEF IInv
<1> QED BY <1>1, DecisionInductive, PTL

(* Nothing is allowed without every required rule having held while the     *)
(* request lasted.                                                          *)
THEOREM AllowsAreJustified == Spec => []AllowsJustified
<1>1. IInv => AllowsJustified BY DEF IInv
<1> QED BY <1>1, DecisionInductive, PTL

(* Nothing is forbidden because of a datastore that refused its query or    *)
(* was not asked: each query of the rule found nothing, or was cut off      *)
(* while its rows were fetched, which the code takes for the same.          *)
THEOREM DenialsAreJustified == Spec => []DenialsJustified
<1>1. IInv => DenialsJustified BY DEF IInv
<1> QED BY <1>1, DecisionInductive, PTL

-----------------------------------------------------------------------------
(* Steady answers.  A rule that was found to hold still holds, the queries  *)
(* asked are those the policies call for, and what they have found is there:*)
(* nothing has changed since the request came.                              *)
RuleHolds(r) ==
  LET residue == Residue[policy][r]
  IN \/ ~Required(r)
     \/ residue.kind = "true"
     \/ residue.kind = "queries" /\ \E q \in residue.asks : Says(Of[q], residue.asks) = "holds"

(* A query that ends without hiding what it found, and finds nothing.       *)
Seen(q)    == q \notin Invalid /\ rows[q] # "unclosed"
Nothing(q) == Seen(q) /\ Read(rows[q]) = "nothing" /\ Of[q] \notin Broken

AskedOf(d) == \A q \in Query : found[q] # "unasked" <=> q \in asks /\ Of[q] = d

Pursuing ==
  /\ Required(rule)
  /\ Residue[policy][rule].kind = "queries" /\ asks = Residue[policy][rule].asks
  /\ left \subseteq {Of[q] : q \in asks}
  /\ \A q \in asks : \/ Of[q] \in left \/ found[q] # "unasked"
                     \/ Nothing(q)
  /\ \A q \in Query : found[q] \in Finds => found[q] = Read(rows[q]) /\ Seen(q)
  /\ pc = "wait" => \E d \in Datastore \ Broken : AskedOf(d)

Standing ==
  steady /\ During => /\ rule = "allow" => RuleHolds("verify")
                      /\ pc \in {"ask", "wait"} => Pursuing

SteadyInv == IInv /\ Standing

(* What the queries of a datastore say, in terms of what they find.         *)
LEMMA SaysWhat ==
  ASSUME NEW d, NEW qs, NEW q \in qs, Of[q] = d
  PROVE  /\ d \in Broken => Says(d, qs) = "dropped"
         /\ d \notin Broken /\ q \in Invalid => Says(d, qs) = "fatal"
         /\ d \notin Broken /\ (\A x \in qs : Of[x] = d => x \notin Invalid)
              /\ rows[q] = "unclosed" => Says(d, qs) = "dropped"
         /\ d \notin Broken /\ (\A x \in qs : Of[x] = d => Seen(x))
              /\ rows[q] = "failure" => Says(d, qs) = "500"
         /\ d \notin Broken /\ rows[q] = "rows"
              /\ (\A x \in qs : Of[x] = d => Seen(x) /\ rows[x] # "failure")
              => Says(d, qs) = "holds"
         /\ d \notin Broken /\ (\A x \in qs : Of[x] = d => Nothing(x))
              => Says(d, qs) = "fails"
<1> DEFINE of == {x \in qs : Of[x] = d}
<1>1. Says(d, qs) = IF d \in Broken THEN "dropped"
                    ELSE IF of \cap Invalid # {} THEN "fatal"
                    ELSE IF \E x \in of : rows[x] = "unclosed" THEN "dropped"
                    ELSE IF \E x \in of : rows[x] = "failure" THEN "500"
                    ELSE IF \E x \in of : rows[x] = "rows" THEN "holds" ELSE "fails"
  BY DEF Says
<1>2. QED
  BY <1>1 DEF Seen, Nothing, Read

(* What a rule may come to.                                                 *)
LEMMA VerdictOf ==
  ASSUME TypeOK, NEW r \in Rule
  PROVE  LET residue == Residue[policy][r]
         IN /\ ~Required(r) \/ residue.kind = "true" => "holds" \in Verdicts(r)
            /\ Required(r) /\ residue.kind = "undefined" => "fails" \in Verdicts(r)
            /\ Required(r) /\ residue.kind = "error" => "500" \in Verdicts(r)
            /\ Required(r) /\ residue.kind = "untranslatable" => "401" \in Verdicts(r)
            /\ Required(r) /\ residue.kind = "panic" => "dropped" \in Verdicts(r)
  BY DEF Verdicts

(* What a rule may come to whose queries are asked.                         *)
LEMMA AskedVerdict ==
  ASSUME TypeOK, NEW r \in Rule, Required(r), Residue[policy][r].kind = "queries"
  PROVE  LET qs == Residue[policy][r].asks
         IN /\ \A q \in qs : Says(Of[q], qs) # "fails" => Says(Of[q], qs) \in Verdicts(r)
            /\ (\A q \in qs : Says(Of[q], qs) = "fails") => "fails" \in Verdicts(r)
<1> DEFINE qs == Residue[policy][r].asks
           all == {Says(Of[q], qs) : q \in qs}
<1>1. Verdicts(r) = IF all = {"fails"} THEN all ELSE all \ {"fails"}
  BY DEF Verdicts
<1>2. qs # {}
  BY ResidueAssumption DEF TypeOK
<1>3. ASSUME NEW q \in qs, Says(Of[q], qs) # "fails"
      PROVE  Says(Of[q], qs) \in Verdicts(r)
  BY <1>1, <1>3
<1>4. ASSUME \A q \in qs : Says(Of[q], qs) = "fails"
      PROVE  "fails" \in Verdicts(r)
  <2>1. all = {"fails"}
    BY <1>2, <1>4
  <2> HIDE DEF all
  <2>2. QED
    BY <1>1, <2>1
<1>5. QED
  BY <1>3, <1>4

(* A rule that holds may come to nothing worse.                             *)
LEMMA HoldsVerdict ==
  ASSUME TypeOK, NEW r \in Rule, RuleHolds(r)
  PROVE  "holds" \in Verdicts(r)
<1>1. CASE ~Required(r) \/ Residue[policy][r].kind = "true"
  BY <1>1, VerdictOf
<1>2. CASE Required(r) /\ Residue[policy][r].kind = "queries"
  BY <1>1, <1>2, AskedVerdict DEF RuleHolds
<1>3. QED
  BY <1>1, <1>2 DEF RuleHolds

(* A verdict on the rule being evaluated is an answer to expect.            *)
LEMMA ExpectedOf ==
  ASSUME TypeOK, rule = "allow" => RuleHolds("verify"),
         NEW v \in Verdicts(rule), v # "holds" \/ rule = "allow"
  PROVE  (IF v = "fails" THEN (IF rule = "verify" THEN "401" ELSE "403")
          ELSE IF v = "holds" THEN "200" ELSE v) \in Expected
<1>1. rule \in {"verify", "allow"} /\ "verify" \in Rule
  BY DEF TypeOK, Rule
<1>2. CASE rule = "verify"
  BY <1>2 DEF Expected
<1>3. CASE rule = "allow"
  <2>1. "holds" \in Verdicts("verify")
    BY <1>1, <1>3, HoldsVerdict
  <2>2. QED
    BY <1>3, <2>1 DEF Expected
<1>4. QED
  BY <1>1, <1>2, <1>3

(* The answers that a step of a steady request may give.                    *)
LEMMA AnswersExpected ==
  ASSUME TypeOK, rule = "allow" => RuleHolds("verify"),
         NEW v \in Verdicts(rule)
  PROVE  /\ v \notin {"holds", "fails"} => v \in Expected
         /\ v = "holds" /\ Conclude(TRUE) /\ pc' = "done" => reply' \in Expected
         /\ v = "fails" /\ Conclude(FALSE) => reply' \in Expected
<1>1. CASE v = "fails"
  BY <1>1, ExpectedOf DEF Conclude, Answer
<1>2. CASE v = "holds"
  BY <1>2, ExpectedOf DEF Conclude, Answer
<1>3. CASE v \notin {"holds", "fails"}
  BY <1>3, ExpectedOf
<1>4. QED
  BY <1>1, <1>2, <1>3

(* What a step of a steady request must do.                                 *)
Stands == Standing' /\ (pc' = "done" => reply' \in Expected)

(* A step that ends the request with an answer that a rule may come to.     *)
LEMMA EndStands ==
  ASSUME SteadyInv, steady, During, NEW s \in Status, Answer(s),
         s \in Verdicts(rule)
  PROVE  Stands
<1>1. s \in Expected
  BY AnswersExpected DEF SteadyInv, IInv, Standing, Status
<1>2. QED
  BY <1>1 DEF Stands, Standing, During, Answer

(* A step that finds that the rule holds.                                   *)
LEMMA HoldStands ==
  ASSUME SteadyInv, steady, During, Conclude(TRUE), UNCHANGED <<worldVars, historyVars>>,
         RuleHolds(rule)
  PROVE  Stands
<1>1. rule \in Rule /\ "holds" \in Verdicts(rule)
  BY HoldsVerdict DEF SteadyInv, IInv, TypeOK
<1>2. pc' = "done" => reply' \in Expected
  BY <1>1, AnswersExpected DEF SteadyInv, IInv, Standing
<1>3. CASE Answer("200")
  BY <1>2, <1>3 DEF Stands, Standing, During, Answer
<1>4. CASE /\ rule = "verify" /\ rule' = "allow" /\ pc' = "evaluate"
           /\ UNCHANGED mapping
  <2>1. RuleHolds("verify")'
    BY <1>4 DEF RuleHolds, Required, Says, worldVars
  <2>2. QED
    BY <1>2, <1>4, <2>1 DEF Stands, Standing
<1>5. QED
  BY <1>3, <1>4 DEF Conclude

(* A step that finds that it does not.                                      *)
LEMMA FailStands ==
  ASSUME SteadyInv, steady, During, Conclude(FALSE), "fails" \in Verdicts(rule)
  PROVE  Stands
<1>1. reply' \in Expected
  BY AnswersExpected DEF SteadyInv, IInv, Standing
<1>2. QED
  BY <1>1 DEF Stands, Standing, During, Conclude, Answer

(* Partial evaluation ends, refutes or pursues the rule.                    *)
LEMMA EvalStands ==
  ASSUME SteadyInv, IInv', steady, EvalFunction \/ Skip
  PROVE  Stands
<1>w. UNCHANGED <<worldVars, historyVars>> BY DEF EvalFunction, Skip
<1>d. During BY DEF EvalFunction, Skip, During
<1>t. TypeOK /\ rule \in Rule BY DEF SteadyInv, IInv, TypeOK
<1>1. CASE Skip
  BY <1>1, <1>w, <1>d, HoldStands DEF Skip, RuleHolds
<1>2. CASE EvalFunction /\ Left.kind = "true" /\ Conclude(TRUE)
  BY <1>2, <1>w, <1>d, HoldStands DEF RuleHolds, Left
<1>3. CASE EvalFunction /\ Left.kind = "undefined" /\ Conclude(FALSE)
  BY <1>3, <1>d, <1>t, VerdictOf, FailStands DEF EvalFunction, Left
<1>4. CASE EvalFunction /\ Left.kind = "error" /\ Answer("500")
  BY <1>4, <1>d, <1>t, VerdictOf, EndStands DEF EvalFunction, Left, Status
<1>5. CASE EvalFunction /\ Left.kind = "untranslatable" /\ Answer("401")
  BY <1>5, <1>d, <1>t, VerdictOf, EndStands DEF EvalFunction, Left, Status
<1>6. CASE EvalFunction /\ Left.kind = "panic" /\ Answer("dropped")
  BY <1>6, <1>d, <1>t, VerdictOf, EndStands DEF EvalFunction, Left, Status
<1>7. CASE /\ EvalFunction /\ Left.kind = "queries"
           /\ pc' = "ask" /\ asks' = Left.asks /\ left' = {Of[q] : q \in Left.asks}
           /\ UNCHANGED <<front, mapping, rule, found, reply>>
  <2>1. rule = "allow" => RuleHolds("verify")'
    BY <1>7, <1>w, <1>d DEF SteadyInv, Standing, RuleHolds, Required, Says, worldVars
  <2>2. found' = Unasked
    BY <1>7 DEF SteadyInv, IInv, Found, EvalFunction
  <2>3. Pursuing'
    BY <1>7, <1>w, <2>2 DEF Pursuing, EvalFunction, Required, Left, worldVars,
       Unasked, Finds
  <2>4. QED
    BY <1>7, <2>1, <2>3 DEF Stands, Standing
<1>8. QED
  BY <1>1, <1>2, <1>3, <1>4, <1>5, <1>6, <1>7 DEF EvalFunction

(* Asking a datastore answers for a broken one, else runs its queries.      *)
LEMMA AskStands ==
  ASSUME SteadyInv, IInv', steady, NEW d \in Datastore, Ask(d)
  PROVE  Stands
<1>w. UNCHANGED <<worldVars, historyVars>> BY DEF Ask
<1>d. pc = "ask" /\ During BY DEF Ask, During
<1>t. TypeOK /\ rule \in Rule BY DEF SteadyInv, IInv, TypeOK
<1>p. Pursuing BY <1>d DEF SteadyInv, Standing
<1>1. CASE d \in Broken /\ Answer("dropped")
  <2>1. PICK q \in asks : Of[q] = d
    BY <1>p DEF Ask, Pursuing
  <2>2. Says(Of[q], asks) = "dropped"
    BY <1>1, <2>1, SaysWhat
  <2>3. "dropped" \in Verdicts(rule)
    BY <1>t, <1>p, <2>2, AskedVerdict DEF Pursuing
  <2>4. QED
    BY <1>1, <1>d, <2>3, EndStands DEF Status
<1>2. CASE /\ d \notin Broken
           /\ pc' = "wait" /\ left' = left \ {d}
           /\ found' = [q \in Query |-> IF q \in asks /\ Of[q] = d THEN "running"
                                        ELSE "unasked"]
           /\ UNCHANGED <<front, mapping, rule, asks, reply>>
  <2>1. rule = "allow" => RuleHolds("verify")'
    BY <1>2, <1>w, <1>d DEF SteadyInv, Standing, RuleHolds, Required, Says, worldVars
  <2>2. found = Unasked
    BY <1>d DEF SteadyInv, IInv, Found
  <2>3. AskedOf(d)'
    BY <1>2 DEF AskedOf
  <2>4. \A q \in asks : \/ Of[q] \in left' \/ found'[q] # "unasked"
                        \/ Nothing(q)
    <3>1. asks \subseteq Query
      BY <1>t DEF TypeOK
    <3>2. QED
      BY <1>2, <1>p, <2>2, <3>1 DEF Pursuing, Unasked
  <2>5. \A q \in Query : found'[q] \notin Finds
    BY <1>2 DEF Finds
  <2>6. Pursuing'
    BY <1>2, <1>w, <1>p, <2>3, <2>4, <2>5
    DEF Pursuing, Required, worldVars, Ask, Nothing, Seen
  <2>7. QED
    BY <1>2, <2>1, <2>6 DEF Stands, Standing
<1>3. QED
  BY <1>1, <1>2 DEF Ask

(* A query finds what is there.                                             *)
LEMMA FindStands ==
  ASSUME SteadyInv, IInv', steady, NEW q \in Query, Find(q)
  PROVE  Stands
<1>w. UNCHANGED <<worldVars, historyVars>>
  BY DEF Find
<1>d. pc = "wait" /\ found[q] = "running" /\ During BY DEF Find, During
<1>t. TypeOK /\ rule \in Rule BY DEF SteadyInv, IInv, TypeOK
<1>p. Pursuing BY <1>d DEF SteadyInv, Standing
<1>3. PICK d \in Datastore \ Broken : AskedOf(d)
  BY <1>p, <1>d DEF Pursuing
<1>q. q \in asks /\ Of[q] = d
  BY <1>d, <1>3 DEF AskedOf
<1>1. CASE q \in Invalid /\ Answer("fatal")
  <2>1. Says(Of[q], asks) = "fatal"
    BY <1>1, <1>3, <1>q, SaysWhat
  <2>2. "fatal" \in Verdicts(rule)
    BY <1>t, <1>p, <1>q, <2>1, AskedVerdict DEF Pursuing
  <2>3. QED
    BY <1>1, <1>d, <2>2, EndStands DEF Status
<1>2. CASE rows[q] = "unclosed" /\ Answer("dropped")
  <2>1. Of[q] \in Sql
    BY <1>2, <1>t DEF TypeOK, World
  <2>2. \A x \in asks : Of[x] = d => x \notin Invalid
    BY <1>q, <2>1, QueryAssumption
  <2>3. Says(Of[q], asks) = "dropped"
    BY <1>2, <1>3, <1>q, <2>2, SaysWhat
  <2>4. "dropped" \in Verdicts(rule)
    BY <1>t, <1>p, <1>q, <2>3, AskedVerdict DEF Pursuing
  <2>5. QED
    BY <1>2, <1>d, <2>4, EndStands DEF Status
<1>4. CASE /\ q \notin Invalid /\ rows[q] # "unclosed"
           /\ found' = [found EXCEPT ![q] = Read(rows[q])]
           /\ UNCHANGED <<front, pc, mapping, rule, asks, left, reply>>
  <2>1. rule = "allow" => RuleHolds("verify")'
    BY <1>4, <1>w, <1>d DEF SteadyInv, Standing, RuleHolds, Required, Says, worldVars
  <2>2. /\ found'[q] = Read(rows[q]) /\ Seen(q) /\ Read(rows[q]) # "unasked"
        /\ \A x \in Query : x # q => found'[x] = found[x]
    BY <1>4, <1>t DEF TypeOK, World, Finds, Read, Seen
  <2>3. AskedOf(d)'
    BY <1>4, <1>d, <1>3, <2>2 DEF AskedOf
  <2>4. asks \subseteq Query
    BY <1>t DEF TypeOK
  <2>5. (\A x \in Query : Seen(x) => Seen(x)') /\ (\A x \in Query : Nothing(x) => Nothing(x)')
    BY <1>w DEF Seen, Nothing, worldVars
  <2>6. \A x \in asks : \/ Of[x] \in left' \/ found'[x] # "unasked" \/ Nothing(x)'
    BY <1>4, <1>p, <2>2, <2>4, <2>5 DEF Pursuing
  <2>7. \A x \in Query : found'[x] \in Finds => found'[x] = Read(rows'[x]) /\ Seen(x)'
    BY <1>w, <1>p, <2>2, <2>5 DEF Pursuing, worldVars
  <2>8. Pursuing'
    BY <1>4, <1>w, <1>p, <1>3, <2>3, <2>6, <2>7 DEF Pursuing, Required, worldVars
  <2>9. QED
    BY <1>4, <1>d, <2>1, <2>8 DEF Stands, Standing
<1>5. QED
  BY <1>1, <1>2, <1>4 DEF Find

(* What the queries of a datastore found decides, or leads on.              *)
LEMMA DecideStands ==
  ASSUME SteadyInv, IInv', steady, Decide
  PROVE  Stands
<1>w. UNCHANGED <<worldVars, historyVars>> BY DEF Decide
<1>d. pc = "wait" /\ During BY DEF Decide, Finished, During
<1>t. TypeOK /\ rule \in Rule /\ asks \subseteq Query BY DEF SteadyInv, IInv, TypeOK
<1>p. Pursuing BY <1>d DEF SteadyInv, Standing
<1>q. PICK d \in Datastore \ Broken : AskedOf(d)
  BY <1>p, <1>d DEF Pursuing
<1>r. \A q \in Query : found[q] # "unasked" =>
         /\ q \in asks /\ Of[q] = d
         /\ found[q] = Read(rows[q]) /\ Seen(q)
  BY <1>p, <1>q DEF Pursuing, AskedOf, Decide, Finished, Finding, SteadyInv, IInv, TypeOK
<1>s. \A q \in asks : Of[q] = d => found[q] = Read(rows[q]) /\ Seen(q)
  BY <1>t, <1>q, <1>r DEF AskedOf
<1>f. \A q \in Query : \/ rows[q] \in {"rows", "failure"} /\ Read(rows[q]) = rows[q]
                       \/ rows[q] = "unclosed" \/ Read(rows[q]) = "nothing"
  BY <1>t DEF TypeOK, World, Finds, Read
<1>1. CASE Finding(found, "failure") # {} /\ Answer("500")
  <2>1. PICK q \in Query : found[q] = "failure"
    BY <1>1 DEF Finding
  <2>2. Says(Of[q], asks) = "500"
    <3>1. rows[q] = "failure" /\ q \in asks /\ Of[q] = d
      BY <1>r, <1>f, <2>1 DEF Seen
    <3>2. QED
      BY <1>s, <3>1, SaysWhat
  <2>3. "500" \in Verdicts(rule)
    BY <1>t, <1>p, <1>r, <2>1, <2>2, AskedVerdict DEF Pursuing
  <2>4. QED
    BY <1>1, <1>d, <2>3, EndStands DEF Status
<1>2. CASE Finding(found, "failure") = {} /\ Finding(found, "rows") # {} /\ Conclude(TRUE)
  <2>1. PICK q \in Query : found[q] = "rows"
    BY <1>2 DEF Finding
  <2>2. \A x \in asks : Of[x] = d => rows[x] # "failure"
    BY <1>2, <1>t, <1>s DEF Finding, Read
  <2>3. Says(Of[q], asks) = "holds"
    <3>1. rows[q] = "rows" /\ q \in asks /\ Of[q] = d
      BY <1>r, <1>f, <2>1 DEF Seen
    <3>2. QED
      BY <1>s, <2>2, <3>1, SaysWhat
  <2>4. RuleHolds(rule)
    BY <1>p, <1>r, <2>1, <2>3 DEF RuleHolds, Pursuing
  <2>5. QED
    BY <1>2, <1>w, <1>d, <2>4, HoldStands
<1>3. CASE /\ Finding(found, "failure") = {} /\ Finding(found, "rows") = {}
           /\ pc' = "ask" /\ found' = Unasked
           /\ UNCHANGED <<front, mapping, rule, asks, left, reply>>
  <2>1. rule = "allow" => RuleHolds("verify")'
    BY <1>3, <1>w, <1>d DEF SteadyInv, Standing, RuleHolds, Required, Says, worldVars
  <2>2. \A q \in Query : found[q] # "unasked" => Nothing(q)
    BY <1>3, <1>r, <1>f DEF Finding, Nothing, Seen
  <2>3. \A q \in asks : Of[q] \in left' \/ Nothing(q)'
    BY <1>3, <1>w, <1>t, <1>p, <2>2 DEF Pursuing, worldVars, Nothing, Seen
  <2>4. \A q \in Query : found'[q] = "unasked"
    BY <1>3 DEF Unasked
  <2>5. Pursuing'
    BY <1>3, <1>w, <1>p, <2>3, <2>4 DEF Pursuing, Required, worldVars, Finds
  <2>6. QED
    BY <1>3, <2>1, <2>5 DEF Stands, Standing
<1>4. QED
  BY <1>1, <1>2, <1>3 DEF Decide

(* Every query has found nothing.                                           *)
LEMMA NothingLeftStands ==
  ASSUME SteadyInv, IInv', steady, NothingLeft
  PROVE  Stands
<1>d. pc = "ask" /\ left = {} /\ During BY DEF NothingLeft, During
<1>t. TypeOK /\ rule \in Rule /\ asks \subseteq Query BY DEF SteadyInv, IInv, TypeOK
<1>p. Pursuing BY <1>d DEF SteadyInv, Standing
<1>1. found = Unasked
  BY <1>d DEF SteadyInv, IInv, Found
<1>2. \A q \in asks : Nothing(q) /\ Of[q] \notin Broken
  BY <1>d, <1>t, <1>p, <1>1 DEF Pursuing, Unasked, Nothing
<1>3. \A q \in asks : Says(Of[q], asks) = "fails"
  BY <1>2, SaysWhat
<1>4. "fails" \in Verdicts(rule)
  BY <1>t, <1>p, <1>3, AskedVerdict DEF Pursuing
<1>5. QED
  BY <1>d, <1>4, FailStands DEF NothingLeft

(* The other steps begin or end a request, or make it unsteady.             *)
LEMMA OtherStands ==
  ASSUME SteadyInv, Receive \/ Check \/ Close \/ Reload \/ Change
  PROVE  Standing' /\ (During => pc' # "done")
<1>1. CASE Receive
  BY <1>1 DEF Receive, Standing, During
<1>2. CASE Check \/ Close
  BY <1>2 DEF Check, Close, Standing, During
<1>3. CASE Reload \/ Change
  BY <1>3 DEF Reload, Change, requestVars, Standing, During
<1>4. QED
  BY <1>1, <1>2, <1>3

(* In a world that stands still the answer is the one that policies and     *)
(* rows call for, whatever the order in which the datastores are asked.     *)
THEOREM SteadyAnswered == Spec => SteadyAnswers
<1>1. Init => Standing
  BY DEF Init, Standing, During
<1>2. IInv /\ Standing /\ IInv' /\ [Next]_vars =>
        /\ Standing'
        /\ [pc \notin {"idle", "done"} /\ pc' = "done" /\ steady => reply' \in Expected]_vars
  <2> SUFFICES ASSUME IInv, Standing, IInv', [Next]_vars
               PROVE  /\ Standing'
                      /\ \/ ~(During /\ pc' = "done" /\ steady)
                         \/ reply' \in Expected
                         \/ UNCHANGED vars
    BY DEF During
  <2>i. SteadyInv BY DEF SteadyInv
  <2>1. CASE Receive \/ Check \/ Close \/ Reload \/ Change
    BY <2>i, <2>1, OtherStands
  <2>2. CASE ~steady /\ (EvalFunction \/ Skip \/ Decide \/ NothingLeft
                         \/ (\E d \in Datastore : Ask(d)) \/ (\E q \in Query : Find(q)))
    <3>1. UNCHANGED steady
      BY <2>2 DEF EvalFunction, Skip, Decide, NothingLeft, Ask, Find, historyVars
    <3>2. QED
      BY <2>2, <3>1 DEF Standing
  <2>3. CASE steady /\ (EvalFunction \/ Skip)
    BY <2>i, <2>3, EvalStands DEF Stands
  <2>4. CASE steady /\ Decide
    BY <2>i, <2>4, DecideStands DEF Stands
  <2>5. CASE steady /\ NothingLeft
    BY <2>i, <2>5, NothingLeftStands DEF Stands
  <2>6. CASE steady /\ \E d \in Datastore : Ask(d)
    BY <2>i, <2>6, AskStands DEF Stands
  <2>7. CASE steady /\ \E q \in Query : Find(q)
    BY <2>i, <2>7, FindStands DEF Stands
  <2>8. CASE UNCHANGED vars
    BY <2>8 DEF vars, worldVars, historyVars, requestVars, Standing, During, RuleHolds,
       Pursuing, AskedOf, Required, Says, Nothing, Seen
  <2>9. QED
    BY <2>1, <2>2, <2>3, <2>4, <2>5, <2>6, <2>7, <2>8 DEF Next
<1>3. QED
  BY <1>1, <1>2, DecisionInductive, PTL DEF Spec, SteadyAnswers
=============================================================================
