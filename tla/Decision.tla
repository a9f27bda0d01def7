------------------------------ MODULE Decision ------------------------------
(***************************************************************************)
(* One decision: a request is mapped, the rules verify and allow are       *)
(* evaluated partially one after the other, and what is left of a rule is  *)
(* asked of the datastores.  Meanwhile policies are reloaded and rows      *)
(* change.  Decisions share nothing that they write, so that one request   *)
(* at a time shows all that can happen to any of many.                     *)
(***************************************************************************)
EXTENDS FiniteSets

CONSTANTS
  Policy,     \* versions of the policies
  Mapping,    \* API mappings: which of the rules they require
  Datastore,
  Query,      \* native queries: one of an SQL datastore, one per collection of MongoDB
  Of,         \* the datastore of a query
  Sql,        \* the SQL datastores; the others are of MongoDB
  Broken,     \* SQL datastores without a connection pool (see DatastoreStartup)
  Invalid,    \* queries of MongoDB whose filter is no JSON (see Translation)
  Residue,    \* what partial evaluation leaves of a rule under a policy
  DryRun      \* --envoy-dry-run

Rule == {"verify", "allow"}
Kind == {"undefined", "true", "error", "untranslatable", "panic", "queries"}

ASSUME MappingAssumption ==
  Mapping \subseteq [verify : BOOLEAN, allow : BOOLEAN]
ASSUME QueryAssumption ==
  /\ Of \in [Query -> Datastore] /\ Sql \subseteq Datastore /\ Broken \subseteq Sql
  /\ Invalid \subseteq Query /\ \A q \in Invalid : Of[q] \notin Sql
ASSUME ResidueAssumption ==
  /\ Residue \in [Policy -> [Rule -> [kind : Kind, asks : SUBSET Query]]]
  /\ \A p \in Policy, r \in Rule :
       Residue[p][r].kind = "queries" => Residue[p][r].asks # {}

VARIABLES
  policy,    \* the policies in service
  rows,      \* what each query finds at the moment
  front,     \* the proxy the request came to
  pc,
  mapping,   \* the mapping of the request
  rule,      \* the rule being evaluated
  asks,      \* the queries the rule depends on
  left,      \* the datastores not asked yet
  found,     \* what the queries of the datastore being asked have found
  reply,
  policies, yes, no,   \* the policies, rows found and rows missing while it lasted
  steady     \* nothing has changed since the request came

worldVars   == <<policy, rows>>
historyVars == <<policies, yes, no, steady>>
requestVars == <<front, pc, mapping, rule, asks, left, found, reply>>
vars == <<worldVars, requestVars, historyVars>>

(* What becomes of a query.  The rows of an SQL statement are fetched after *)
(* it was accepted: that may be cut off before one was found, and the       *)
(* result may fail to close after one was.                                  *)
Finds  == {"rows", "nothing", "failure", "cut", "unclosed"}
Status == {"200", "400", "401", "403", "404", "500", "dropped", "fatal", "error"}

(* Nobody sees what a broken datastore or an invalid filter would find.     *)
World ==
  {r \in [Query -> Finds] : \A q \in Query :
     /\ r[q] \in {"cut", "unclosed"} => Of[q] \in Sql
     /\ Of[q] \in Broken \/ q \in Invalid => r[q] = "nothing"}

TypeOK ==
  /\ policy \in Policy /\ rows \in World
  /\ front \in {"rest", "envoy"}
  /\ pc \in {"idle", "evaluate", "ask", "wait", "done"}
  /\ mapping \in Mapping /\ rule \in Rule
  /\ asks \subseteq Query /\ left \subseteq Datastore
  /\ found \in [Query -> Finds \cup {"unasked", "running"}]
  /\ reply \in Status \cup {"none"}
  /\ policies \subseteq Policy /\ yes \subseteq Query /\ no \subseteq Query
  /\ steady \in BOOLEAN

Unasked == [q \in Query |-> "unasked"]
Finding(r, what) == {q \in Query : r[q] = what}

(* sqlDatastoreExecutor.Execute never asks rows.Err(): when the rows end    *)
(* because fetching them failed, nothing was found.                         *)
Read(what)  == IF what = "cut" THEN "nothing" ELSE what
Missing(r)  == {q \in Query : Read(r[q]) = "nothing"}

-----------------------------------------------------------------------------
(* Mutant: an internal error returns without writing a status. *)
Answer_Silent(status) ==
  /\ pc' = "done" /\ reply' = IF status = "500" THEN "" ELSE status
  /\ asks' = {} /\ left' = {} /\ found' = Unasked
  /\ UNCHANGED <<front, mapping, rule>>

(* The answer ends the request: 401 and 403 are writeDeny's, which tells    *)
(* them apart by Decision.Verify.                                           *)
Answer(status) ==
  /\ pc' = "done" /\ reply' = status
  /\ asks' = {} /\ left' = {} /\ found' = Unasked
  /\ UNCHANGED <<front, mapping, rule>>

(* Execute goes on with allow after verify, and returns after allow.        *)
Conclude(holds) ==
  \/ /\ holds /\ rule = "verify"
     /\ rule' = "allow" /\ pc' = "evaluate"
     /\ asks' = {} /\ left' = {} /\ found' = Unasked
     /\ UNCHANGED <<front, mapping, reply>>
  \/ holds /\ rule = "allow" /\ Answer("200")
  \/ ~holds /\ rule = "verify" /\ Answer("401")
  \/ ~holds /\ rule = "allow" /\ Answer("403")

(* The history of a request begins with the world as it is.                 *)
Begins ==
  /\ policies' = {policy}
  /\ yes' = Finding(rows, "rows") /\ no' = Missing(rows)
  /\ steady' = TRUE

(* handleV1DataGet and handleV1DataPost: a body that is missing, no JSON,   *)
(* or lacks a field, and a path that no mapping or two equally important    *)
(* ones match, are refused.                                                 *)
Receive ==
  /\ pc = "idle" /\ Begins
  /\ front' = "rest" /\ rule' = "verify" /\ mapping' \in Mapping
  /\ \/ pc' = "done" /\ reply' \in {"400", "404"}
     \/ pc' = "evaluate" /\ reply' = "none"
  /\ UNCHANGED <<worldVars, asks, left, found>>

(* Check: it passes the request's fields without the object "input" that    *)
(* Execute asks for, so that every check ends with an error, before the     *)
(* dry-run override.                                                        *)
Check ==
  /\ pc = "idle" /\ Begins
  /\ front' = "envoy" /\ pc' = "done" /\ reply' = "error"
  /\ UNCHANGED <<worldVars, mapping, rule, asks, left, found>>

-----------------------------------------------------------------------------
Required(r) == mapping[r]
Left == Residue[policy][rule]

(* Mutant: no queries, which means undefined, taken for no conditions left. *)
EvalFunction_NilHolds ==
  /\ pc = "evaluate" /\ Required(rule)
  /\ \/ Left.kind \in {"undefined", "true"} /\ Conclude(TRUE)
     \/ Left.kind = "error" /\ Answer("500")
     \/ Left.kind = "untranslatable" /\ Answer("401")
     \/ Left.kind = "panic" /\ Answer("dropped")
     \/ /\ Left.kind = "queries"
        /\ pc' = "ask" /\ asks' = Left.asks /\ left' = {Of[q] : q \in Left.asks}
        /\ UNCHANGED <<front, mapping, rule, found, reply>>
  /\ UNCHANGED <<worldVars, historyVars>>

(* evalFunction: partial evaluation in one read transaction, then the       *)
(* translation of every query.  Translation errors answer 401 whichever     *)
(* rule they come from, as wrapErrorInLoggingContext leaves Authentication  *)
(* false; a query without a column makes the processor panic.               *)
EvalFunction ==
  /\ pc = "evaluate" /\ Required(rule)
  /\ \/ Left.kind = "undefined" /\ Conclude(FALSE)
     \/ Left.kind = "true" /\ Conclude(TRUE)
     \/ Left.kind = "error" /\ Answer("500")
     \/ Left.kind = "untranslatable" /\ Answer("401")
     \/ Left.kind = "panic" /\ Answer("dropped")
     \/ /\ Left.kind = "queries"
        /\ pc' = "ask" /\ asks' = Left.asks /\ left' = {Of[q] : q \in Left.asks}
        /\ UNCHANGED <<front, mapping, rule, found, reply>>
  /\ UNCHANGED <<worldVars, historyVars>>

(* authenticate and authorize: a rule that is not required holds.           *)
Skip ==
  /\ pc = "evaluate" /\ ~Required(rule)
  /\ Conclude(TRUE)
  /\ UNCHANGED <<worldVars, historyVars>>

(* The datastores are asked in any order, the order of a map ...            *)
Ask(d) ==
  /\ pc = "ask" /\ d \in left
  /\ \/ d \in Broken /\ Answer("dropped")
     \/ /\ d \notin Broken
        /\ pc' = "wait" /\ left' = left \ {d}
        /\ found' = [q \in Query |-> IF q \in asks /\ Of[q] = d THEN "running"
                                     ELSE "unasked"]
        /\ UNCHANGED <<front, mapping, rule, asks, reply>>
  /\ UNCHANGED <<worldVars, historyVars>>

(* ... the queries of one at the same time.  A filter that is no JSON ends  *)
(* the process, and a result that cannot be closed the handler; the others  *)
(* are waited for, so that neither can come too late ...                    *)
Find(q) ==
  /\ pc = "wait" /\ found[q] = "running"
  /\ \/ q \in Invalid /\ Answer("fatal")
     \/ rows[q] = "unclosed" /\ Answer("dropped")
     \/ /\ q \notin Invalid /\ rows[q] # "unclosed"
        /\ found' = [found EXCEPT ![q] = Read(rows[q])]
        /\ UNCHANGED <<front, pc, mapping, rule, asks, left, reply>>
  /\ UNCHANGED <<worldVars, historyVars>>

Finished == pc = "wait" /\ Finding(found, "running") = {}

(* Mutants: failures are passed over; nothing found ends the search.        *)
Decide_IgnoresFailure ==
  /\ Finished
  /\ \/ Finding(found, "rows") # {} /\ Conclude(TRUE)
     \/ /\ Finding(found, "rows") = {}
        /\ pc' = "ask" /\ found' = Unasked
        /\ UNCHANGED <<front, mapping, rule, asks, left, reply>>
  /\ UNCHANGED <<worldVars, historyVars>>
Decide_FirstOnly ==
  /\ Finished
  /\ \/ Finding(found, "failure") # {} /\ Answer("500")
     \/ Finding(found, "failure") = {} /\ Conclude(Finding(found, "rows") # {})
  /\ UNCHANGED <<worldVars, historyVars>>

(* ... and the first failure or the first rows found decide.  Of one        *)
(* datastore a failure weighs more than rows.                               *)
Decide ==
  /\ Finished
  /\ \/ Finding(found, "failure") # {} /\ Answer("500")
     \/ Finding(found, "failure") = {} /\ Finding(found, "rows") # {} /\ Conclude(TRUE)
     \/ /\ Finding(found, "failure") = {} /\ Finding(found, "rows") = {}
        /\ pc' = "ask" /\ found' = Unasked
        /\ UNCHANGED <<front, mapping, rule, asks, left, reply>>
  /\ UNCHANGED <<worldVars, historyVars>>

NothingLeft ==
  /\ pc = "ask" /\ left = {}
  /\ Conclude(FALSE)
  /\ UNCHANGED <<worldVars, historyVars>>

(* The client has its answer, or the process that starts again a new one.   *)
Close ==
  /\ pc = "done"
  /\ pc' = "idle" /\ reply' = "none"
  /\ policies' = {} /\ yes' = {} /\ no' = {} /\ steady' = TRUE
  /\ UNCHANGED <<worldVars, front, mapping, rule, asks, left, found>>

-----------------------------------------------------------------------------
(* The world: policies are replaced, rows come and go, datastores fail.     *)
During == pc \notin {"idle", "done"}

Reload ==
  /\ policy' \in Policy \ {policy}
  /\ policies' = IF During THEN policies \cup {policy'} ELSE policies
  /\ steady' = (steady /\ ~During)
  /\ UNCHANGED <<rows, requestVars, yes, no>>

Change ==
  /\ \E q \in Query, f \in Finds : f # rows[q] /\ rows' = [rows EXCEPT ![q] = f]
  /\ rows' \in World
  /\ yes' = IF During THEN yes \cup Finding(rows', "rows") ELSE yes
  /\ no' = IF During THEN no \cup Missing(rows') ELSE no
  /\ steady' = (steady /\ ~During)
  /\ UNCHANGED <<policy, requestVars, policies>>

-----------------------------------------------------------------------------
Init ==
  /\ policy \in Policy /\ rows \in World
  /\ front = "rest" /\ pc = "idle" /\ mapping \in Mapping /\ rule = "verify"
  /\ asks = {} /\ left = {} /\ found = Unasked /\ reply = "none"
  /\ policies = {} /\ yes = {} /\ no = {} /\ steady = TRUE

Next == \/ Receive \/ Check \/ EvalFunction \/ Skip \/ Decide \/ NothingLeft \/ Close
        \/ \E d \in Datastore : Ask(d)
        \/ \E q \in Query : Find(q)
        \/ Reload \/ Change

Spec == Init /\ [][Next]_vars

-----------------------------------------------------------------------------
(* Properties. *)

Could(p, r) == \/ Residue[p][r].kind = "true"
               \/ Residue[p][r].kind = "queries" /\ Residue[p][r].asks \cap yes # {}
CouldNot(p, r) == \/ Residue[p][r].kind = "undefined"
                  \/ Residue[p][r].kind = "queries" /\ Residue[p][r].asks \subseteq no

(* A request is allowed only if each rule its mapping requires held under   *)
(* policies and rows that were there while the request lasted, however      *)
(* reloads, failures and datastores' answers are interleaved with it.       *)
AllowsJustified ==
  reply = "200" => \A r \in Rule : Required(r) => \E p \in policies : Could(p, r)

(* And it is forbidden only if the rule allow was undefined, or each of its *)
(* queries found nothing or was cut off while its rows were fetched, while  *)
(* it lasted: never for a datastore that refused its query, or was not      *)
(* asked, or whose filter or result was lost otherwise.                     *)
DenialsJustified ==
  reply = "403" => Required("allow") /\ \E p \in policies : CouldNot(p, "allow")

(* What the answer of a rule should be, in a world that stands still: that  *)
(* of any datastore with an answer, else no.  Rows that cannot be fetched   *)
(* are none, as the code has it.                                            *)
Says(d, qs) ==
  LET of == {q \in qs : Of[q] = d}
  IN IF d \in Broken THEN "dropped"
     ELSE IF of \cap Invalid # {} THEN "fatal"
     ELSE IF \E q \in of : rows[q] = "unclosed" THEN "dropped"
     ELSE IF \E q \in of : rows[q] = "failure" THEN "500"
     ELSE IF \E q \in of : rows[q] = "rows" THEN "holds" ELSE "fails"

Verdicts(r) ==
  LET left_  == Residue[policy][r]
      all    == {Says(Of[q], left_.asks) : q \in left_.asks}
      asked  == IF all = {"fails"} THEN all ELSE all \ {"fails"}
  IN IF ~Required(r) THEN {"holds"}
     ELSE CASE left_.kind = "true"           -> {"holds"}
            [] left_.kind = "undefined"      -> {"fails"}
            [] left_.kind = "error"          -> {"500"}
            [] left_.kind = "untranslatable" -> {"401"}
            [] left_.kind = "panic"          -> {"dropped"}
            [] left_.kind = "queries"        -> asked

Expected ==
  LET Status_(v, r) == IF v = "fails" THEN (IF r = "verify" THEN "401" ELSE "403")
                       ELSE IF v = "holds" THEN "200" ELSE v
      first == Verdicts("verify")
  IN {Status_(v, "verify") : v \in first \ {"holds"}} \cup
     (IF "holds" \in first THEN {Status_(v, "allow") : v \in Verdicts("allow")} ELSE {})

(* When nothing changes meanwhile, the answer is the one that policies and  *)
(* rows call for, whatever the order in which datastores are asked and in   *)
(* which their queries end: failures and hits are told apart, and of the    *)
(* ends that hide an answer only that of a cut-off result is a denial.      *)
SteadyAnswers ==
  [][ pc \notin {"idle", "done"} /\ pc' = "done" /\ steady => reply' \in Expected ]_vars

(* In dry-run mode the status code is overridden to unconditionally allow   *)
(* the request, says a comment in Check.  The code never gets there.        *)
DryRunAllows == DryRun /\ front = "envoy" /\ pc = "done" => reply = "200"
=============================================================================
