--------------------------- MODULE AtomicPolicyApi ---------------------------
(***************************************************************************)
(* What the Policy and Data APIs, the reload and the evaluations promise   *)
(* together: every request takes effect in one indivisible step between    *)
(* its arrival and its answer, on the stored policies and documents as     *)
(* they are at that step.  There are no locks, no transactions and no      *)
(* separate compiler here; PolicyApi is shown to implement this module.    *)
(***************************************************************************)
EXTENDS PolicyData

VARIABLES
  policies,   \* the stored policies, which are also the compiled ones
  data,       \* the stored documents
  req,        \* the request each thread serves
  result      \* the outcome it will answer with

vars == <<policies, data, req, result>>

(* An outcome: the answer, and what a reader was shown: the raw policies,   *)
(* the modules they were compiled to, and the documents.                    *)
Result(st, shown) == [status |-> st, shown |-> shown]
Pending == Result("none", <<>>)

(* The effect of a write request on given policies and documents: the       *)
(* answer and the new contents.  A refused request leaves them as they are. *)
Effect(st, mods, docs) == [status |-> st, policies |-> mods, data |-> docs]

PutDocument(r, mods, docs) ==
  LET put == [docs EXCEPT ![r.path] = r.value]
  IN CASE r.path \in Protected -> Effect("500", mods, docs)
       [] r.path \notin Protected /\ docs[r.path] # NoDoc /\ r.ifNoneMatch ->
            Effect("304", mods, docs)
       [] OTHER -> IF NoPathConflict(mods, put)
                   THEN Effect("204", mods, put) ELSE Effect("400", mods, docs)

(* What a patch leaves at its path, and the documents after the first n of  *)
(* several patches: the last one for a path decides.                        *)
Leaves(patch) == IF patch.op = "remove" THEN NoDoc ELSE patch.value

After(ops, n, docs) ==
  [p \in Path |->
     LET those == {i \in 1..n : ops[i].path = p}
     IN IF those = {} THEN docs[p]
        ELSE Leaves(ops[CHOOSE i \in those : \A j \in those : j <= i])]

(* Only an addition can do without a document.                              *)
Applicable(ops, n, docs) ==
  ops[n].op = "add" \/ After(ops, n - 1, docs)[ops[n].path] # NoDoc

PatchDocuments(r, mods, docs) ==
  LET patched == After(r.ops, Len(r.ops), docs)
      refused == \/ r.ops # <<>> /\ r.under \cap Protected # {}
                 \/ \E n \in 1..Len(r.ops) : ~Applicable(r.ops, n, docs)
  IN IF refused THEN Effect("500", mods, docs)
     ELSE IF NoPathConflict(mods, patched)
          THEN Effect("204", mods, patched) ELSE Effect("400", mods, docs)

DeleteDocument(r, mods, docs) ==
  IF r.path \in Protected \/ docs[r.path] = NoDoc
  THEN Effect("500", mods, docs)
  ELSE Effect("204", mods, [docs EXCEPT ![r.path] = NoDoc])

PutPolicy(r, mods, docs) ==
  LET put == [mods EXCEPT ![r.id] = r.source]
  IN CASE r.source = Unparsable -> Effect("400", mods, docs)
       [] r.source # Unparsable /\ Package[r.source] \in Protected ->
            Effect("500", mods, docs)
       [] OTHER -> IF Compiles(put, docs)
                   THEN Effect("200", put, docs) ELSE Effect("400", mods, docs)

DeletePolicy(r, mods, docs) ==
  LET left == [mods EXCEPT ![r.id] = NoSource]
      s    == mods[r.id]
  IN CASE s = NoSource -> Effect("500", mods, docs)
       [] s # NoSource /\ Package[s] \in Protected -> Effect("500", mods, docs)
       [] OTHER -> IF Compiles(left, docs)
                   THEN Effect("200", left, docs) ELSE Effect("400", mods, docs)

ReloadBundle(r, mods, docs) ==
  LET newMods == ActivatedPolicies(r.bundle, mods)
      newDocs == ActivatedData(r.bundle, docs)
  IN IF r.bundle.loads /\ Compiles(newMods, newDocs)
     THEN Effect("loaded", newMods, newDocs) ELSE Effect("failed", mods, docs)

Outcome(r, mods, docs) ==
  CASE r.op = "malformed"    -> Effect("400", mods, docs)
    [] r.op = "dataPut"      -> PutDocument(r, mods, docs)
    [] r.op = "dataPatch"    -> PatchDocuments(r, mods, docs)
    [] r.op = "dataDelete"   -> DeleteDocument(r, mods, docs)
    [] r.op = "policyPut"    -> PutPolicy(r, mods, docs)
    [] r.op = "policyDelete" -> DeletePolicy(r, mods, docs)
    [] r.op = "reload"       -> ReloadBundle(r, mods, docs)

-----------------------------------------------------------------------------
Call(t) ==
  /\ req[t] = NoRequest
  /\ \E r \in IF t = Watcher THEN Reloads ELSE Requests :
       req' = [req EXCEPT ![t] = r]
  /\ UNCHANGED <<policies, data, result>>

Write(t) ==
  /\ req[t].op \in WriteOps \cup {"malformed"}
  /\ result[t] = Pending
  /\ LET e == Outcome(req[t], policies, data)
     IN /\ policies' = e.policies
        /\ data' = e.data
        /\ result' = [result EXCEPT ![t] = Result(e.status, <<>>)]
  /\ UNCHANGED req

Read(t) ==
  /\ req[t].op \in ReadOps
  /\ result[t] = Pending
  /\ LET unknown == req[t].op = "policyGet" /\ policies[req[t].id] = NoSource
         status  == IF req[t].op = "evaluate" THEN "decided" ELSE "200"
     IN result' = [result EXCEPT ![t] =
          IF unknown THEN Result("500", <<>>)
          ELSE Result(status, <<policies, policies, data>>)]
  /\ UNCHANGED <<policies, data, req>>

Return(t) ==
  /\ result[t] # Pending
  /\ req' = [req EXCEPT ![t] = NoRequest]
  /\ result' = [result EXCEPT ![t] = Pending]
  /\ UNCHANGED <<policies, data>>

Init ==
  /\ \E b \in Bootable : policies = b.policies /\ data = b.data
  /\ req = [t \in Thread |-> NoRequest]
  /\ result = [t \in Thread |-> Pending]

(* A process that cannot deliver an answer with a body starts afresh. *)
Restart(t) ==
  /\ result[t].status \in JsonStatus
  /\ \E b \in Bootable : policies' = b.policies /\ data' = b.data
  /\ req' = [u \in Thread |-> NoRequest]
  /\ result' = [u \in Thread |-> Pending]

Next == \E t \in Thread : Call(t) \/ Write(t) \/ Read(t) \/ Return(t) \/ Restart(t)

Spec == Init /\ [][Next]_vars
=============================================================================
