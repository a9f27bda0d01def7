-------------------------- MODULE PolicyApiProofs --------------------------
(***************************************************************************)
(* Proofs about PolicyApi for every set of threads, ids, modules, paths,   *)
(* requests and bundles: type correctness, and the safety invariants that  *)
(* the runs of MCPolicyApi check on small instances.                       *)
(***************************************************************************)
EXTENDS PolicyApi, TLAPS

USE DataAssumption, StoreAssumption, UnreadAssumption

(***************************************************************************)
(* The inductive invariant.  The properties alone are not inductive: that  *)
(* the store compiles after a commit rests on what the handler checked     *)
(* while it held the writer mutex (CheckedWrites), that check rests on the *)
(* transaction having written nothing before it (UntouchedViews) and, for  *)
(* documents, on the compiler being current at that moment (TriggerOwed);  *)
(* readers see one version because no commit applies among them            *)
(* (NoReaderInCommit, ReadersCurrent).                                     *)
(***************************************************************************)
UntouchedViews ==
  \A t \in Thread : pc[t] = "open" =>
    /\ edits[t].policies = NoEdits.policies
    /\ req[t].op # "dataPatch" => edits[t].data = NoEdits.data

CheckedWrites ==
  \A t \in Thread : pc[t] \in {"commit", "locked"} =>
    Compiles(PolicyView(t), DataView(t))

TriggerOwed ==
  \A t \in Thread : pc[t] = "applied" /\ ~PolicyChanged(t) => compiler = policies

NoReaderInCommit ==
  \A t \in Thread : pc[t] \in {"applied", "compiled"} => readers = {}

ReadersCurrent ==
  \A t \in Thread : pc[t] \in ReaderPC =>
    /\ seen[t].policies # Unread => seen[t].policies = policies /\ seen[t].data = data
    /\ seen[t].compiler # Unread => seen[t].compiler = policies

IInv ==
  /\ TypeOK
  /\ LocksMatchHandlers
  /\ StoredPoliciesCompile
  /\ CompilerIsCurrent
  /\ TriggerOwed
  /\ UntouchedViews
  /\ CheckedWrites
  /\ NoReaderInCommit
  /\ ReadersCurrent
  /\ ReadersSeeOneVersion

-----------------------------------------------------------------------------
(* The fields of the requests a handler may serve have their types.         *)
LEMMA RequestFields ==
  ASSUME NEW r \in Requests
  PROVE  /\ r.op \in {"malformed", "policyList", "evaluate", "dataPut", "dataPatch",
                      "dataDelete", "policyPut", "policyDelete", "policyGet"}
         /\ r.op = "dataPut" => r.path \in Path /\ r.value \in Value
         /\ r.op = "dataPatch" => r.ops \in Seq(PatchOp)
         /\ r.op = "dataDelete" => r.path \in Path
         /\ r.op = "policyPut" => r.id \in Id /\ r.source \in Source \cup {Unparsable}
         /\ r.op \in {"policyDelete", "policyGet"} => r.id \in Id
<1>1. r \in Request
  BY DEF Request
<1>2. QED
  BY <1>1 DEF Request

LEMMA ReloadFields ==
  ASSUME NEW r \in Reloads
  PROVE  /\ r.op = "reload"
         /\ r.bundle \in Bundles
         /\ r.bundle.policies \in Modules
         /\ r.bundle.data \in Documents
  BY DEF Reloads, Bundle

(* The request a thread serves, by its operation. *)
LEMMA ServedRequest ==
  ASSUME TypeOK, NEW t \in Thread
  PROVE  /\ req[t].op \in {"dataPut", "dataPatch", "dataDelete", "policyPut",
                           "policyDelete", "policyGet", "policyList", "evaluate",
                           "malformed"} => req[t] \in Requests
         /\ req[t].op = "reload" => req[t] \in Reloads
<1>1. NoRequest.op = "none"
  BY DEF NoRequest
<1>2. CASE t = Watcher
  BY <1>1, <1>2, ReloadFields DEF TypeOK, ApiTypeOK
<1>3. CASE t # Watcher
  BY <1>1, <1>3, RequestFields DEF TypeOK, ApiTypeOK
<1>4. QED
  BY <1>2, <1>3

-----------------------------------------------------------------------------
(* Type correctness.  First the steps of the store on their own.            *)

LEMMA ViewTypes ==
  ASSUME StoreTypeOK, NEW t \in Thread
  PROVE  PolicyView(t) \in Modules /\ DataView(t) \in Documents
  BY DEF StoreTypeOK, PolicyView, DataView, Overlay, Modules, Documents, Edits

LEMMA NoEditsType == NoEdits \in Edits
  BY DEF NoEdits, Edits

LEMMA WriteTypes ==
  ASSUME StoreTypeOK, NEW t \in Thread
  PROVE  /\ \A i \in Id, s \in Source \cup {NoSource} :
              WritePolicy(t, i, s) => StoreTypeOK'
         /\ \A p \in Path, v \in Value \cup {NoDoc} :
              WriteData(t, p, v) => StoreTypeOK'
<1>1. ASSUME NEW i \in Id, NEW s \in Source \cup {NoSource}, WritePolicy(t, i, s)
      PROVE  StoreTypeOK'
  <2>1. edits' \in [Thread -> Edits]
    <3>1. edits[t] \in Edits BY DEF StoreTypeOK
    <3>2. [edits[t] EXCEPT !.policies[i] = s] \in Edits BY <3>1 DEF Edits
    <3>3. QED
      BY <1>1, <3>2 DEF StoreTypeOK, WritePolicy
  <2>2. QED
    BY <1>1, <2>1 DEF StoreTypeOK, WritePolicy, committed, locks
<1>2. ASSUME NEW p \in Path, NEW v \in Value \cup {NoDoc}, WriteData(t, p, v)
      PROVE  StoreTypeOK'
  <2>1. edits' \in [Thread -> Edits]
    <3>1. edits[t] \in Edits BY DEF StoreTypeOK
    <3>2. [edits[t] EXCEPT !.data[p] = v] \in Edits BY <3>1 DEF Edits
    <3>3. QED
      BY <1>2, <3>2 DEF StoreTypeOK, WriteData
  <2>2. QED
    BY <1>2, <2>1 DEF StoreTypeOK, WriteData, committed, locks
<1>3. QED
  BY <1>1, <1>2

LEMMA LockTypes ==
  ASSUME StoreTypeOK, NEW t \in Thread,
         \/ BeginWrite(t) \/ AbortWrite(t) \/ BeginRead(t) \/ EndRead(t)
         \/ AnnounceCommit(t) \/ RunTrigger(t) \/ ReleaseCommit(t)
  PROVE  StoreTypeOK'
  BY NoEditsType DEF StoreTypeOK, BeginWrite, AbortWrite, BeginRead, EndRead,
     AnnounceCommit, RunTrigger, ReleaseCommit, committed, locks

LEMMA ApplyTypes ==
  ASSUME StoreTypeOK, NEW t \in Thread, ApplyEdits(t)
  PROVE  StoreTypeOK'
  BY ViewTypes DEF StoreTypeOK, ApplyEdits, locks

LEMMA SightTypes ==
  ASSUME StoreTypeOK, NEW s \in Sight
  PROVE  /\ [s EXCEPT !.policies = policies, !.data = data] \in Sight
         /\ [s EXCEPT !.compiler = compiler] \in Sight
<1>1. /\ policies \in Modules \cup {Unread}
      /\ data \in Documents \cup {Unread}
      /\ compiler \in Modules \cup {Unread}
  BY DEF StoreTypeOK
<1>2. QED
  BY <1>1 DEF Sight

LEMMA AbortTypes ==
  ASSUME TypeOK, NEW t \in Thread, NEW st \in Status, AbortWith(t, st)
  PROVE  TypeOK'
<1>1. StoreTypeOK'
  BY LockTypes DEF TypeOK, AbortWith
<1>2. ApiTypeOK'
  BY DEF TypeOK, ApiTypeOK, AbortWith, Answer, Goto, PC
<1>3. QED
  BY <1>1, <1>2 DEF TypeOK

LEMMA TypeStep ==
  ASSUME TypeOK, NEW t \in Thread, Call(t) \/ Handler(t) \/ FatalReply(t)
  PROVE  TypeOK'
<1> USE DEF TypeOK, Goto, Answer, At
<1>1. CASE Call(t)
  <2>1. StoreTypeOK'
    BY <1>1 DEF Call, storeVars, StoreTypeOK
  <2>2. PICK r \in IF t = Watcher THEN Reloads ELSE Requests :
           /\ req' = [req EXCEPT ![t] = r]
           /\ todo' = [todo EXCEPT ![t] = IF r.op = "dataPatch" THEN r.ops ELSE <<>>]
    BY <1>1 DEF Call
  <2>3. (IF r.op = "dataPatch" THEN r.ops ELSE <<>>) \in Seq(PatchOp)
    BY RequestFields, ReloadFields
  <2>4. ApiTypeOK'
    BY <1>1, <2>2, <2>3 DEF ApiTypeOK, Call, PC
  <2>5. QED
    BY <2>1, <2>4
<1>2. CASE Refuse(t)
  BY <1>2 DEF Refuse, storeVars, StoreTypeOK, ApiTypeOK, PC, Status
<1>3. CASE OpenWrite(t)
  BY <1>3, LockTypes DEF OpenWrite, ApiTypeOK, PC
<1>4. CASE OpenRead(t)
  BY <1>4, LockTypes DEF OpenRead, ApiTypeOK, PC, Nothing, Sight
<1>5. CASE DataPut(t)
  <2>1. req[t].path \in Path /\ req[t].value \in Value
    BY <1>5, ServedRequest, RequestFields DEF DataPut
  <2>2. CASE \E st \in Status : AbortWith(t, st)
    BY <2>2, AbortTypes
  <2>3. CASE ~\E st \in Status : AbortWith(t, st)
    BY <1>5, <2>1, <2>3, WriteTypes DEF DataPut, ApiTypeOK, PC, Status
  <2>4. QED
    BY <2>2, <2>3
<1>6. CASE PatchWrite(t)
  <2>1. Head(todo[t]) \in PatchOp /\ Tail(todo[t]) \in Seq(PatchOp)
    BY <1>6 DEF PatchWrite, ApiTypeOK
  <2>2. CASE AbortWith(t, "500")
    BY <2>2, AbortTypes DEF Status
  <2>3. CASE ~AbortWith(t, "500")
    <3>1. (IF Head(todo[t]).op = "remove" THEN NoDoc ELSE Head(todo[t]).value)
             \in Value \cup {NoDoc}
      BY <2>1 DEF PatchOp
    <3>2. /\ WriteData(t, Head(todo[t]).path,
                IF Head(todo[t]).op = "remove" THEN NoDoc ELSE Head(todo[t]).value)
          /\ todo' = [todo EXCEPT ![t] = Tail(todo[t])]
          /\ UNCHANGED <<pc, req, seen, answer>>
      BY <1>6, <2>3 DEF PatchWrite
    <3>3. StoreTypeOK'
      BY <2>1, <3>1, <3>2, WriteTypes DEF PatchOp
    <3>4. ApiTypeOK'
      BY <2>1, <3>2 DEF ApiTypeOK
    <3>5. QED
      BY <3>3, <3>4
  <2>4. QED
    BY <2>2, <2>3
<1>7. CASE PatchDone(t)
  <2>1. CASE AbortWith(t, "400")
    BY <2>1, AbortTypes DEF Status
  <2>2. CASE ~AbortWith(t, "400")
    BY <1>7, <2>2 DEF PatchDone, ApiTypeOK, PC, storeVars, StoreTypeOK
  <2>3. QED
    BY <2>1, <2>2
<1>8. CASE DataDelete(t)
  <2>1. req[t].path \in Path
    BY <1>8, ServedRequest, RequestFields DEF DataDelete
  <2>2. CASE AbortWith(t, "500")
    BY <2>2, AbortTypes DEF Status
  <2>3. CASE ~AbortWith(t, "500")
    BY <1>8, <2>1, <2>3, WriteTypes DEF DataDelete, ApiTypeOK, PC
  <2>4. QED
    BY <2>2, <2>3
<1>9. CASE PolicyPut(t)
  <2>1. req[t].id \in Id /\ req[t].source \in Source \cup {Unparsable}
    BY <1>9, ServedRequest, RequestFields DEF PolicyPut
  <2>2. CASE \E st \in Status : AbortWith(t, st)
    BY <2>2, AbortTypes
  <2>3. CASE ~\E st \in Status : AbortWith(t, st)
    BY <1>9, <2>1, <2>3, WriteTypes DEF PolicyPut, ApiTypeOK, PC, Status
  <2>4. QED
    BY <2>2, <2>3
<1>10. CASE PolicyDelete(t)
  <2>1. req[t].id \in Id
    BY <1>10, ServedRequest, RequestFields DEF PolicyDelete
  <2>2. CASE \E st \in Status : AbortWith(t, st)
    BY <2>2, AbortTypes
  <2>3. CASE ~\E st \in Status : AbortWith(t, st)
    BY <1>10, <2>1, <2>3, WriteTypes DEF PolicyDelete, ApiTypeOK, PC, Status
  <2>4. QED
    BY <2>2, <2>3
<1>11. CASE Reload(t)
  <2>1. /\ ActivatedPolicies(req[t].bundle, PolicyView(t)) \in Modules
        /\ ActivatedData(req[t].bundle, DataView(t)) \in Documents
    BY <1>11, ServedRequest, ReloadFields, ViewTypes
       DEF Reload, ActivatedPolicies, ActivatedData, Modules, Documents
  <2>2. [policies |-> ActivatedPolicies(req[t].bundle, PolicyView(t)),
         data     |-> ActivatedData(req[t].bundle, DataView(t))] \in Edits
    BY <2>1 DEF Edits, Modules, Documents
  <2>3. CASE AbortWith(t, "failed")
    BY <2>3, AbortTypes DEF Status
  <2>4. CASE ~AbortWith(t, "failed")
    <3>1. /\ edits' = [edits EXCEPT ![t] =
                 [policies |-> ActivatedPolicies(req[t].bundle, PolicyView(t)),
                  data     |-> ActivatedData(req[t].bundle, DataView(t))]]
          /\ pc' = [pc EXCEPT ![t] = "commit"]
          /\ UNCHANGED <<committed, locks, req, todo, seen, answer>>
      BY <1>11, <2>4 DEF Reload
    <3>2. StoreTypeOK'
      BY <2>2, <3>1 DEF StoreTypeOK, committed, locks
    <3>3. ApiTypeOK'
      BY <3>1 DEF ApiTypeOK, PC
    <3>4. QED
      BY <3>2, <3>3
  <2>5. QED
    BY <2>3, <2>4
<1>12. CASE Announce(t)
  BY <1>12, LockTypes DEF Announce, CommitStep, ApiTypeOK, PC
<1>13. CASE Apply(t)
  BY <1>13, ApplyTypes DEF Apply, CommitStep, ApiTypeOK, PC
<1>14. CASE Trigger(t)
  BY <1>14, LockTypes DEF Trigger, CommitStep, ApiTypeOK, PC
<1>15. CASE Release(t)
  BY <1>15, LockTypes DEF Release, CommitStep, ApiTypeOK, PC, Success, Status
<1>16. CASE ReadStore(t)
  <2> DEFINE s == [seen[t] EXCEPT !.policies = policies, !.data = data]
  <2>0. s \in Sight
    BY SightTypes DEF ApiTypeOK
  <2>1. seen' \in [Thread -> Sight]
    <3>1. seen' = [seen EXCEPT ![t] = s]
      BY <1>16 DEF ReadStore, ApiTypeOK, Sight
    <3>2. QED
      BY <2>0, <3>1 DEF ApiTypeOK
  <2>2. QED
    BY <1>16, <2>1 DEF ReadStore, storeVars, StoreTypeOK, ApiTypeOK
<1>17. CASE ReadCompiler(t)
  <2> DEFINE s == [seen[t] EXCEPT !.compiler = compiler]
  <2>0. s \in Sight
    BY SightTypes DEF ApiTypeOK
  <2>1. seen' \in [Thread -> Sight]
    <3>1. seen' = [seen EXCEPT ![t] = s]
      BY <1>17 DEF ReadCompiler, ApiTypeOK, Sight
    <3>2. QED
      BY <2>0, <3>1 DEF ApiTypeOK
  <2>2. QED
    BY <1>17, <2>1 DEF ReadCompiler, storeVars, StoreTypeOK, ApiTypeOK
<1>18. CASE SendPolicies(t)
  BY <1>18 DEF SendPolicies, storeVars, StoreTypeOK, ApiTypeOK, PC, Status
<1>19. CASE CloseRead(t)
  BY <1>19, LockTypes DEF CloseRead, ApiTypeOK, PC, Nothing, Sight
<1>20. CASE FinishEvaluation(t)
  BY <1>20, LockTypes DEF FinishEvaluation, ApiTypeOK, PC, Status
<1>21. CASE GetUnknown(t)
  BY <1>21, LockTypes DEF GetUnknown, ApiTypeOK, PC, Status
<1>22. CASE Panic(t)
  BY <1>22 DEF Panic, storeVars, StoreTypeOK, ApiTypeOK, PC
<1>23. CASE Reply(t)
  BY <1>23 DEF Reply, storeVars, StoreTypeOK, ApiTypeOK, PC, Nothing, Sight
<1>24. CASE FatalReply(t)
  <2>1. \A b \in Bootable : b.policies \in Modules /\ b.data \in Documents
    BY DEF Bootable, Bundle
  <2>2. StoreTypeOK'
    BY <1>24, <2>1, NoEditsType DEF FatalReply, StoreTypeOK
  <2>3. ApiTypeOK'
    BY <1>24 DEF FatalReply, ApiTypeOK, PC, Nothing, Sight
  <2>4. QED
    BY <2>2, <2>3
<1>25. QED
  BY <1>1, <1>2, <1>3, <1>4, <1>5, <1>6, <1>7, <1>8, <1>9, <1>10, <1>11, <1>12,
     <1>13, <1>14, <1>15, <1>16, <1>17, <1>18, <1>19, <1>20, <1>21, <1>22, <1>23,
     <1>24 DEF Handler

THEOREM TypeCorrect == Spec => []TypeOK
<1>1. Init => TypeOK
  BY NoEditsType DEF Init, TypeOK, StoreTypeOK, ApiTypeOK, Bootable, Bundle, PC,
     Nothing, Sight
<1>2. TypeOK /\ [Next]_vars => TypeOK'
  <2>1. CASE UNCHANGED vars
    BY <2>1 DEF vars, storeVars, apiVars, TypeOK, StoreTypeOK, ApiTypeOK
  <2>2. QED
    BY <2>1, TypeStep DEF Next
<1>3. QED
  BY <1>1, <1>2, PTL DEF Spec

-----------------------------------------------------------------------------
(* The inductive step.  First, who a step leaves alone: the handlers of the *)
(* other threads, and what a transaction sees while nothing it rests on     *)
(* changes.                                                                 *)

LEMMA OthersStay ==
  ASSUME TypeOK, NEW t \in Thread, Call(t) \/ Handler(t), NEW u \in Thread, u # t
  PROVE  /\ pc'[u] = pc[u] /\ req'[u] = req[u]
         /\ edits'[u] = edits[u] /\ seen'[u] = seen[u]
<1> USE DEF TypeOK, StoreTypeOK, ApiTypeOK, Goto
<1>1. CASE Call(t)
  BY <1>1 DEF Call, storeVars
<1>2. ASSUME NEW st, AbortWith(t, st)
      PROVE  /\ pc'[u] = pc[u] /\ req'[u] = req[u]
             /\ edits'[u] = edits[u] /\ seen'[u] = seen[u]
  BY <1>2 DEF AbortWith, AbortWrite
<1>3. CASE Refuse(t) \/ OpenWrite(t) \/ OpenRead(t)
  BY <1>3 DEF Refuse, OpenWrite, OpenRead, BeginWrite, BeginRead, storeVars
<1>4. CASE DataPut(t) \/ PatchWrite(t) \/ PatchDone(t) \/ DataDelete(t)
  BY <1>2, <1>4 DEF DataPut, PatchWrite, PatchDone, DataDelete, WriteData, storeVars
<1>5. CASE PolicyPut(t) \/ PolicyDelete(t) \/ Reload(t)
  BY <1>2, <1>5 DEF PolicyPut, PolicyDelete, Reload, WritePolicy
<1>6. CASE Announce(t) \/ Apply(t) \/ Trigger(t) \/ Release(t)
  BY <1>6 DEF Announce, Apply, Trigger, Release, CommitStep, AnnounceCommit,
     ApplyEdits, RunTrigger, ReleaseCommit
<1>7. CASE \/ ReadStore(t) \/ ReadCompiler(t) \/ SendPolicies(t) \/ CloseRead(t)
           \/ FinishEvaluation(t) \/ GetUnknown(t) \/ Panic(t) \/ Reply(t)
  BY <1>7 DEF ReadStore, ReadCompiler, SendPolicies, CloseRead, FinishEvaluation,
     GetUnknown, Panic, Reply, EndRead, storeVars
<1>8. QED
  BY <1>1, <1>3, <1>4, <1>5, <1>6, <1>7 DEF Handler

(* Only a commit changes what is committed. *)
LEMMA CommittedStays ==
  ASSUME NEW t \in Thread, Call(t) \/ Handler(t), ~Apply(t), ~Trigger(t)
  PROVE  UNCHANGED committed
<1>1. ASSUME NEW st, AbortWith(t, st)
      PROVE  UNCHANGED committed
  BY <1>1 DEF AbortWith, AbortWrite
<1>2. QED
  BY <1>1 DEF Handler, Call, Refuse, OpenWrite, OpenRead, BeginWrite, BeginRead,
     DataPut, PatchWrite, PatchDone, DataDelete, WriteData, PolicyPut, PolicyDelete,
     Reload, WritePolicy, Announce, Release, CommitStep, AnnounceCommit,
     ReleaseCommit, ReadStore, ReadCompiler, SendPolicies, CloseRead,
     FinishEvaluation, GetUnknown, Panic, Reply, EndRead, storeVars, committed

(* The writer mutex admits one handler at a time. *)
LEMMA OneWriter ==
  ASSUME LocksMatchHandlers,
         NEW t \in Thread, pc[t] \in WriterPC, NEW u \in Thread, pc[u] \in WriterPC
  PROVE  t = u
  BY DEF LocksMatchHandlers

LEMMA ViewFrame ==
  ASSUME NEW u \in Thread, UNCHANGED <<policies, data>>, edits'[u] = edits[u]
  PROVE  /\ PolicyView(u)' = PolicyView(u) /\ DataView(u)' = DataView(u)
         /\ PolicyChanged(u)' = PolicyChanged(u)
  BY DEF PolicyView, DataView, PolicyChanged

(* A transaction sees the committed maps where it has written nothing, and  *)
(* its own writes where it has.                                             *)
LEMMA UntouchedView ==
  ASSUME StoreTypeOK, NEW t \in Thread
  PROVE  /\ edits[t].policies = NoEdits.policies => PolicyView(t) = policies
         /\ edits[t].data = NoEdits.data => DataView(t) = data
         /\ ~PolicyChanged(t) => PolicyView(t) = policies
  BY DEF StoreTypeOK, NoEdits, PolicyView, DataView, PolicyChanged, Overlay,
     Modules, Documents, Edits

LEMMA WriteView ==
  ASSUME StoreTypeOK, NEW t \in Thread
  PROVE  /\ \A p \in Path, v \in Value \cup {NoDoc} : WriteData(t, p, v) =>
              /\ PolicyView(t)' = PolicyView(t)
              /\ DataView(t)' = [DataView(t) EXCEPT ![p] = v]
              /\ edits'[t].policies = edits[t].policies
         /\ \A i \in Id, s \in Source \cup {NoSource} : WritePolicy(t, i, s) =>
              /\ PolicyView(t)' = [PolicyView(t) EXCEPT ![i] = s]
              /\ DataView(t)' = DataView(t)
<1>1. ASSUME NEW p \in Path, NEW v \in Value \cup {NoDoc}, WriteData(t, p, v)
      PROVE  /\ PolicyView(t)' = PolicyView(t)
             /\ DataView(t)' = [DataView(t) EXCEPT ![p] = v]
             /\ edits'[t].policies = edits[t].policies
  <2>1. /\ edits'[t].policies = edits[t].policies
        /\ edits'[t].data = [edits[t].data EXCEPT ![p] = v]
    <3>1. edits[t] \in Edits /\ edits'[t] = [edits[t] EXCEPT !.data[p] = v]
      BY <1>1 DEF WriteData, StoreTypeOK
    <3>2. QED
      BY <3>1 DEF Edits
  <2>2. DOMAIN edits[t].data = Path /\ DOMAIN data = Path /\ v # Kept
    BY StoreAssumption DEF StoreTypeOK, Edits, Documents
  <2>3. Overlay(edits'[t].data, data) = [Overlay(edits[t].data, data) EXCEPT ![p] = v]
    BY <2>1, <2>2 DEF Overlay
  <2>4. QED
    BY <1>1, <2>1, <2>3 DEF WriteData, committed, PolicyView, DataView
<1>2. ASSUME NEW i \in Id, NEW s \in Source \cup {NoSource}, WritePolicy(t, i, s)
      PROVE  /\ PolicyView(t)' = [PolicyView(t) EXCEPT ![i] = s]
             /\ DataView(t)' = DataView(t)
  <2>1. /\ edits'[t].data = edits[t].data
        /\ edits'[t].policies = [edits[t].policies EXCEPT ![i] = s]
    <3>1. edits[t] \in Edits /\ edits'[t] = [edits[t] EXCEPT !.policies[i] = s]
      BY <1>2 DEF WritePolicy, StoreTypeOK
    <3>2. QED
      BY <3>1 DEF Edits
  <2>2. DOMAIN edits[t].policies = Id /\ DOMAIN policies = Id /\ s # Kept
    BY StoreAssumption DEF StoreTypeOK, Edits, Modules
  <2>3. Overlay(edits'[t].policies, policies)
          = [Overlay(edits[t].policies, policies) EXCEPT ![i] = s]
    BY <2>1, <2>2 DEF Overlay
  <2>4. QED
    BY <1>2, <2>1, <2>3 DEF WritePolicy, committed, PolicyView, DataView
<1>3. QED
  BY <1>1, <1>2

LEMMA ReplacedView ==
  ASSUME StoreTypeOK, NEW mods \in Modules, NEW docs \in Documents
  PROVE  Overlay(mods, policies) = mods /\ Overlay(docs, data) = docs
  BY DEF StoreTypeOK, Overlay, Modules, Documents

(* While a handler stands before its commit, the compiler is current.       *)
LEMMA CompilerAtOpen ==
  ASSUME IInv, NEW t \in Thread, pc[t] \in {"open", "commit", "locked"}
  PROVE  compiler = policies
<1>1. \A u \in Thread : pc[u] # "applied"
  BY OneWriter DEF IInv, WriterPC
<1>2. QED
  BY <1>1 DEF IInv, CompilerIsCurrent

-----------------------------------------------------------------------------
(* Each part of the invariant, over a step of one thread's handler.         *)

(* A step that keeps the locks and stays among the handlers that hold them. *)
LEMMA LocksKept ==
  ASSUME IInv, NEW t \in Thread, UNCHANGED locks,
         NEW l \in PC, pc' = [pc EXCEPT ![t] = l],
         l \in WriterPC <=> pc[t] \in WriterPC,
         l \in CommitPC <=> pc[t] \in CommitPC,
         l \in ReaderPC <=> pc[t] \in ReaderPC
  PROVE  LocksMatchHandlers'
<1>1. pc \in [Thread -> PC] BY DEF IInv, TypeOK, ApiTypeOK
<1>2. \A u \in Thread : /\ pc'[u] \in WriterPC <=> pc[u] \in WriterPC
                        /\ pc'[u] \in CommitPC <=> pc[u] \in CommitPC
                        /\ pc'[u] \in ReaderPC <=> pc[u] \in ReaderPC
  BY <1>1
<1>3. LocksMatchHandlers /\ wmu' = wmu /\ rmu' = rmu /\ readers' = readers BY DEF IInv, locks
<1>4. QED
  BY <1>2, <1>3 DEF LocksMatchHandlers

LEMMA LocksStep ==
  ASSUME IInv, NEW t \in Thread, Call(t) \/ Handler(t)
  PROVE  LocksMatchHandlers'
<1> USE DEF Goto, At
<1>0. /\ pc \in [Thread -> PC] /\ Nobody \notin Thread
      /\ \A u \in Thread : wmu = u <=> pc[u] \in WriterPC
      /\ \A u \in Thread : rmu = u <=> pc[u] \in CommitPC
      /\ readers = {u \in Thread : pc[u] \in ReaderPC}
      /\ wmu \in Thread \cup {Nobody} /\ rmu \in Thread \cup {Nobody}
  BY StoreAssumption DEF IInv, TypeOK, ApiTypeOK, StoreTypeOK, LocksMatchHandlers
<1>1. CASE Call(t) \/ Refuse(t) \/ Reply(t) \/ Panic(t)
  <2>1. /\ UNCHANGED locks /\ pc[t] \in {"idle", "called", "answering", "unwinding"}
        /\ \E l \in {"called", "answering", "idle"} : pc' = [pc EXCEPT ![t] = l]
    BY <1>1 DEF Call, Refuse, Reply, Panic, storeVars, locks
  <2>2. QED
    BY <2>1, LocksKept DEF PC, WriterPC, CommitPC, ReaderPC
<1>2. ASSUME NEW st, AbortWith(t, st), pc[t] = "open"
      PROVE  LocksMatchHandlers'
  <2>1. /\ wmu' = Nobody /\ rmu' = rmu /\ readers' = readers
        /\ pc' = [pc EXCEPT ![t] = "answering"]
    BY <1>2 DEF AbortWith, AbortWrite
  <2>2. QED
    BY <1>0, <1>2, <2>1 DEF LocksMatchHandlers, WriterPC, CommitPC, ReaderPC
<1>3. CASE OpenWrite(t)
  <2>1. /\ wmu = Nobody /\ wmu' = t /\ rmu' = rmu /\ readers' = readers
        /\ pc[t] = "called" /\ pc' = [pc EXCEPT ![t] = "open"]
    BY <1>3 DEF OpenWrite, BeginWrite
  <2>2. QED
    BY <1>0, <2>1 DEF LocksMatchHandlers, WriterPC, CommitPC, ReaderPC
<1>4. CASE OpenRead(t)
  <2>1. /\ wmu' = wmu /\ rmu' = rmu /\ readers' = readers \cup {t}
        /\ pc[t] = "called" /\ pc' = [pc EXCEPT ![t] = "reading"]
    BY <1>4 DEF OpenRead, BeginRead
  <2>2. QED
    BY <1>0, <2>1 DEF LocksMatchHandlers, WriterPC, CommitPC, ReaderPC
<1>5. ASSUME pc[t] = "open", UNCHANGED locks, NEW l \in {"open", "commit"}, pc' = [pc EXCEPT ![t] = l]
      PROVE  LocksMatchHandlers'
  BY <1>5, LocksKept DEF PC, WriterPC, CommitPC, ReaderPC
<1>6. CASE DataPut(t) \/ PatchWrite(t) \/ PatchDone(t) \/ DataDelete(t)
  <2>1. \/ \E st : AbortWith(t, st)
        \/ /\ UNCHANGED locks
           /\ \E l \in {"open", "commit"} : pc' = [pc EXCEPT ![t] = l]
    BY <1>0, <1>6 DEF DataPut, PatchWrite, PatchDone, DataDelete, WriteData, storeVars, locks
  <2>2. pc[t] = "open" BY <1>6 DEF DataPut, PatchWrite, PatchDone, DataDelete
  <2>3. QED
    BY <1>2, <1>5, <2>1, <2>2
<1>7. CASE PolicyPut(t) \/ PolicyDelete(t) \/ Reload(t)
  <2>1. \/ \E st : AbortWith(t, st)
        \/ UNCHANGED locks /\ pc' = [pc EXCEPT ![t] = "commit"]
    BY <1>7 DEF PolicyPut, PolicyDelete, Reload, WritePolicy, locks
  <2>2. pc[t] = "open" BY <1>7 DEF PolicyPut, PolicyDelete, Reload
  <2>3. QED
    BY <1>2, <1>5, <2>1, <2>2
<1>8. CASE Announce(t)
  <2>1. /\ rmu = Nobody /\ rmu' = t /\ wmu' = wmu /\ readers' = readers
        /\ pc[t] = "commit" /\ pc' = [pc EXCEPT ![t] = "locked"]
    BY <1>8 DEF Announce, CommitStep, AnnounceCommit
  <2>2. QED
    BY <1>0, <2>1 DEF LocksMatchHandlers, WriterPC, CommitPC, ReaderPC
<1>9. CASE Apply(t) \/ Trigger(t)
  <2>1. /\ UNCHANGED locks /\ pc[t] \in {"locked", "applied"}
        /\ \E l \in {"applied", "compiled"} : pc' = [pc EXCEPT ![t] = l]
    BY <1>9 DEF Apply, Trigger, CommitStep, ApplyEdits, RunTrigger
  <2>2. QED
    BY <2>1, LocksKept DEF PC, WriterPC, CommitPC, ReaderPC
<1>10. CASE Release(t)
  <2>1. /\ rmu' = Nobody /\ wmu' = Nobody /\ readers' = readers
        /\ pc[t] = "compiled" /\ pc' = [pc EXCEPT ![t] = "answering"]
    BY <1>10 DEF Release, CommitStep, ReleaseCommit
  <2>2. QED
    BY <1>0, <2>1 DEF LocksMatchHandlers, WriterPC, CommitPC, ReaderPC
<1>11. CASE ReadStore(t) \/ ReadCompiler(t) \/ SendPolicies(t)
  <2>1. /\ UNCHANGED locks /\ pc[t] = "reading"
        /\ \E l \in {"reading", "sending"} : pc' = [pc EXCEPT ![t] = l]
    BY <1>0, <1>11 DEF ReadStore, ReadCompiler, SendPolicies, storeVars, locks
  <2>2. QED
    BY <2>1, LocksKept DEF PC, WriterPC, CommitPC, ReaderPC
<1>12. CASE CloseRead(t) \/ FinishEvaluation(t) \/ GetUnknown(t)
  <2>1. /\ pc[t] \in ReaderPC
        /\ \E l \in PC \ (WriterPC \cup ReaderPC) : pc' = [pc EXCEPT ![t] = l]
        /\ wmu' = wmu /\ rmu' = rmu /\ readers' = readers \ {t}
    BY <1>12 DEF CloseRead, FinishEvaluation, GetUnknown, EndRead, PC, WriterPC, ReaderPC
  <2>2. QED
    BY <1>0, <2>1 DEF LocksMatchHandlers, WriterPC, CommitPC, ReaderPC
<1>13. QED
  BY <1>1, <1>3, <1>4, <1>6, <1>7, <1>8, <1>9, <1>10, <1>11, <1>12 DEF Handler

(* Where the steps of a write transaction before its commit lead.           *)
LEMMA UntouchedStep ==
  ASSUME IInv, NEW t \in Thread, Call(t) \/ Handler(t)
  PROVE  UntouchedViews'
<1> SUFFICES ASSUME NEW u \in Thread, pc'[u] = "open"
             PROVE  /\ edits'[u].policies = NoEdits.policies
                    /\ req'[u].op # "dataPatch" => edits'[u].data = NoEdits.data
  BY DEF UntouchedViews, NoEdits
<1>1. CASE u # t
  BY <1>1, OthersStay DEF IInv, UntouchedViews
<1>2. CASE u = t
  <2>1. OpenWrite(t) \/ PatchWrite(t)
    BY <1>2 DEF IInv, TypeOK, ApiTypeOK, Goto, Handler, Call, Refuse, OpenRead, DataPut,
       PatchDone, DataDelete, PolicyPut, PolicyDelete, Reload, AbortWith, Announce, Apply,
       Trigger, Release, CommitStep, ReadStore, ReadCompiler, SendPolicies, CloseRead,
       FinishEvaluation, GetUnknown, Panic, Reply, At
  <2>2. CASE OpenWrite(t)
    BY <1>2, <2>2 DEF OpenWrite, BeginWrite, IInv, TypeOK, StoreTypeOK
  <2>3. CASE PatchWrite(t)
    <3>1. CASE AbortWith(t, "500")
      BY <1>2, <3>1 DEF AbortWith, Goto, IInv, TypeOK, ApiTypeOK
    <3>2. CASE ~AbortWith(t, "500")
      BY <1>2, <2>3, <3>2 DEF PatchWrite, WriteData, At, IInv, UntouchedViews, TypeOK,
         StoreTypeOK, Edits
    <3>3. QED
      BY <3>1, <3>2
  <2>4. QED
    BY <2>1, <2>2, <2>3
<1>3. QED
  BY <1>1, <1>2

(* Removing a policy removes rules; removing a document removes conflicts.  *)
LEMMA ConflictsShrink ==
  ASSUME NEW mods \in Modules, NEW docs \in Documents, NoPathConflict(mods, docs)
  PROVE  /\ \A i \in Id : NoPathConflict([mods EXCEPT ![i] = NoSource], docs)
         /\ \A p \in Path : NoPathConflict(mods, [docs EXCEPT ![p] = NoDoc])
  BY DEF NoPathConflict, Defined, Modules, Documents

(* What a handler moves towards its commit compiles: one step per handler.  *)
LEMMA CheckedHere ==
  ASSUME IInv, NEW t \in Thread, Call(t) \/ Handler(t), pc'[t] \in {"commit", "locked"}
  PROVE  Compiles(PolicyView(t)', DataView(t)')
<1> USE DEF IInv, TypeOK
<1>1. pc[t] \in PC /\ pc'[t] \in {"commit", "locked"}
  BY DEF ApiTypeOK
<1>2. ASSUME NEW st, AbortWith(t, st) PROVE FALSE
  BY <1>1, <1>2 DEF AbortWith, Goto, ApiTypeOK
<1>3. \/ DataPut(t) \/ PatchDone(t) \/ DataDelete(t) \/ PolicyPut(t)
      \/ PolicyDelete(t) \/ Reload(t) \/ Announce(t)
  BY <1>1, <1>2 DEF ApiTypeOK, Goto, Handler, Call, Refuse, OpenWrite, OpenRead,
     PatchWrite, Apply, Trigger, Release, CommitStep, ReadStore, ReadCompiler,
     SendPolicies, CloseRead, FinishEvaluation, GetUnknown, Panic, Reply, At
<1>4. pc[t] = "open" =>
        /\ PolicyView(t) = policies /\ compiler = policies
        /\ req[t].op # "dataPatch" => DataView(t) = data
  BY UntouchedView, CompilerAtOpen DEF UntouchedViews
<1>5. Resolved(policies) /\ NoPathConflict(policies, data)
  BY DEF StoredPoliciesCompile, Compiles
<1>6. policies \in Modules /\ data \in Documents
  BY DEF StoreTypeOK
<1>7. CASE DataPut(t)
  <2> DEFINE p == req[t].path
             v == req[t].value
  <2>1. p \in Path /\ v \in Value
    BY <1>7, ServedRequest, RequestFields DEF DataPut, At
  <2>2. pc[t] = "open" /\ req[t].op = "dataPut"
    BY <1>7 DEF DataPut, At
  <2>3. WriteData(t, p, v) /\ ~ConflictsWithRules([DataView(t) EXCEPT ![p] = v])
    BY <1>2, <1>7 DEF DataPut
  <2>4. PolicyView(t)' = policies /\ DataView(t)' = [DataView(t) EXCEPT ![p] = v]
    BY <1>4, <2>1, <2>2, <2>3, WriteView
  <2>5. QED
    BY <1>4, <1>5, <2>2, <2>3, <2>4 DEF ConflictsWithRules, Compiles
<1>8. CASE PatchDone(t)
  <2>1. /\ pc[t] = "open" /\ ~ConflictsWithRules(DataView(t))
        /\ UNCHANGED storeVars
    BY <1>2, <1>8 DEF PatchDone, At
  <2>2. PolicyView(t)' = PolicyView(t) /\ DataView(t)' = DataView(t)
    BY <2>1, ViewFrame DEF storeVars
  <2>3. QED
    BY <1>4, <1>5, <2>1, <2>2 DEF ConflictsWithRules, Compiles
<1>9. CASE DataDelete(t)
  <2> DEFINE p == req[t].path
  <2>1. p \in Path
    BY <1>9, ServedRequest, RequestFields DEF DataDelete, At
  <2>2. pc[t] = "open" /\ req[t].op = "dataDelete" /\ WriteData(t, p, NoDoc)
    BY <1>2, <1>9 DEF DataDelete, At
  <2>3. PolicyView(t)' = policies /\ DataView(t)' = [data EXCEPT ![p] = NoDoc]
    BY <1>4, <2>1, <2>2, WriteView
  <2>4. NoPathConflict(policies, [data EXCEPT ![p] = NoDoc])
    BY <1>5, <1>6, <2>1, ConflictsShrink
  <2>5. QED
    BY <1>5, <2>3, <2>4 DEF Compiles
<1>10. CASE PolicyPut(t)
  <2> DEFINE i == req[t].id
             s == req[t].source
  <2>1. i \in Id /\ s \in Source \cup {Unparsable}
    BY <1>10, ServedRequest, RequestFields DEF PolicyPut, At
  <2>2. /\ s # Unparsable /\ WritePolicy(t, i, s)
        /\ Compiles([PolicyView(t) EXCEPT ![i] = s], DataView(t))
    BY <1>2, <1>10 DEF PolicyPut
  <2>3. QED
    BY <2>1, <2>2, WriteView
<1>11. CASE PolicyDelete(t)
  <2> DEFINE i == req[t].id
  <2>1. i \in Id
    BY <1>11, ServedRequest, RequestFields DEF PolicyDelete, At
  <2>2. /\ pc[t] = "open" /\ req[t].op = "policyDelete"
        /\ WritePolicy(t, i, NoSource)
        /\ Resolved([PolicyView(t) EXCEPT ![i] = NoSource])
    BY <1>2, <1>11 DEF PolicyDelete, At
  <2>3. PolicyView(t)' = [PolicyView(t) EXCEPT ![i] = NoSource] /\ DataView(t)' = DataView(t)
    BY <2>1, <2>2, WriteView
  <2>4. NoPathConflict([policies EXCEPT ![i] = NoSource], data)
    BY <1>5, <1>6, <2>1, ConflictsShrink
  <2>5. QED
    BY <1>4, <2>2, <2>3, <2>4 DEF Compiles
<1>12. CASE Reload(t)
  <2> DEFINE mods == ActivatedPolicies(req[t].bundle, PolicyView(t))
             docs == ActivatedData(req[t].bundle, DataView(t))
  <2>1. mods \in Modules /\ docs \in Documents
    BY <1>12, ServedRequest, ReloadFields, ViewTypes
       DEF Reload, At, ActivatedPolicies, ActivatedData, Modules, Documents
  <2>2. /\ Compiles(mods, docs)
        /\ edits' = [edits EXCEPT ![t] = [policies |-> mods, data |-> docs]]
        /\ UNCHANGED committed
    BY <1>2, <1>12 DEF Reload
  <2> HIDE DEF mods, docs
  <2>3. edits'[t].policies = mods /\ edits'[t].data = docs
    BY <2>2 DEF StoreTypeOK
  <2>4. PolicyView(t)' = mods /\ DataView(t)' = docs
    BY <2>1, <2>2, <2>3, ReplacedView DEF PolicyView, DataView, committed
  <2>5. QED
    BY <2>2, <2>4
<1>13. CASE Announce(t)
  <2>1. /\ pc[t] = "commit" /\ UNCHANGED <<policies, data, edits>>
    BY <1>13 DEF Announce, CommitStep, AnnounceCommit, committed
  <2>2. PolicyView(t)' = PolicyView(t) /\ DataView(t)' = DataView(t)
    BY <2>1, ViewFrame
  <2>3. QED
    BY <2>1, <2>2 DEF CheckedWrites
<1>14. QED
  BY <1>3, <1>7, <1>8, <1>9, <1>10, <1>11, <1>12, <1>13

LEMMA CheckedStep ==
  ASSUME IInv, NEW t \in Thread, Call(t) \/ Handler(t)
  PROVE  CheckedWrites'
<1> SUFFICES ASSUME NEW u \in Thread, pc'[u] \in {"commit", "locked"}
             PROVE  Compiles(PolicyView(u)', DataView(u)')
  BY DEF CheckedWrites, Compiles, Resolved, NoPathConflict, Defined
<1>1. CASE u = t
  BY <1>1, CheckedHere
<1>2. CASE u # t
  <2>1. pc[u] = pc'[u] /\ edits'[u] = edits[u]
    BY <1>2, OthersStay DEF IInv
  <2>2. ~Apply(t) /\ ~Trigger(t)
    BY <1>2, <2>1, OneWriter DEF IInv, WriterPC, Apply, Trigger, CommitStep
  <2>3. PolicyView(u)' = PolicyView(u) /\ DataView(u)' = DataView(u)
    BY <2>1, <2>2, CommittedStays, ViewFrame DEF committed
  <2>4. QED
    BY <2>1, <2>3 DEF IInv, CheckedWrites
<1>3. QED
  BY <1>1, <1>2

(* The steps of a commit keep the store compiled and the compiler owed or   *)
(* current.                                                                 *)
LEMMA ApplyStep ==
  ASSUME IInv, NEW t \in Thread, Apply(t)
  PROVE  StoredPoliciesCompile' /\ CompilerIsCurrent' /\ TriggerOwed'
<1> USE DEF IInv, TypeOK
<1>1. /\ pc[t] = "locked" /\ pc' = [pc EXCEPT ![t] = "applied"]
      /\ policies' = PolicyView(t) /\ data' = DataView(t)
      /\ UNCHANGED <<compiler, edits>>
  BY DEF Apply, CommitStep, Goto, ApplyEdits
<1>2. StoredPoliciesCompile'
  BY <1>1 DEF CheckedWrites, StoredPoliciesCompile
<1>3. pc'[t] = "applied"
  BY <1>1 DEF ApiTypeOK
<1>4. CompilerIsCurrent'
  BY <1>3 DEF CompilerIsCurrent
<1>5. ASSUME NEW u \in Thread, pc'[u] = "applied", ~PolicyChanged(u)'
      PROVE  compiler' = policies'
  <2>1. u = t
    <3>1. u # t => pc[u] = "applied"
      BY <1>1, <1>5 DEF ApiTypeOK
    <3>2. QED
      BY <1>1, <3>1, OneWriter DEF WriterPC
  <2>2. ~PolicyChanged(t)
    BY <1>1, <1>5, <2>1 DEF PolicyChanged
  <2>3. QED
    BY <1>1, <2>2, UntouchedView, CompilerAtOpen
<1>6. TriggerOwed'
  BY <1>5 DEF TriggerOwed
<1>7. QED
  BY <1>2, <1>4, <1>6

LEMMA TriggerStep ==
  ASSUME IInv, NEW t \in Thread, Trigger(t)
  PROVE  StoredPoliciesCompile' /\ CompilerIsCurrent' /\ TriggerOwed'
<1>1. /\ pc[t] = "applied" /\ pc' = [pc EXCEPT ![t] = "compiled"]
      /\ compiler' = IF PolicyChanged(t) THEN policies ELSE compiler
      /\ UNCHANGED <<policies, data>>
  BY DEF Trigger, CommitStep, Goto, RunTrigger
<1>2. compiler' = policies'
  BY <1>1 DEF IInv, TriggerOwed
<1>3. QED
  BY <1>1, <1>2 DEF IInv, StoredPoliciesCompile, CompilerIsCurrent, TriggerOwed

LEMMA CommittedStep ==
  ASSUME IInv, NEW t \in Thread, Call(t) \/ Handler(t)
  PROVE  StoredPoliciesCompile' /\ CompilerIsCurrent' /\ TriggerOwed'
<1> USE DEF IInv, TypeOK
<1>1. CASE Apply(t)
  BY <1>1, ApplyStep
<1>2. CASE Trigger(t)
  BY <1>2, TriggerStep
<1>3. CASE ~Apply(t) /\ ~Trigger(t)
  <2>1. UNCHANGED <<policies, data, compiler>>
    BY <1>3, CommittedStays DEF committed
  <2>2. pc'[t] # "applied"
    BY <1>3 DEF ApiTypeOK, PC, Handler, Call, Refuse, OpenWrite, OpenRead, DataPut,
       PatchWrite, PatchDone, DataDelete, PolicyPut, PolicyDelete, Reload, AbortWith,
       Announce, Release, CommitStep, ReadStore, ReadCompiler, SendPolicies, CloseRead,
       FinishEvaluation, GetUnknown, Panic, Reply, At, Goto
  <2>3. pc[t] # "applied"
    BY <1>3 DEF Handler, Call, Refuse, OpenWrite, OpenRead, DataPut,
       PatchWrite, PatchDone, DataDelete, PolicyPut, PolicyDelete, Reload,
       Announce, Release, CommitStep, ReadStore, ReadCompiler, SendPolicies, CloseRead,
       FinishEvaluation, GetUnknown, Panic, Reply, At
  <2>4. \A u \in Thread : pc[u] # "applied" <=> pc'[u] # "applied"
    BY <2>2, <2>3, OthersStay
  <2>5. StoredPoliciesCompile' /\ CompilerIsCurrent'
    BY <2>1, <2>4 DEF StoredPoliciesCompile, CompilerIsCurrent
  <2>6. TriggerOwed'
    <3>1. ASSUME NEW u \in Thread, pc'[u] = "applied", ~PolicyChanged(u)'
          PROVE  compiler' = policies'
      <4>1. u # t /\ edits'[u] = edits[u] /\ pc[u] = "applied"
        BY <3>1, <2>2, OthersStay
      <4>2. ~PolicyChanged(u)
        BY <3>1, <4>1 DEF PolicyChanged
      <4>3. QED
        BY <2>1, <4>1, <4>2 DEF TriggerOwed
    <3>2. QED
      BY <3>1 DEF TriggerOwed
  <2>7. QED
    BY <2>5, <2>6
<1>4. QED
  BY <1>1, <1>2, <1>3

(* Readers and commits exclude each other.                                  *)
LEMMA NoReaderStep ==
  ASSUME IInv, NEW t \in Thread, Call(t) \/ Handler(t)
  PROVE  NoReaderInCommit'
<1> USE DEF IInv, TypeOK
<1> SUFFICES ASSUME NEW u \in Thread, pc'[u] \in {"applied", "compiled"}
             PROVE  readers' = {}
  BY DEF NoReaderInCommit
<1>1. CASE OpenRead(t)
  <2>1. u # t /\ rmu = Nobody
    BY <1>1 DEF OpenRead, BeginRead, Goto, ApiTypeOK
  <2>2. rmu = u
    BY <2>1, OthersStay DEF LocksMatchHandlers, CommitPC
  <2>3. QED
    BY <2>1, <2>2
<1>2. CASE Apply(t)
  BY <1>2 DEF Apply, ApplyEdits, locks
<1>3. CASE ~OpenRead(t) /\ ~Apply(t)
  <2>1. ASSUME NEW st, AbortWith(t, st)
        PROVE  readers' = readers
    BY <2>1 DEF AbortWith, AbortWrite
  <2>2. readers' \in SUBSET readers
    BY <1>3, <2>1 DEF Handler, Call, Refuse, OpenWrite, BeginWrite, DataPut, PatchWrite,
       PatchDone, DataDelete, WriteData, PolicyPut, PolicyDelete, WritePolicy, Reload,
       Announce, AnnounceCommit, Trigger, RunTrigger, Release, ReleaseCommit, ReadStore,
       ReadCompiler, SendPolicies, CloseRead, FinishEvaluation, GetUnknown, EndRead,
       Panic, Reply, storeVars, locks
  <2>3. pc'[t] = "applied" => Apply(t)
    BY <1>3 DEF ApiTypeOK, PC, Handler, Call, Refuse, OpenWrite, DataPut,
       PatchWrite, PatchDone, DataDelete, PolicyPut, PolicyDelete, Reload, AbortWith,
       Announce, Trigger, Release, CommitStep, ReadStore, ReadCompiler, SendPolicies,
       CloseRead, FinishEvaluation, GetUnknown, Panic, Reply, At, Goto
  <2>4. pc'[t] = "compiled" => Trigger(t)
    BY <1>3 DEF ApiTypeOK, PC, Handler, Call, Refuse, OpenWrite, DataPut,
       PatchWrite, PatchDone, DataDelete, PolicyPut, PolicyDelete, Reload, AbortWith,
       Announce, Trigger, Release, CommitStep, ReadStore, ReadCompiler, SendPolicies,
       CloseRead, FinishEvaluation, GetUnknown, Panic, Reply, At, Goto
  <2>5. pc[u] \in {"applied", "compiled"}
    BY <1>3, <2>3, <2>4, OthersStay DEF Trigger, CommitStep
  <2>6. QED
    BY <2>2, <2>5 DEF NoReaderInCommit
<1>4. QED
  BY <1>1, <1>2, <1>3

(* What a step does to what its own thread has read. *)
LEMMA ReadHere ==
  ASSUME IInv, NEW t \in Thread, Call(t) \/ Handler(t)
  PROVE  \/ seen'[t] = seen[t] /\ (pc'[t] \in ReaderPC => pc[t] \in ReaderPC)
         \/ seen'[t] = Nothing
         \/ /\ pc[t] \in ReaderPC /\ UNCHANGED storeVars
            /\ \/ /\ seen'[t].policies = policies /\ seen'[t].data = data
                  /\ seen'[t].compiler = seen[t].compiler
               \/ /\ seen'[t].compiler = compiler
                  /\ seen'[t].policies = seen[t].policies
                  /\ seen'[t].data = seen[t].data
<1> USE DEF IInv, TypeOK, ApiTypeOK, ReaderPC, Goto, At
<1>1. CASE ReadStore(t)
  BY <1>1 DEF ReadStore, Sight
<1>2. CASE ReadCompiler(t)
  BY <1>2 DEF ReadCompiler, Sight
<1>3. CASE OpenRead(t) \/ CloseRead(t) \/ Reply(t)
  BY <1>3 DEF OpenRead, CloseRead, Reply
<1>4. ASSUME NEW st, AbortWith(t, st)
      PROVE  seen'[t] = seen[t] /\ (pc'[t] \in ReaderPC => pc[t] \in ReaderPC)
  BY <1>4 DEF AbortWith
<1>5. CASE DataPut(t) \/ PatchWrite(t) \/ PatchDone(t) \/ DataDelete(t)
  BY <1>4, <1>5 DEF DataPut, PatchWrite, PatchDone, DataDelete
<1>6. CASE PolicyPut(t) \/ PolicyDelete(t) \/ Reload(t)
  BY <1>4, <1>6 DEF PolicyPut, PolicyDelete, Reload
<1>7. CASE \/ Call(t) \/ Refuse(t) \/ OpenWrite(t) \/ Announce(t) \/ Apply(t)
           \/ Trigger(t) \/ Release(t)
  BY <1>7 DEF Call, Refuse, OpenWrite, Announce, Apply, Trigger, Release, CommitStep
<1>8. CASE SendPolicies(t) \/ FinishEvaluation(t) \/ GetUnknown(t) \/ Panic(t)
  BY <1>8 DEF SendPolicies, FinishEvaluation, GetUnknown, Panic
<1>9. QED
  BY <1>1, <1>2, <1>3, <1>5, <1>6, <1>7, <1>8 DEF Handler

LEMMA CompilerForReaders ==
  ASSUME IInv, NEW t \in Thread, pc[t] \in ReaderPC
  PROVE  compiler = policies /\ ~\E u \in Thread : Apply(u) \/ Trigger(u)
<1>1. t \in readers
  BY DEF IInv, LocksMatchHandlers
<1>2. \A u \in Thread : pc[u] # "applied" /\ ~Apply(u)
  BY <1>1 DEF IInv, NoReaderInCommit, Apply, ApplyEdits
<1>3. QED
  BY <1>2 DEF IInv, CompilerIsCurrent, Trigger, CommitStep

LEMMA ReadersStep ==
  ASSUME IInv, NEW t \in Thread, Call(t) \/ Handler(t)
  PROVE  ReadersCurrent'
<1> SUFFICES ASSUME NEW u \in Thread, pc'[u] \in ReaderPC
             PROVE  /\ seen'[u].policies # Unread =>
                         seen'[u].policies = policies' /\ seen'[u].data = data'
                    /\ seen'[u].compiler # Unread => seen'[u].compiler = policies'
  BY DEF ReadersCurrent, ReaderPC
<1>1. CASE pc[u] \in ReaderPC
  <2>1. compiler = policies /\ UNCHANGED <<policies, data, compiler>>
    BY <1>1, CompilerForReaders, CommittedStays DEF committed
  <2>2. CASE u # t \/ seen'[u] = seen[u]
    BY <1>1, <2>1, <2>2, OthersStay DEF IInv, ReadersCurrent
  <2>3. CASE u = t /\ seen'[u] # seen[u]
    BY <1>1, <2>1, <2>3, ReadHere DEF IInv, ReadersCurrent, Nothing
  <2>4. QED
    BY <2>2, <2>3
<1>2. CASE pc[u] \notin ReaderPC
  BY <1>2, OthersStay, ReadHere DEF IInv, Nothing
<1>3. QED
  BY <1>1, <1>2

LEMMA OneVersionStep ==
  ASSUME IInv, NEW t \in Thread, Call(t) \/ Handler(t)
  PROVE  ReadersSeeOneVersion'
<1> SUFFICES ASSUME NEW u \in Thread, HasRead(u)'
             PROVE  /\ seen'[u].policies = seen'[u].compiler
                    /\ NoPathConflict(seen'[u].compiler, seen'[u].data)
  BY DEF ReadersSeeOneVersion, NoPathConflict, Defined
<1>1. CASE seen'[u] = seen[u]
  BY <1>1 DEF IInv, ReadersSeeOneVersion, HasRead
<1>2. CASE seen'[u] # seen[u]
  <2>1. u = t /\ seen'[u] # Nothing
    BY <1>2, OthersStay DEF IInv, HasRead, Nothing
  <2>2. /\ pc[t] \in ReaderPC /\ compiler = policies
        /\ seen'[t].compiler \in {compiler, seen[t].compiler}
        /\ \/ seen'[t].policies = policies /\ seen'[t].data = data
           \/ seen'[t].policies = seen[t].policies /\ seen'[t].data = seen[t].data
    BY <1>2, <2>1, ReadHere, CompilerForReaders
  <2>3. /\ seen'[t].policies = policies /\ seen'[t].data = data
        /\ seen'[t].compiler = policies
    BY <2>1, <2>2 DEF HasRead, IInv, ReadersCurrent
  <2>4. QED
    BY <2>1, <2>3 DEF IInv, StoredPoliciesCompile, Compiles
<1>3. QED
  BY <1>1, <1>2

-----------------------------------------------------------------------------
(* A start establishes the invariant.                                       *)
LEMMA StartInv ==
  ASSUME \E b \in Bootable : policies = b.policies /\ data = b.data /\ compiler = b.policies,
         wmu = Nobody, rmu = Nobody, readers = {},
         pc = [t \in Thread |-> "idle"],
         seen = [t \in Thread |-> Nothing],
         TypeOK
  PROVE  IInv
<1>1. Compiles(policies, data) /\ compiler = policies
  BY DEF Bootable
<1>2. LocksMatchHandlers
  BY DEF LocksMatchHandlers, WriterPC, CommitPC, ReaderPC
<1>3. QED
  BY <1>1, <1>2 DEF IInv, StoredPoliciesCompile, CompilerIsCurrent, TriggerOwed,
     UntouchedViews, CheckedWrites, NoReaderInCommit, ReadersCurrent, ReaderPC,
     ReadersSeeOneVersion, HasRead, Nothing

THEOREM Inductive == Spec => []IInv
<1>1. Init => IInv
  <2> SUFFICES ASSUME Init PROVE IInv
    OBVIOUS
  <2>1. TypeOK
    BY NoEditsType DEF Init, TypeOK, StoreTypeOK, ApiTypeOK, Bootable, Bundle, PC,
       Nothing, Sight
  <2>2. QED
    BY <2>1, StartInv DEF Init
<1>2. IInv /\ [Next]_vars => IInv'
  <2> SUFFICES ASSUME IInv, [Next]_vars PROVE IInv'
    OBVIOUS
  <2>1. CASE UNCHANGED vars
    <3>1. TypeOK' /\ LocksMatchHandlers' /\ NoReaderInCommit' /\ UntouchedViews'
      BY <2>1 DEF vars, storeVars, apiVars, IInv, TypeOK, StoreTypeOK, ApiTypeOK,
         LocksMatchHandlers, NoReaderInCommit, UntouchedViews
    <3>2. StoredPoliciesCompile' /\ CompilerIsCurrent' /\ TriggerOwed'
      BY <2>1, ViewFrame DEF vars, storeVars, apiVars, IInv, StoredPoliciesCompile,
         CompilerIsCurrent, TriggerOwed
    <3>3. CheckedWrites'
      BY <2>1, ViewFrame DEF vars, storeVars, apiVars, IInv, CheckedWrites
    <3>4. ReadersCurrent' /\ ReadersSeeOneVersion'
      BY <2>1 DEF vars, storeVars, apiVars, IInv, ReadersCurrent, ReadersSeeOneVersion,
         HasRead
    <3>5. QED
      BY <3>1, <3>2, <3>3, <3>4 DEF IInv
  <2>2. ASSUME NEW t \in Thread, Call(t) \/ Handler(t)
        PROVE  IInv'
    <3>1. TypeOK'
      BY <2>2, TypeStep DEF IInv
    <3>2. QED
      BY <2>2, <3>1, LocksStep, CommittedStep, UntouchedStep, CheckedStep, NoReaderStep,
         ReadersStep, OneVersionStep DEF IInv
  <2>3. ASSUME NEW t \in Thread, FatalReply(t)
        PROVE  IInv'
    <3>1. TypeOK'
      BY <2>3, TypeStep DEF IInv
    <3>2. Compiles(policies, data)' /\ compiler' = policies'
      BY <2>3 DEF FatalReply, Bootable, Compiles, Resolved, NoPathConflict, Defined
    <3>3. LocksMatchHandlers'
      BY <2>3 DEF FatalReply, LocksMatchHandlers, WriterPC, CommitPC, ReaderPC
    <3>4. \A u \in Thread : pc'[u] = "idle" /\ seen'[u] = Nothing
      BY <2>3 DEF FatalReply
    <3>5. StoredPoliciesCompile' /\ CompilerIsCurrent' /\ TriggerOwed'
      BY <3>2, <3>4 DEF StoredPoliciesCompile, CompilerIsCurrent, TriggerOwed
    <3>6. UntouchedViews' /\ CheckedWrites' /\ NoReaderInCommit'
      BY <3>4 DEF UntouchedViews, CheckedWrites, NoReaderInCommit
    <3>7. ReadersCurrent' /\ ReadersSeeOneVersion'
      BY <3>4 DEF ReadersCurrent, ReadersSeeOneVersion, ReaderPC, HasRead, Nothing
    <3>8. QED
      BY <3>1, <3>3, <3>5, <3>6, <3>7 DEF IInv
  <2>4. QED
    BY <2>1, <2>2, <2>3 DEF Next
<1>3. QED
  BY <1>1, <1>2, PTL DEF Spec

(* Every handler holds the locks exactly while its transaction is open.     *)
THEOREM NoTransactionLeaks == Spec => []LocksMatchHandlers
BY Inductive, PTL DEF IInv

(* The store never holds policies that do not compile with its documents.   *)
THEOREM StoreCompiles == Spec => []StoredPoliciesCompile
BY Inductive, PTL DEF IInv

(* The compiler in service is built from the stored policies.               *)
THEOREM CompilerCurrent == Spec => []CompilerIsCurrent
BY Inductive, PTL DEF IInv

(* No reader combines policies, compiler and documents of different commits.*)
THEOREM SnapshotReads == Spec => []ReadersSeeOneVersion
BY Inductive, PTL DEF IInv

-----------------------------------------------------------------------------
(* What bundle roots own.  A client's transaction writes nothing there:     *)
(* the patches that wait lie under the path whose scope is checked, and a   *)
(* deleted policy is looked at while the mutex keeps it in place.  What a   *)
(* put replaces is not looked at.                                           *)
PatchesUnderRequest ==
  \A t \in Thread : pc[t] \in {"called", "open"} /\ req[t].op = "dataPatch" =>
    \A n \in DOMAIN todo[t] : todo[t][n].path \in req[t].under

Unowned(r, mods, i, s) ==
  /\ ~Owns(s)
  /\ Owns(mods[i]) => s # NoSource /\ r.op = "policyPut" /\ r.id = i

WritesUnowned(t) ==
  /\ \A p \in Protected : edits[t].data[p] = Kept
  /\ \A i \in Id : edits[t].policies[i] # Kept =>
       Unowned(req[t], policies, i, edits[t].policies[i])

ScopedWrites ==
  \A t \in Thread \ {Watcher} : pc[t] \in {"open", "commit", "locked"} => WritesUnowned(t)

ScopeInv == IInv /\ PatchesUnderRequest /\ ScopedWrites

LEMMA PatchesStep ==
  ASSUME ScopeInv, NEW t \in Thread, Call(t) \/ Handler(t)
  PROVE  PatchesUnderRequest'
<1> USE DEF ScopeInv, IInv, TypeOK, ApiTypeOK, Goto, At
<1> SUFFICES ASSUME NEW u \in Thread, pc'[u] \in {"called", "open"},
                    req'[u].op = "dataPatch"
             PROVE  \A n \in DOMAIN todo'[u] : todo'[u][n].path \in req'[u].under
  BY DEF PatchesUnderRequest
<1>1. CASE u # t
  <2>1. ASSUME NEW st, AbortWith(t, st)
        PROVE  todo'[u] = todo[u]
    BY <1>1, <2>1 DEF AbortWith
  <2>2. todo'[u] = todo[u]
    BY <1>1, <2>1 DEF Handler, Call, Refuse, OpenWrite, OpenRead, DataPut, PatchWrite,
       PatchDone, DataDelete, PolicyPut, PolicyDelete, Reload, Announce, Apply, Trigger,
       Release, CommitStep, ReadStore, ReadCompiler, SendPolicies, CloseRead,
       FinishEvaluation, GetUnknown, Panic, Reply
  <2>3. QED
    BY <1>1, <2>2, OthersStay DEF PatchesUnderRequest
<1>2. CASE u = t /\ Call(t)
  <2>1. PICK r \in IF t = Watcher THEN Reloads ELSE Requests :
           /\ req' = [req EXCEPT ![t] = r]
           /\ todo' = [todo EXCEPT ![t] = IF r.op = "dataPatch" THEN r.ops ELSE <<>>]
    BY <1>2 DEF Call
  <2>2. r \in Requests /\ r.op = "dataPatch" /\ req'[u] = r /\ todo'[u] = r.ops
    BY <1>2, <2>1, ReloadFields
  <2>3. QED
    BY <2>2
<1>3. CASE u = t /\ OpenWrite(t)
  BY <1>3 DEF OpenWrite, PatchesUnderRequest
<1>4. CASE u = t /\ PatchWrite(t)
  <2>1. CASE AbortWith(t, "500")
    BY <1>4, <2>1 DEF AbortWith
  <2>2. CASE ~AbortWith(t, "500")
    <3>1. /\ pc[t] = "open" /\ req[t].op = "dataPatch" /\ todo[t] # <<>>
          /\ todo'[t] = Tail(todo[t]) /\ req'[t] = req[t]
      BY <1>4, <2>2 DEF PatchWrite
    <3>2. todo[t] \in Seq(PatchOp)
      OBVIOUS
    <3>3. \A n \in DOMAIN Tail(todo[t]) :
            n + 1 \in DOMAIN todo[t] /\ Tail(todo[t])[n] = todo[t][n + 1]
      BY <3>1, <3>2
    <3>4. QED
      BY <1>4, <3>1, <3>3 DEF PatchesUnderRequest
  <2>3. QED
    BY <2>1, <2>2
<1>5. CASE u = t /\ ~Call(t) /\ ~OpenWrite(t) /\ ~PatchWrite(t)
  BY <1>5 DEF PC, Handler, Refuse, OpenRead, DataPut, PatchDone, DataDelete, PolicyPut,
     PolicyDelete, Reload, AbortWith, Announce, Apply, Trigger, Release, CommitStep,
     ReadStore, ReadCompiler, SendPolicies, CloseRead, FinishEvaluation, GetUnknown,
     Panic, Reply
<1>6. QED
  BY <1>1, <1>2, <1>3, <1>4, <1>5

(* What a client's handler writes is unowned: one step per handler.         *)
LEMMA ScopedHere ==
  ASSUME ScopeInv, NEW t \in Thread, t # Watcher, Call(t) \/ Handler(t),
         pc'[t] \in {"open", "commit", "locked"}
  PROVE  WritesUnowned(t)'
<1> USE DEF ScopeInv, IInv, TypeOK, ApiTypeOK, Goto, At
<1>1. ASSUME NEW st, AbortWith(t, st) PROVE FALSE
  BY <1>1 DEF AbortWith
<1>0. req'[t] = req[t] \/ OpenWrite(t) \/ Call(t)
  BY <1>1 DEF Handler, Refuse, OpenRead, DataPut, PatchWrite, PatchDone, DataDelete,
     PolicyPut, PolicyDelete, Reload, Announce, Apply, Trigger, Release, CommitStep,
     ReadStore, ReadCompiler, SendPolicies, CloseRead, FinishEvaluation, GetUnknown,
     Panic, Reply
<1>2. pc[t] = "open" =>
        /\ WritesUnowned(t) /\ PolicyView(t) = policies
        /\ edits[t].policies = NoEdits.policies
  BY UntouchedView DEF UntouchedViews, ScopedWrites
<1>3. req[t].op # "reload"
  <2>1. req[t] \in Requests \cup {NoRequest}
    OBVIOUS
  <2>2. CASE req[t] \in Requests
    BY <2>2, RequestFields
  <2>3. CASE req[t] = NoRequest
    BY <2>3 DEF NoRequest
  <2>4. QED
    BY <2>1, <2>2, <2>3
<1>4. \/ OpenWrite(t) \/ DataPut(t) \/ PatchWrite(t) \/ PatchDone(t) \/ DataDelete(t)
      \/ PolicyPut(t) \/ PolicyDelete(t) \/ Announce(t)
  BY <1>3 DEF PC, Handler, Call, Refuse, OpenRead, Reload, Apply, Trigger, Release,
     CommitStep, ReadStore, ReadCompiler, SendPolicies, CloseRead, FinishEvaluation,
     GetUnknown, Panic, Reply
<1>5. ASSUME NEW p \in Path, NEW v \in Value \cup {NoDoc}, p \notin Protected,
             WriteData(t, p, v), pc[t] = "open", req'[t] = req[t]
      PROVE  WritesUnowned(t)'
  <2>1. /\ edits'[t].policies = edits[t].policies /\ policies' = policies
        /\ edits'[t].data = [edits[t].data EXCEPT ![p] = v]
    BY <1>5 DEF WriteData, StoreTypeOK, Edits, committed
  <2>2. edits[t].data \in [Path -> Value \cup {NoDoc, Kept}] /\ Protected \subseteq Path
    BY DEF StoreTypeOK, Edits, Protected
  <2>3. QED
    BY <1>2, <1>5, <2>1, <2>2 DEF WritesUnowned, Unowned
<1>6. ASSUME NEW i \in Id, NEW s \in Source \cup {NoSource},
             Unowned(req[t], policies, i, s), WritePolicy(t, i, s), pc[t] = "open",
             req'[t] = req[t]
      PROVE  WritesUnowned(t)'
  <2>1. /\ edits'[t].data = edits[t].data /\ policies' = policies
        /\ edits'[t].policies = [edits[t].policies EXCEPT ![i] = s]
    BY <1>6 DEF WritePolicy, StoreTypeOK, Edits, committed
  <2>2. edits[t].policies = [j \in Id |-> Kept]
    BY <1>2, <1>6 DEF NoEdits
  <2>3. QED
    BY <1>2, <1>6, <2>1, <2>2 DEF WritesUnowned, Unowned
<1>7. CASE OpenWrite(t)
  BY <1>7 DEF OpenWrite, BeginWrite, NoEdits, StoreTypeOK, WritesUnowned, Protected
<1>8. CASE DataPut(t)
  <2>1. req[t].path \in Path /\ req[t].value \in Value
    BY <1>8, ServedRequest, RequestFields DEF DataPut
  <2>2. /\ pc[t] = "open" /\ WriteData(t, req[t].path, req[t].value) /\ req'[t] = req[t]
        /\ ~CheckPathScope({req[t].path})
    BY <1>1, <1>8 DEF DataPut
  <2>3. QED
    BY <1>5, <2>1, <2>2 DEF CheckPathScope
<1>9. CASE PatchWrite(t)
  <2> DEFINE patch == Head(todo[t])
             v     == IF patch.op = "remove" THEN NoDoc ELSE patch.value
  <2>1. /\ pc[t] = "open" /\ req[t].op = "dataPatch" /\ todo[t] # <<>>
        /\ WriteData(t, patch.path, v) /\ ~CheckPathScope(req[t].under)
        /\ req'[t] = req[t]
    BY <1>1, <1>9 DEF PatchWrite
  <2>2. patch \in PatchOp /\ patch = todo[t][1] /\ 1 \in DOMAIN todo[t]
    BY <2>1
  <2>3. patch.path \in req[t].under /\ patch.path \in Path /\ v \in Value \cup {NoDoc}
    BY <2>1, <2>2 DEF PatchOp, PatchesUnderRequest
  <2> HIDE DEF patch, v
  <2>4. QED
    BY <1>5, <2>1, <2>3 DEF CheckPathScope
<1>10. CASE PatchDone(t)
  BY <1>1, <1>2, <1>10 DEF PatchDone, storeVars, WritesUnowned, Unowned
<1>11. CASE DataDelete(t)
  <2>1. req[t].path \in Path
    BY <1>11, ServedRequest, RequestFields DEF DataDelete
  <2>2. /\ pc[t] = "open" /\ WriteData(t, req[t].path, NoDoc) /\ req'[t] = req[t]
        /\ ~CheckPathScope({req[t].path})
    BY <1>1, <1>11 DEF DataDelete
  <2>3. QED
    BY <1>5, <2>1, <2>2 DEF CheckPathScope
<1>12. CASE PolicyPut(t)
  <2>1. req[t].id \in Id /\ req[t].source \in Source \cup {Unparsable}
    BY <1>12, ServedRequest, RequestFields DEF PolicyPut
  <2>2. /\ pc[t] = "open" /\ WritePolicy(t, req[t].id, req[t].source)
        /\ req[t].source # Unparsable /\ ~CheckPathScope({Package[req[t].source]})
        /\ req[t].op = "policyPut" /\ req'[t] = req[t]
    BY <1>1, <1>12 DEF PolicyPut
  <2>3. /\ req[t].source \in Source
        /\ Unowned(req[t], policies, req[t].id, req[t].source)
    BY <2>1, <2>2, StoreAssumption DEF CheckPathScope, Unowned, Owns
  <2>4. QED
    BY <1>6, <2>1, <2>2, <2>3
<1>13. CASE PolicyDelete(t)
  <2>1. req[t].id \in Id
    BY <1>13, ServedRequest, RequestFields DEF PolicyDelete
  <2>2. /\ pc[t] = "open" /\ WritePolicy(t, req[t].id, NoSource)
        /\ ~CheckPathScope({Package[PolicyView(t)[req[t].id]]}) /\ req'[t] = req[t]
    BY <1>1, <1>13 DEF PolicyDelete
  <2>3. Unowned(req[t], policies, req[t].id, NoSource)
    BY <1>2, <2>2 DEF CheckPathScope, Unowned, Owns
  <2>4. QED
    BY <1>6, <2>1, <2>2, <2>3
<1>14. CASE Announce(t)
  BY <1>14 DEF Announce, CommitStep, AnnounceCommit, committed, ScopedWrites,
     WritesUnowned, Unowned
<1>15. QED
  BY <1>4, <1>7, <1>8, <1>9, <1>10, <1>11, <1>12, <1>13, <1>14

LEMMA ScopedStep ==
  ASSUME ScopeInv, NEW t \in Thread, Call(t) \/ Handler(t)
  PROVE  ScopedWrites'
<1> USE DEF ScopeInv, IInv, TypeOK
<1> SUFFICES ASSUME NEW u \in Thread \ {Watcher}, pc'[u] \in {"open", "commit", "locked"}
             PROVE  WritesUnowned(u)'
  BY DEF ScopedWrites
<1>1. CASE u = t
  BY <1>1, ScopedHere
<1>2. CASE u # t
  <2>1. pc'[u] = pc[u] /\ edits'[u] = edits[u] /\ req'[u] = req[u]
    BY <1>2, OthersStay
  <2>2. ~Apply(t) /\ ~Trigger(t)
    BY <1>2, <2>1, OneWriter DEF WriterPC, Apply, Trigger, CommitStep
  <2>3. policies' = policies
    BY <2>2, CommittedStays DEF committed
  <2>4. QED
    BY <2>1, <2>3 DEF ScopedWrites, WritesUnowned, Unowned, Protected
<1>3. QED
  BY <1>1, <1>2

(* Whatever clients send, what a bundle root owns changes only by a reload  *)
(* or a restart, or where a put of a policy of another package takes the    *)
(* id of an owned one, which the code does not refuse.                      *)
THEOREM OwnedReloadedOrReplaced == Spec => OwnedOnlyReloadedOrReplaced
<1> DEFINE OnlyUnowned ==
      \/ rmu = Watcher
      \/ \E u \in Thread : FatalReply(u)
      \/ /\ \A p \in Protected : data'[p] = data[p]
         /\ \A i \in Id : policies'[i] # policies[i] =>
              /\ ~Owns(policies'[i])
              /\ Owns(policies[i]) => policies'[i] # NoSource /\ Puts(i)
<1>1. Init => PatchesUnderRequest /\ ScopedWrites
  BY DEF Init, PatchesUnderRequest, ScopedWrites
<1>2. ScopeInv /\ [Next]_vars /\ IInv' => (PatchesUnderRequest /\ ScopedWrites)'
  <2> SUFFICES ASSUME ScopeInv, [Next]_vars PROVE (PatchesUnderRequest /\ ScopedWrites)'
    OBVIOUS
  <2>1. CASE UNCHANGED vars
    BY <2>1 DEF vars, storeVars, apiVars, ScopeInv, PatchesUnderRequest, ScopedWrites,
       WritesUnowned, Unowned, Protected
  <2>2. ASSUME NEW t \in Thread, Call(t) \/ Handler(t)
        PROVE  (PatchesUnderRequest /\ ScopedWrites)'
    BY <2>2, PatchesStep, ScopedStep
  <2>3. ASSUME NEW t \in Thread, FatalReply(t)
        PROVE  (PatchesUnderRequest /\ ScopedWrites)'
    BY <2>3 DEF FatalReply, PatchesUnderRequest, ScopedWrites
  <2>4. QED
    BY <2>1, <2>2, <2>3 DEF Next
<1>3. ASSUME ScopeInv, NEW t \in Thread, Apply(t), rmu # Watcher
      PROVE  /\ \A p \in Protected : data'[p] = data[p]
             /\ \A i \in Id : policies'[i] # policies[i] =>
                  /\ ~Owns(policies'[i])
                  /\ Owns(policies[i]) => policies'[i] # NoSource /\ Puts(i)
  <2>1. /\ pc[t] = "locked" /\ policies' = PolicyView(t) /\ data' = DataView(t)
    BY <1>3 DEF Apply, CommitStep, ApplyEdits
  <2>2. rmu = t
    BY <1>3, <2>1 DEF ScopeInv, IInv, LocksMatchHandlers, CommitPC
  <2>3. WritesUnowned(t)
    BY <1>3, <2>1, <2>2 DEF ScopeInv, ScopedWrites
  <2>4. policies \in Modules /\ data \in Documents /\ Protected \subseteq Path
    BY <1>3 DEF ScopeInv, IInv, TypeOK, StoreTypeOK, Protected
  <2>5. ASSUME NEW i \in Id, policies'[i] # policies[i]
        PROVE  Unowned(req[t], policies, i, policies'[i])
    BY <2>1, <2>3, <2>4, <2>5 DEF WritesUnowned, PolicyView, Overlay, Modules
  <2>6. \A p \in Protected : data'[p] = data[p]
    BY <2>1, <2>3, <2>4 DEF WritesUnowned, DataView, Overlay, Documents
  <2>7. QED
    BY <2>1, <2>5, <2>6 DEF Unowned, Puts
<1>4. ScopeInv /\ [Next]_vars => OnlyUnowned
  <2> SUFFICES ASSUME ScopeInv, [Next]_vars, rmu # Watcher,
                      ~\E u \in Thread : FatalReply(u)
               PROVE  /\ \A p \in Protected : data'[p] = data[p]
                      /\ \A i \in Id : policies'[i] # policies[i] =>
                           /\ ~Owns(policies'[i])
                           /\ Owns(policies[i]) => policies'[i] # NoSource /\ Puts(i)
    OBVIOUS
  <2>1. CASE \E t \in Thread : Apply(t)
    BY <1>3, <2>1
  <2>2. CASE ~\E t \in Thread : Apply(t)
    <3>1. policies' = policies /\ data' = data
      <4>1. CASE UNCHANGED vars
        BY <4>1 DEF vars, storeVars
      <4>2. ASSUME NEW t \in Thread, Call(t) \/ Handler(t)
            PROVE  policies' = policies /\ data' = data
        <5>1. CASE Trigger(t)
          BY <5>1 DEF Trigger, RunTrigger
        <5>2. CASE ~Trigger(t)
          BY <2>2, <4>2, <5>2, CommittedStays DEF committed
        <5>3. QED
          BY <5>1, <5>2
      <4>3. QED
        BY <4>1, <4>2 DEF Next
    <3>2. QED
      BY <3>1
  <2>3. QED
    BY <2>1, <2>2
<1>5. Spec => []ScopeInv
  BY <1>1, <1>2, Inductive, PTL DEF Spec, ScopeInv
<1>6. ScopeInv /\ [Next]_vars =>
        [ \/ rmu = Watcher
          \/ \E t \in Thread : FatalReply(t)
          \/ /\ \A p \in Protected : data'[p] = data[p]
             /\ \A i \in Id : policies'[i] # policies[i] =>
                  /\ ~Owns(policies'[i])
                  /\ Owns(policies[i]) => policies'[i] # NoSource /\ Puts(i) ]_vars
  BY <1>4
<1>7. QED
  BY <1>5, <1>6, PTL DEF Spec, OwnedOnlyReloadedOrReplaced

-----------------------------------------------------------------------------
(* The refinement of AtomicPolicyApi: first what its definitions say.       *)
(* The instance's copies of the definitions of PolicyData are these.        *)
LEMMA SameData ==
  /\ \A m \in Modules, d \in Documents :
        /\ Atomic!NoPathConflict(m, d) <=> NoPathConflict(m, d)
        /\ Atomic!Compiles(m, d) <=> Compiles(m, d)
  /\ Atomic!Protected = Protected
  /\ \A b \in Bundles, m \in Modules, d \in Documents :
        /\ Atomic!ActivatedPolicies(b, m) = ActivatedPolicies(b, m)
        /\ Atomic!ActivatedData(b, d) = ActivatedData(b, d)
  /\ Atomic!NoRequest = NoRequest /\ Atomic!Reloads = Reloads
  /\ Atomic!Bootable = Bootable
  /\ Atomic!WriteOps = WriteOps /\ Atomic!ReadOps = ReadOps
  /\ Atomic!JsonStatus = JsonStatus
<1>1. \A m, d : Atomic!NoPathConflict(m, d) <=> NoPathConflict(m, d)
  BY DEF NoPathConflict, Atomic!NoPathConflict, Defined, Atomic!Defined
<1>2. \A m : Atomic!Resolved(m) <=> Resolved(m)
  BY DEF Resolved, Atomic!Resolved, Defined, Atomic!Defined
<1>3. \A m, d : Atomic!Compiles(m, d) <=> Compiles(m, d)
  BY <1>1, <1>2 DEF Compiles, Atomic!Compiles
<1>4. \A b, m : Atomic!ActivatedPolicies(b, m) = ActivatedPolicies(b, m)
  BY DEF ActivatedPolicies, Atomic!ActivatedPolicies, Owned, Atomic!Owned
<1>5. \A b, d : Atomic!ActivatedData(b, d) = ActivatedData(b, d)
  BY DEF ActivatedData, Atomic!ActivatedData, Owned, Atomic!Owned
<1>6. Atomic!Bootable = Bootable
  BY <1>3 DEF Bootable, Atomic!Bootable
<1>7. QED
  BY <1>1, <1>3, <1>4, <1>5, <1>6 DEF Protected, Atomic!Protected, NoRequest,
     Atomic!NoRequest, Reloads, Atomic!Reloads, WriteOps, Atomic!WriteOps, ReadOps,
     Atomic!ReadOps, JsonStatus, Atomic!JsonStatus

(* Another patch changes its own path only.                                 *)
LEMMA AfterNext ==
  ASSUME NEW ops \in Seq(PatchOp), NEW n \in Nat, n + 1 \in DOMAIN ops, NEW docs
  PROVE  Atomic!After(ops, n + 1, docs) =
           [Atomic!After(ops, n, docs) EXCEPT ![ops[n + 1].path] = Atomic!Leaves(ops[n + 1])]
<1> DEFINE those(m, p) == {i \in 1..m : ops[i].path = p}
           last(S) == CHOOSE i \in S : \A j \in S : j <= i
           q == ops[n + 1].path
<1>1. those(n + 1, q) # {} /\ last(those(n + 1, q)) = n + 1
  <2>1. n + 1 \in those(n + 1, q) /\ \A j \in those(n + 1, q) : j <= n + 1
    OBVIOUS
  <2>2. \A i \in those(n + 1, q) : (\A j \in those(n + 1, q) : j <= i) => i = n + 1
    BY <2>1
  <2> HIDE DEF those
  <2>3. QED
    BY <2>1, <2>2
<1>2. \A p \in Path : p # q => those(n + 1, p) = those(n, p)
  OBVIOUS
<1>3. Atomic!After(ops, n + 1, docs) =
        [p \in Path |-> IF those(n + 1, p) = {} THEN docs[p]
                        ELSE Atomic!Leaves(ops[last(those(n + 1, p))])]
  BY DEF Atomic!After
<1>4. Atomic!After(ops, n, docs) =
        [p \in Path |-> IF those(n, p) = {} THEN docs[p]
                        ELSE Atomic!Leaves(ops[last(those(n, p))])]
  BY DEF Atomic!After
<1>5. \A p \in Path : Atomic!After(ops, n + 1, docs)[p] =
        IF p = q THEN Atomic!Leaves(ops[n + 1]) ELSE Atomic!After(ops, n, docs)[p]
  <2> HIDE DEF those, last, q
  <2>1. QED
    BY <1>1, <1>2, <1>3, <1>4
<1>6. QED
  BY <1>3, <1>4, <1>5

(* Before the first patch the documents are as stored.                      *)
LEMMA AfterNone ==
  ASSUME NEW ops, NEW docs \in Documents
  PROVE  Atomic!After(ops, 0, docs) = docs
<1>1. \A p : {i \in 1..0 : ops[i].path = p} = {}
  OBVIOUS
<1>2. QED
  BY <1>1 DEF Atomic!After, Documents

-----------------------------------------------------------------------------
(* What the refinement needs beyond IInv.  Where a handler stands tells     *)
(* what it has read and whether it has answered; the patches a handler has  *)
(* written are the first ones of its request; and a handler that has        *)
(* decided to commit will leave what the atomic write leaves.               *)
Stages ==
  \A t \in Thread :
    /\ pc[t] = "idle" => req[t] = NoRequest
    /\ answer[t] = None <=> pc[t] \notin {"sending", "unwinding", "answering"}
    /\ pc[t] \in {"idle", "called", "unwinding"} \cup WriterPC => ~HasRead(t)
    /\ pc[t] \in WriterPC => req[t].op \in WriteOps

PolicyFound ==
  \A t \in Thread : pc[t] = "reading" /\ req[t].op = "policyGet" =>
    IF seen[t].policies = Unread THEN seen[t].compiler = Unread
    ELSE seen[t].policies[req[t].id] # NoSource

Written(t) == Len(req[t].ops) - Len(todo[t])

FirstPatches(t, n) ==
  /\ n \in Nat /\ n + Len(todo[t]) = Len(req[t].ops)
  /\ \A i \in DOMAIN todo[t] : todo[t][i] = req[t].ops[n + i]
  /\ DataView(t) = Atomic!After(req[t].ops, n, data)
  /\ \A i \in 1..n : Atomic!Applicable(req[t].ops, i, data)
  /\ n > 0 => req[t].under \cap Protected = {}

PatchesInOrder ==
  \A t \in Thread : req[t].op = "dataPatch" =>
    /\ pc[t] = "called" => todo[t] = req[t].ops
    /\ pc[t] = "open" => FirstPatches(t, Written(t))

Decided ==
  \A t \in Thread : pc[t] \in {"commit", "locked"} =>
    Atomic!Outcome(req[t], policies, data) =
      Atomic!Effect(Success(req[t].op), PolicyView(t), DataView(t))

LoadedOnly ==
  \A t \in Thread : pc[t] = "open" /\ req[t].op = "reload" => req[t].bundle.loads

RefInv == IInv /\ Stages /\ PolicyFound /\ PatchesInOrder /\ Decided /\ LoadedOnly

(* A step leaves the patches and the answers of other threads alone.        *)
LEMMA OthersKeep ==
  ASSUME TypeOK, NEW t \in Thread, Call(t) \/ Handler(t), NEW u \in Thread, u # t
  PROVE  todo'[u] = todo[u] /\ answer'[u] = answer[u]
<1> USE DEF TypeOK, ApiTypeOK, Answer
<1>1. ASSUME NEW st, AbortWith(t, st)
      PROVE  todo'[u] = todo[u] /\ answer'[u] = answer[u]
  BY <1>1 DEF AbortWith
<1>2. QED
  BY <1>1 DEF Handler, Call, Refuse, OpenWrite, OpenRead, DataPut, PatchWrite,
     PatchDone, DataDelete, PolicyPut, PolicyDelete, Reload, Announce, Apply, Trigger,
     Release, CommitStep, ReadStore, ReadCompiler, SendPolicies, CloseRead,
     FinishEvaluation, GetUnknown, Panic, Reply

(* Where a handler stands keeps telling what it has read and answered.      *)
LEMMA StagesStep ==
  ASSUME RefInv, NEW t \in Thread, Call(t) \/ Handler(t)
  PROVE  Stages'
<1> USE DEF RefInv, IInv, TypeOK, ApiTypeOK, Goto, Answer, At, HasRead
<1> SUFFICES ASSUME NEW u \in Thread
             PROVE  /\ pc'[u] = "idle" => req'[u] = NoRequest
                    /\ answer'[u] = None <=> pc'[u] \notin {"sending", "unwinding", "answering"}
                    /\ pc'[u] \in {"idle", "called", "unwinding"} \cup WriterPC => ~HasRead(u)'
                    /\ pc'[u] \in WriterPC => req'[u].op \in WriteOps
  BY DEF Stages
<1>1. CASE u # t
  BY <1>1, OthersStay, OthersKeep DEF Stages
<1>2. CASE u = t
  <2> USE <1>2
  <2>0. /\ pc[t] = "idle" => req[t] = NoRequest
        /\ answer[t] = None <=> pc[t] \notin {"sending", "unwinding", "answering"}
        /\ pc[t] \in {"idle", "called", "unwinding"} \cup WriterPC => ~HasRead(t)
        /\ pc[t] \in WriterPC => req[t].op \in WriteOps
    BY DEF Stages
  <2>1. CASE Call(t) \/ Refuse(t) \/ OpenWrite(t)
    BY <2>0, <2>1 DEF Call, Refuse, OpenWrite, WriterPC, None
  <2>2. ASSUME NEW st \in {"304", "400", "500", "failed"}, AbortWith(t, st)
        PROVE  /\ pc'[t] = "answering" /\ answer'[t] # None
    BY <2>2 DEF AbortWith, None
  <2>3. CASE DataPut(t) \/ DataDelete(t) \/ PolicyPut(t) \/ PolicyDelete(t) \/ Reload(t)
    BY <2>0, <2>2, <2>3 DEF DataPut, DataDelete, PolicyPut, PolicyDelete, Reload, WriterPC,
       None, WriteOps
  <2>4. CASE PatchWrite(t) \/ PatchDone(t)
    BY <2>0, <2>2, <2>4 DEF PatchWrite, PatchDone, WriterPC, None, WriteOps
  <2>5. CASE Announce(t) \/ Apply(t) \/ Trigger(t) \/ Release(t)
    BY <2>0, <2>5 DEF Announce, Apply, Trigger, Release, CommitStep, WriterPC, None, Success
  <2>6. CASE OpenRead(t) \/ ReadStore(t) \/ ReadCompiler(t)
    BY <2>0, <2>6 DEF OpenRead, ReadStore, ReadCompiler, WriterPC, None
  <2>7. CASE SendPolicies(t) \/ FinishEvaluation(t) \/ GetUnknown(t)
    BY <2>0, <2>7 DEF SendPolicies, FinishEvaluation, GetUnknown, WriterPC, None
  <2>8. CASE CloseRead(t) \/ Panic(t) \/ Reply(t)
    BY <2>0, <2>8 DEF CloseRead, Panic, Reply, WriterPC, None, Nothing
  <2>9. QED
    BY <2>1, <2>3, <2>4, <2>5, <2>6, <2>7, <2>8 DEF Handler
<1>3. QED
  BY <1>1, <1>2

(* A policy that was read was found.                                        *)
LEMMA FoundStep ==
  ASSUME RefInv, NEW t \in Thread, Call(t) \/ Handler(t)
  PROVE  PolicyFound'
<1> USE DEF RefInv, IInv, TypeOK, ApiTypeOK, Goto, At
<1> SUFFICES ASSUME NEW u \in Thread, pc'[u] = "reading", req'[u].op = "policyGet"
             PROVE  IF seen'[u].policies = Unread THEN seen'[u].compiler = Unread
                    ELSE seen'[u].policies[req'[u].id] # NoSource
  BY DEF PolicyFound
<1>1. CASE u # t
  BY <1>1, OthersStay DEF PolicyFound
<1>2. CASE u = t
  <2>1. OpenRead(t) \/ ReadStore(t) \/ ReadCompiler(t)
    BY <1>2 DEF Handler, Call, Refuse, OpenWrite, DataPut, PatchWrite,
       PatchDone, DataDelete, PolicyPut, PolicyDelete, Reload, AbortWith, Announce, Apply,
       Trigger, Release, CommitStep, SendPolicies, CloseRead,
       FinishEvaluation, GetUnknown, Panic, Reply
  <2>2. CASE OpenRead(t)
    BY <1>2, <2>2 DEF OpenRead, Nothing
  <2>3. CASE ReadStore(t)
    <3>1. seen'[t].policies = policies
      BY <2>3 DEF ReadStore, Sight
    <3>2. policies # Unread
      BY UnreadAssumption DEF StoreTypeOK
    <3>3. req[t].op = "policyGet" /\ req'[t] = req[t] /\ policies[req[t].id] # NoSource
      BY <1>2, <2>3 DEF ReadStore
    <3>4. QED
      BY <1>2, <3>1, <3>2, <3>3
  <2>4. CASE ReadCompiler(t)
    BY <1>2, <2>4 DEF ReadCompiler, Sight, PolicyFound
  <2>5. QED
    BY <2>1, <2>2, <2>3, <2>4
<1>3. QED
  BY <1>1, <1>2

(* The outcome of a write, by its operation.                                *)
LEMMA OutcomeByOp ==
  ASSUME NEW r, NEW mods, NEW docs
  PROVE  /\ r.op = "malformed" =>
              Atomic!Outcome(r, mods, docs) = Atomic!Effect("400", mods, docs)
         /\ r.op = "dataPut" =>
              Atomic!Outcome(r, mods, docs) = Atomic!PutDocument(r, mods, docs)
         /\ r.op = "dataPatch" =>
              Atomic!Outcome(r, mods, docs) = Atomic!PatchDocuments(r, mods, docs)
         /\ r.op = "dataDelete" =>
              Atomic!Outcome(r, mods, docs) = Atomic!DeleteDocument(r, mods, docs)
         /\ r.op = "policyPut" =>
              Atomic!Outcome(r, mods, docs) = Atomic!PutPolicy(r, mods, docs)
         /\ r.op = "policyDelete" =>
              Atomic!Outcome(r, mods, docs) = Atomic!DeletePolicy(r, mods, docs)
         /\ r.op = "reload" =>
              Atomic!Outcome(r, mods, docs) = Atomic!ReloadBundle(r, mods, docs)
  BY DEF Atomic!Outcome

(* What a handler with an open transaction does next is another patch, the  *)
(* decision to commit what the atomic write would leave, or the refusal the *)
(* atomic write answers.  One step per handler.                             *)
LEMMA DecidesHere ==
  ASSUME RefInv, NEW t \in Thread, pc[t] = "open", Handler(t)
  PROVE  \/ PatchWrite(t) /\ pc'[t] = "open"
         \/ /\ pc'[t] = "commit"
            /\ Atomic!Outcome(req[t], policies, data) =
                 Atomic!Effect(Success(req[t].op), PolicyView(t)', DataView(t)')
         \/ \E st \in {"304", "400", "500", "failed"} :
              /\ AbortWith(t, st)
              /\ Atomic!Outcome(req[t], policies, data) = Atomic!Effect(st, policies, data)
<1> USE DEF RefInv, IInv, TypeOK
<1> DEFINE now == Atomic!Outcome(req[t], policies, data)
           Commits == now = Atomic!Effect(Success(req[t].op), PolicyView(t)', DataView(t)')
           Refuses(st) == AbortWith(t, st) /\ now = Atomic!Effect(st, policies, data)
<1>1. \/ DataPut(t) \/ PatchWrite(t) \/ PatchDone(t) \/ DataDelete(t) \/ PolicyPut(t)
      \/ PolicyDelete(t) \/ Reload(t)
  BY DEF Handler, Refuse, OpenWrite, OpenRead, Announce, Apply, Trigger, Release, CommitStep,
     ReadStore, ReadCompiler, SendPolicies, CloseRead, FinishEvaluation, GetUnknown, Panic,
     Reply, At
<1>2. /\ PolicyView(t) = policies /\ compiler = policies
      /\ req[t].op # "dataPatch" => DataView(t) = data
  BY UntouchedView, CompilerAtOpen DEF UntouchedViews
<1>3. Resolved(policies) /\ NoPathConflict(policies, data)
  BY DEF StoredPoliciesCompile, Compiles
<1>4. policies \in Modules /\ data \in Documents
  BY DEF StoreTypeOK
<1>5. CASE DataPut(t)
  <2> DEFINE p == req[t].path
             v == req[t].value
             put == [data EXCEPT ![p] = v]
  <2>1. p \in Path /\ v \in Value /\ req[t].op = "dataPut"
    BY <1>5, ServedRequest, RequestFields DEF DataPut, At
  <2>2. now = Atomic!PutDocument(req[t], policies, data)
    BY <2>1, OutcomeByOp
  <2>3. put \in Documents
    BY <1>4, <2>1 DEF Documents
  <2>4. CASE CheckPathScope({p})
    <3>1. AbortWith(t, "500")
      BY <1>5, <2>4 DEF DataPut
    <3>2. now = Atomic!Effect("500", policies, data)
      BY <2>2, <2>4, SameData DEF Atomic!PutDocument, CheckPathScope
    <3>3. QED
      BY <3>1, <3>2
  <2>5. CASE ~CheckPathScope({p}) /\ data[p] # NoDoc /\ req[t].ifNoneMatch
    <3>1. AbortWith(t, "304")
      BY <1>2, <1>5, <2>1, <2>5 DEF DataPut
    <3>2. now = Atomic!Effect("304", policies, data)
      BY <2>2, <2>5, SameData DEF Atomic!PutDocument, CheckPathScope
    <3>3. QED
      BY <3>1, <3>2
  <2>6. CASE ~CheckPathScope({p}) /\ ~(data[p] # NoDoc /\ req[t].ifNoneMatch)
    <3>1. now = IF NoPathConflict(policies, put)
                THEN Atomic!Effect("204", policies, put) ELSE Atomic!Effect("400", policies, data)
      BY <1>4, <2>2, <2>3, <2>6, SameData DEF Atomic!PutDocument, CheckPathScope
    <3>2. CASE NoPathConflict(policies, put)
      <4>1. WriteData(t, p, v) /\ pc' = [pc EXCEPT ![t] = "commit"]
        BY <1>2, <1>5, <2>1, <2>6, <3>2 DEF DataPut, ConflictsWithRules, Goto
      <4>2. PolicyView(t)' = policies /\ DataView(t)' = put
        BY <1>2, <2>1, <4>1, WriteView
      <4>3. Commits /\ pc'[t] = "commit"
        BY <2>1, <3>1, <3>2, <4>1, <4>2 DEF Success, ApiTypeOK
      <4>4. QED
        BY <4>3
    <3>3. CASE ~NoPathConflict(policies, put)
      <4>1. AbortWith(t, "400")
        BY <1>2, <1>5, <2>1, <2>6, <3>3 DEF DataPut, ConflictsWithRules
      <4>2. QED
        BY <3>1, <3>3, <4>1
    <3>4. QED
      BY <3>2, <3>3
  <2>7. QED
    BY <2>4, <2>5, <2>6
<1>6. CASE PatchWrite(t)
  <2> DEFINE ops == req[t].ops
             n   == Written(t)
             patch == Head(todo[t])
  <2>1. req[t].op = "dataPatch" /\ todo[t] # <<>> /\ ops \in Seq(PatchOp)
    BY <1>6, ServedRequest, RequestFields DEF PatchWrite, At
  <2>2. FirstPatches(t, n)
    BY <2>1 DEF PatchesInOrder
  <2>3. n + 1 \in 1..Len(ops) /\ patch = ops[n + 1]
    <3>1. todo[t] \in Seq(PatchOp) /\ 1 \in DOMAIN todo[t] /\ Len(todo[t]) >= 1
      BY <2>1 DEF ApiTypeOK
    <3>2. Len(ops) \in Nat
      BY <2>1
    <3>3. QED
      BY <2>2, <3>1, <3>2 DEF FirstPatches
  <2>4. CASE AbortWith(t, "500") /\ ~(pc'[t] = "open")
    <3>1. \/ req[t].under \cap Protected # {}
          \/ ~Atomic!Applicable(ops, n + 1, data)
      <4>1. \/ CheckPathScope(req[t].under)
            \/ patch.op # "add" /\ DataView(t)[patch.path] = NoDoc
        BY <1>6, <2>4 DEF PatchWrite
      <4>2. n \in Nat /\ (n + 1) - 1 = n /\ DataView(t) = Atomic!After(ops, n, data)
        BY <2>2 DEF FirstPatches
      <4>3. QED
        BY <2>3, <4>1, <4>2 DEF CheckPathScope, Atomic!Applicable
    <3>2. ops # <<>>
      BY <2>3
    <3>3. now = Atomic!PatchDocuments(req[t], policies, data)
      BY <2>1, OutcomeByOp
    <3>4. now = Atomic!Effect("500", policies, data)
      BY <2>3, <3>1, <3>2, <3>3, SameData DEF Atomic!PatchDocuments
    <3>5. QED
      BY <2>4, <3>4
  <2>5. QED
    BY <1>6, <2>4 DEF PatchWrite
<1>7. CASE PatchDone(t)
  <2> DEFINE ops == req[t].ops
             patched == Atomic!After(ops, Len(ops), data)
  <2>1. req[t].op = "dataPatch" /\ todo[t] = <<>> /\ ops \in Seq(PatchOp)
    BY <1>7, ServedRequest, RequestFields DEF PatchDone, At
  <2>2. /\ DataView(t) = patched
        /\ \A i \in 1..Len(ops) : Atomic!Applicable(ops, i, data)
        /\ ops # <<>> => req[t].under \cap Protected = {}
    <3>1. Written(t) = Len(ops) /\ Len(ops) \in Nat /\ (ops # <<>> => Len(ops) > 0)
      BY <2>1 DEF Written
    <3>2. FirstPatches(t, Len(ops))
      BY <2>1, <3>1 DEF PatchesInOrder
    <3>3. QED
      BY <3>1, <3>2 DEF FirstPatches
  <2>3. patched \in Documents
    BY <2>2, ViewTypes
  <2>4. now = IF NoPathConflict(policies, patched)
              THEN Atomic!Effect("204", policies, patched)
              ELSE Atomic!Effect("400", policies, data)
    <3>1. now = Atomic!PatchDocuments(req[t], policies, data)
      BY <2>1, OutcomeByOp
    <3>2. Atomic!NoPathConflict(policies, patched) <=> NoPathConflict(policies, patched)
      BY <1>4, <2>3, SameData
    <3>3. QED
      BY <2>2, <3>1, <3>2, SameData DEF Atomic!PatchDocuments
  <2> HIDE DEF patched
  <2>5. CASE NoPathConflict(policies, patched)
    <3>1. UNCHANGED storeVars /\ pc' = [pc EXCEPT ![t] = "commit"]
      BY <1>2, <1>7, <2>2, <2>5 DEF PatchDone, ConflictsWithRules, Goto
    <3>2. PolicyView(t)' = policies /\ DataView(t)' = patched
      BY <1>2, <2>2, <3>1, ViewFrame DEF storeVars
    <3>3. QED
      BY <2>1, <2>4, <2>5, <3>1, <3>2 DEF Success, ApiTypeOK
  <2>6. CASE ~NoPathConflict(policies, patched)
    <3>1. AbortWith(t, "400")
      BY <1>2, <1>7, <2>2, <2>6 DEF PatchDone, ConflictsWithRules
    <3>2. QED
      BY <2>4, <2>6, <3>1
  <2>7. QED
    BY <2>5, <2>6
<1>8. CASE DataDelete(t)
  <2> DEFINE p == req[t].path
             refused == p \in Protected \/ data[p] = NoDoc
  <2>1. p \in Path /\ req[t].op = "dataDelete"
    BY <1>8, ServedRequest, RequestFields DEF DataDelete, At
  <2>2. now = IF refused THEN Atomic!Effect("500", policies, data)
              ELSE Atomic!Effect("204", policies, [data EXCEPT ![p] = NoDoc])
    <3>1. now = Atomic!DeleteDocument(req[t], policies, data)
      BY <2>1, OutcomeByOp
    <3>2. Atomic!Protected = Protected
      BY SameData
    <3>3. QED
      BY ONLY <3>1, <3>2 DEF Atomic!DeleteDocument
  <2>3. CASE refused
    <3>1. AbortWith(t, "500")
      BY <1>2, <1>8, <2>1, <2>3 DEF DataDelete, CheckPathScope
    <3>2. QED
      BY <2>2, <2>3, <3>1
  <2>4. CASE ~refused
    <3>1. WriteData(t, p, NoDoc) /\ pc' = [pc EXCEPT ![t] = "commit"]
      BY <1>2, <1>8, <2>1, <2>4 DEF DataDelete, CheckPathScope, Goto
    <3>2. PolicyView(t)' = policies /\ DataView(t)' = [data EXCEPT ![p] = NoDoc]
      BY <1>2, <2>1, <3>1, WriteView
    <3>3. Commits /\ pc'[t] = "commit"
      BY <2>1, <2>2, <2>4, <3>1, <3>2 DEF Success, ApiTypeOK
    <3>4. QED
      BY <3>3
  <2>5. QED
    BY <2>3, <2>4
<1>9. CASE PolicyPut(t)
  <2> DEFINE i == req[t].id
             s == req[t].source
             put == [policies EXCEPT ![i] = s]
  <2>1. i \in Id /\ s \in Source \cup {Unparsable} /\ req[t].op = "policyPut"
    BY <1>9, ServedRequest, RequestFields DEF PolicyPut, At
  <2>2. now = Atomic!PutPolicy(req[t], policies, data)
    BY <2>1, OutcomeByOp
  <2>3. CASE s = Unparsable
    <3>1. AbortWith(t, "400")
      BY <1>9, <2>3 DEF PolicyPut
    <3>2. now = Atomic!Effect("400", policies, data)
      BY <2>2, <2>3 DEF Atomic!PutPolicy
    <3>3. QED
      BY <3>1, <3>2
  <2>4. CASE s # Unparsable /\ CheckPathScope({Package[s]})
    <3>1. AbortWith(t, "500")
      BY <1>9, <2>4 DEF PolicyPut
    <3>2. now = Atomic!Effect("500", policies, data)
      BY <2>2, <2>4, SameData DEF Atomic!PutPolicy, CheckPathScope
    <3>3. QED
      BY <3>1, <3>2
  <2>5. CASE s # Unparsable /\ ~CheckPathScope({Package[s]})
    <3>0. put \in Modules
      BY <1>4, <2>1, <2>5 DEF Modules
    <3>1. now = IF Compiles(put, data)
                THEN Atomic!Effect("200", put, data) ELSE Atomic!Effect("400", policies, data)
      BY <1>4, <2>2, <2>5, <3>0, SameData DEF Atomic!PutPolicy, CheckPathScope
    <3>2. CASE Compiles(put, data)
      <4>1. WritePolicy(t, i, s) /\ pc' = [pc EXCEPT ![t] = "commit"]
        BY <1>2, <1>9, <2>1, <2>5, <3>2 DEF PolicyPut, Goto
      <4>2. PolicyView(t)' = put /\ DataView(t)' = data
        BY <1>2, <2>1, <2>5, <4>1, WriteView
      <4>3. Commits /\ pc'[t] = "commit"
        BY <2>1, <3>1, <3>2, <4>1, <4>2 DEF Success, ApiTypeOK
      <4>4. QED
        BY <4>3
    <3>3. CASE ~Compiles(put, data)
      <4>1. AbortWith(t, "400")
        BY <1>2, <1>9, <2>1, <2>5, <3>3 DEF PolicyPut
      <4>2. QED
        BY <3>1, <3>3, <4>1
    <3>4. QED
      BY <3>2, <3>3
  <2>6. QED
    BY <2>3, <2>4, <2>5
<1>10. CASE PolicyDelete(t)
  <2> DEFINE i == req[t].id
             s == policies[i]
             left == [policies EXCEPT ![i] = NoSource]
  <2>1. i \in Id /\ req[t].op = "policyDelete"
    BY <1>10, ServedRequest, RequestFields DEF PolicyDelete, At
  <2>2. now = Atomic!DeletePolicy(req[t], policies, data)
    BY <2>1, OutcomeByOp
  <2>3. CASE s = NoSource \/ (s # NoSource /\ CheckPathScope({Package[s]}))
    <3>1. AbortWith(t, "500")
      BY <1>2, <1>10, <2>3 DEF PolicyDelete
    <3>2. now = Atomic!Effect("500", policies, data)
      BY <2>2, <2>3, SameData DEF Atomic!DeletePolicy, CheckPathScope
    <3>3. QED
      BY <3>1, <3>2
  <2>4. CASE s # NoSource /\ ~CheckPathScope({Package[s]})
    <3>0. left \in Modules /\ (Compiles(left, data) <=> Resolved(left))
      BY <1>3, <1>4, <2>1, ConflictsShrink DEF Modules, Compiles
    <3>1. now = IF Resolved(left)
                THEN Atomic!Effect("200", left, data) ELSE Atomic!Effect("400", policies, data)
      BY <1>4, <2>2, <2>4, <3>0, SameData DEF Atomic!DeletePolicy, CheckPathScope
    <3>2. CASE Resolved(left)
      <4>1. WritePolicy(t, i, NoSource) /\ pc' = [pc EXCEPT ![t] = "commit"]
        BY <1>2, <1>10, <2>1, <2>4, <3>2 DEF PolicyDelete, Goto
      <4>2. PolicyView(t)' = left /\ DataView(t)' = data
        BY <1>2, <2>1, <4>1, WriteView
      <4>3. Commits /\ pc'[t] = "commit"
        BY <2>1, <3>1, <3>2, <4>1, <4>2 DEF Success, ApiTypeOK
      <4>4. QED
        BY <4>3
    <3>3. CASE ~Resolved(left)
      <4>1. AbortWith(t, "400")
        BY <1>2, <1>10, <2>1, <2>4, <3>3 DEF PolicyDelete
      <4>2. QED
        BY <3>1, <3>3, <4>1
    <3>4. QED
      BY <3>2, <3>3
  <2>5. QED
    BY <2>3, <2>4
<1>11. CASE Reload(t)
  <2> DEFINE mods == ActivatedPolicies(req[t].bundle, policies)
             docs == ActivatedData(req[t].bundle, data)
  <2>1. req[t].op = "reload" /\ req[t].bundle \in Bundles /\ req[t].bundle.loads
    BY <1>11, ServedRequest, ReloadFields DEF Reload, At, LoadedOnly
  <2>2. mods \in Modules /\ docs \in Documents
    BY <1>4, <2>1, ServedRequest, ReloadFields
       DEF ActivatedPolicies, ActivatedData, Modules, Documents
  <2>3. now = IF Compiles(mods, docs)
              THEN Atomic!Effect("loaded", mods, docs) ELSE Atomic!Effect("failed", policies, data)
    <3>1. now = Atomic!ReloadBundle(req[t], policies, data)
      BY <2>1, OutcomeByOp
    <3>2. /\ Atomic!ActivatedPolicies(req[t].bundle, policies) = mods
          /\ Atomic!ActivatedData(req[t].bundle, data) = docs
      BY <1>4, <2>1, SameData
    <3>3. Atomic!Compiles(mods, docs) <=> Compiles(mods, docs)
      BY <2>2, SameData
    <3> HIDE DEF mods, docs
    <3>4. QED
      BY <2>1, <3>1, <3>2, <3>3 DEF Atomic!ReloadBundle
  <2>4. CASE Compiles(mods, docs)
    <3>1. /\ edits' = [edits EXCEPT ![t] = [policies |-> mods, data |-> docs]]
          /\ UNCHANGED committed /\ pc' = [pc EXCEPT ![t] = "commit"]
      BY <1>2, <1>11, <2>1, <2>4 DEF Reload, Goto
    <3> HIDE DEF mods, docs
    <3>2. edits'[t].policies = mods /\ edits'[t].data = docs
      BY <3>1 DEF StoreTypeOK
    <3>3. PolicyView(t)' = mods /\ DataView(t)' = docs
      BY <2>2, <3>1, <3>2, ReplacedView DEF PolicyView, DataView, committed
    <3>4. Commits /\ pc'[t] = "commit"
      BY <2>1, <2>3, <2>4, <3>1, <3>3 DEF Success, ApiTypeOK
    <3>5. QED
      BY <3>4
  <2>5. CASE ~Compiles(mods, docs)
    <3>1. AbortWith(t, "failed")
      BY <1>2, <1>11, <2>1, <2>5 DEF Reload
    <3>2. QED
      BY <2>3, <2>5, <3>1
  <2>6. QED
    BY <2>4, <2>5
<1>12. QED
  BY <1>1, <1>5, <1>6, <1>7, <1>8, <1>9, <1>10, <1>11

(* A decision stands while the handler waits for the lock: nobody else      *)
(* commits.                                                                 *)
LEMMA DecidedStep ==
  ASSUME RefInv, NEW t \in Thread, Call(t) \/ Handler(t)
  PROVE  Decided'
<1> USE DEF RefInv, IInv, TypeOK
<1> SUFFICES ASSUME NEW u \in Thread, pc'[u] \in {"commit", "locked"}
             PROVE  Atomic!Outcome(req'[u], policies', data') =
                      Atomic!Effect(Success(req'[u].op), PolicyView(u)', DataView(u)')
  BY DEF Decided
<1>1. CASE u # t
  <2>1. pc[u] = pc'[u] /\ edits'[u] = edits[u] /\ req'[u] = req[u]
    BY <1>1, OthersStay
  <2>2. ~Apply(t) /\ ~Trigger(t)
    BY <1>1, <2>1, OneWriter DEF WriterPC, Apply, Trigger, CommitStep
  <2>3. policies' = policies /\ data' = data
    BY <2>2, CommittedStays DEF committed
  <2>4. PolicyView(u)' = PolicyView(u) /\ DataView(u)' = DataView(u)
    BY <2>1, <2>3, ViewFrame
  <2>5. QED
    BY <2>1, <2>3, <2>4 DEF Decided
<1>2. CASE u = t /\ pc[t] = "open"
  <2>1. Handler(t) /\ ~Apply(t) /\ ~Trigger(t) /\ ~Call(t)
    BY <1>2 DEF Call, Apply, Trigger, CommitStep
  <2>2. policies' = policies /\ data' = data
    BY <2>1, CommittedStays DEF committed
  <2>3. ASSUME NEW st, AbortWith(t, st) PROVE FALSE
    BY <1>2, <2>3 DEF AbortWith, Goto, ApiTypeOK
  <2>4. Atomic!Outcome(req[t], policies, data) =
          Atomic!Effect(Success(req[t].op), PolicyView(t)', DataView(t)')
    BY <1>2, <2>1, <2>3, DecidesHere
  <2>5. req'[t] = req[t]
    BY <1>2, <2>1, <2>3 DEF Handler, At, Refuse, OpenWrite, OpenRead, DataPut, PatchWrite, PatchDone,
       DataDelete, PolicyPut, PolicyDelete, Reload, Announce, Apply, Trigger, Release, CommitStep,
       ReadStore, ReadCompiler, SendPolicies, CloseRead, FinishEvaluation, GetUnknown, Panic, Reply
  <2>6. QED
    BY <1>2, <2>2, <2>4, <2>5
<1>3. CASE u = t /\ pc[t] # "open"
  <2>1. Announce(t)
    BY <1>3 DEF PC, ApiTypeOK, Goto, At, Handler, Call, Refuse, OpenWrite, OpenRead, DataPut, PatchWrite,
       PatchDone, DataDelete, PolicyPut, PolicyDelete, Reload, Apply, Trigger, Release,
       CommitStep, ReadStore, ReadCompiler, SendPolicies, CloseRead, FinishEvaluation,
       GetUnknown, Panic, Reply
  <2>2. /\ pc[t] = "commit" /\ UNCHANGED <<policies, data, edits>> /\ req'[t] = req[t]
    BY <2>1 DEF Announce, CommitStep, AnnounceCommit, committed
  <2>3. PolicyView(t)' = PolicyView(t) /\ DataView(t)' = DataView(t)
    BY <2>2, ViewFrame
  <2>4. QED
    BY <1>3, <2>2, <2>3 DEF Decided
<1>4. QED
  BY <1>1, <1>2, <1>3

(* Dropping the head of a suffix leaves the next suffix.                    *)
LEMMA NextSuffix ==
  ASSUME NEW ops \in Seq(PatchOp), NEW s \in Seq(PatchOp), s # <<>>, NEW n \in Nat,
         n + Len(s) = Len(ops), \A i \in DOMAIN s : s[i] = ops[n + i]
  PROVE  /\ n + 1 \in DOMAIN ops /\ Head(s) = ops[n + 1]
         /\ n + 1 + Len(Tail(s)) = Len(ops)
         /\ \A i \in DOMAIN Tail(s) : Tail(s)[i] = ops[n + 1 + i]
<1>1. /\ Len(s) \in Nat /\ Len(s) >= 1 /\ 1 \in DOMAIN s
      /\ Len(Tail(s)) = Len(s) - 1 /\ Head(s) = s[1]
      /\ DOMAIN ops = 1..Len(ops) /\ Len(ops) \in Nat /\ DOMAIN s = 1..Len(s)
      /\ DOMAIN Tail(s) = 1..(Len(s) - 1)
  OBVIOUS
<1>2. ASSUME NEW i \in DOMAIN Tail(s)
      PROVE  Tail(s)[i] = ops[n + 1 + i]
  <2>1. i \in Nat /\ i + 1 \in DOMAIN s /\ n + (i + 1) = n + 1 + i
    BY <1>1
  <2>2. Tail(s)[i] = s[i + 1]
    OBVIOUS
  <2>3. QED
    BY <2>1, <2>2
<1>3. QED
  BY <1>1, <1>2

(* One round of the patch loop writes the next patch of the request.        *)
LEMMA NextPatch ==
  ASSUME RefInv, NEW t \in Thread, PatchWrite(t), pc'[t] = "open"
  PROVE  FirstPatches(t, Written(t))'
<1> USE DEF RefInv, IInv, TypeOK, At
<1> DEFINE ops == req[t].ops
           patch == Head(todo[t])
           v == IF patch.op = "remove" THEN NoDoc ELSE patch.value
<1>1. req[t].op = "dataPatch" /\ todo[t] # <<>> /\ ops \in Seq(PatchOp) /\ pc[t] = "open"
  BY ServedRequest, RequestFields DEF PatchWrite
<1>2. todo[t] \in Seq(PatchOp)
  BY DEF ApiTypeOK
<1>3. ~AbortWith(t, "500")
  BY DEF AbortWith, Goto, ApiTypeOK
<1>4. /\ WriteData(t, patch.path, v) /\ todo' = [todo EXCEPT ![t] = Tail(todo[t])]
      /\ req[t].under \cap Protected = {} /\ req'[t] = req[t]
      /\ patch.op = "add" \/ DataView(t)[patch.path] # NoDoc
  BY <1>3 DEF PatchWrite, CheckPathScope
<1>0. PICK n \in Nat : n = Written(t)
  BY <1>1 DEF PatchesInOrder, FirstPatches
<1>5. FirstPatches(t, n)
  BY <1>0, <1>1 DEF PatchesInOrder
<1>6. /\ n + 1 \in DOMAIN ops /\ patch = ops[n + 1]
      /\ n + 1 + Len(Tail(todo[t])) = Len(ops)
      /\ \A i \in DOMAIN Tail(todo[t]) : Tail(todo[t])[i] = ops[n + 1 + i]
  <2>1. n + Len(todo[t]) = Len(ops) /\ \A i \in DOMAIN todo[t] : todo[t][i] = ops[n + i]
    BY <1>5 DEF FirstPatches
  <2>2. ops \in Seq(PatchOp) /\ todo[t] # <<>>
    BY <1>1
  <2> HIDE DEF ops
  <2>3. QED
    BY ONLY <1>2, <2>1, <2>2, n \in Nat, NextSuffix, Zenon
<1>7. patch \in PatchOp /\ patch.path \in Path /\ v \in Value \cup {NoDoc}
  <2>1. patch \in PatchOp
    BY <1>1, <1>2
  <2> HIDE DEF patch
  <2>2. QED
    BY <2>1 DEF PatchOp
<1>8. DataView(t)' = Atomic!After(ops, n + 1, data)
  <2>1. DataView(t)' = [DataView(t) EXCEPT ![patch.path] = v]
    <3> HIDE DEF v, patch
    <3>1. QED
      BY <1>4, <1>7, WriteView
  <2>2. v = Atomic!Leaves(patch)
    BY DEF Atomic!Leaves
  <2>3. DataView(t) = Atomic!After(ops, n, data)
    BY <1>5 DEF FirstPatches
  <2>4. ops \in Seq(PatchOp)
    BY <1>1
  <2> HIDE DEF v, patch, ops
  <2>5. Atomic!After(ops, n + 1, data) =
          [Atomic!After(ops, n, data) EXCEPT ![ops[n + 1].path] = Atomic!Leaves(ops[n + 1])]
    BY <1>6, <2>4, AfterNext
  <2>6. QED
    BY <1>6, <2>1, <2>2, <2>3, <2>5
<1>9. \A i \in 1..(n + 1) : Atomic!Applicable(ops, i, data)
  <2>1. \A i \in 1..n : Atomic!Applicable(ops, i, data)
    BY <1>5 DEF FirstPatches
  <2>2. Atomic!Applicable(ops, n + 1, data)
    <3>1. (n + 1) - 1 = n /\ DataView(t) = Atomic!After(ops, n, data)
      BY <1>5 DEF FirstPatches
    <3>2. QED
      BY <1>4, <1>6, <3>1 DEF Atomic!Applicable
  <2> HIDE DEF ops
  <2>3. \A i \in 1..(n + 1) : i \in 1..n \/ i = n + 1
    BY <1>6
  <2>4. QED
    BY <2>1, <2>2, <2>3
<1>10. todo'[t] = Tail(todo[t]) /\ data' = data
  BY <1>4 DEF WriteData, committed, ApiTypeOK
<1>11. Written(t)' = n + 1
  <2>1. Len(ops) \in Nat /\ Len(todo[t]) \in Nat /\ Len(Tail(todo[t])) \in Nat
    BY <1>1, <1>2
  <2>2. Written(t)' = Len(ops) - Len(Tail(todo[t]))
    BY <1>4, <1>10 DEF Written
  <2>3. n + 1 + Len(Tail(todo[t])) = Len(ops)
    BY <1>6
  <2>4. \A a, b \in Nat : n + 1 + b = a => a - b = n + 1
    OBVIOUS
  <2> HIDE DEF ops
  <2>5. QED
    BY <2>1, <2>2, <2>3, <2>4, Zenon
<1>12. n + 1 \in Nat
  BY <1>6
<1>13. FirstPatches(t, n + 1)'
  BY <1>4, <1>6, <1>8, <1>9, <1>10, <1>12 DEF FirstPatches
<1>14. QED
  BY <1>11, <1>13 DEF FirstPatches

(* The patches written stay the first ones while the documents stand.       *)
LEMMA PatchesFrame ==
  ASSUME NEW u \in Thread, UNCHANGED <<policies, data>>, edits'[u] = edits[u],
         req'[u] = req[u], todo'[u] = todo[u], FirstPatches(u, Written(u))
  PROVE  FirstPatches(u, Written(u))'
<1>1. DataView(u)' = DataView(u)
  BY ViewFrame
<1>2. PICK n : n = Written(u)
  OBVIOUS
<1>3. Written(u)' = n
  BY <1>2 DEF Written
<1>4. FirstPatches(u, n)'
  BY <1>1, <1>2 DEF FirstPatches
<1>5. QED
  BY <1>3, <1>4 DEF FirstPatches

(* Every handler writes its patches in their order, each on top of those    *)
(* before.                                                                  *)
LEMMA OrderStep ==
  ASSUME RefInv, NEW t \in Thread, Call(t) \/ Handler(t)
  PROVE  PatchesInOrder'
<1> USE DEF RefInv, IInv, TypeOK, ApiTypeOK, Goto, At
<1> SUFFICES ASSUME NEW u \in Thread, req'[u].op = "dataPatch"
             PROVE  /\ pc'[u] = "called" => todo'[u] = req'[u].ops
                    /\ pc'[u] = "open" => FirstPatches(u, Written(u))'
  BY DEF PatchesInOrder, FirstPatches, Written
<1>1. CASE u # t
  <2>1. pc'[u] = pc[u] /\ req'[u] = req[u] /\ todo'[u] = todo[u] /\ edits'[u] = edits[u]
    BY <1>1, OthersStay, OthersKeep
  <2>2. CASE pc[u] # "open"
    BY <2>1, <2>2 DEF PatchesInOrder
  <2>3. CASE pc[u] = "open"
    <3>1. ~Apply(t) /\ ~Trigger(t)
      BY <1>1, <2>3, OneWriter DEF WriterPC, Apply, Trigger, CommitStep
    <3>2. policies' = policies /\ data' = data
      BY <3>1, CommittedStays DEF committed
    <3>3. FirstPatches(u, Written(u))
      BY <2>1, <2>3 DEF PatchesInOrder
    <3>4. QED
      BY <2>1, <2>3, <3>2, <3>3, PatchesFrame
  <2>4. QED
    BY <2>2, <2>3
<1>2. CASE u = t /\ Call(t)
  <2>1. PICK r \in IF t = Watcher THEN Reloads ELSE Requests :
           /\ req' = [req EXCEPT ![t] = r]
           /\ todo' = [todo EXCEPT ![t] = IF r.op = "dataPatch" THEN r.ops ELSE <<>>]
    BY <1>2 DEF Call
  <2>2. req'[u] = r /\ todo'[u] = r.ops /\ pc'[u] = "called"
    BY <1>2, <2>1 DEF Call
  <2>3. QED
    BY <2>2
<1>3. CASE u = t /\ OpenWrite(t)
  <2>1. /\ pc[t] = "called" /\ pc'[t] = "open" /\ req'[t] = req[t] /\ todo'[t] = todo[t]
        /\ UNCHANGED <<policies, data>> /\ edits' = [edits EXCEPT ![t] = NoEdits]
    BY <1>3 DEF OpenWrite, BeginWrite, committed
  <2>2. req[t].op = "dataPatch" /\ todo[t] = req[t].ops
    BY <1>3, <2>1 DEF PatchesInOrder
  <2>3. Len(req[t].ops) \in Nat /\ req[t].ops \in Seq(PatchOp)
    BY <2>2
  <2>4. DataView(t)' = data /\ data \in Documents
    <3>1. edits'[t].data = NoEdits.data
      BY <2>1 DEF StoreTypeOK
    <3>2. QED
      BY <2>1, <3>1 DEF DataView, Overlay, NoEdits, StoreTypeOK, Documents
  <2>5. Written(t)' = 0
    BY <2>1, <2>2, <2>3 DEF Written
  <2>6. Atomic!After(req[t].ops, 0, data) = data
    BY <2>4, AfterNone
  <2>7. FirstPatches(t, 0)'
    BY <2>1, <2>2, <2>3, <2>4, <2>6 DEF FirstPatches
  <2>8. QED
    BY <1>3, <2>1, <2>5, <2>7
<1>4. CASE u = t /\ PatchWrite(t)
  <2>1. pc'[t] # "called"
    BY <1>4 DEF PatchWrite, AbortWith
  <2>2. QED
    BY <1>4, <2>1, NextPatch
<1>5. CASE u = t /\ ~Call(t) /\ ~OpenWrite(t) /\ ~PatchWrite(t)
  <2>1. pc'[t] \notin {"called", "open"}
    BY <1>5 DEF PC, Handler, Refuse, OpenRead, DataPut, PatchDone, DataDelete, PolicyPut,
       PolicyDelete, Reload, AbortWith, Announce, Apply, Trigger, Release, CommitStep,
       ReadStore, ReadCompiler, SendPolicies, CloseRead, FinishEvaluation, GetUnknown,
       Panic, Reply
  <2>2. QED
    BY <1>5, <2>1
<1>6. QED
  BY <1>1, <1>2, <1>3, <1>4, <1>5

(* A reload opens its transaction only for a directory that loaded.         *)
LEMMA LoadedStep ==
  ASSUME RefInv, NEW t \in Thread, Call(t) \/ Handler(t)
  PROVE  LoadedOnly'
<1> USE DEF RefInv, IInv, TypeOK, ApiTypeOK, Goto, At
<1> SUFFICES ASSUME NEW u \in Thread, pc'[u] = "open", req'[u].op = "reload"
             PROVE  req'[u].bundle.loads
  BY DEF LoadedOnly
<1>1. CASE u # t
  BY <1>1, OthersStay DEF LoadedOnly
<1>2. CASE u = t
  <2>1. OpenWrite(t) \/ PatchWrite(t)
    BY <1>2 DEF Handler, Call, Refuse, OpenRead, DataPut,
       PatchDone, DataDelete, PolicyPut, PolicyDelete, Reload, AbortWith, Announce, Apply,
       Trigger, Release, CommitStep, ReadStore, ReadCompiler, SendPolicies, CloseRead,
       FinishEvaluation, GetUnknown, Panic, Reply
  <2>2. CASE OpenWrite(t)
    BY <1>2, <2>2 DEF OpenWrite
  <2>3. CASE PatchWrite(t)
    BY <1>2, <2>3 DEF PatchWrite, AbortWith
  <2>4. QED
    BY <2>1, <2>2, <2>3
<1>3. QED
  BY <1>1, <1>2

(* The strengthened invariant holds throughout.                             *)
LEMMA RefInductive == Spec => []RefInv
<1> DEFINE More == Stages /\ PolicyFound /\ PatchesInOrder /\ Decided /\ LoadedOnly
<1>1. Init => More
  <2> SUFFICES ASSUME Init PROVE More
    OBVIOUS
  <2>1. \A t \in Thread : pc[t] = "idle" /\ req[t] = NoRequest /\ seen[t] = Nothing
                          /\ answer[t] = None
    BY DEF Init
  <2>2. Stages
    <3>0. Nothing.policies = Unread
      BY DEF Nothing
    <3>1. \A t \in Thread : ~HasRead(t)
      BY <2>1, <3>0 DEF HasRead
    <3>2. QED
      BY <2>1, <3>1 DEF Stages, WriterPC
  <2>3. QED
    BY <2>1, <2>2 DEF PolicyFound, PatchesInOrder, Decided, LoadedOnly, NoRequest
<1>2. IInv /\ More /\ [Next]_vars => More'
  <2> SUFFICES ASSUME IInv, More, [Next]_vars PROVE More'
    OBVIOUS
  <2>0. RefInv
    BY DEF RefInv
  <2>1. CASE UNCHANGED vars
    <3>1. Stages' /\ PolicyFound' /\ LoadedOnly'
      BY <2>1 DEF vars, storeVars, apiVars, Stages, PolicyFound, LoadedOnly, HasRead
    <3>2. PatchesInOrder'
      <4>1. \A u \in Thread : FirstPatches(u, Written(u)) => FirstPatches(u, Written(u))'
        BY <2>1, PatchesFrame DEF vars, storeVars, apiVars
      <4>2. QED
        BY <2>1, <4>1 DEF vars, apiVars, PatchesInOrder
    <3>3. Decided'
      BY <2>1, ViewFrame DEF vars, storeVars, apiVars, Decided
    <3>4. QED
      BY <3>1, <3>2, <3>3
  <2>2. ASSUME NEW t \in Thread, Call(t) \/ Handler(t)
        PROVE  More'
    BY <2>0, <2>2, StagesStep, FoundStep, OrderStep, DecidedStep, LoadedStep
  <2>3. ASSUME NEW t \in Thread, FatalReply(t)
        PROVE  More'
    <3>1. \A u \in Thread : pc'[u] = "idle" /\ req'[u] = NoRequest /\ seen'[u] = Nothing
                            /\ answer'[u] = None
      BY <2>3 DEF FatalReply
    <3>2. Stages'
      BY <3>1 DEF Stages, WriterPC, HasRead, Nothing
    <3>3. QED
      BY <3>1, <3>2 DEF PolicyFound, PatchesInOrder, Decided, LoadedOnly, NoRequest
  <2>4. QED
    BY <2>1, <2>2, <2>3 DEF Next
<1>3. RefInv <=> IInv /\ More
  BY DEF RefInv
<1> HIDE DEF More
<1>4. QED
  BY <1>1, <1>2, <1>3, Inductive, PTL DEF Spec

-----------------------------------------------------------------------------
(* The result each thread stands for, and how a step changes it.            *)
Results == [u \in Thread |-> ResultOf(u)]

BeforeResult == {"idle", "called", "open", "commit", "locked"}

(* A thread has no result before its commit, abort or last read; later it   *)
(* has the one it answers with.                                             *)
LEMMA ResultNow ==
  ASSUME RefInv, NEW t \in Thread
  PROVE  /\ pc[t] \in BeforeResult => ResultOf(t) = Atomic!Pending
         /\ pc[t] = "reading" /\ ~HasRead(t) => ResultOf(t) = Atomic!Pending
         /\ pc[t] \in {"sending", "unwinding", "answering"} =>
              ResultOf(t).status = answer[t] /\ ResultOf(t) # Atomic!Pending
  BY DEF RefInv, Stages, ResultOf, BeforeResult, WriterPC, Atomic!Pending, Atomic!Result, None

(* A step changes the result of its own thread only.                        *)
LEMMA ResultNext ==
  ASSUME RefInv, NEW t \in Thread, Call(t) \/ Handler(t)
  PROVE  /\ Results' = [Results EXCEPT ![t] = ResultOf(t)']
         /\ pc'[t] \in BeforeResult => ResultOf(t)' = Atomic!Pending
         /\ pc'[t] = "reading" /\ ~HasRead(t)' => ResultOf(t)' = Atomic!Pending
<1>1. ASSUME NEW u \in Thread, u # t
      PROVE  ResultOf(u)' = ResultOf(u)
  <2>1. pc'[u] = pc[u] /\ req'[u] = req[u] /\ seen'[u] = seen[u] /\ answer'[u] = answer[u]
    BY <1>1, OthersStay, OthersKeep DEF RefInv, IInv
  <2>2. QED
    BY <2>1 DEF ResultOf, HasRead
<1>2. Stages'
  BY StagesStep
<1>3. Results' = [Results EXCEPT ![t] = ResultOf(t)']
  BY <1>1 DEF Results
<1>4. /\ pc'[t] \in BeforeResult => ~HasRead(t)' /\ answer'[t] = None
      /\ pc'[t] = "reading" => answer'[t] = None
  BY <1>2 DEF Stages, BeforeResult, WriterPC
<1>5. /\ pc'[t] \in BeforeResult => ResultOf(t)' = Atomic!Pending
      /\ pc'[t] = "reading" /\ ~HasRead(t)' => ResultOf(t)' = Atomic!Pending
  BY <1>4 DEF ResultOf, BeforeResult, Atomic!Pending, Atomic!Result, None
<1>6. QED
  BY <1>3, <1>5

(* A step that changes neither contents, request nor result stutters.       *)
LEMMA Stutters ==
  ASSUME RefInv, NEW t \in Thread, Call(t) \/ Handler(t),
         UNCHANGED <<policies, data, req>>, ResultOf(t)' = ResultOf(t)
  PROVE  UNCHANGED <<policies, data, req, Results>>
<1>1. Results' = [Results EXCEPT ![t] = ResultOf(t)]
  BY ResultNext
<1>2. QED
  BY <1>1 DEF Results

(* A step that leaves what the atomic write leaves, and takes its result,   *)
(* is that write.                                                           *)
LEMMA MapsToWrite ==
  ASSUME RefInv, NEW t \in Thread, Call(t) \/ Handler(t), NEW st,
         req[t].op \in WriteOps \cup {"malformed"}, ResultOf(t) = Atomic!Pending,
         Atomic!Outcome(req[t], policies, data) = Atomic!Effect(st, policies', data'),
         req' = req, ResultOf(t)' = Atomic!Result(st, <<>>)
  PROVE  Atomic!Write(t)
<1>1. Results' = [Results EXCEPT ![t] = Atomic!Result(st, <<>>)]
  BY ResultNext
<1>2. Results[t] = Atomic!Pending
  BY DEF Results
<1>3. LET e == Atomic!Effect(st, policies', data')
      IN e.status = st /\ e.policies = policies' /\ e.data = data'
  BY DEF Atomic!Effect
<1>4. QED
  BY <1>1, <1>2, <1>3, SameData DEF Atomic!Write, Results

(* What the handlers do at "called" and "open".                             *)
LEMMA WritersRefine ==
  ASSUME RefInv, NEW t \in Thread, Handler(t), pc[t] \in {"called", "open"}
  PROVE  Atomic!Write(t) \/ UNCHANGED <<policies, data, req, Results>>
<1> USE DEF RefInv, IInv, TypeOK, ApiTypeOK, Goto, At, Answer
<1>1. UNCHANGED <<policies, data>>
  BY CommittedStays DEF Apply, Trigger, CommitStep, committed
<1>2. ResultOf(t) = Atomic!Pending /\ ~HasRead(t)
  BY ResultNow DEF BeforeResult, Stages, WriterPC
<1>3. CASE pc[t] = "open"
  <2>1. req[t].op \in WriteOps
    BY <1>3 DEF Stages, WriterPC
  <2>2. ASSUME NEW st, AbortWith(t, st),
               Atomic!Outcome(req[t], policies, data) = Atomic!Effect(st, policies, data)
        PROVE  Atomic!Write(t)
    <3>1. /\ pc'[t] = "answering" /\ answer'[t] = st /\ req' = req /\ seen' = seen
      BY <2>2 DEF AbortWith
    <3>2. ResultOf(t)' = Atomic!Result(st, <<>>)
      BY <1>2, <3>1 DEF ResultOf, HasRead, Atomic!Result
    <3>3. QED
      BY <1>1, <1>2, <2>1, <2>2, <3>1, <3>2, MapsToWrite
  <2>3. CASE pc'[t] \in {"open", "commit"}
    <3>1. ~AbortWith(t, "304") /\ ~AbortWith(t, "400") /\ ~AbortWith(t, "500")
          /\ ~AbortWith(t, "failed")
      BY <2>3 DEF AbortWith
    <3>2. req' = req
      BY <1>3, <3>1 DEF Handler, Refuse, OpenWrite, OpenRead, DataPut, PatchWrite, PatchDone,
         DataDelete, PolicyPut, PolicyDelete, Reload, Announce, Apply, Trigger, Release,
         CommitStep, ReadStore, ReadCompiler, SendPolicies, CloseRead, FinishEvaluation,
         GetUnknown, Panic, Reply
    <3>3. ResultOf(t)' = Atomic!Pending
      BY <2>3, ResultNext DEF BeforeResult
    <3>4. QED
      BY <1>1, <1>2, <3>2, <3>3, Stutters
  <2>4. QED
    BY <1>3, <2>2, <2>3, DecidesHere
<1>4. CASE pc[t] = "called"
  <2>1. Refuse(t) \/ OpenWrite(t) \/ OpenRead(t)
    BY <1>4 DEF Handler, DataPut, PatchWrite, PatchDone, DataDelete, PolicyPut, PolicyDelete,
       Reload, Announce, Apply, Trigger, Release, CommitStep, ReadStore, ReadCompiler,
       SendPolicies, CloseRead, FinishEvaluation, GetUnknown, Panic, Reply
  <2>2. CASE Refuse(t)
    <3>1. PICK st \in {"400", "failed"} :
             /\ answer' = [answer EXCEPT ![t] = st]
             /\ \/ req[t].op = "malformed" /\ st = "400"
                \/ req[t].op = "reload" /\ ~req[t].bundle.loads /\ st = "failed"
      BY <2>2 DEF Refuse
    <3>2. pc'[t] = "answering" /\ answer'[t] = st /\ req' = req /\ seen' = seen
      BY <2>2, <3>1 DEF Refuse
    <3>3. ResultOf(t)' = Atomic!Result(st, <<>>)
      BY <1>2, <3>2 DEF ResultOf, HasRead, Atomic!Result
    <3>4. Atomic!Outcome(req[t], policies, data) = Atomic!Effect(st, policies, data)
      BY <3>1, OutcomeByOp DEF Atomic!ReloadBundle
    <3>5. QED
      BY <1>1, <1>2, <3>1, <3>2, <3>3, <3>4, MapsToWrite DEF WriteOps
  <2>3. CASE OpenWrite(t)
    <3>1. req' = req /\ pc'[t] = "open"
      BY <2>3 DEF OpenWrite
    <3>2. QED
      BY <1>1, <1>2, <3>1, ResultNext, Stutters DEF BeforeResult
  <2>4. CASE OpenRead(t)
    <3>1. req' = req /\ pc'[t] = "reading" /\ seen'[t] = Nothing
      BY <2>4 DEF OpenRead
    <3>2. ~HasRead(t)'
      BY <3>1 DEF HasRead, Nothing
    <3>3. QED
      BY <1>1, <1>2, <3>1, <3>2, ResultNext, Stutters
  <2>5. QED
    BY <2>1, <2>2, <2>3, <2>4
<1>5. QED
  BY <1>3, <1>4

(* The steps of a commit: it takes effect where its writes are applied.     *)
LEMMA CommitsRefine ==
  ASSUME RefInv, NEW t \in Thread, Announce(t) \/ Apply(t) \/ Trigger(t) \/ Release(t)
  PROVE  Atomic!Write(t) \/ UNCHANGED <<policies, data, req, Results>>
<1> USE DEF RefInv, IInv, TypeOK, ApiTypeOK, Goto, Answer, CommitStep
<1>1. /\ pc[t] \in WriterPC /\ req' = req /\ seen' = seen /\ ~HasRead(t) /\ ~HasRead(t)'
      /\ req[t].op \in WriteOps /\ Handler(t)
  BY DEF Announce, Apply, Trigger, Release, WriterPC, Stages, HasRead, Handler
<1>2. CASE Announce(t)
  <2>1. pc[t] = "commit" /\ pc'[t] = "locked" /\ UNCHANGED <<policies, data>>
    BY <1>2 DEF Announce, AnnounceCommit, committed
  <2>2. QED
    BY <1>1, <2>1, ResultNow, ResultNext, Stutters DEF BeforeResult
<1>3. CASE Apply(t)
  <2>1. /\ pc[t] = "locked" /\ pc'[t] = "applied"
        /\ policies' = PolicyView(t) /\ data' = DataView(t)
    BY <1>3 DEF Apply, ApplyEdits
  <2>2. ResultOf(t) = Atomic!Pending
    BY <2>1, ResultNow DEF BeforeResult
  <2>3. ResultOf(t)' = Atomic!Result(Success(req[t].op), <<>>)
    BY <1>1, <2>1 DEF ResultOf, Atomic!Result
  <2>4. Atomic!Outcome(req[t], policies, data) =
          Atomic!Effect(Success(req[t].op), policies', data')
    BY <2>1 DEF Decided
  <2>5. QED
    BY <1>1, <2>2, <2>3, <2>4, MapsToWrite
<1>4. CASE Trigger(t)
  <2>1. pc[t] = "applied" /\ pc'[t] = "compiled" /\ UNCHANGED <<policies, data>>
    BY <1>4 DEF Trigger, RunTrigger
  <2>2. ResultOf(t)' = ResultOf(t)
    BY <1>1, <2>1 DEF ResultOf
  <2>3. QED
    BY <1>1, <2>1, <2>2, Stutters
<1>5. CASE Release(t)
  <2>1. /\ pc[t] = "compiled" /\ pc'[t] = "answering" /\ answer'[t] = Success(req[t].op)
        /\ UNCHANGED <<policies, data>>
    BY <1>5 DEF Release, ReleaseCommit, committed
  <2>2. ResultOf(t)' = ResultOf(t)
    BY <1>1, <2>1 DEF ResultOf
  <2>3. QED
    BY <1>1, <2>1, <2>2, Stutters
<1>6. QED
  BY <1>2, <1>3, <1>4, <1>5

(* The steps of a reader: it takes effect where it has read everything, or  *)
(* where it finds nothing under the id it asked for.                        *)
LEMMA ReadersRefine ==
  ASSUME RefInv, NEW t \in Thread, Handler(t), pc[t] = "reading"
  PROVE  Atomic!Read(t) \/ UNCHANGED <<policies, data, req, Results>>
<1> USE DEF RefInv, IInv, TypeOK, ApiTypeOK, Goto, At, Answer
<1>1. \/ ReadStore(t) \/ ReadCompiler(t) \/ SendPolicies(t) \/ FinishEvaluation(t)
      \/ GetUnknown(t)
  BY DEF Handler, Refuse, OpenWrite, OpenRead, DataPut, PatchWrite, PatchDone,
     DataDelete, PolicyPut, PolicyDelete, Reload, Announce, Apply, Trigger, Release,
     CommitStep, CloseRead, Panic, Reply
<1>2. UNCHANGED <<policies, data, req>> /\ compiler = policies
  BY <1>1, CompilerForReaders DEF ReadStore, ReadCompiler, SendPolicies, FinishEvaluation,
     GetUnknown, EndRead, storeVars, committed, ReaderPC
<1>3. req[t].op \in ReadOps
  BY <1>1 DEF ReadStore, ReadCompiler, SendPolicies, FinishEvaluation, GetUnknown, ReadOps
<1>4. policies # Unread
  BY UnreadAssumption DEF StoreTypeOK
<1>5. /\ seen[t].policies # Unread => seen[t].policies = policies /\ seen[t].data = data
      /\ seen[t].compiler # Unread => seen[t].compiler = policies
  BY DEF ReadersCurrent, ReaderPC
<1> DEFINE status == IF req[t].op = "evaluate" THEN "decided" ELSE "200"
           all    == Atomic!Result(status, <<policies, policies, data>>)
<1>6. ASSUME pc'[t] = "reading", ~HasRead(t), HasRead(t)', seen'[t].policies = policies,
             seen'[t].compiler = policies, seen'[t].data = data,
             req[t].op = "policyGet" => policies[req[t].id] # NoSource
      PROVE  Atomic!Read(t)
  <2>1. ResultOf(t) = Atomic!Pending
    BY <1>6, ResultNow
  <2>2. ResultOf(t)' = all
    BY <1>2, <1>6 DEF ResultOf, Atomic!Result
  <2>3. Results' = [Results EXCEPT ![t] = all] /\ Results[t] = Atomic!Pending
    BY <2>1, <2>2, ResultNext DEF Results
  <2> HIDE DEF all
  <2>4. QED
    BY <1>2, <1>3, <1>6, <2>3, SameData DEF Atomic!Read, Results, all
<1>7. CASE ReadStore(t)
  <2>1. /\ seen'[t].policies = policies /\ seen'[t].data = data
        /\ seen'[t].compiler = seen[t].compiler /\ pc'[t] = "reading" /\ ~HasRead(t)
    BY <1>7 DEF ReadStore, Sight, HasRead
  <2>2. req[t].op = "policyGet" => policies[req[t].id] # NoSource
    BY <1>7 DEF ReadStore
  <2>3. CASE HasRead(t)'
    BY <1>5, <1>6, <2>1, <2>2, <2>3 DEF HasRead
  <2>4. CASE ~HasRead(t)'
    BY <1>2, <2>1, <2>4, ResultNow, ResultNext, Stutters
  <2>5. QED
    BY <2>3, <2>4
<1>8. CASE ReadCompiler(t)
  <2>1. /\ seen'[t].policies = seen[t].policies /\ seen'[t].data = seen[t].data
        /\ seen'[t].compiler = policies /\ pc'[t] = "reading" /\ ~HasRead(t)
    BY <1>2, <1>8 DEF ReadCompiler, Sight, HasRead
  <2>2. CASE HasRead(t)'
    <3>1. seen[t].policies = policies /\ seen[t].data = data /\ seen[t].policies # Unread
      BY <1>5, <2>1, <2>2 DEF HasRead
    <3>2. req[t].op = "policyGet" => policies[req[t].id] # NoSource
      BY <3>1 DEF PolicyFound
    <3>3. QED
      BY <1>6, <2>1, <2>2, <3>1, <3>2
  <2>3. CASE ~HasRead(t)'
    BY <1>2, <2>1, <2>3, ResultNow, ResultNext, Stutters
  <2>4. QED
    BY <2>2, <2>3
<1>9. CASE SendPolicies(t) \/ FinishEvaluation(t)
  <2>1. /\ HasRead(t) /\ seen' = seen /\ pc'[t] \in {"sending", "answering"}
        /\ answer'[t] = status
    BY <1>9 DEF SendPolicies, FinishEvaluation
  <2>2. ResultOf(t)' = ResultOf(t)
    BY <2>1 DEF ResultOf, HasRead
  <2>3. QED
    BY <1>2, <2>2, Stutters
<1>10. CASE GetUnknown(t)
  <2>1. /\ req[t].op = "policyGet" /\ policies[req[t].id] = NoSource /\ ~HasRead(t)
        /\ pc'[t] = "unwinding" /\ answer'[t] = "500" /\ seen' = seen
    BY <1>10 DEF GetUnknown, HasRead
  <2>2. ResultOf(t)' = Atomic!Result("500", <<>>)
    BY <2>1 DEF ResultOf, HasRead, Atomic!Result
  <2>3. /\ Results' = [Results EXCEPT ![t] = Atomic!Result("500", <<>>)]
        /\ Results[t] = Atomic!Pending
    BY <2>1, <2>2, ResultNow, ResultNext DEF Results
  <2>4. QED
    BY <1>2, <1>3, <2>1, <2>3, SameData DEF Atomic!Read, Results
<1>11. QED
  BY <1>1, <1>7, <1>8, <1>9, <1>10

(* Requests arrive and answers leave as in the atomic specification.        *)
LEMMA EndsRefine ==
  ASSUME RefInv, NEW t \in Thread,
         Call(t) \/ CloseRead(t) \/ Panic(t) \/ Reply(t)
  PROVE  Atomic!Call(t) \/ Atomic!Return(t)
<1> USE DEF RefInv, IInv, TypeOK, ApiTypeOK, Goto
<1>1. Call(t) \/ Handler(t)
  BY DEF Handler
<1>2. UNCHANGED <<policies, data>>
  BY <1>1, CommittedStays DEF Call, CloseRead, Panic, Reply, EndRead, committed, storeVars
<1>3. pc'[t] \in {"idle", "called"}
  BY DEF Call, CloseRead, Panic, Reply
<1>4. Results' = [Results EXCEPT ![t] = Atomic!Pending] /\ Results[t] = ResultOf(t)
  BY <1>1, <1>3, ResultNext DEF BeforeResult, Results
<1>5. CASE Call(t)
  <2>0. pc[t] = "idle" /\ req[t] = NoRequest
    BY <1>5 DEF Call, Stages
  <2>1. Results' = Results
    <3>1. ResultOf(t) = Atomic!Pending
      BY <2>0, ResultNow DEF BeforeResult
    <3>2. Results = [Results EXCEPT ![t] = ResultOf(t)]
      BY DEF Results
    <3>3. QED
      BY <1>4, <3>1, <3>2
  <2>2. \E r \in IF t = Watcher THEN Reloads ELSE Requests : req' = [req EXCEPT ![t] = r]
    BY <1>5 DEF Call
  <2>3. QED
    BY <1>2, <2>0, <2>1, <2>2, SameData DEF Atomic!Call, Results
<1>6. CASE CloseRead(t) \/ Panic(t) \/ Reply(t)
  <2>1. /\ pc[t] \in {"sending", "unwinding", "answering"}
        /\ req' = [req EXCEPT ![t] = NoRequest]
    BY <1>6 DEF CloseRead, Panic, Reply
  <2>2. Results[t] # Atomic!Pending
    BY <1>4, <2>1, ResultNow
  <2>3. QED
    BY <1>2, <1>4, <2>1, <2>2, SameData DEF Atomic!Return, Results
<1>7. QED
  BY <1>5, <1>6

(* A response that cannot be written restarts the process.                  *)
LEMMA RestartRefines ==
  ASSUME RefInv, NEW t \in Thread, FatalReply(t)
  PROVE  Atomic!Restart(t)
<1>1. Results[t].status \in JsonStatus
  BY ResultNow DEF FatalReply, Results
<1>2. /\ \A u \in Thread : pc'[u] = "idle" /\ seen'[u] = Nothing /\ answer'[u] = None
      /\ req' = [u \in Thread |-> NoRequest]
      /\ \E b \in Bootable : policies' = b.policies /\ data' = b.data
  BY DEF FatalReply
<1>3. Nothing.policies = Unread
  BY DEF Nothing
<1>4. \A u \in Thread : ResultOf(u)' = Atomic!Pending
  BY <1>2, <1>3 DEF ResultOf, HasRead, None, Atomic!Pending, Atomic!Result
<1>5. Results' = [u \in Thread |-> Atomic!Pending]
  BY <1>4 DEF Results
<1>6. QED
  BY <1>1, <1>2, <1>5, SameData DEF Atomic!Restart, Results

(* Every step of a handler is a step of the atomic specification or changes *)
(* nothing there.                                                           *)
LEMMA StepRefines ==
  ASSUME RefInv, [Next]_vars
  PROVE  [Atomic!Next]_(Atomic!vars)
<1>1. CASE UNCHANGED vars
  BY <1>1 DEF vars, storeVars, apiVars, Atomic!vars, ResultOf, HasRead
<1>2. ASSUME NEW t \in Thread, Call(t) \/ Handler(t)
      PROVE  [Atomic!Next]_(Atomic!vars)
  <2>1. UNCHANGED <<policies, data, req, Results>> => UNCHANGED Atomic!vars
    BY DEF Atomic!vars, Results
  <2>2. CASE Call(t) \/ CloseRead(t) \/ Panic(t) \/ Reply(t)
    BY <2>2, EndsRefine DEF Atomic!Next
  <2>3. CASE Announce(t) \/ Apply(t) \/ Trigger(t) \/ Release(t)
    BY <2>1, <2>3, CommitsRefine DEF Atomic!Next
  <2>4. CASE Handler(t) /\ pc[t] \in {"called", "open"}
    BY <2>1, <2>4, WritersRefine DEF Atomic!Next
  <2>5. CASE Handler(t) /\ pc[t] = "reading"
    BY <2>1, <2>5, ReadersRefine DEF Atomic!Next
  <2>6. QED
    BY <1>2, <2>2, <2>3, <2>4, <2>5 DEF Handler, At, Refuse, OpenWrite, OpenRead, DataPut,
       PatchWrite, PatchDone, DataDelete, PolicyPut, PolicyDelete, Reload, ReadStore,
       ReadCompiler, SendPolicies, FinishEvaluation, GetUnknown
<1>3. ASSUME NEW t \in Thread, FatalReply(t)
      PROVE  [Atomic!Next]_(Atomic!vars)
  BY <1>3, RestartRefines DEF Atomic!Next
<1>4. QED
  BY <1>1, <1>2, <1>3 DEF Next

(* Every behaviour of the handlers is one in which each request takes       *)
(* effect in a single step: their locks and transactions make them atomic.  *)
THEOREM ImplementsAtomic == Spec => ImplementsAtomicApi
<1>1. Init => Atomic!Init
  <2> SUFFICES ASSUME Init PROVE Atomic!Init
    OBVIOUS
  <2>1. \A t \in Thread : pc[t] = "idle" /\ seen[t] = Nothing /\ answer[t] = None
    BY DEF Init
  <2>2. Nothing.policies = Unread
    BY DEF Nothing
  <2>3. \A t \in Thread : ResultOf(t) = Atomic!Pending
    BY <2>1, <2>2 DEF ResultOf, HasRead, None, Atomic!Pending, Atomic!Result
  <2>4. QED
    BY <2>3, SameData DEF Init, Atomic!Init
<1>2. RefInv /\ [Next]_vars => [Atomic!Next]_(Atomic!vars)
  BY StepRefines
<1>3. QED
  BY <1>1, <1>2, RefInductive, PTL DEF Spec, Atomic!Spec, ImplementsAtomicApi
=============================================================================
