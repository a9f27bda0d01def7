---------------------------- MODULE PolicyStore ----------------------------
(***************************************************************************)
(* The store every part of kelon shares: OPA's in-memory store together    *)
(* with the compiler that OPA's plugin manager derives from it.  Both are  *)
(* libraries (storage/inmem, plugins.Manager, bundle.Activate); they are   *)
(* modelled from how internal/pkg/opa/opa.go and internal/pkg/api/         *)
(* rest-handler.go use them:                                               *)
(*   - NewTransaction(WriteParams) takes the writer mutex (wmu) and keeps  *)
(*     it until Commit or Abort;                                           *)
(*   - NewTransaction() takes the read side of the reader/writer lock      *)
(*     (rmu) and keeps it until Abort;                                     *)
(*   - a transaction's writes are private until Commit, and its reads fall *)
(*     through to the committed state;                                     *)
(*   - Commit takes the write side of rmu (a Go RWMutex: once announced, no *)
(*     new reader enters), applies the writes, runs the commit trigger,    *)
(*     which recompiles the stored policies, and releases both locks.      *)
(***************************************************************************)
EXTENDS PolicyData

CONSTANTS
  Nobody,     \* the owner of a free lock
  Kept        \* a transaction has not written this key

ASSUME StoreAssumption ==
  /\ Nobody \notin Thread
  /\ Kept \notin Source \cup {NoSource} \cup Value \cup {NoDoc}

VARIABLES
  policies,   \* committed policies: policies[i] is the module stored under i
  data,       \* committed base documents
  compiler,   \* the modules the manager's compiler was last built from
  edits,      \* edits[t]: the uncommitted writes of thread t's transaction
  wmu,        \* holder of the writer mutex
  rmu,        \* writer that announced or holds the write side of the RWMutex
  readers     \* threads that hold its read side

storeVars == <<policies, data, compiler, edits, wmu, rmu, readers>>
locks     == <<wmu, rmu, readers>>
committed == <<policies, data, compiler>>

Edits     == [policies : [Id -> Source \cup {NoSource, Kept}],
              data     : [Path -> Value \cup {NoDoc, Kept}]]
NoEdits   == [policies |-> [i \in Id |-> Kept], data |-> [p \in Path |-> Kept]]

StoreTypeOK ==
  /\ policies \in Modules
  /\ data \in Documents
  /\ compiler \in Modules
  /\ edits \in [Thread -> Edits]
  /\ wmu \in Thread \cup {Nobody}
  /\ rmu \in Thread \cup {Nobody}
  /\ readers \in SUBSET Thread

-----------------------------------------------------------------------------
(* Transactions. *)

(* What a transaction with the given writes sees of a committed map. *)
Overlay(edit, base) ==
  [k \in DOMAIN base |-> IF edit[k] = Kept THEN base[k] ELSE edit[k]]

PolicyView(t) == Overlay(edits[t].policies, policies)
DataView(t)   == Overlay(edits[t].data, data)

PolicyChanged(t) == \E i \in Id : edits[t].policies[i] # Kept

BeginWrite(t) ==
  /\ wmu = Nobody
  /\ wmu' = t
  /\ edits' = [edits EXCEPT ![t] = NoEdits]
  /\ UNCHANGED <<committed, rmu, readers>>

AbortWrite(t) ==
  /\ wmu' = Nobody
  /\ edits' = [edits EXCEPT ![t] = NoEdits]
  /\ UNCHANGED <<committed, rmu, readers>>

WritePolicy(t, i, s) ==
  /\ edits' = [edits EXCEPT ![t].policies[i] = s]
  /\ UNCHANGED <<committed, locks>>

WriteData(t, p, v) ==
  /\ edits' = [edits EXCEPT ![t].data[p] = v]
  /\ UNCHANGED <<committed, locks>>

BeginRead(t) ==
  /\ rmu = Nobody
  /\ readers' = readers \cup {t}
  /\ UNCHANGED <<committed, edits, wmu, rmu>>

EndRead(t) ==
  /\ readers' = readers \ {t}
  /\ UNCHANGED <<committed, edits, wmu, rmu>>

(* Commit, step by step: announce the write side, apply the writes once the *)
(* readers have left, rebuild the compiler if a policy changed, release.    *)
AnnounceCommit(t) ==
  /\ rmu = Nobody
  /\ rmu' = t
  /\ UNCHANGED <<committed, edits, wmu, readers>>

ApplyEdits(t) ==
  /\ readers = {}
  /\ policies' = PolicyView(t)
  /\ data' = DataView(t)
  /\ UNCHANGED <<compiler, edits, locks>>

RunTrigger(t) ==
  /\ compiler' = IF PolicyChanged(t) THEN policies ELSE compiler
  /\ UNCHANGED <<policies, data, edits, locks>>

ReleaseCommit(t) ==
  /\ rmu' = Nobody
  /\ wmu' = Nobody
  /\ edits' = [edits EXCEPT ![t] = NoEdits]
  /\ UNCHANGED <<committed, readers>>
=============================================================================
