----------------------------- MODULE PolicyData -----------------------------
(***************************************************************************)
(* What the policy store holds and what requests carry, with the compiler  *)
(* checks that decide which contents are acceptable.  No state: the store  *)
(* (PolicyStore), its users (PolicyApi) and the abstract specification of  *)
(* both (AtomicPolicyApi) extend this module.                              *)
(***************************************************************************)
EXTENDS Naturals, Sequences

CONSTANTS
  Thread,       \* goroutines that use the store
  Watcher,      \* the watcher's goroutine: it only reloads
  Id,           \* policy ids
  Source,       \* rego modules, by what the compiler sees of them
  NoSource,     \* no policy is stored under this id
  Unparsable,   \* a request body that is no rego module
  Path,         \* documents and rules live at these paths (they do not nest)
  Value,        \* document values
  NoDoc,        \* no document is stored at this path
  Package,      \* Package[s]: the path at which module s defines its rules
  Calls,        \* Calls[s]: the paths of the functions module s calls
  Requests,     \* requests clients may send
  Bundles,      \* contents the rego directory may have
  BundleRoots   \* roots named by the directory's .manifest; {} without one

Modules   == [Id -> Source \cup {NoSource}]
Documents == [Path -> Value \cup {NoDoc}]

(* The paths at which a set of modules defines rules. *)
Defined(mods) == {Package[mods[i]] : i \in {j \in Id : mods[j] # NoSource}}

(* Every function a module calls is defined by one of the modules: a call   *)
(* of an undefined function is a compile error, a missing document is not.  *)
Resolved(mods) ==
  \A i \in Id : mods[i] # NoSource => Calls[mods[i]] \subseteq Defined(mods)

(* ast.CheckPathConflicts with storage.NonEmpty: no rule is defined at a    *)
(* path that holds a base document.                                         *)
NoPathConflict(mods, docs) == \A p \in Defined(mods) : docs[p] = NoDoc

Compiles(mods, docs) == Resolved(mods) /\ NoPathConflict(mods, docs)

-----------------------------------------------------------------------------
(* Without a manifest the bundle's only root is "", which owns every path   *)
(* but which checkPathScope skips.                                          *)
Owned == IF BundleRoots = {} THEN Path ELSE BundleRoots
Protected == BundleRoots

(* checkPathScope: is a path, or the subtree below it, owned by a bundle?   *)
CheckPathScope_AnyPath(paths) == FALSE
CheckPathScope(paths) == paths \cap Protected # {}

(* What a reload finds in the rego directory.  "loads" is false when a file *)
(* does not parse.  The bundle loader rejects content outside the roots.    *)
Bundle == [loads : BOOLEAN, policies : Modules, data : Documents]

PatchOp == [op : {"add", "replace", "remove"}, path : Path, value : Value]

Request ==
       [op : {"malformed", "policyList", "evaluate"}]
  \cup [op : {"dataPut"}, path : Path, value : Value, ifNoneMatch : BOOLEAN]
  \cup [op : {"dataPatch"}, under : SUBSET Path, ops : Seq(PatchOp)]
  \cup [op : {"dataDelete"}, path : Path]
  \cup [op : {"policyPut"}, id : Id, source : Source \cup {Unparsable}]
  \cup [op : {"policyDelete", "policyGet"}, id : Id]

Reloads == [op : {"reload"}, bundle : Bundles]

NoRequest == [op |-> "none"]

WriteOps == {"dataPut", "dataPatch", "dataDelete", "policyPut",
             "policyDelete", "reload"}
ReadOps  == {"policyGet", "policyList", "evaluate"}

ASSUME DataAssumption ==
  /\ NoSource \notin Source /\ NoDoc \notin Value
  /\ Package \in [Source -> Path]
  /\ Calls \in [Source -> SUBSET Path]
  /\ Watcher \in Thread
  /\ Requests \subseteq Request
  /\ \A r \in Requests : r.op = "dataPatch" =>
       \A n \in DOMAIN r.ops : r.ops[n].path \in r.under
  /\ BundleRoots \subseteq Path
  /\ Unparsable \notin Source \cup {NoSource}
  /\ Bundles \subseteq Bundle
  /\ \A b \in Bundles :
       /\ Defined(b.policies) \subseteq Owned
       /\ \A p \in Path \ Owned : b.data[p] = NoDoc

(* Activation erases the policies and documents the roots own and writes    *)
(* the bundle's; with the root "" it replaces everything.                   *)
ActivatedPolicies(b, mods) ==
  [i \in Id |-> IF b.policies[i] # NoSource THEN b.policies[i]
                ELSE IF mods[i] # NoSource /\ Package[mods[i]] \in Owned
                     THEN NoSource ELSE mods[i]]

ActivatedData(b, docs) ==
  [p \in Path |-> IF p \in Owned THEN b.data[p] ELSE docs[p]]

(* What a handler answers once its commit is through. *)
Success(op) == IF op = "reload" THEN "loaded"
               ELSE IF op \in {"policyPut", "policyDelete"} THEN "200" ELSE "204"

(* Contents a process can start from, and answers with a JSON body. *)
Bootable == {b \in Bundles : b.loads /\ Compiles(b.policies, b.data)}

JsonStatus == {"200", "400", "500"}
=============================================================================
