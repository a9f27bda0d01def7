----------------------------- MODULE PolicyApi -----------------------------
(***************************************************************************)
(* The users of the shared policy store, running concurrently: the REST    *)
(* handlers of internal/pkg/api/rest-handler.go that read and write        *)
(* policies and documents (one goroutine per request), the rego reload of  *)
(* internal/pkg/opa/opa.go (the file watcher's goroutine), and the partial *)
(* evaluations of access decisions.                                        *)
(*                                                                         *)
(* A handler is a sequence of steps; pc says where it stands:              *)
(*   idle -> called -> open -> commit -> locked -> applied -> compiled     *)
(*                      |                                        |         *)
(*                      +------ abort ------> answering <--------+         *)
(*   idle -> called -> reading -> read -> ...                              *)
(* The locks are held exactly from open to compiled (wmu), from locked to  *)
(* compiled (rmu) and in reading, read and sending (read side).            *)
(***************************************************************************)
EXTENDS PolicyStore

CONSTANT Unread   \* a reader has not read this yet

ASSUME UnreadAssumption == Unread \notin Modules \cup Documents

VARIABLES
  pc,       \* where each thread's handler stands
  req,      \* the request it serves
  todo,     \* the patch operations it has not written yet
  seen,     \* what a reader has read so far
  answer    \* the status it answers with

apiVars == <<pc, req, todo, seen, answer>>
vars    == <<storeVars, apiVars>>

PC == {"idle", "called", "open", "commit", "locked", "applied", "compiled",
       "reading", "sending", "unwinding", "answering"}

WriterPC  == {"open", "commit", "locked", "applied", "compiled"}
CommitPC  == {"locked", "applied", "compiled"}
ReaderPC  == {"reading", "sending"}

Status  == {"200", "204", "304", "400", "500", "loaded", "failed", "decided"}
None    == "none"
Sight   == [policies : Modules \cup {Unread},
            data     : Documents \cup {Unread},
            compiler : Modules \cup {Unread}]
Nothing == [policies |-> Unread, data |-> Unread, compiler |-> Unread]

ApiTypeOK ==
  /\ pc \in [Thread -> PC]
  /\ \A t \in Thread :
       req[t] \in (IF t = Watcher THEN Reloads ELSE Requests) \cup {NoRequest}
  /\ DOMAIN req = Thread
  /\ todo \in [Thread -> Seq(PatchOp)]
  /\ seen \in [Thread -> Sight]
  /\ answer \in [Thread -> Status \cup {None}]

TypeOK == StoreTypeOK /\ ApiTypeOK

-----------------------------------------------------------------------------
Goto(t, l)     == pc' = [pc EXCEPT ![t] = l]
At(t, l, ops)  == pc[t] = l /\ req[t].op \in ops
Answer(t, s)   == answer' = [answer EXCEPT ![t] = s]

(* Mutant: an error path reports without ending its transaction.            *)
AbortWith_Leaks(t, status) ==
  /\ Answer(t, status)
  /\ Goto(t, "answering")
  /\ todo' = [todo EXCEPT ![t] = <<>>]
  /\ UNCHANGED <<storeVars, req, seen>>

(* abortWithInternalServerError, abortWithBadRequest, and the reload's      *)
(* Abort: give up the write transaction and report.                         *)
AbortWith(t, status) ==
  /\ AbortWrite(t)
  /\ Answer(t, status)
  /\ Goto(t, "answering")
  /\ todo' = [todo EXCEPT ![t] = <<>>]
  /\ UNCHANGED <<req, seen>>

(* A client sends a request, or an event reaches the watcher. *)
Call(t) ==
  /\ pc[t] = "idle"
  /\ \E r \in IF t = Watcher THEN Reloads ELSE Requests :
       /\ req' = [req EXCEPT ![t] = r]
       /\ todo' = [todo EXCEPT ![t] = IF r.op = "dataPatch" THEN r.ops ELSE <<>>]
  /\ Goto(t, "called")
  /\ UNCHANGED <<storeVars, seen, answer>>

(* A body, path or patch operation that does not parse, or a rego directory *)
(* that does not load, is refused before any transaction is opened.         *)
Refuse(t) ==
  /\ pc[t] = "called"
  /\ \/ req[t].op = "malformed" /\ Answer(t, "400")
     \/ req[t].op = "reload" /\ ~req[t].bundle.loads /\ Answer(t, "failed")
  /\ Goto(t, "answering")
  /\ UNCHANGED <<storeVars, req, todo, seen>>

OpenWrite(t) ==
  /\ At(t, "called", WriteOps)
  /\ req[t].op = "reload" => req[t].bundle.loads
  /\ BeginWrite(t)
  /\ Goto(t, "open")
  /\ UNCHANGED <<req, todo, seen, answer>>

(* Mutant: the handler reads outside a transaction. *)
OpenRead_NoTransaction(t) ==
  /\ At(t, "called", ReadOps)
  /\ Goto(t, "reading")
  /\ seen' = [seen EXCEPT ![t] = Nothing]
  /\ UNCHANGED <<storeVars, req, todo, answer>>

OpenRead(t) ==
  /\ At(t, "called", ReadOps)
  /\ BeginRead(t)
  /\ Goto(t, "reading")
  /\ seen' = [seen EXCEPT ![t] = Nothing]
  /\ UNCHANGED <<req, todo, answer>>

-----------------------------------------------------------------------------
(* The Data API. *)

(* ast.CheckPathConflicts against the manager's compiler, not against the   *)
(* stored policies.                                                         *)
ConflictsWithRules_Unchecked(docs) == FALSE
ConflictsWithRules(docs) == ~NoPathConflict(compiler, docs)

(* The path is the URL's, with the v1/data it begins with.                  *)
DataPut(t) ==
  /\ At(t, "open", {"dataPut"})
  /\ LET p      == req[t].path
         v      == req[t].value
         exists == DataView(t)[p] # NoDoc
     IN \/ CheckPathScope({p}) /\ AbortWith(t, "500")
        \/ ~CheckPathScope({p}) /\ exists /\ req[t].ifNoneMatch /\ AbortWith(t, "304")
        \/ /\ ~CheckPathScope({p})
           /\ ~(exists /\ req[t].ifNoneMatch)
           /\ IF ConflictsWithRules([DataView(t) EXCEPT ![p] = v])
              THEN AbortWith(t, "400")
              ELSE /\ WriteData(t, p, v)
                   /\ Goto(t, "commit")
                   /\ UNCHANGED <<req, todo, seen, answer>>

(* Mutant: a patch that fails keeps what the earlier ones wrote. *)
PatchWrite_KeepsPrefix(t) ==
  /\ At(t, "open", {"dataPatch"})
  /\ todo[t] # <<>>
  /\ LET patch   == Head(todo[t])
         missing == DataView(t)[patch.path] = NoDoc
     IN IF patch.op # "add" /\ missing
        THEN /\ todo' = [todo EXCEPT ![t] = <<>>]
             /\ UNCHANGED <<storeVars, pc, req, seen, answer>>
        ELSE /\ WriteData(t, patch.path,
                          IF patch.op = "remove" THEN NoDoc ELSE patch.value)
             /\ todo' = [todo EXCEPT ![t] = Tail(todo[t])]
             /\ UNCHANGED <<pc, req, seen, answer>>

(* One round of the patch loop.  The scope check looks at the request's     *)
(* path, which lies above every patched path; replace and remove need the   *)
(* document.                                                                *)
PatchWrite(t) ==
  /\ At(t, "open", {"dataPatch"})
  /\ todo[t] # <<>>
  /\ LET patch   == Head(todo[t])
         missing == DataView(t)[patch.path] = NoDoc
         refused == \/ CheckPathScope(req[t].under)
                    \/ patch.op # "add" /\ missing
     IN IF refused
        THEN AbortWith(t, "500")
        ELSE /\ WriteData(t, patch.path,
                          IF patch.op = "remove" THEN NoDoc ELSE patch.value)
             /\ todo' = [todo EXCEPT ![t] = Tail(todo[t])]
             /\ UNCHANGED <<pc, req, seen, answer>>

PatchDone(t) ==
  /\ At(t, "open", {"dataPatch"})
  /\ todo[t] = <<>>
  /\ IF ConflictsWithRules(DataView(t))
     THEN AbortWith(t, "400")
     ELSE /\ Goto(t, "commit")
          /\ UNCHANGED <<storeVars, req, todo, seen, answer>>

(* Deleting a document checks no conflict: there is none to create.         *)
DataDelete(t) ==
  /\ At(t, "open", {"dataDelete"})
  /\ LET p == req[t].path
     IN IF CheckPathScope({p}) \/ DataView(t)[p] = NoDoc
        THEN AbortWith(t, "500")
        ELSE /\ WriteData(t, p, NoDoc)
             /\ Goto(t, "commit")
             /\ UNCHANGED <<req, todo, seen, answer>>

-----------------------------------------------------------------------------
(* The Policy API. *)

(* Mutants: any body is stored; a module is compiled without the others.    *)
PolicyPut_Unparsed(t) ==
  /\ At(t, "open", {"policyPut"})
  /\ WritePolicy(t, req[t].id, req[t].source)
  /\ Goto(t, "commit")
  /\ UNCHANGED <<req, todo, seen, answer>>
PolicyPut_Alone(t) ==
  /\ At(t, "open", {"policyPut"})
  /\ LET i == req[t].id
         s == req[t].source
         alone == [j \in Id |-> IF j = i THEN s ELSE NoSource]
     IN IF s = Unparsable \/ ~Compiles(alone, DataView(t))
        THEN AbortWith(t, "400")
        ELSE /\ WritePolicy(t, i, s)
             /\ Goto(t, "commit")
             /\ UNCHANGED <<req, todo, seen, answer>>

(* The scope check looks at the package of the new module only. *)
PolicyPut(t) ==
  /\ At(t, "open", {"policyPut"})
  /\ LET i == req[t].id
         s == req[t].source
     IN \/ s = Unparsable /\ AbortWith(t, "400")
        \/ s # Unparsable /\ CheckPathScope({Package[s]}) /\ AbortWith(t, "500")
        \/ /\ s # Unparsable /\ ~CheckPathScope({Package[s]})
           /\ IF ~Compiles([PolicyView(t) EXCEPT ![i] = s], DataView(t))
              THEN AbortWith(t, "400")
              ELSE /\ WritePolicy(t, i, s)
                   /\ Goto(t, "commit")
                   /\ UNCHANGED <<req, todo, seen, answer>>

(* Deleting compiles what remains, without the path conflict check. *)
PolicyDelete(t) ==
  /\ At(t, "open", {"policyDelete"})
  /\ LET i == req[t].id
         s == PolicyView(t)[i]
     IN \/ s = NoSource /\ AbortWith(t, "500")
        \/ s # NoSource /\ CheckPathScope({Package[s]}) /\ AbortWith(t, "500")
        \/ /\ s # NoSource /\ ~CheckPathScope({Package[s]})
           /\ IF ~Resolved([PolicyView(t) EXCEPT ![i] = NoSource])
              THEN AbortWith(t, "400")
              ELSE /\ WritePolicy(t, i, NoSource)
                   /\ Goto(t, "commit")
                   /\ UNCHANGED <<req, todo, seen, answer>>

-----------------------------------------------------------------------------
(* The reload. *)

Reload(t) ==
  /\ At(t, "open", {"reload"})
  /\ LET mods == ActivatedPolicies(req[t].bundle, PolicyView(t))
         docs == ActivatedData(req[t].bundle, DataView(t))
     IN IF ~Compiles(mods, docs)
        THEN AbortWith(t, "failed")
        ELSE /\ edits' = [edits EXCEPT ![t] = [policies |-> mods, data |-> docs]]
             /\ Goto(t, "commit")
             /\ UNCHANGED <<committed, locks, req, todo, seen, answer>>

-----------------------------------------------------------------------------
(* Store.Commit, and what follows it in every write handler. *)
CommitStep(t, from, to) ==
  /\ pc[t] = from
  /\ Goto(t, to)
  /\ UNCHANGED <<req, todo, seen>>

Announce(t) == CommitStep(t, "commit", "locked")    /\ AnnounceCommit(t) /\ UNCHANGED answer
Apply(t)    == CommitStep(t, "locked", "applied")   /\ ApplyEdits(t)     /\ UNCHANGED answer
Trigger(t)  == CommitStep(t, "applied", "compiled") /\ RunTrigger(t)     /\ UNCHANGED answer
Release(t)  == /\ CommitStep(t, "compiled", "answering")
               /\ ReleaseCommit(t)
               /\ Answer(t, Success(req[t].op))

-----------------------------------------------------------------------------
(* Readers.  A policy is read from the store, then looked up in the         *)
(* compiler; the list and an evaluation take the compiler first.            *)
ReadStore(t) ==
  /\ At(t, "reading", ReadOps)
  /\ seen[t].policies = Unread
  /\ req[t].op \in {"policyList", "evaluate"} => seen[t].compiler # Unread
  /\ req[t].op = "policyGet" => policies[req[t].id] # NoSource
  /\ seen' = [seen EXCEPT ![t].policies = policies, ![t].data = data]
  /\ UNCHANGED <<storeVars, pc, req, todo, answer>>

ReadCompiler(t) ==
  /\ At(t, "reading", ReadOps)
  /\ seen[t].compiler = Unread
  /\ req[t].op = "policyGet" => seen[t].policies # Unread
  /\ seen' = [seen EXCEPT ![t].compiler = compiler]
  /\ UNCHANGED <<storeVars, pc, req, todo, answer>>

HasRead(t) == seen[t].policies # Unread /\ seen[t].compiler # Unread

(* Mutant: the deferred Abort is forgotten. *)
CloseRead_NoAbort(t) ==
  /\ pc[t] = "sending"
  /\ Goto(t, "idle")
  /\ req' = [req EXCEPT ![t] = NoRequest]
  /\ seen' = [seen EXCEPT ![t] = Nothing]
  /\ Answer(t, None)
  /\ UNCHANGED <<storeVars, todo>>

(* The policy handlers write their response before the deferred Abort, so   *)
(* the read transaction stays open until the client has taken it.           *)
SendPolicies(t) ==
  /\ At(t, "reading", {"policyGet", "policyList"})
  /\ HasRead(t)
  /\ Answer(t, "200")
  /\ Goto(t, "sending")
  /\ UNCHANGED <<storeVars, req, todo, seen>>

CloseRead(t) ==
  /\ pc[t] = "sending"
  /\ EndRead(t)
  /\ Goto(t, "idle")
  /\ req' = [req EXCEPT ![t] = NoRequest]
  /\ seen' = [seen EXCEPT ![t] = Nothing]
  /\ Answer(t, None)
  /\ UNCHANGED todo

(* PartialEvaluate: storage.Txn ends the transaction before the caller      *)
(* writes the decision.                                                     *)
FinishEvaluation(t) ==
  /\ At(t, "reading", {"evaluate"})
  /\ HasRead(t)
  /\ EndRead(t)
  /\ Answer(t, "decided")
  /\ Goto(t, "answering")
  /\ UNCHANGED <<req, todo, seen>>

(* An unknown policy id: the handler aborts and writes a 500, then the      *)
(* deferred Abort meets a stale transaction and panics.                     *)
GetUnknown(t) ==
  /\ At(t, "reading", {"policyGet"})
  /\ seen[t].policies = Unread
  /\ policies[req[t].id] = NoSource
  /\ EndRead(t)
  /\ Answer(t, "500")
  /\ Goto(t, "unwinding")
  /\ UNCHANGED <<req, todo, seen>>

(* net/http recovers the panic and drops the connection; the buffered       *)
(* response is lost and the locks are as the first Abort left them.         *)
Panic(t) ==
  /\ pc[t] = "unwinding"
  /\ Goto(t, "idle")
  /\ req' = [req EXCEPT ![t] = NoRequest]
  /\ Answer(t, None)
  /\ UNCHANGED <<storeVars, todo, seen>>

-----------------------------------------------------------------------------
Reply(t) ==
  /\ pc[t] = "answering"
  /\ Goto(t, "idle")
  /\ req' = [req EXCEPT ![t] = NoRequest]
  /\ seen' = [seen EXCEPT ![t] = Nothing]
  /\ Answer(t, None)
  /\ UNCHANGED <<storeVars, todo>>

(* Mutant: the regos are loaded before the plugin manager watches the store.*)
Init_LoadsFirst ==
  /\ \E b \in Bootable : policies = b.policies /\ data = b.data
  /\ compiler = [i \in Id |-> NoSource]
  /\ edits = [t \in Thread |-> NoEdits]
  /\ wmu = Nobody /\ rmu = Nobody /\ readers = {}
  /\ pc = [t \in Thread |-> "idle"]
  /\ req = [t \in Thread |-> NoRequest]
  /\ todo = [t \in Thread |-> <<>>]
  /\ seen = [t \in Thread |-> Nothing]
  /\ answer = [t \in Thread |-> None]

(* The store as NewOPA and Start leave it: the bundle of the rego directory *)
(* loaded into an empty store and compiled.  No request is served yet.      *)
Init ==
  /\ \E b \in Bootable :
       policies = b.policies /\ data = b.data /\ compiler = b.policies
  /\ edits = [t \in Thread |-> NoEdits]
  /\ wmu = Nobody /\ rmu = Nobody /\ readers = {}
  /\ pc = [t \in Thread |-> "idle"]
  /\ req = [t \in Thread |-> NoRequest]
  /\ todo = [t \in Thread |-> <<>>]
  /\ seen = [t \in Thread |-> Nothing]
  /\ answer = [t \in Thread |-> None]

(* writeJSON ends the process when a response cannot be written; its        *)
(* supervisor starts it again, from the rego directory as it is then.       *)
FatalReply(t) ==
  /\ pc[t] \in {"answering", "sending", "unwinding"}
  /\ answer[t] \in JsonStatus
  /\ \E b \in Bootable :
       policies' = b.policies /\ data' = b.data /\ compiler' = b.policies
  /\ edits' = [u \in Thread |-> NoEdits]
  /\ wmu' = Nobody /\ rmu' = Nobody /\ readers' = {}
  /\ pc' = [u \in Thread |-> "idle"]
  /\ req' = [u \in Thread |-> NoRequest]
  /\ todo' = [u \in Thread |-> <<>>]
  /\ seen' = [u \in Thread |-> Nothing]
  /\ answer' = [u \in Thread |-> None]

-----------------------------------------------------------------------------
Handler(t) ==
  \/ Refuse(t) \/ OpenWrite(t) \/ OpenRead(t)
  \/ DataPut(t) \/ PatchWrite(t) \/ PatchDone(t) \/ DataDelete(t)
  \/ PolicyPut(t) \/ PolicyDelete(t) \/ Reload(t)
  \/ Announce(t) \/ Apply(t) \/ Trigger(t) \/ Release(t)
  \/ ReadStore(t) \/ ReadCompiler(t) \/ SendPolicies(t) \/ CloseRead(t)
  \/ FinishEvaluation(t) \/ GetUnknown(t) \/ Panic(t)
  \/ Reply(t)

Next == \E t \in Thread : Call(t) \/ Handler(t) \/ FatalReply(t)

Spec == Init /\ [][Next]_vars

(* The scheduler runs every handler; a lock that is free again and again is *)
(* granted (sync.Mutex turns to FIFO hand-over, RWMutex.Unlock admits the   *)
(* readers that wait); a response is taken or runs into the write timeout.  *)
(* Nothing obliges a client to call or a response to fail.                  *)
Fairness == \A t \in Thread :
  /\ WF_vars(Handler(t))
  /\ SF_vars(OpenWrite(t))
  /\ SF_vars(OpenRead(t))

FairSpec == Spec /\ Fairness

-----------------------------------------------------------------------------
(* Properties. *)

(* No transaction leaks: whatever path a handler takes, it holds the writer *)
(* mutex, the write side and the read side exactly while it stands between  *)
(* NewTransaction and the matching Commit or Abort.                         *)
LocksMatchHandlers ==
  /\ \A t \in Thread : wmu = t <=> pc[t] \in WriterPC
  /\ \A t \in Thread : rmu = t <=> pc[t] \in CommitPC
  /\ readers = {t \in Thread : pc[t] \in ReaderPC}

(* The stored policies always compile together and never define a rule      *)
(* where a document is stored, although every handler checks its own write  *)
(* only and deletions and document writes check less: the commit trigger    *)
(* ignores compile errors, so a store that does not compile would put a     *)
(* failed compiler in service.                                              *)
StoredPoliciesCompile == Compiles(policies, data)

(* The compiler in service is the one of the stored policies, except in a   *)
(* commit between its write and its trigger.                                *)
CompilerIsCurrent ==
  (\A t \in Thread : pc[t] # "applied") => compiler = policies

(* What a reader has read belongs together: the raw policies are those the  *)
(* compiler was built from, and no rule it may evaluate sits on a document  *)
(* it may read.                                                             *)
ReadersSeeOneVersion ==
  \A t \in Thread : HasRead(t) =>
    /\ seen[t].policies = seen[t].compiler
    /\ NoPathConflict(seen[t].compiler, seen[t].data)

(* A policy that a bundle owns, and the commit of a put of a policy.        *)
Owns(s) == s # NoSource /\ Package[s] \in Protected
Puts(i) == \E t \in Thread : pc[t] = "locked" /\ req[t].op = "policyPut" /\ req[t].id = i

(* What a bundle root owns changes only by a reload or a restart, with one  *)
(* exception.  No document under it changes by a PUT, PATCH or DELETE, and  *)
(* no policy that defines rules under it comes through the API or is        *)
(* deleted.  But it may be replaced: PolicyPut looks at the new package     *)
(* alone, so that a client may put a policy of a package that no bundle     *)
(* owns under its id, and the rules under the root are gone until the next  *)
(* reload.  Nothing but the commit of such a PUT does that.                 *)
OwnedOnlyReloadedOrReplaced ==
  [][ \/ rmu = Watcher
      \/ \E t \in Thread : FatalReply(t)
      \/ /\ \A p \in Protected : data'[p] = data[p]
         /\ \A i \in Id : policies'[i] # policies[i] =>
              /\ ~Owns(policies'[i])
              /\ Owns(policies[i]) => policies'[i] # NoSource /\ Puts(i) ]_vars

(* Every request that arrives is answered, refused or dropped with its      *)
(* connection: nothing waits for a lock forever.                            *)
EveryCallEnds == \A t \in Thread : pc[t] = "called" ~> pc[t] = "idle"

(* The refinement: a request takes effect where its commit applies, where   *)
(* its transaction is aborted, or where a reader has read everything.       *)
ResultOf(t) ==
  LET Result(st, shown) == [status |-> st, shown |-> shown]
      shown == IF HasRead(t)
               THEN <<seen[t].policies, seen[t].compiler, seen[t].data>> ELSE <<>>
  IN IF pc[t] \in {"applied", "compiled"} THEN Result(Success(req[t].op), <<>>)
     ELSE IF pc[t] = "reading" /\ HasRead(t)
          THEN Result(IF req[t].op = "evaluate" THEN "decided" ELSE "200", shown)
     ELSE Result(answer[t], shown)

Atomic == INSTANCE AtomicPolicyApi
            WITH result <- [t \in Thread |-> ResultOf(t)]

(* Every behaviour of the handlers is one of the atomic specification.      *)
ImplementsAtomicApi == Atomic!Spec
=============================================================================
