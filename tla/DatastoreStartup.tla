-------------------------- MODULE DatastoreStartup --------------------------
(***************************************************************************)
(* How the main goroutine waits for databases: datastores are configured   *)
(* one after the other, in the order of a map, each after its database     *)
(* answered a ping; an error ends the process.  Databases come and go      *)
(* meanwhile.                                                              *)
(***************************************************************************)
EXTENDS Naturals

CONSTANTS
  Sql, Mongo,    \* the configured datastores
  BadMetadata,   \* SQL datastores whose metadata is no number
  MaxPings,      \* pingUntilReachable's limit
  None

Datastore == Sql \cup Mongo

ASSUME DatastoreAssumption ==
  /\ Sql \cap Mongo = {} /\ BadMetadata \subseteq Sql
  /\ None \notin Datastore
  /\ MaxPings \in Nat \ {0}

VARIABLES
  main,       \* where start-up stands
  current,    \* the datastore being configured
  failed,     \* its failed pings
  state,      \* "new", "ready", "noPool": without connections, "stub": only logs
  reachable,  \* whether the database answers now
  answered,   \* databases that answered a ping
  pinging     \* false during the pause after a failed ping

storeVars == <<current, failed, state, answered, pinging>>

StoresTypeOK ==
  /\ current \in Datastore \cup {None}
  /\ failed \in 0 .. MaxPings
  /\ state \in [Datastore -> {"new", "ready", "noPool", "stub"}]
  /\ reachable \in [Datastore -> BOOLEAN]
  /\ answered \subseteq Datastore
  /\ pinging \in BOOLEAN

-----------------------------------------------------------------------------
(* sqlDatastoreExecutor.Configure returns errors.Wrap(err, ...) for a       *)
(* metadata error, where err is nil: no error, and no pool.                 *)
Configured(d, s) ==
  /\ state' = [state EXCEPT ![d] = s]
  /\ current' = None /\ failed' = 0 /\ pinging' = TRUE
  /\ UNCHANGED main

Configure(d) ==
  /\ main = "datastores" /\ current = None /\ state[d] = "new"
  /\ \/ d \in BadMetadata /\ Configured(d, "noPool")
     \/ /\ d \notin BadMetadata
        /\ current' = d /\ UNCHANGED <<main, failed, state, pinging>>
  /\ UNCHANGED <<reachable, answered>>

PingAnswered ==
  /\ current # None /\ pinging /\ reachable[current]
  /\ answered' = answered \cup {current}
  /\ Configured(current, "ready")
  /\ UNCHANGED reachable

(* Mutants of a failed ping: the last one counts as success; none is the    *)
(* last.                                                                    *)
SqlPingFails_LastSucceeds ==
  /\ current \in Sql /\ pinging /\ ~reachable[current]
  /\ IF failed + 1 = MaxPings THEN Configured(current, "ready")
     ELSE failed' = failed + 1 /\ pinging' = FALSE /\ UNCHANGED <<main, current, state>>
  /\ UNCHANGED <<reachable, answered>>
SqlPingFails_Forever ==
  /\ current \in Sql /\ pinging /\ ~reachable[current]
  /\ failed' = IF failed + 1 = MaxPings THEN 0 ELSE failed + 1
  /\ pinging' = FALSE /\ UNCHANGED <<main, current, state>>
  /\ UNCHANGED <<reachable, answered>>

(* pingUntilReachable: the last failure is the result, and fatal in         *)
(* startNewRestProxy; the pause follows each one.                           *)
SqlPingFails ==
  /\ current \in Sql /\ pinging /\ ~reachable[current]
  /\ failed' = failed + 1 /\ pinging' = FALSE
  /\ UNCHANGED <<main, current, state, reachable, answered>>

(* Mutant: one ping too many. *)
AfterPause_OneMore ==
  /\ current # None /\ ~pinging
  /\ IF failed > MaxPings
     THEN main' = "fatal" /\ current' = None /\ failed' = 0
     ELSE UNCHANGED <<main, current, failed>>
  /\ pinging' = TRUE
  /\ UNCHANGED <<state, reachable, answered>>

AfterPause ==
  /\ current # None /\ ~pinging
  /\ IF failed = MaxPings
     THEN main' = "fatal" /\ current' = None /\ failed' = 0
     ELSE UNCHANGED <<main, current, failed>>
  /\ pinging' = TRUE
  /\ UNCHANGED <<state, reachable, answered>>

(* MongoDB's ping function connects anew after a failure and returns the    *)
(* error of Connect, which does not wait for the database: none.            *)
MongoPingFails ==
  /\ current \in Mongo /\ pinging /\ ~reachable[current]
  /\ Configured(current, "ready")
  /\ UNCHANGED <<reachable, answered>>

(* A database starts or stops answering. *)
Toggle(d) ==
  /\ reachable' = [reachable EXCEPT ![d] = ~reachable[d]]
  /\ UNCHANGED <<main, storeVars>>

StoresInit ==
  /\ current = None /\ failed = 0 /\ pinging = TRUE
  /\ state = [d \in Datastore |-> "new"]
  /\ reachable \in [Datastore -> BOOLEAN] /\ answered = {}

AwaitDatabase == PingAnswered \/ SqlPingFails \/ MongoPingFails \/ AfterPause
=============================================================================
