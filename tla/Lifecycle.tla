----------------------------- MODULE Lifecycle -----------------------------
(***************************************************************************)
(* One life of the process: main starts the REST server and the Envoy      *)
(* server, each listening on a goroutine of its own, waits for a signal    *)
(* and stops telemetry and servers one after the other, while handlers run *)
(* on their goroutines.  The file watcher's goroutine listens for the same *)
(* signals.                                                                *)
(***************************************************************************)
EXTENDS Naturals, FiniteSets

CONSTANTS
  RestClient, EnvoyClient,
  MaxGauge       \* bound: no request begins while the gauge shows this much

Client == RestClient \cup EnvoyClient

ASSUME ClientAssumption ==
  /\ IsFiniteSet(Client) /\ RestClient \cap EnvoyClient = {}
  /\ MaxGauge \in Nat

VARIABLES
  main,      \* where the main goroutine stands
  caught,    \* a signal waits in stopOnSIGTERM's channel, or was taken from it
  closer,    \* closeWatcherOnSIGTERM: not yet listening, listening, done
  rest,      \* the REST server
  envoy,     \* the gRPC server
  handler,   \* what became of each client's request
  metrics,   \* whether the metrics provider still exports
  gauge,     \* the instrument http.server.active_requests
  lost,      \* clients whose request was served and never measured
  expired    \* the REST server did not drain within the deadline

serverVars  == <<rest, envoy>>
requestVars == <<handler, gauge, lost>>
vars == <<main, caught, closer, serverVars, requestVars, metrics, expired>>

Ended   == {"exited", "fatal"}
MainPC  == Ended \cup {"starting", "restStarted", "started", "waiting", "stopTraces",
                       "stopEnvoy", "stopRest", "draining", "sleeping"}

TypeOK ==
  /\ main \in MainPC
  /\ caught \in BOOLEAN /\ metrics \in BOOLEAN /\ expired \in BOOLEAN
  /\ closer \in {"starting", "listening", "done"}
  /\ rest \in {"off", "binding", "listening", "failed", "closed"}
  /\ envoy \in {"off", "binding", "serving", "stopped", "stoppedEarly"}
  /\ handler \in [Client -> {"none", "serving", "answered", "panicked", "dropped"}]
  /\ gauge \in Nat
  /\ lost \subseteq RestClient

Serving(C) == {c \in C : handler[c] = "serving"}
Drop(C) == handler' = [c \in Client |-> IF c \in Serving(C) THEN "dropped" ELSE handler[c]]

(* The process ends, on every goroutine at once. *)
End(how) ==
  /\ main' = how
  /\ Drop(Client)
  /\ UNCHANGED <<caught, closer, serverVars, gauge, lost, metrics, expired>>

MainStep(from, to) == main = from /\ main' = to

-----------------------------------------------------------------------------
(* Start: the REST proxy, then the Envoy proxy if it has a port, then       *)
(* stopOnSIGTERM.  Start of either proxy returns before the port is bound.  *)
StartRest ==
  /\ MainStep("starting", "restStarted")
  /\ rest' = "binding"
  /\ UNCHANGED <<caught, closer, envoy, requestVars, metrics, expired>>

StartEnvoy ==
  /\ MainStep("restStarted", "started")
  /\ envoy' = IF EnvoyClient = {} THEN "off" ELSE "binding"
  /\ UNCHANGED <<caught, closer, rest, requestVars, metrics, expired>>

ListenForSignals ==
  /\ MainStep("started", "waiting")
  /\ UNCHANGED <<caught, closer, serverVars, requestVars, metrics, expired>>

(* ListenAndServe: an error is only logged. *)
BindRest ==
  /\ rest = "binding" /\ main \notin Ended
  /\ rest' \in {"listening", "failed"}
  /\ UNCHANGED <<main, caught, closer, envoy, requestVars, metrics, expired>>

(* listen: an error of Listen is fatal, and so is Serve after Stop, which   *)
(* it answers with ErrServerStopped.                                        *)
BindEnvoy ==
  /\ main \notin Ended
  /\ \/ /\ envoy = "binding" /\ envoy' = "serving"
        /\ UNCHANGED <<main, caught, closer, rest, requestVars, metrics, expired>>
     \/ envoy = "binding" /\ End("fatal")
     \/ envoy = "stoppedEarly" /\ End("fatal")

-----------------------------------------------------------------------------
(* Requests, through instrumentHandlerActiveRequest on the REST side.       *)

(* Mutant: the increment is forgotten. *)
Begin_Uncounted(c) ==
  /\ main \notin Ended
  /\ handler[c] # "serving"
  /\ IF c \in RestClient THEN rest = "listening" ELSE envoy = "serving"
  /\ handler' = [handler EXCEPT ![c] = "serving"]
  /\ UNCHANGED <<main, caught, closer, serverVars, gauge, lost, metrics, expired>>

Begin(c) ==
  /\ main \notin Ended /\ gauge < MaxGauge
  /\ handler[c] # "serving"
  /\ IF c \in RestClient THEN rest = "listening" ELSE envoy = "serving"
  /\ handler' = [handler EXCEPT ![c] = "serving"]
  /\ gauge' = IF c \in RestClient THEN gauge + 1 ELSE gauge
  /\ UNCHANGED <<main, caught, closer, serverVars, lost, metrics, expired>>

Finish(c) ==
  /\ main \notin Ended
  /\ handler[c] = "serving"
  /\ handler' = [handler EXCEPT ![c] = "answered"]
  /\ gauge' = IF c \in RestClient THEN gauge - 1 ELSE gauge
  /\ lost' = IF c \in RestClient /\ ~metrics THEN lost \cup {c} ELSE lost
  /\ UNCHANGED <<main, caught, closer, serverVars, metrics, expired>>

(* A handler that panics, as handleV1PolicyGet does for an unknown id: the  *)
(* server recovers above the middleware, whose decrement is not deferred.   *)
Panic(c) ==
  /\ main \notin Ended
  /\ c \in RestClient /\ handler[c] = "serving"
  /\ handler' = [handler EXCEPT ![c] = "panicked"]
  /\ UNCHANGED <<main, caught, closer, serverVars, gauge, lost, metrics, expired>>

-----------------------------------------------------------------------------
(* Signals go to every goroutine that listens; when none does, the process  *)
(* is killed.                                                               *)
CloserListens ==
  /\ main \notin Ended
  /\ closer = "starting" /\ closer' = "listening"
  /\ UNCHANGED <<main, caught, serverVars, requestVars, metrics, expired>>

MainListens == main \notin {"starting", "restStarted", "started"} \cup Ended

Signal ==
  /\ main \notin Ended
  /\ IF MainListens \/ closer # "starting"
     THEN /\ caught' = (caught \/ MainListens)
          /\ closer' = IF closer = "listening" THEN "done" ELSE closer
          /\ UNCHANGED <<main, serverVars, requestVars, metrics, expired>>
     ELSE End("fatal")

(* stopOnSIGTERM, step by step. *)
ShutdownMetrics ==
  /\ caught
  /\ MainStep("waiting", "stopTraces")
  /\ metrics' = FALSE
  /\ UNCHANGED <<caught, closer, serverVars, requestVars, expired>>

ShutdownTraces ==
  /\ MainStep("stopTraces", "stopEnvoy")
  /\ UNCHANGED <<caught, closer, serverVars, requestVars, metrics, expired>>

(* server.Stop: connections are closed at once, the deadline is not used.   *)
StopEnvoy ==
  /\ MainStep("stopEnvoy", "stopRest")
  /\ envoy' = CASE envoy = "serving" -> "stopped"
                [] envoy = "binding" -> "stoppedEarly"
                [] OTHER -> envoy
  /\ Drop(EnvoyClient)
  /\ UNCHANGED <<caught, closer, rest, gauge, lost, metrics, expired>>

(* Shutdown: no new request, and wait for the running ones ...              *)
StopRest ==
  /\ MainStep("stopRest", "draining")
  /\ rest' = "closed"
  /\ UNCHANGED <<caught, closer, envoy, requestVars, metrics, expired>>

(* Mutant: Close instead of Shutdown. *)
Drained_NoWait ==
  /\ MainStep("draining", "sleeping")
  /\ UNCHANGED <<caught, closer, serverVars, requestVars, metrics, expired>>

Drained ==
  /\ Serving(RestClient) = {}
  /\ MainStep("draining", "sleeping")
  /\ UNCHANGED <<caught, closer, serverVars, requestVars, metrics, expired>>

(* Mutant: Shutdown without a deadline. *)
Expire_Never == FALSE /\ UNCHANGED vars

(* ... until ten seconds are over, which is an error that is only logged.   *)
Expire ==
  /\ MainStep("draining", "sleeping")
  /\ Serving(RestClient) # {}
  /\ expired' = TRUE
  /\ UNCHANGED <<caught, closer, serverVars, requestVars, metrics>>

(* time.Sleep, and the end of the process. *)
Exit == main = "sleeping" /\ End("exited")

-----------------------------------------------------------------------------
Init ==
  /\ main = "starting" /\ caught = FALSE /\ closer = "starting"
  /\ rest = "off" /\ envoy = "off"
  /\ handler = [c \in Client |-> "none"]
  /\ metrics = TRUE /\ gauge = 0 /\ lost = {} /\ expired = FALSE

Main == \/ StartRest \/ StartEnvoy \/ ListenForSignals
        \/ ShutdownMetrics \/ ShutdownTraces \/ StopEnvoy \/ StopRest
        \/ Drained \/ Expire \/ Exit

Next == \/ Main \/ BindRest \/ BindEnvoy \/ CloserListens \/ Signal
        \/ \E c \in Client : Begin(c) \/ Finish(c) \/ Panic(c)

Spec == Init /\ [][Next]_vars

(* Goroutines are scheduled and time passes.  Handlers may run for ever: no *)
(* query has a timeout.                                                     *)
Fairness == /\ WF_vars(Main) /\ WF_vars(BindRest) /\ WF_vars(BindEnvoy)
            /\ WF_vars(CloserListens)

FairSpec == Spec /\ Fairness

-----------------------------------------------------------------------------
(* Properties. *)

(* Stopping loses no REST request before the deadline: one that is being    *)
(* served when the signal comes, or began after it, is answered, unless it  *)
(* outlives the deadline or something fatal ends the process.               *)
RestRequestsFinish ==
  [][ \A c \in RestClient :
        handler[c] = "serving" /\ handler'[c] = "dropped" => expired \/ main' = "fatal" ]_vars

(* Once main listens, a signal ends the process, even if a handler never    *)
(* returns or the file watcher's goroutine takes the signal as well.        *)
SignalEndsProcess == caught ~> main \in Ended

(* The gauge of requests being served never shows too few, whatever ends    *)
(* them; that a handler that panics stays counted makes it show too many.   *)
GaugeNeverLow == main \notin Ended => gauge >= Cardinality(Serving(RestClient))
=============================================================================
