-------------------------- MODULE LifecycleProofs --------------------------
(***************************************************************************)
(* Proofs about Lifecycle: types, and that stopping loses no REST request. *)
(***************************************************************************)
EXTENDS Lifecycle, FiniteSetTheorems, TLAPS

(* Once Shutdown has closed the server no request begins, and main goes on  *)
(* only when none is left or the deadline is over.                          *)
Draining ==
  /\ main \in {"draining", "sleeping"} => rest = "closed"
  /\ main = "sleeping" => expired \/ Serving(RestClient) = {}

(* GaugeNeverLow keeps the gauge from becoming negative: without it types   *)
(* would not be inductive.                                                  *)
IInv == TypeOK /\ GaugeNeverLow /\ Draining

-----------------------------------------------------------------------------
(* The REST requests being served are finitely many. *)
LEMMA ServingFinite ==
  /\ IsFiniteSet(Serving(RestClient))
  /\ Cardinality(Serving(RestClient)) \in Nat
<1>1. IsFiniteSet(RestClient) BY ClientAssumption, FS_Subset DEF Client
<1>2. Serving(RestClient) \subseteq RestClient BY DEF Serving
<1> QED BY <1>1, <1>2, FS_Subset, FS_CardinalityType

(* A step that leaves the requests alone leaves the served ones alone.      *)
LEMMA ServingFrame ==
  ASSUME handler' = handler, NEW C
  PROVE  Serving(C)' = Serving(C)
BY DEF Serving

(* The end of the process. *)
LEMMA EndStep ==
  ASSUME IInv, NEW how \in Ended, End(how)
  PROVE  IInv'
<1>1. handler' \in [Client -> {"none", "serving", "answered", "panicked", "dropped"}]
  BY DEF IInv, TypeOK, End, Drop
<1>2. main' \in Ended /\ main' \in MainPC BY DEF End, MainPC
<1>3. TypeOK' BY <1>1, <1>2 DEF IInv, TypeOK, End, serverVars
<1>4. GaugeNeverLow' BY <1>2 DEF GaugeNeverLow
<1>5. Draining' BY <1>2 DEF Draining, Ended
<1> QED BY <1>3, <1>4, <1>5 DEF IInv

(* main's own steps leave requests and gauge alone, except Exit and         *)
(* StopEnvoy.                                                               *)
LEMMA MainIInv ==
  ASSUME IInv, Main
  PROVE  IInv'
<1> USE DEF IInv, MainStep, serverVars, requestVars
<1>s. ASSUME handler' = handler, gauge' = gauge, main \notin Ended
      PROVE  GaugeNeverLow' /\ Serving(RestClient)' = Serving(RestClient)
  BY <1>s, ServingFrame DEF GaugeNeverLow
<1>1. CASE StartRest
  BY <1>1, <1>s DEF StartRest, TypeOK, MainPC, Ended, Draining
<1>2. CASE StartEnvoy
  BY <1>2, <1>s DEF StartEnvoy, TypeOK, MainPC, Ended, Draining
<1>3. CASE ListenForSignals
  BY <1>3, <1>s DEF ListenForSignals, TypeOK, MainPC, Ended, Draining
<1>4. CASE ShutdownMetrics
  BY <1>4, <1>s DEF ShutdownMetrics, TypeOK, MainPC, Ended, Draining
<1>5. CASE ShutdownTraces
  BY <1>5, <1>s DEF ShutdownTraces, TypeOK, MainPC, Ended, Draining
<1>6. CASE StopEnvoy
  <2>1. Serving(RestClient)' = Serving(RestClient)
    BY <1>6, ClientAssumption DEF StopEnvoy, Drop, Serving, Client, TypeOK
  <2>2. handler' \in [Client -> {"none", "serving", "answered", "panicked", "dropped"}]
    BY <1>6 DEF StopEnvoy, Drop, TypeOK
  <2>3. envoy' \in {"off", "binding", "serving", "stopped", "stoppedEarly"}
    BY <1>6 DEF StopEnvoy, TypeOK
  <2>4. TypeOK' BY <1>6, <2>2, <2>3 DEF StopEnvoy, TypeOK, MainPC, Ended
  <2>5. GaugeNeverLow' /\ Draining' BY <1>6, <2>1 DEF StopEnvoy, GaugeNeverLow, Draining, Ended
  <2> QED BY <2>4, <2>5
<1>7. CASE StopRest
  BY <1>7, <1>s DEF StopRest, TypeOK, MainPC, Ended, Draining
<1>8. CASE Drained
  BY <1>8, <1>s DEF Drained, TypeOK, MainPC, Ended, Draining
<1>9. CASE Expire
  BY <1>9, <1>s DEF Expire, TypeOK, MainPC, Ended, Draining
<1>10. CASE Exit
  BY <1>10, EndStep DEF Exit, Ended
<1> QED BY <1>1, <1>2, <1>3, <1>4, <1>5, <1>6, <1>7, <1>8, <1>9, <1>10 DEF Main

(* The other goroutines and the environment. *)
LEMMA OthersIInv ==
  ASSUME IInv, BindRest \/ BindEnvoy \/ CloserListens \/ Signal \/ UNCHANGED vars
  PROVE  IInv'
<1> USE DEF IInv, serverVars, requestVars
<1>s. ASSUME handler' = handler, gauge' = gauge, main' = main
      PROVE  GaugeNeverLow' /\ Serving(RestClient)' = Serving(RestClient)
  BY <1>s, ServingFrame DEF GaugeNeverLow
<1>1. CASE BindRest
  BY <1>1, <1>s DEF BindRest, TypeOK, Draining
<1>2. CASE BindEnvoy
  <2>1. CASE End("fatal") BY <2>1, EndStep DEF Ended
  <2>2. CASE envoy' = "serving" /\ UNCHANGED <<main, caught, closer, rest, requestVars, metrics, expired>>
    BY <2>2, <1>s DEF TypeOK, Draining
  <2> QED BY <1>2, <2>1, <2>2 DEF BindEnvoy
<1>3. CASE CloserListens
  BY <1>3, <1>s DEF CloserListens, TypeOK, Draining
<1>4. CASE Signal
  <2>1. CASE End("fatal") BY <2>1, EndStep DEF Ended
  <2>2. CASE /\ caught' = (caught \/ MainListens)
             /\ closer' = IF closer = "listening" THEN "done" ELSE closer
             /\ UNCHANGED <<main, serverVars, requestVars, metrics, expired>>
    <3>1. caught' \in BOOLEAN BY <2>2 DEF TypeOK, MainListens
    <3>2. closer' \in {"starting", "listening", "done"} BY <2>2 DEF TypeOK
    <3> QED BY <2>2, <3>1, <3>2, <1>s DEF TypeOK, Draining
  <2> QED BY <1>4, <2>1, <2>2 DEF Signal
<1>5. CASE UNCHANGED vars
  BY <1>5, <1>s DEF vars, TypeOK, Draining
<1> QED BY <1>1, <1>2, <1>3, <1>4, <1>5

(* Requests move the gauge and the set of served requests together.         *)
LEMMA RequestIInv ==
  ASSUME IInv, NEW c \in Client, Begin(c) \/ Finish(c) \/ Panic(c)
  PROVE  IInv'
<1> USE DEF IInv, serverVars
<1> DEFINE S == Serving(RestClient)
<1>f. IsFiniteSet(S) /\ Cardinality(S) \in Nat BY ServingFinite
<1>t. gauge \in Nat /\ main \notin Ended /\ gauge >= Cardinality(S) /\ main' = main
  BY DEF TypeOK, Begin, Finish, Panic, GaugeNeverLow
<1>1. CASE Begin(c)
  <2>1. handler' \in [Client -> {"none", "serving", "answered", "panicked", "dropped"}]
    BY <1>1 DEF Begin, TypeOK
  <2>2. gauge' \in Nat BY <1>1, <1>t DEF Begin
  <2>3. TypeOK' BY <1>1, <2>1, <2>2 DEF Begin, TypeOK
  <2>4. CASE c \in RestClient
    <3>1. c \notin S /\ S' = S \cup {c}
      BY <1>1, <2>4 DEF Begin, Serving, TypeOK, Client
    <3>2. Cardinality(S') = Cardinality(S) + 1 BY <1>f, <3>1, FS_AddElement
    <3>3. GaugeNeverLow' BY <1>1, <1>f, <1>t, <2>4, <3>2 DEF Begin, GaugeNeverLow
    <3>4. Draining' BY <1>1, <2>4 DEF Begin, Draining
    <3> QED BY <2>3, <3>3, <3>4
  <2>5. CASE c \notin RestClient
    <3>1. S' = S BY <1>1, <2>5 DEF Begin, Serving, TypeOK, Client
    <3> QED BY <1>1, <1>t, <2>3, <2>5, <3>1 DEF Begin, GaugeNeverLow, Draining
  <2> QED BY <2>4, <2>5
<1>2. CASE Finish(c)
  <2>1. handler' \in [Client -> {"none", "serving", "answered", "panicked", "dropped"}]
    BY <1>2 DEF Finish, TypeOK
  <2>4. CASE c \in RestClient
    <3>1. c \in S /\ S' = S \ {c}
      BY <1>2, <2>4 DEF Finish, Serving, TypeOK, Client
    <3>2. Cardinality(S') = Cardinality(S) - 1 BY <1>f, <3>1, FS_RemoveElement
    <3>3. gauge' \in Nat /\ gauge' >= Cardinality(S')
      <4>1. Cardinality(S') \in Nat
        BY <1>f, <3>1, FS_RemoveElement, FS_CardinalityType
      <4> QED BY <1>2, <1>f, <1>t, <2>4, <3>2, <4>1 DEF Finish
    <3>4. TypeOK' BY <1>2, <2>1, <2>4, <3>3 DEF Finish, TypeOK
    <3>5. Draining' BY <1>2, <3>1 DEF Finish, Draining
    <3> QED BY <3>3, <3>4, <3>5 DEF GaugeNeverLow
  <2>5. CASE c \notin RestClient
    <3>1. S' = S BY <1>2, <2>5 DEF Finish, Serving, TypeOK, Client
    <3>2. TypeOK' BY <1>2, <2>1, <2>5 DEF Finish, TypeOK
    <3> QED BY <1>2, <1>t, <2>5, <3>1, <3>2 DEF Finish, GaugeNeverLow, Draining
  <2> QED BY <2>4, <2>5
<1>3. CASE Panic(c)
  <2>1. handler' \in [Client -> {"none", "serving", "answered", "panicked", "dropped"}]
    BY <1>3 DEF Panic, TypeOK
  <2>2. c \in S /\ S' = S \ {c} BY <1>3 DEF Panic, Serving, TypeOK, Client
  <2>3. Cardinality(S') = Cardinality(S) - 1 BY <1>f, <2>2, FS_RemoveElement
  <2>4. TypeOK' BY <1>3, <2>1 DEF Panic, TypeOK
  <2>5. GaugeNeverLow' BY <1>3, <1>f, <1>t, <2>3 DEF Panic, GaugeNeverLow
  <2>6. Draining' BY <1>3, <2>2 DEF Panic, Draining
  <2> QED BY <2>4, <2>5, <2>6
<1> QED BY <1>1, <1>2, <1>3

-----------------------------------------------------------------------------
(* The invariant of the process's life. *)
THEOREM LifecycleInductive == Spec => []IInv
<1>1. Init => IInv
  <2> SUFFICES ASSUME Init PROVE IInv OBVIOUS
  <2>1. Serving(RestClient) = {} BY DEF Init, Serving, Client
  <2>2. TypeOK BY DEF Init, TypeOK, MainPC
  <2>3. GaugeNeverLow BY <2>1, FS_EmptySet DEF Init, GaugeNeverLow
  <2> QED BY <2>1, <2>2, <2>3 DEF Init, IInv, Draining
<1>2. IInv /\ [Next]_vars => IInv'
  BY MainIInv, OthersIInv, RequestIInv DEF Next
<1> QED BY <1>1, <1>2, PTL DEF Spec

(* Every variable keeps its type; the gauge never becomes negative.         *)
THEOREM LifecycleTypes == Spec => []TypeOK
<1>1. IInv => TypeOK BY DEF IInv
<1> QED BY <1>1, LifecycleInductive, PTL

(* For any number of clients, however requests end: finishing, panicking,   *)
(* or with the process, the gauge shows at least those being served.        *)
THEOREM GaugeNotLow == Spec => []GaugeNeverLow
<1>1. IInv => GaugeNeverLow BY DEF IInv
<1> QED BY <1>1, LifecycleInductive, PTL

(* Stopping drops no REST request before the deadline is over, for any      *)
(* number of clients and wherever the signal finds them.                    *)
THEOREM RestFinishes == Spec => RestRequestsFinish
<1> DEFINE Kept(c) ==
  handler[c] = "serving" /\ handler'[c] = "dropped" => expired \/ main' = "fatal"
<1>1. IInv /\ [Next]_vars => [\A c \in RestClient : Kept(c)]_vars
  <2> SUFFICES ASSUME IInv, Next, NEW c \in RestClient,
                      handler[c] = "serving", handler'[c] = "dropped"
               PROVE  expired \/ main' = "fatal"
    OBVIOUS
  <2> USE DEF MainStep, requestVars
  <2>1. c \in Client /\ c \notin EnvoyClient BY ClientAssumption DEF Client
  <2>2. CASE Main
    <3>1. CASE Exit
      BY <3>1, <2>1 DEF Exit, IInv, Draining, Serving
    <3>2. CASE StopEnvoy
      BY <3>2, <2>1 DEF StopEnvoy, Drop, Serving
    <3> QED BY <2>2, <3>1, <3>2
      DEF Main, StartRest, StartEnvoy, ListenForSignals, ShutdownMetrics, ShutdownTraces,
          StopRest, Drained, Expire
  <2>3. CASE BindRest \/ BindEnvoy \/ CloserListens \/ Signal
    BY <2>3 DEF BindRest, BindEnvoy, CloserListens, Signal, End
  <2>4. ASSUME NEW d \in Client, Begin(d) \/ Finish(d) \/ Panic(d) PROVE FALSE
    BY <2>1, <2>4 DEF Begin, Finish, Panic, IInv, TypeOK
  <2> QED BY <2>2, <2>3, <2>4 DEF Next
<1> QED BY <1>1, LifecycleInductive, PTL DEF Spec, RestRequestsFinish
=============================================================================
