------------------------- MODULE RequestInputProofs -------------------------
(***************************************************************************)
(* Proofs about RequestInput, for any inputs, headers and mappings.  The   *)
(* middleware calls the path mapper as its specification allows, so that   *)
(* what is proved of PathMapper holds here; what policies are asked about  *)
(* follows from an invariant with one part for each stage of the request.  *)
(***************************************************************************)
EXTENDS RequestInput, PathMapperProofs, WellFoundedInduction

-----------------------------------------------------------------------------
(* Among some of the first n numbers one is the last.                       *)
LEMMA LastOne ==
  ASSUME NEW n \in Nat, NEW S \in SUBSET (1..n), S # {}
  PROVE  \E i \in S : \A j \in S : j <= i
<1> DEFINE R == OpToRel(<, Nat)
           T == {n - i : i \in S}
<1>0. \A i \in S : i \in Nat /\ i <= n OBVIOUS
<1>1. T \subseteq Nat /\ T # {}
  <2>1. \A i \in S : n - i \in Nat BY <1>0
  <2>2. PICK i \in S : TRUE OBVIOUS
  <2> QED BY <2>1, <2>2
<1>2. IsWellFoundedOn(R, Nat) BY NatLessThanWellFounded
<1>3. PICK x \in T : \A y \in T : ~(<<y, x>> \in R)
  <2> HIDE DEF R, T
  <2> QED BY <1>1, <1>2, WFMin
<1>4. \A y \in T : ~(y < x) BY <1>1, <1>3 DEF OpToRel
<1>5. PICK i \in S : x = n - i BY <1>3
<1>6. \A j \in S : n - j \in T OBVIOUS
<1>7. \A j \in S : j <= i
  <2> SUFFICES ASSUME NEW j \in S PROVE j <= i
    OBVIOUS
  <2>1. ~(n - j < n - i) BY <1>4, <1>5, <1>6
  <2> QED BY <2>1, <1>0
<1> QED BY <1>7

(* What is known of the constants and the request as soon as they have      *)
(* their types.                                                             *)
Typed ==
  /\ headers \in HeaderConfigs
  /\ http \in Http \cup {None}
  /\ handler \in {"idle", "extract", "enrich", "execute", "mapping", "notFound", "policies"}
                 \cup Refusals
  /\ handler # "idle" => http \in Http
  /\ input \in Input \cup {None}

(* A mapped header has a name and a key.                                    *)
LEMMA HeaderTypes ==
  ASSUME headers \in HeaderConfigs
  PROVE  \A i \in DOMAIN headers :
           /\ headers[i].name \in Header
           /\ Alias(headers[i]) \in Key
<1>1. headers \in Seq([name : Header, alias : Key \cup {None}]) BY InputAssumption
<1> SUFFICES ASSUME NEW i \in DOMAIN headers
             PROVE  headers[i].name \in Header /\ Alias(headers[i]) \in Key
  OBVIOUS
<1>2. headers[i] \in [name : Header, alias : Key \cup {None}]
  <2> DEFINE H == [name : Header, alias : Key \cup {None}]
  <2>1. headers \in Seq(H) BY <1>1
  <2> HIDE DEF H
  <2>2. headers \in [1..Len(headers) -> H] /\ DOMAIN headers = 1..Len(headers) BY <2>1
  <2>3. headers[i] \in H BY <2>2
  <2> QED BY <2>3 DEF H
<1>3. headers[i].name \in Header /\ headers[i].alias \in Key \cup {None} BY <1>2
<1> QED BY <1>3, InputAssumption DEF Alias

(* A request has an input, and text or nothing in each header.              *)
LEMMA HttpTypes ==
  ASSUME http \in Http
  PROVE  /\ http.sent \in Input
         /\ http.headers \in [Header -> Text \cup {None}]
         /\ http.kind # "object" => http.sent = NoInput
BY InputAssumption DEF Http

(* What a value is taken from: the last header for its key if there is one, *)
(* and what was sent otherwise.                                             *)
LEMMA EnrichedFrom ==
  ASSUME headers \in HeaderConfigs, http \in Http, NEW k \in Key
  PROVE  \/ /\ \A i \in Present : Alias(headers[i]) # k
            /\ Enriched[k] = input[k]
         \/ \E i \in Present :
              /\ Alias(headers[i]) = k
              /\ \A j \in Present : Alias(headers[j]) = k => j <= i
              /\ Enriched[k] = http.headers[headers[i].name]
<1> DEFINE those == {i \in Present : Alias(headers[i]) = k}
           last == CHOOSE i \in those : \A j \in those : j <= i
<1>1. Enriched[k] = IF those = {} THEN input[k] ELSE http.headers[headers[last].name]
  BY DEF Enriched
<1>2. those \subseteq Present OBVIOUS
<1>3. CASE those = {}
  BY <1>1, <1>3
<1>4. CASE those # {}
  <2>1. headers \in Seq([name : Header, alias : Key \cup {None}]) BY InputAssumption
  <2>2. Len(headers) \in Nat /\ DOMAIN headers = 1..Len(headers) BY <2>1
  <2>3. those \in SUBSET (1..Len(headers)) BY <2>2 DEF Present
  <2>4. \E i \in those : \A j \in those : j <= i
    <3> HIDE DEF those
    <3> QED BY <1>4, <2>2, <2>3, LastOne
  <2>5. last \in those /\ \A j \in those : j <= last
    <3> HIDE DEF those
    <3> QED BY <2>4
  <2>6. Enriched[k] = http.headers[headers[last].name] BY <1>1, <1>4
  <2> HIDE DEF last
  <2> QED BY <2>5, <2>6
<1> QED BY <1>3, <1>4

(* Headers make an input of an input.                                       *)
LEMMA EnrichedTyped ==
  ASSUME headers \in HeaderConfigs, http \in Http, input \in Input
  PROVE  Enriched \in Input
<1>1. \A k \in Key : Enriched[k] \in Value \cup {None}
  <2> SUFFICES ASSUME NEW k \in Key PROVE Enriched[k] \in Value \cup {None}
    OBVIOUS
  <2>1. CASE Enriched[k] = input[k] BY <2>1 DEF Input
  <2>2. CASE \E i \in Present : Enriched[k] = http.headers[headers[i].name]
    <3>1. PICK i \in Present : Enriched[k] = http.headers[headers[i].name] BY <2>2
    <3>2. i \in DOMAIN headers /\ http.headers[headers[i].name] # None BY DEF Present
    <3>3. headers[i].name \in Header BY <3>2, HeaderTypes
    <3>4. http.headers[headers[i].name] \in Text \cup {None} BY <3>3, HttpTypes
    <3> QED BY <3>1, <3>4, InputAssumption
  <2> QED BY <2>1, <2>2, EnrichedFrom
<1>2. Enriched = [k \in Key |-> Enriched[k]] BY DEF Enriched
<1> QED BY <1>1, <1>2 DEF Input

-----------------------------------------------------------------------------
(* The types of the request do not depend on what the path mapper does.     *)
THEOREM RequestTyped == InputSpec => []Typed
<1>1. InputInit => Typed BY DEF InputInit, Typed
<1>2. Typed /\ [InputNext]_<<vars, requestVars>> => Typed'
  <2> SUFFICES ASSUME Typed, [InputNext]_<<vars, requestVars>> PROVE Typed'
    OBVIOUS
  <2>1. CASE (Serve \/ \E m \in Mapping : Generate(m)) /\ UNCHANGED requestVars
    BY <2>1 DEF requestVars, Typed
  <2>2. CASE \E h \in Http : Receive_(h)
    BY <2>2 DEF Receive_, Typed
  <2>3. CASE ExtractInput
    <3>1. http \in Http BY <2>3 DEF Typed, ExtractInput
    <3>2. http.sent \in Input BY <3>1, HttpTypes
    <3> QED BY <2>3, <3>1, <3>2 DEF ExtractInput, Typed, Refusals
  <2>4. CASE ApplyHeaderMappings
    <3>1. http \in Http /\ headers \in HeaderConfigs BY <2>4 DEF Typed, ApplyHeaderMappings
    <3>2. input # None => Enriched \in Input BY <3>1, EnrichedTyped DEF Typed
    <3> QED BY <2>4, <3>1, <3>2 DEF ApplyHeaderMappings, Typed, Refusals
  <2>5. CASE Execute
    BY <2>5 DEF Execute, Typed, Refusals
  <2>6. CASE Map
    BY <2>6 DEF Map, Typed
  <2>7. CASE UNCHANGED <<vars, requestVars>>
    BY <2>7 DEF requestVars, Typed
  <2> QED BY <2>1, <2>2, <2>3, <2>4, <2>5, <2>6, <2>7 DEF InputNext
<1> QED BY <1>1, <1>2, PTL DEF InputSpec

(* A URL and a method found in an input are ones that can be mapped.        *)
LEMMA NamedTypes ==
  ASSUME input \in Input \cup {None}
  PROVE  /\ UrlIn(input) # None => UrlIn(input) \in Url
         /\ MethodIn(input) # None => MethodIn(input) \in Method \cup {""}
BY InputAssumption DEF UrlIn, MethodIn, Input

(* The pipeline calls the path mapper as PathMapper says it is called.      *)
THEOREM ImplementsPathMapper == InputSpec => Spec
<1>1. InputInit => Init BY DEF InputInit
<1>2. Typed /\ [InputNext]_<<vars, requestVars>> => [Next]_vars
  <2> SUFFICES ASSUME Typed, [InputNext]_<<vars, requestVars>> PROVE [Next]_vars
    OBVIOUS
  <2>1. CASE (Serve \/ \E m \in Mapping : Generate(m)) /\ UNCHANGED requestVars
    BY <2>1 DEF Next
  <2>2. CASE \E h \in Http : Receive_(h) BY <2>2 DEF Receive_
  <2>3. CASE ExtractInput BY <2>3 DEF ExtractInput
  <2>4. CASE ApplyHeaderMappings BY <2>4 DEF ApplyHeaderMappings
  <2>5. CASE Execute
    <3>1. CASE UNCHANGED vars BY <3>1
    <3>2. CASE /\ UrlIn(input) # None /\ MethodIn(input) \in Method
               /\ Receive([method |-> MethodIn(input), path |-> UrlIn(input).path,
                           query |-> UrlIn(input).query])
      <4>1. UrlIn(input) \in Url BY <3>2, NamedTypes DEF Typed
      <4>2. [method |-> MethodIn(input), path |-> UrlIn(input).path,
             query |-> UrlIn(input).query] \in Request
        BY <3>2, <4>1 DEF Url, Request
      <4> QED BY <3>2, <4>2 DEF Next
    <3> QED BY <2>5, <3>1, <3>2 DEF Execute
  <2>6. CASE Map BY <2>6 DEF Map, Next
  <2>7. CASE UNCHANGED <<vars, requestVars>> BY <2>7
  <2> QED BY <2>1, <2>2, <2>3, <2>4, <2>5, <2>6, <2>7 DEF InputNext
<1> QED BY <1>1, <1>2, RequestTyped, PTL DEF InputSpec, Spec

-----------------------------------------------------------------------------
(* The input, once headers were added, has for every key something that the *)
(* request says of it, and a header's value if there is one.                *)
Carries ==
  \A k \in Key :
    /\ input[k] = None => Given(k) = {}
    /\ input[k] # None => input[k] \in Given(k)
    /\ \A i \in Present :
         Alias(headers[i]) = k /\ (\A j \in Present : Alias(headers[j]) = k => j <= i)
           => input[k] = http.headers[headers[i].name]

(* The request being mapped is the one named by the input.                  *)
Mapped ==
  /\ input # None /\ Carries
  /\ UrlIn(input) = [path |-> request.path, query |-> request.query]
  /\ MethodIn(input) = request.method

Staged ==
  /\ handler # "idle" => main = "serving"
  /\ handler = "enrich" =>
       IF input = None THEN http.kind \in {"null", "nullBody"} ELSE input = http.sent
  /\ handler = "execute" => IF input = None THEN http.kind = "null" ELSE Carries
  /\ handler \in {"mapping", "policies"} => Mapped
  /\ handler = "policies" => asked = OpaInput /\ reply \in Mapping /\ Matches(reply, request)
  /\ asked \in Input \cup {None}

InputInv == Staged /\ NamedIsMapped

(* What headers were added to carries what the request says.                *)
LEMMA EnrichedCarries ==
  ASSUME headers \in HeaderConfigs, http \in Http, input = http.sent, NEW k \in Key
  PROVE  /\ Enriched[k] = None => Given(k) = {}
         /\ Enriched[k] # None => Enriched[k] \in Given(k)
         /\ \A i \in Present :
              Alias(headers[i]) = k /\ (\A j \in Present : Alias(headers[j]) = k => j <= i)
                => Enriched[k] = http.headers[headers[i].name]
<1>1. CASE (\A i \in Present : Alias(headers[i]) # k) /\ Enriched[k] = input[k]
  BY <1>1 DEF Given
<1>2. CASE \E i \in Present :
             /\ Alias(headers[i]) = k
             /\ \A j \in Present : Alias(headers[j]) = k => j <= i
             /\ Enriched[k] = http.headers[headers[i].name]
  <2>1. PICK i \in Present :
          /\ Alias(headers[i]) = k
          /\ \A j \in Present : Alias(headers[j]) = k => j <= i
          /\ Enriched[k] = http.headers[headers[i].name]
    BY <1>2
  <2>2. Enriched[k] # None BY <2>1 DEF Present
  <2>3. Enriched[k] \in Given(k) BY <2>1, <2>2 DEF Given
  <2>4. ASSUME NEW l \in Present, Alias(headers[l]) = k,
               \A j \in Present : Alias(headers[j]) = k => j <= l
        PROVE  Enriched[k] = http.headers[headers[l].name]
    <3>1. headers \in Seq([name : Header, alias : Key \cup {None}]) BY InputAssumption
    <3>2. DOMAIN headers \subseteq Int BY <3>1
    <3>3. i \in Int /\ l \in Int BY <3>2 DEF Present
    <3>4. i <= l /\ l <= i BY <2>1, <2>4
    <3>5. i = l BY <3>3, <3>4
    <3> QED BY <2>1, <3>5
  <2> QED BY <2>2, <2>3, <2>4
<1> QED BY <1>1, <1>2, EnrichedFrom

(* An input that carries what the request says and is refused before the    *)
(* path mapper lacks a path or a method, or has none that is one.           *)
LEMMA RefusedIsUnnamed ==
  ASSUME Typed, input # None, Carries,
         UrlIn(input) = None \/ MethodIn(input) \in {None, ""}
  PROVE  \/ Given("path") = {}
         \/ \E v \in Given("path") : UrlOf[v] = None
         \/ Given("method") = {}
         \/ \E v \in Given("method") : MethodOf[v] \notin Method
<1>1. "path" \in Key /\ "method" \in Key BY InputAssumption
<1>2. CASE UrlIn(input) = None
  BY <1>1, <1>2 DEF UrlIn, Carries
<1>3. CASE MethodIn(input) \in {None, ""}
  <2>1. CASE input["method"] = None BY <1>1, <2>1 DEF Carries
  <2>2. CASE input["method"] # None
    <3>1. MethodOf[input["method"]] \in {None, ""} BY <1>3, <2>2 DEF MethodIn
    <3>2. MethodOf[input["method"]] \notin Method BY <3>1, InputAssumption
    <3> QED BY <1>1, <2>2, <3>2 DEF Carries
  <2> QED BY <2>1, <2>2
<1> QED BY <1>2, <1>3

(* The input of policies is one.                                            *)
LEMMA OpaInputTyped ==
  ASSUME input \in Input, request \in Request PROVE OpaInput \in Input
<1>1. Segments[request.path] \in Value /\ Parameters[request.query] \in Value
  BY InputAssumption DEF Request
<1> QED BY <1>1 DEF OpaInput, Input

(* The inductive invariant: each stage has what the next one goes by.       *)
THEOREM InputInductive == InputSpec => []InputInv
<1>1. InputInit => InputInv
  BY DEF InputInit, InputInv, Staged, NamedIsMapped, Refusals
<1>2. /\ InputInv /\ Typed /\ Typed' /\ TypeOK /\ TypeOK'
      /\ [InputNext]_<<vars, requestVars>>
      => InputInv'
  <2> SUFFICES ASSUME InputInv, Typed, Typed', TypeOK, TypeOK',
                      [InputNext]_<<vars, requestVars>>
               PROVE  InputInv'
    OBVIOUS
  <2>1. CASE (Serve \/ \E m \in Mapping : Generate(m)) /\ UNCHANGED requestVars
    <3>1. main # "serving" BY <2>1 DEF Serve, Generate
    <3>2. handler = "idle" /\ handler' = "idle" /\ asked' = asked
      BY <2>1, <3>1 DEF InputInv, Staged, requestVars
    <3> QED BY <3>2 DEF InputInv, Staged, NamedIsMapped, Refusals
  <2>2. CASE \E h \in Http : Receive_(h)
    <3>1. handler' = "extract" /\ main' = "serving" /\ asked' = asked BY <2>2 DEF Receive_, vars
    <3> QED BY <3>1 DEF InputInv, Staged, NamedIsMapped, Refusals
  <2>3. CASE ExtractInput
    <3>1. main' = "serving" /\ asked' = asked /\ http' = http
      BY <2>3 DEF ExtractInput, vars, InputInv, Staged
    <3>2. CASE /\ \/ http.kind = "malformed"
                  \/ http.verb = "GET" /\ http.kind = "other"
                  \/ http.verb = "POST" /\ http.kind \in {"other", "null"}
               /\ handler' \in {"badRequest", "serverError"}
      BY <3>1, <3>2 DEF InputInv, Staged, NamedIsMapped, Refusals
    <3>3. CASE input' = http.sent /\ handler' = "enrich"
      <4>1. input' # None BY <3>1, <3>3, HttpTypes, InputAssumption, <2>3 DEF Typed, ExtractInput
      <4> QED BY <3>1, <3>3, <4>1 DEF InputInv, Staged, NamedIsMapped, Refusals
    <3>4. CASE /\ http.kind = "nullBody" \/ (http.verb = "GET" /\ http.kind = "null")
               /\ input' = None /\ handler' = "enrich"
      BY <3>1, <3>4 DEF InputInv, Staged, NamedIsMapped, Refusals
    <3> QED BY <2>3, <3>2, <3>3, <3>4 DEF ExtractInput
  <2>4. CASE ApplyHeaderMappings
    <3>1. /\ handler = "enrich" /\ main' = "serving" /\ asked' = asked /\ http' = http
          /\ headers' = headers
      BY <2>4 DEF ApplyHeaderMappings, vars, InputInv, Staged
    <3>2. CASE input = None /\ handler' = "dropped"
      BY <3>1, <3>2 DEF InputInv, Staged, NamedIsMapped, Refusals
    <3>3. CASE input = None /\ http.kind # "nullBody" /\ handler' = "execute" /\ UNCHANGED input
      BY <3>1, <3>3 DEF InputInv, Staged, NamedIsMapped, Refusals
    <3>4. CASE input # None /\ input' = Enriched /\ handler' = "execute"
      <4>1. input = http.sent /\ http \in Http /\ headers \in HeaderConfigs
        BY <3>1, <3>4 DEF InputInv, Staged, Typed
      <4>2. Carries' BY <3>1, <3>4, <4>1, EnrichedCarries DEF Carries, Given, Present
      <4>3. input' # None BY <3>4, <4>1, EnrichedTyped, HttpTypes, InputAssumption
      <4> QED BY <3>1, <3>4, <4>2, <4>3 DEF InputInv, Staged, NamedIsMapped, Refusals
    <3> QED BY <2>4, <3>2, <3>3, <3>4 DEF ApplyHeaderMappings
  <2>5. CASE Execute
    <3>1. /\ handler = "execute" /\ asked' = asked /\ http' = http /\ headers' = headers
          /\ input' = input /\ main = "serving"
      BY <2>5 DEF Execute, InputInv, Staged
    <3>2. CASE /\ UrlIn(input) = None \/ MethodIn(input) \in {None, ""}
               /\ handler' \in Refusals /\ UNCHANGED vars
      <4>1. NamedIsMapped'
        <5>1. CASE input = None
          BY <3>1, <5>1 DEF InputInv, Staged, NamedIsMapped
        <5>2. CASE input # None
          <6>1. Carries BY <3>1, <5>2 DEF InputInv, Staged
          <6>2. \/ Given("path") = {}
                \/ \E v \in Given("path") : UrlOf[v] = None
                \/ Given("method") = {}
                \/ \E v \in Given("method") : MethodOf[v] \notin Method
            BY <3>2, <5>2, <6>1, RefusedIsUnnamed
          <6>3. Given("path")' = Given("path") /\ Given("method")' = Given("method")
            BY <3>1 DEF Given, Present
          <6> QED BY <6>2, <6>3 DEF NamedIsMapped
        <5> QED BY <5>1, <5>2
      <4> QED BY <3>1, <3>2, <4>1 DEF InputInv, Staged, vars, Refusals
    <3>3. CASE /\ UrlIn(input) # None /\ MethodIn(input) \in Method
               /\ Receive([method |-> MethodIn(input), path |-> UrlIn(input).path,
                           query |-> UrlIn(input).query])
               /\ handler' = "mapping"
      <4>1. UrlIn(input) \in Url BY <3>3, NamedTypes DEF Typed
      <4>2. UrlIn(input) = [path |-> UrlIn(input).path, query |-> UrlIn(input).query]
        BY <4>1 DEF Url
      <4>3. request' = [method |-> MethodIn(input), path |-> UrlIn(input).path,
                        query |-> UrlIn(input).query] /\ main' = "serving"
        BY <3>1, <3>3 DEF Receive
      <4>4. input # None BY <3>3 DEF UrlIn
      <4>5. Carries' BY <3>1, <4>4 DEF InputInv, Staged, Carries, Given, Present
      <4>6. UrlIn(input)' = UrlIn(input) /\ MethodIn(input)' = MethodIn(input)
        BY <3>1 DEF UrlIn, MethodIn
      <4>7. Mapped' BY <3>1, <4>2, <4>3, <4>4, <4>5, <4>6 DEF Mapped
      <4> QED BY <3>1, <3>3, <4>3, <4>7 DEF InputInv, Staged, NamedIsMapped, Refusals
    <3> QED BY <2>5, <3>2, <3>3 DEF Execute, Refusals
  <2>6. CASE Map
    <3>1. /\ handler = "mapping" /\ http' = http /\ headers' = headers /\ input' = input
          /\ request' = request /\ main' = "serving" /\ mappings' = mappings
      BY <2>6 DEF Map, HandleInput
    <3>2. Mapped' BY <3>1 DEF InputInv, Staged, Mapped, Carries, Given, Present, UrlIn, MethodIn
    <3>3. CASE reply' \in Mapping /\ handler' = "policies" /\ asked' = OpaInput
      <4>1. OpaInput' = OpaInput BY <3>1 DEF OpaInput
      <4>2. Matches(reply', request)
        <5>1. reply' \notin NoMapping BY <3>3, MapperAssumption
        <5> QED BY <2>6, <5>1 DEF Map, HandleInput, Found, NoMapping
      <4>3. Matches(reply, request)' BY <3>1, <4>2 DEF Matches, Class, Limit
      <4>4. OpaInput \in Input
        BY <3>1, OpaInputTyped DEF InputInv, Staged, Mapped, Typed, TypeOK
      <4> QED BY <3>1, <3>2, <3>3, <4>1, <4>3, <4>4 DEF InputInv, Staged, NamedIsMapped, Refusals
    <3>4. CASE handler' = "notFound" /\ UNCHANGED asked
      BY <3>1, <3>4 DEF InputInv, Staged, NamedIsMapped, Refusals
    <3> QED BY <2>6, <3>3, <3>4 DEF Map
  <2>7. CASE UNCHANGED <<vars, requestVars>>
    <3>1. /\ handler' = handler /\ http' = http /\ headers' = headers /\ input' = input
          /\ asked' = asked /\ main' = main /\ request' = request /\ reply' = reply
      BY <2>7 DEF vars, requestVars
    <3>2. Mapped' <=> Mapped
      BY <3>1 DEF Mapped, Carries, Given, Present, UrlIn, MethodIn
    <3>3. Carries' <=> Carries BY <3>1 DEF Carries, Given, Present
    <3>4. OpaInput' = OpaInput BY <3>1 DEF OpaInput
    <3>5. Matches(reply, request)' <=> Matches(reply, request)
      BY <3>1 DEF Matches, Class, Limit
    <3>6. Staged' BY <3>1, <3>2, <3>3, <3>4, <3>5 DEF InputInv, Staged
    <3>7. NamedIsMapped' BY <3>1 DEF InputInv, NamedIsMapped, Given, Present
    <3> QED BY <3>6, <3>7 DEF InputInv
  <2> QED BY <2>1, <2>2, <2>3, <2>4, <2>5, <2>6, <2>7 DEF InputNext
<1> QED BY <1>1, <1>2, RequestTyped, ImplementsPathMapper, MapperTypes, PTL DEF InputSpec

-----------------------------------------------------------------------------
(* Type correctness of the whole pipeline.                                  *)
THEOREM InputTypes == InputSpec => []InputTypeOK
<1>1. Typed /\ TypeOK /\ InputInv => InputTypeOK
  BY DEF Typed, InputInv, Staged, InputTypeOK
<1> QED BY <1>1, RequestTyped, ImplementsPathMapper, MapperTypes, InputInductive, PTL

(* Policies are asked about the request by which their package was chosen.  *)
THEOREM MappedIsSeen == InputSpec => []PoliciesSeeMapped
<1>1. Typed /\ TypeOK /\ InputInv => PoliciesSeeMapped
  <2> SUFFICES ASSUME Typed, TypeOK, InputInv, handler = "policies"
               PROVE  /\ asked["path"] = Segments[request.path]
                      /\ MethodOf[asked["method"]] = request.method
                      /\ Matches(reply, request)
    BY DEF PoliciesSeeMapped
  <2>1. asked = OpaInput /\ Matches(reply, request) /\ Mapped BY DEF InputInv, Staged
  <2>2. input \in Input BY <2>1 DEF Typed, Mapped
  <2>3. asked["path"] = Segments[request.path] /\ asked["method"] = input["method"]
    BY <2>1, <2>2, InputAssumption DEF OpaInput, Input
  <2>4. request.method # None BY InputAssumption DEF TypeOK, Request
  <2>5. MethodOf[input["method"]] = request.method BY <2>1, <2>4 DEF Mapped, MethodIn
  <2> QED BY <2>1, <2>3, <2>5
<1> QED BY <1>1, RequestTyped, ImplementsPathMapper, MapperTypes, InputInductive, PTL

(* A mapped header decides, whatever input the client sends.                *)
THEOREM HeadersAlwaysWin == InputSpec => []HeadersWin
<1>1. Typed /\ TypeOK /\ InputInv => HeadersWin
  <2> SUFFICES ASSUME Typed, TypeOK, InputInv, handler = "policies",
                      NEW i \in Present,
                      \A j \in Present : Alias(headers[j]) = Alias(headers[i]) => j <= i
               PROVE  LET k == Alias(headers[i])
                          v == http.headers[headers[i].name]
                      IN /\ k = "path" => UrlOf[v] = [path |-> request.path, query |-> request.query]
                         /\ k = "method" => MethodOf[v] = request.method
                         /\ k # "path" => asked[k] = v
    BY DEF HeadersWin
  <2> DEFINE k == Alias(headers[i])
             v == http.headers[headers[i].name]
  <2>1. asked = OpaInput /\ Mapped BY DEF InputInv, Staged
  <2>2. input \in Input /\ k \in Key
    BY <2>1, HeaderTypes DEF Typed, Mapped, Present
  <2>3. v # None BY DEF Present
  <2>4. input[k] = v BY <2>1, <2>2 DEF Mapped, Carries
  <2>5. k = "path" => UrlOf[v] = [path |-> request.path, query |-> request.query]
    BY <2>1, <2>3, <2>4 DEF Mapped, UrlIn
  <2>6. k = "method" => MethodOf[v] = request.method
    BY <2>1, <2>3, <2>4 DEF Mapped, MethodIn
  <2>7. k # "path" => asked[k] = v
    <3> HIDE DEF k, v
    <3> QED BY <2>1, <2>2, <2>3, <2>4, InputAssumption DEF OpaInput, Input
  <2> QED BY <2>5, <2>6, <2>7
<1> QED BY <1>1, RequestTyped, ImplementsPathMapper, MapperTypes, InputInductive, PTL

(* Whoever names a path and a method gets to the path mapper.               *)
THEOREM NamedAlwaysMapped == InputSpec => []NamedIsMapped
<1>1. InputInv => NamedIsMapped BY DEF InputInv
<1> QED BY <1>1, InputInductive, PTL

(* Of the pipeline, too: a mapping that is given is the most important one. *)
THEOREM MostImportantAsked == InputSpec => []OneMostImportant
BY ImplementsPathMapper, MostImportantGiven, PTL

(* And what the file describes by path and methods is found.                *)
THEOREM DescribedIsAsked == InputSpec => []DescribedIsFound
BY ImplementsPathMapper, DescribedNotLost, PTL
=============================================================================
