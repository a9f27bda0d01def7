---------------------------- MODULE RequestInput ----------------------------
(***************************************************************************)
(* From an HTTP request for a decision to the input of policies: the       *)
(* middleware takes the input from the query or the body and adds mapped   *)
(* headers, the policy compiler takes the URL and the method from it, the  *)
(* path mapper chooses a mapping, and policies are asked about the input   *)
(* with the path it was chosen by.  Requests share the mappings alone: one *)
(* is as many as need be.                                                  *)
(***************************************************************************)
EXTENDS PathMapper, Sequences

CONSTANTS
  Key,            \* the keys of inputs
  Value, None,    \* JSON values, and the absence of one
  Text,           \* the values that a header may have
  UrlOf,          \* what a value is as a URL, if it is text or a list
  MethodOf,       \* what it is as a method, in upper case, if it is text
  Segments,       \* the list of the parts of a path, as a value
  Parameters,     \* the object made of the parameters of a URL, as a value
  Header,
  HeaderConfigs,  \* global.input.header-mapping, as configured
  Bodies          \* the inputs that clients send

Input == [Key -> Value \cup {None}]
NoInput == [k \in Key |-> None]
Url == [path : Path, query : SUBSET Param]

ASSUME InputAssumption ==
  /\ {"path", "method", "queries"} \cup Header \subseteq Key
  /\ Text \subseteq Value
  /\ UrlOf \in [Value -> Url \cup {None}]
  /\ MethodOf \in [Value -> Method \cup {"", None}]
  /\ "" \notin Method
  /\ Segments \in [Path -> Value] /\ Parameters \in [SUBSET Param -> Value]
  /\ None \notin Value \cup Url \cup Method \cup Input \cup Mapping \cup {""}
  /\ HeaderConfigs \subseteq Seq([name : Header, alias : Key \cup {None}])
  /\ NoInput \in Bodies /\ Bodies \subseteq Input

(* What stands where the input is expected: an object, nothing, null, JSON  *)
(* of another type or none at all, a body that is null, several inputs.     *)
Kinds == [GET  |-> {"object", "nothing", "null", "other", "malformed", "several"},
          POST |-> {"object", "nothing", "null", "other", "malformed", "nullBody"}]

Http == {h \in [verb : {"GET", "POST"}, kind : Kinds["GET"] \cup Kinds["POST"], sent : Bodies,
                headers : [Header -> Text \cup {None}]] :
           h.kind \in Kinds[h.verb] /\ (h.kind # "object" => h.sent = NoInput)}

VARIABLES
  headers,  \* the header mapping in force
  http,     \* the request
  handler,  \* where its handler stands, or how it ended
  input,    \* the input so far
  asked     \* the input that policies are evaluated with

requestVars == <<headers, http, handler, input, asked>>

Refusals == {"badRequest", "serverError", "dropped"}

InputTypeOK ==
  /\ TypeOK
  /\ headers \in HeaderConfigs
  /\ http \in Http \cup {None}
  /\ handler \in {"idle", "extract", "enrich", "execute", "mapping", "notFound", "policies"}
                 \cup Refusals
  /\ input \in Input \cup {None} /\ asked \in Input \cup {None}

-----------------------------------------------------------------------------
Alias(h) == IF h.alias = None THEN h.name ELSE h.alias

(* Input.Validate compares names with the aliases before them, once those   *)
(* that have none have got their names.                                     *)
Valid(config) ==
  \A i, j \in DOMAIN config : i < j => Alias(config[i]) # config[j].name

Receive_(h) ==
  /\ main = "serving" /\ handler = "idle"
  /\ http' = h /\ handler' = "extract"
  /\ UNCHANGED <<vars, headers, input, asked>>

(* Mutant: a request must have an input of its own. *)
ExtractInput_Required ==
  /\ handler = "extract"
  /\ \/ /\ http.kind \in {"malformed", "nothing", "several"} \/ (http.verb = "GET" /\ http.kind = "other")
        /\ handler' = "badRequest" /\ UNCHANGED input
     \/ /\ http.verb = "POST" /\ http.kind \in {"other", "null"}
        /\ handler' = "serverError" /\ UNCHANGED input
     \/ /\ http.kind \in {"object", "nullBody"} \/ (http.verb = "GET" /\ http.kind = "null")
        /\ input' = IF http.kind = "object" THEN http.sent ELSE None
        /\ handler' = "enrich"
  /\ UNCHANGED <<vars, headers, http, asked>>

(* extractInputFromQuery passes over several inputs, and takes null for a   *)
(* nil map; extractInputFromBody takes any object, and null for none, and   *)
(* applyHeaderMappingsToInput refuses what is no object in it.              *)
ExtractInput ==
  /\ handler = "extract"
  /\ \/ /\ http.kind = "malformed" \/ (http.verb = "GET" /\ http.kind = "other")
        /\ handler' = "badRequest" /\ UNCHANGED input
     \/ /\ http.verb = "POST" /\ http.kind \in {"other", "null"}
        /\ handler' = "serverError" /\ UNCHANGED input
     \/ /\ http.kind \in {"object", "nothing", "several"}
        /\ input' = http.sent /\ handler' = "enrich"
     \/ /\ http.kind = "nullBody" \/ (http.verb = "GET" /\ http.kind = "null")
        /\ input' = None /\ handler' = "enrich"
  /\ UNCHANGED <<vars, headers, http, asked>>

(* The mapped headers that the request has.  None stands for an empty one,  *)
(* too, which the code takes for absent.                                    *)
Present == {i \in DOMAIN headers : http.headers[headers[i].name] # None}

(* Mutant: what the client sent is kept. *)
Enriched_ClientWins ==
  [k \in Key |->
     LET those == {i \in Present : Alias(headers[i]) = k}
     IN IF those = {} \/ input[k] # None THEN input[k]
        ELSE http.headers[headers[CHOOSE i \in those : \A j \in those : j <= i].name]]

(* Of several headers for one key the last counts. *)
Enriched ==
  [k \in Key |->
     LET those == {i \in Present : Alias(headers[i]) = k}
     IN IF those = {} THEN input[k]
        ELSE http.headers[headers[CHOOSE i \in those : \A j \in those : j <= i].name]]

(* The rest of applyHeaderMappingsToInput: an assignment to a nil map       *)
(* panics, and the server drops the connection.                             *)
ApplyHeaderMappings ==
  /\ handler = "enrich"
  /\ \/ /\ input = None /\ (http.kind = "nullBody" \/ Present # {})
        /\ handler' = "dropped" /\ UNCHANGED input
     \/ /\ input = None /\ http.kind # "nullBody" /\ Present = {}
        /\ handler' = "execute" /\ UNCHANGED input
     \/ input # None /\ input' = Enriched /\ handler' = "execute"
  /\ UNCHANGED <<vars, headers, http, asked>>

-----------------------------------------------------------------------------
UrlIn(i) == IF i = None \/ i["path"] = None THEN None ELSE UrlOf[i["path"]]
MethodIn(i) == IF i = None \/ i["method"] = None THEN None ELSE MethodOf[i["method"]]

(* policyCompiler.Execute: the URL and the method of the input are mapped.  *)
Execute ==
  /\ handler = "execute"
  /\ \/ /\ UrlIn(input) = None \/ MethodIn(input) = None
        /\ handler' = "badRequest" /\ UNCHANGED vars
     \/ /\ UrlIn(input) # None /\ MethodIn(input) = ""
        /\ handler' = "serverError" /\ UNCHANGED vars
     \/ /\ UrlIn(input) # None /\ MethodIn(input) \in Method
        /\ Receive([method |-> MethodIn(input), path |-> UrlIn(input).path, query |-> UrlIn(input).query])
        /\ handler' = "mapping"
  /\ UNCHANGED <<headers, http, input, asked>>

(* Mutant: the path is passed on as it was sent. *)
OpaInput_AsSent ==
  [input EXCEPT !["queries"] = IF @ = None THEN Parameters[request.query] ELSE @]

(* extractOpaInput: a client's own queries replace those of the URL. *)
OpaInput ==
  [input EXCEPT !["path"] = Segments[request.path],
                !["queries"] = IF @ = None THEN Parameters[request.query] ELSE @]

Map ==
  /\ handler = "mapping" /\ HandleInput
  /\ \/ reply' \in Mapping /\ handler' = "policies" /\ asked' = OpaInput
     \/ reply' \notin Mapping /\ handler' = "notFound" /\ UNCHANGED asked
  /\ UNCHANGED <<headers, http, input>>

-----------------------------------------------------------------------------
InputInit ==
  /\ Init
  /\ headers \in {config \in HeaderConfigs : Valid(config)}
  /\ http = None /\ handler = "idle" /\ input = None /\ asked = None

InputNext ==
  \/ (Serve \/ \E m \in Mapping : Generate(m)) /\ UNCHANGED requestVars
  \/ \E h \in Http : Receive_(h)
  \/ ExtractInput \/ ApplyHeaderMappings \/ Execute \/ Map

InputSpec == InputInit /\ [][InputNext]_<<vars, requestVars>>

-----------------------------------------------------------------------------
(* Properties. *)

(* A header that is mapped is what both path mapping and policies go by,    *)
(* whatever the input of the client has in its place.                       *)
HeadersWin ==
  handler = "policies" => \A i \in Present :
    LET k == Alias(headers[i])
        v == http.headers[headers[i].name]
    IN (\A j \in Present : Alias(headers[j]) = k => j <= i) =>
         /\ k = "path" => UrlOf[v] = [path |-> request.path, query |-> request.query]
         /\ k = "method" => MethodOf[v] = request.method
         /\ k # "path" => asked[k] = v

(* Policies are asked about the path and the method by which their package  *)
(* was chosen, wherever these came from.                                    *)
PoliciesSeeMapped ==
  handler = "policies" => /\ asked["path"] = Segments[request.path]
                          /\ MethodOf[asked["method"]] = request.method
                          /\ Matches(reply, request)

(* What a request says of a key, in its input or a mapped header.           *)
Given(k) ==
  ({http.sent[k]} \cup
   {http.headers[headers[i].name] : i \in {j \in Present : Alias(headers[j]) = k}}) \ {None}

(* A request that has a path and a method, in its input or in headers and   *)
(* then without any input, goes to the path mapper and is not refused       *)
(* before.                                                                  *)
NamedIsMapped ==
  handler \in Refusals /\ http.kind \in {"object", "nothing", "several"} =>
    \/ Given("path") = {}
    \/ \E v \in Given("path") : UrlOf[v] = None
    \/ Given("method") = {}
    \/ \E v \in Given("method") : MethodOf[v] \notin Method
=============================================================================
