----------------------------- MODULE PathMapper -----------------------------
(***************************************************************************)
(* pathMapper: each mapping of the configuration is compiled to a regular  *)
(* expression; a request is mapped to the most important of those found in *)
(* "<METHOD>-<path>", and refused if two are.                              *)
(***************************************************************************)
EXTENDS Naturals, FiniteSets

CONSTANTS
  Mapping, Path, Method, Param, Letter,
  Finds,       \* the paths in which a mapping's prefix and path are found
  Methods,     \* the methods a mapping is limited to, none for all
  Queries,     \* the query parameters it is limited to
  Length,      \* the length of its prefix and path
  Unparsable,  \* mappings that are no regular expression
  Letters,     \* the letters of a method
  Last,        \* its last letter
  Names        \* the parameters that a path ends in, as text: "<name>="

AllMethods == {"GET", "POST", "PUT", "DELETE", "PATCH"}
NoMapping == {"none", "waiting", "ambiguous", "notFound"}

ASSUME MapperAssumption ==
  /\ Path # {} /\ AllMethods \subseteq Method
  /\ Mapping \cap NoMapping = {} /\ Unparsable \subseteq Mapping
  /\ Finds \in [Mapping -> SUBSET Path]
  /\ Methods \in [Mapping -> SUBSET Method] /\ Queries \in [Mapping -> SUBSET Param]
  /\ \A m \in Mapping : IsFiniteSet(Methods[m]) /\ IsFiniteSet(Queries[m])
  /\ Length \in [Mapping -> Nat]
  /\ Letters \in [Method -> SUBSET Letter] /\ Last \in [Method -> Letter]
  /\ \A x \in Method : Last[x] \in Letters[x]
  /\ Names \in [Path -> SUBSET Param]

VARIABLES
  file,      \* the mappings of the configuration file
  main,      \* "configuring", "serving" or "fatal"
  mappings,  \* the compiled mappings
  request,   \* the request being mapped
  reply      \* the mapping it was given, or why it was given none

vars == <<file, main, mappings, request, reply>>

Request == [method : Method, path : Path, query : SUBSET Param]

TypeOK ==
  /\ file \subseteq Mapping /\ mappings \subseteq file \ Unparsable
  /\ main \in {"configuring", "serving", "fatal"}
  /\ request \in Request
  /\ reply \in mappings \cup NoMapping

-----------------------------------------------------------------------------
Limit(m) == IF Methods[m] = {} THEN AllMethods ELSE Methods[m]

(* Mutant: a mapping without methods gets no letters. *)
Class_NoDefault(m) == UNION {Letters[x] : x \in Methods[m]}

(* compileMappingRegex brackets the methods: "[(GET)|(PUT)]" is a class of  *)
(* characters, one of which precedes the "-".                               *)
Class(m) == UNION {Letters[x] : x \in Limit(m)}

(* The expression is not anchored, and its part for queries is looked for   *)
(* in the path: a URL's Path is without the query.  Bound: no path has a    *)
(* "-" after a letter of the class, and no expression a "|" or "(" that     *)
(* would take the method's place.                                           *)
Matches(m, r) ==
  /\ r.path \in Finds[m]
  /\ Last[r.method] \in Class(m)
  /\ Queries[m] \subseteq Names[r.path]

Importance(m) == Length[m] + Cardinality(Queries[m]) + Cardinality(Methods[m])

Found(r) == {m \in mappings : Matches(m, r)}

-----------------------------------------------------------------------------
(* Mutant: an expression that does not compile is kept. *)
Generate_Keep(m) ==
  /\ main = "configuring" /\ m \in file \ mappings
  /\ mappings' = mappings \cup {m}
  /\ UNCHANGED <<file, main, request, reply>>

(* generateMappings: the first expression that does not compile ends the    *)
(* process.                                                                 *)
Generate(m) ==
  /\ main = "configuring" /\ m \in file \ mappings
  /\ \/ m \in Unparsable /\ main' = "fatal" /\ UNCHANGED mappings
     \/ m \notin Unparsable /\ mappings' = mappings \cup {m} /\ UNCHANGED main
  /\ UNCHANGED <<file, request, reply>>

Serve ==
  /\ main = "configuring" /\ mappings = file
  /\ main' = "serving"
  /\ UNCHANGED <<file, mappings, request, reply>>

Receive(r) ==
  /\ main = "serving" /\ reply # "waiting"
  /\ request' = r /\ reply' = "waiting"
  /\ UNCHANGED <<file, main, mappings>>

(* Mutant: the two first are not compared. *)
HandleInput_First ==
  /\ main = "serving" /\ reply = "waiting"
  /\ \/ Found(request) = {} /\ reply' = "notFound"
     \/ \E first \in Found(request) :
          /\ \A m \in Found(request) : Importance(first) >= Importance(m)
          /\ reply' = first
  /\ UNCHANGED <<file, main, mappings, request>>

(* handleInput: sort.Slice is not stable, so that any of the most important *)
(* ones may come first; the first is compared with the second.              *)
HandleInput ==
  /\ main = "serving" /\ reply = "waiting"
  /\ \/ Found(request) = {} /\ reply' = "notFound"
     \/ \E first \in Found(request) :
          /\ \A m \in Found(request) : Importance(first) >= Importance(m)
          /\ reply' = IF \E m \in Found(request) \ {first} : Importance(m) = Importance(first)
                      THEN "ambiguous" ELSE first
  /\ UNCHANGED <<file, main, mappings, request>>

-----------------------------------------------------------------------------
Init ==
  /\ file \in SUBSET Mapping
  /\ main = "configuring" /\ mappings = {}
  /\ request = (CHOOSE r \in Request : TRUE) /\ reply = "none"

Next == \/ \E m \in Mapping : Generate(m)
        \/ Serve
        \/ \E r \in Request : Receive(r)
        \/ HandleInput

Spec == Init /\ [][Next]_vars

-----------------------------------------------------------------------------
(* Properties. *)

(* What the configuration says of a mapping: it is for requests with one of *)
(* its methods, the five when it names none, and with all of its queries.   *)
Describes(m, r) ==
  /\ r.path \in Finds[m] /\ r.method \in Limit(m) /\ Queries[m] \subseteq r.query

(* The answer depends on the configuration and the request alone, not on    *)
(* the order in which an unstable sort leaves equally important mappings:   *)
(* whatever the file, a mapping is given to a request only if it is         *)
(* strictly the most important.                                             *)
OneMostImportant ==
  reply \in Mapping => \A m \in file \ {reply} :
    Matches(m, request) => Importance(m) < Importance(reply)

(* No request that the file describes with a path alone, or with a path and *)
(* methods, is refused as unknown: the class of characters admits more      *)
(* than the methods listed, and never less.                                 *)
DescribedIsFound ==
  reply = "notFound" => \A m \in file : Queries[m] = {} => ~Describes(m, request)

(* "Only matches GET", says examples/local/config/kelon.yml of a mapping    *)
(* with this method.  In the class of characters every method that ends in  *)
(* one of its letters does.                                                 *)
MethodsRespected == reply \in Mapping => request.method \in Limit(reply)
=============================================================================
