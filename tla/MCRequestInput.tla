--------------------------- MODULE MCRequestInput ---------------------------
(* An instance of RequestInput for TLC: every subset of six mappings of      *)
(* MCPathMapper, and inputs that lack, have or misspell a path or a method,  *)
(* which are looked for in headers as well.                                  *)
EXTENDS MCPathMapper, RequestInput

RIMapping == MCMapping \ {"app", "byAuthor"}
RIPath == {"/api/mysql/apps/1", "/api/articles", "get", "/get"}
RIFinds == [m \in RIMapping |-> MCFinds[m] \cap RIPath]
RIMethods == [m \in RIMapping |-> MCMethods[m]]
RIQueries == [m \in RIMapping |-> MCQueries[m]]
RILength == [m \in RIMapping |-> MCLength[m]]
RINames == [p \in RIPath |-> {}]
RISegments == [p \in RIPath |->
  CASE p \in {"get", "/get"} -> "[get]" [] p = "/api/articles" -> "[api articles]"
    [] OTHER -> "[api mysql apps 1]"]
RIParameters == [q \in SUBSET {"author"} |-> IF q = {} THEN "{}" ELSE "{author}"]

(* Text that is a URL or a method is both; as a method a URL is one that    *)
(* ends in "1" or, as the author is "me", in "E".                           *)
Odd == {"/API/MYSQL/APPS/1", "/API/ARTICLES?AUTHOR=ME"}
RIMethod == AllMethods \cup Odd
RILast == [x \in RIMethod |->
  IF x \in AllMethods THEN Tail_(x) ELSE IF x = "/API/MYSQL/APPS/1" THEN "1" ELSE "E"]
RILetters == [x \in RIMethod |-> IF x \in AllMethods THEN Spelling(x) ELSE {RILast[x]}]
RILetter == UNION {RILetters[x] : x \in RIMethod}

RIText == {"/api/mysql/apps/1", "/api/articles?author=me", "get"}
RIValue == RIText \cup {"Post", "", "number", "{}", "{author}"} \cup {RISegments[p] : p \in RIPath}
RIUrlOf == [v \in RIValue |->
  CASE v \in {"/api/mysql/apps/1", "[api mysql apps 1]"} -> [path |-> "/api/mysql/apps/1", query |-> {}]
    [] v = "[api articles]" -> [path |-> "/api/articles", query |-> {}]
    [] v = "[get]" -> [path |-> "/get", query |-> {}]
    [] v = "/api/articles?author=me" -> [path |-> "/api/articles", query |-> {"author"}]
    [] v \in {"number", "{}", "{author}"} -> None
    [] OTHER -> [path |-> "get", query |-> {}]]
RIMethodOf == [v \in RIValue |->
  CASE v = "get" -> "GET" [] v = "Post" -> "POST" [] v = "" -> "" [] v \in RIValue \ (RIText \cup {"Post", ""}) -> None
    [] v = "/api/mysql/apps/1" -> "/API/MYSQL/APPS/1" [] OTHER -> "/API/ARTICLES?AUTHOR=ME"]

Said(p, m, q) == [k \in {"path", "method", "queries", "uri", "verb"} |->
  CASE k = "path" -> p [] k = "method" -> m [] k = "queries" -> q [] OTHER -> None]
RIBodies ==
  {Said(p, m, q) : p \in RIText \cup {"[api articles]"}, m \in {"get", "Post"}, q \in {None, "number"}} \cup
  {Said(p, "get", None) : p \in {None, "number"}} \cup {Said(None, None, None)} \cup
  {Said("/api/mysql/apps/1", m, None) : m \in {None, "number", ""}}

To(n, a) == [name |-> n, alias |-> a]
RIHeaderConfigs ==
  {<<>>, <<To("uri", "path"), To("verb", "method")>>, <<To("uri", None)>>,
   <<To("uri", "path"), To("verb", "path")>>, <<To("verb", "queries")>>,
   <<To("verb", "uri"), To("uri", "path")>>}
=============================================================================
