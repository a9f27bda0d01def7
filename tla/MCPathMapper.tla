---------------------------- MODULE MCPathMapper ----------------------------
(* Instances of PathMapper for TLC: mappings of the example and test        *)
(* configurations, one more for a tie and one that is no expression, in     *)
(* every subset of them.                                                    *)
EXTENDS PathMapper

Tail_(x) == CASE x = "GET" -> "T" [] x = "POST" -> "T" [] x = "PUT" -> "T"
              [] x = "DELETE" -> "E" [] x = "PATCH" -> "H" [] x = "LINK" -> "K"
Spelling(x) == CASE x = "GET"    -> {"G", "E", "T"}
                 [] x = "POST"   -> {"P", "O", "S", "T"}
                 [] x = "PUT"    -> {"P", "U", "T"}
                 [] x = "DELETE" -> {"D", "E", "L", "T"}
                 [] x = "PATCH"  -> {"P", "A", "T", "C", "H"}
                 [] x = "LINK"   -> {"L", "I", "N", "K"}

MCMethod == AllMethods \cup {"LINK"}
MCLast == [x \in MCMethod |-> Tail_(x)]
MCLetters == [x \in MCMethod |-> Spelling(x)]
MCLetter == UNION {Spelling(x) : x \in MCMethod}

(* /api/mysql with /apps/.*, the same twice, /apps/[\d]+ and the same for   *)
(* GET; /api with /.*, /articles for POST, and for GET with author.         *)
MCMapping == {"apps", "twin", "app", "getApp", "all", "create", "byAuthor", "broken"}
MCPath == {"/api/mysql/apps/x", "/api/mysql/apps/1", "/api/articles",
           "/api/articlesauthor=me", "/api/other", "/"}
MCFinds == [m \in MCMapping |->
  CASE m \in {"apps", "twin"} -> {"/api/mysql/apps/x", "/api/mysql/apps/1"}
    [] m \in {"app", "getApp"} -> {"/api/mysql/apps/1"}
    [] m \in {"all", "broken"} -> MCPath \ {"/"}
    [] OTHER -> {"/api/articles", "/api/articlesauthor=me"}]
MCMethods == [m \in MCMapping |->
  CASE m \in {"getApp", "byAuthor"} -> {"GET"} [] m = "create" -> {"POST"} [] OTHER -> {}]
MCQueries == [m \in MCMapping |-> IF m = "byAuthor" THEN {"author"} ELSE {}]
MCLength == [m \in MCMapping |->
  CASE m \in {"apps", "twin"} -> 18 [] m \in {"app", "getApp"} -> 21
    [] m \in {"create", "byAuthor"} -> 13 [] OTHER -> 7]
MCNames == [p \in MCPath |-> IF p = "/api/articlesauthor=me" THEN {"author"} ELSE {}]
=============================================================================
