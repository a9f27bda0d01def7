----------------------------- MODULE MCDecision -----------------------------
(* An instance of Decision for TLC: an SQL datastore with one query,        *)
(* MongoDB with three collections, one of which is always asked with an     *)
(* invalid filter, and an SQL datastore without a pool.  Under p verify     *)
(* asks two collections and allow both databases; under q nothing is asked; *)
(* the other policies fail in each way there is.                            *)
EXTENDS Decision

CONSTANTS pg, mongo, odd, sql, c1, c2, raw, lost, p, q, bad, other

AnyMapping == [verify : BOOLEAN, allow : BOOLEAN]
Owner == [x \in Query |-> CASE x = sql -> pg [] x = lost -> odd [] OTHER -> mongo]

Plain(k) == [kind |-> k, asks |-> {}]
Asking(s) == [kind |-> "queries", asks |-> s]
Rules(v, a) == [r \in Rule |-> IF r = "verify" THEN v ELSE a]

FourPolicies ==
  [x \in Policy |->
     CASE x = p   -> Rules(Asking({c1, c2}), Asking({sql, c1}))
       [] x = q   -> Rules(Plain("true"), Plain("undefined"))
       [] x = bad -> Rules(Plain("untranslatable"), Plain("error"))
       [] OTHER   -> Rules(Plain("panic"), Asking({c1, raw, sql, lost}))]
=============================================================================
