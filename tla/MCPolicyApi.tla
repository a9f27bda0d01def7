---------------------------- MODULE MCPolicyApi ----------------------------
(* Instances of PolicyApi for TLC.                                          *)
EXTENDS PolicyApi, TLC

CONSTANTS i1, i2, lib, user, free, p1, p2, p3, v1

(* lib defines functions at p1; user defines rules at p2 and calls p1; free *)
(* defines rules at p3 and calls nothing.                                   *)
MCPackage == [s \in Source |-> CASE s = lib -> p1 [] s = user -> p2 [] OTHER -> p3]
MCCalls   == [s \in Source |-> IF s = user THEN {p1} ELSE {}]

Put(i, s)    == [op |-> "policyPut", id |-> i, source |-> s]
Delete(i)    == [op |-> "policyDelete", id |-> i]
Get(i)       == [op |-> "policyGet", id |-> i]
PutDoc(p, m) == [op |-> "dataPut", path |-> p, value |-> v1, ifNoneMatch |-> m]
DeleteDoc(p) == [op |-> "dataDelete", path |-> p]
Patch(under, ops) == [op |-> "dataPatch", under |-> under, ops |-> ops]
Change(o, p) == [op |-> o, path |-> p, value |-> v1]

Mods(a, b) == (i1 :> a) @@ (i2 :> b)
NoMods     == Mods(NoSource, NoSource)
Docs(a, b) == [p \in Path |-> IF p = p1 THEN a ELSE IF p = p2 THEN b ELSE NoDoc]
NoDocs     == Docs(NoDoc, NoDoc)
OnDisk(mods, docs) == [loads |-> TRUE, policies |-> mods, data |-> docs]
BrokenDisk == [loads |-> FALSE, policies |-> NoMods, data |-> NoDocs]

(* Policies that depend on each other, and a document in the way of a rule. *)
PolicyRequests == {Put(i1, lib), Put(i2, user), Put(i2, Unparsable), Delete(i1),
                   Delete(i2), PutDoc(p2, FALSE), DeleteDoc(p2), Get(i2), [op |-> "evaluate"]}
PolicyBundles  == {OnDisk(Mods(lib, NoSource), NoDocs), OnDisk(Mods(lib, user), NoDocs),
                   OnDisk(Mods(NoSource, user), NoDocs)}

(* A bundle that owns p1; patches of two documents, one of which may be     *)
(* missing, owned, or in the way of a rule; a policy of another package put *)
(* under the id of the one that the bundle owns.                            *)
DataRequests == {PutDoc(p1, FALSE), PutDoc(p2, TRUE), DeleteDoc(p1),
                 Patch({p2}, <<>>),
                 Patch({p2, p3}, <<Change("add", p3), Change("replace", p2)>>),
                 Patch({p2, p3}, <<Change("remove", p3), Change("add", p2)>>),
                 Patch({p1, p3}, <<Change("remove", p3), Change("remove", p1)>>),
                 Put(i2, user), Put(i1, free), Put(i1, lib), Delete(i1), Delete(i2),
                 [op |-> "policyList"]}
DataBundles  == {OnDisk(Mods(lib, NoSource), NoDocs), OnDisk(NoMods, Docs(v1, NoDoc)),
                 BrokenDisk}

(* A few requests of each kind, for the liveness of the handlers.            *)
LiveRequests == {Put(i2, user), Get(i2), [op |-> "malformed"], [op |-> "evaluate"],
                 Patch({p2}, <<Change("remove", p2)>>)}
LiveBundles  == {OnDisk(Mods(lib, NoSource), NoDocs), BrokenDisk}
=============================================================================
