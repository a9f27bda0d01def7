----------------------------- MODULE MCStartup -----------------------------
(* An instance of Startup for TLC.                                          *)
EXTENDS Startup

CONSTANTS pg, mysql, odd, mongo, other

(* The limit of pingUntilReachable. *)
TwentyPings == 20

MCKindOf == [d \in Datastore |-> CASE d = mongo -> "mongo" [] d = mysql -> "mysql"
                                   [] OTHER -> "postgres"]

B(op, n, m) == [op |-> op, args |-> n, mapping |-> m, builtin |-> TRUE]
O(op, n, m) == [op |-> op, args |-> n, mapping |-> m, builtin |-> FALSE]
MCDefaults == [k \in Kind |-> <<O("eq", 2, "default")>>]

At(s, p) == [schema |-> s, path |-> p]
Tables    == <<At("s1", <<"t">>), At("s2", <<"u">>)>>
Documents == <<At("s1", <<"c">>), At("s1", <<"c", "n">>), At("s1", <<"c", "o">>),
               At("s1", <<"c", "o", "n">>), At("s2", <<"e">>), At("s2", <<"e", "n">>)>>

Usual ==
  [apis     |-> {<<pg>>, <<mysql, mongo>>, <<other>>},
   compiles |-> TRUE,
   faults   |-> [d \in Datastore |-> "none"],
   schemas  |-> [a \in Alias |-> IF a = mongo THEN Documents
                                 ELSE IF a = mysql THEN <<At("s1", <<"v">>)>> ELSE Tables],
   custom   |-> [k \in Kind |-> None],
   envoy    |-> "off",
   validate |-> FALSE]

(* Schemas, and mappings that use them. *)
WithSchema(d, s) == [Usual EXCEPT !.schemas[d] = s]
Schemas ==
  {WithSchema(pg, s) : s \in {None, <<>>, Tables \o <<At("s2", <<"t">>)>>,
                              <<At("s1", <<"t">>), At("s1", <<"t">>)>>,
                              <<At("s1", <<"t">>), At("s1", <<"t", "u">>)>>}} \cup
  {WithSchema(mongo, s) : s \in {Documents \o <<At("s2", <<"e", "n">>)>>,
                                 Documents \o <<At("s2", <<"c">>), At("s2", <<"c", "n">>)>>,
                                 <<At("s1", <<"v">>)>>}} \cup
  {WithSchema(odd, Tables \o Tables), WithSchema(other, None),
   [Usual EXCEPT !.apis = {<<pg, odd>>}], [Usual EXCEPT !.apis = {<<mongo, mongo>>}]}

(* Custom operand files. *)
AbsOne   == <<B("abs", 1, "one")>>
AbsTwo   == <<O("eq", 2, "custom"), B("len", 1, "one"), B("abs", 2, "two")>>
AbsPlain == <<O("abs", 2, "custom"), B("len", 1, "one")>>
AbsTwice == <<B("abs", 1, "one"), B("len", 1, "one"), B("abs", 1, "two")>>
AbsBoth  == <<B("len", 1, "one"), B("abs", 1, "one"), B("abs", 2, "two"), B("len", 2, "two")>>
Custom ==
  {[Usual EXCEPT !.custom = [k \in Kind |-> IF k = "postgres" THEN f ELSE IF k = "mysql" THEN g ELSE None]] :
     f \in {AbsOne, AbsTwo, AbsPlain, AbsTwice, AbsBoth}, g \in {None, AbsOne, AbsTwo, AbsBoth}}

MCConfigs ==
  {Usual, [Usual EXCEPT !.compiles = FALSE], [Usual EXCEPT !.envoy = "port"],
   [Usual EXCEPT !.envoy = "samePort"], [Usual EXCEPT !.validate = TRUE],
   [Usual EXCEPT !.faults[mongo] = "type"], [Usual EXCEPT !.faults[odd] = "connection"]}
  \cup Schemas \cup Custom
=============================================================================
