-------------------------- MODULE MCConfigWatcher --------------------------
(* Instances of ConfigWatcher for TLC.  Of the two files a and b, a in its  *)
(* new form needs b.                                                        *)
EXTENDS ConfigWatcher

CONSTANTS a, b, old, new

NeedsB == {x \in [File -> Loaded] : x[a] = new /\ x[b] = Absent}
=============================================================================
