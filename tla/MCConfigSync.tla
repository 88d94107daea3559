----------------------------- MODULE MCConfigSync -----------------------------
(***************************************************************************)
(* Instances of ConfigSync: three settings in two sections, of which the   *)
(* server completes one (agents.developer.max_concurrent).                 *)
(***************************************************************************)
EXTENDS ConfigSync

MCSectionOf == [f \in Fields |-> IF f = "max_concurrent" THEN "agents" ELSE "claude"]

All(v) == [f \in Fields |-> v]
Only(f, v) == [Empty EXCEPT ![f] = v]

\* Complete documents for the agent type, no override.
TypeOnly == [t \in Targets |-> IF t = "type" THEN {All(2), All(3)} ELSE {}]

\* An override of one setting, of two, or of none.
Overridden ==
    [t \in Targets |-> IF t = "type" THEN {All(2), All(3)}
                       ELSE {Only("model", 3), All(3), Empty}]
=============================================================================
