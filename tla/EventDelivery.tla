---------------------------- MODULE EventDelivery -----------------------------
(***************************************************************************)
(* What a fire-and-forget client promises about an event it was given: it  *)
(* is dropped at once or held, and held events leave once, either stored   *)
(* by the control plane or lost.  Nothing is sent twice or after a loss.   *)
(***************************************************************************)
CONSTANT Events

VARIABLE fate   \* of every event

Fates == {"unreported", "dropped", "held", "stored", "lost"}

TypeOK == fate \in [Events -> Fates]

Init == fate = [e \in Events |-> "unreported"]

\* The reports of the events of S, and what becomes of them.
Become(S, from, to) ==
    /\ S # {} /\ \A e \in S : fate[e] = from
    /\ fate' = [e \in Events |-> IF e \in S THEN to ELSE fate[e]]

Next ==
    \E S \in SUBSET Events :
        \/ Become(S, "unreported", "held")
        \/ Become(S, "unreported", "dropped")
        \/ Become(S, "held", "stored")
        \/ Become(S, "held", "lost")

Spec == Init /\ [][Next]_fate
=============================================================================
