----------------------------- MODULE MCCeremonies -----------------------------
(* Instances of Ceremonies for TLC. *)
EXTENDS Ceremonies, Naturals, FiniteSets, TLC

\* Requests, sessions and identities are interchangeable.
Symmetry == Permutations(Requests) \cup Permutations(SessionIds) \cup Permutations(Identities)

\* At most one session ends and at most one row expires.
OneEnds ==
    /\ Cardinality({s \in SessionIds : sessions[s].state = "ended"}) <= 1
    /\ Cardinality({a \in Requests : refs[a].state = "expired"}) <= 1
=============================================================================
