-------------------------------- MODULE MCStepUp --------------------------------
(* Instances of StepUp for TLC. *)
EXTENDS StepUp, FiniteSets, TLC

\* Identities, sessions, contexts and done requests are interchangeable.
Symmetry ==
    Permutations(Identities) \cup Permutations(SessionIds) \cup Permutations(Contexts) \cup Permutations(Dones)

\* Bound of the safety run: four sessions and step-ups together, so two sessions
\* with a step-up each or twice for one, or three sessions and one step-up.
FourSessionsAndStepUps ==
    Cardinality({s \in SessionIds : sessions[s].state # "none"})
        + Cardinality({x \in Contexts : st[x].pc # "idle"}) <= 4
=============================================================================
