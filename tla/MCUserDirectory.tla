--------------------------- MODULE MCUserDirectory ---------------------------
(* Instances of UserDirectory for TLC. *)
EXTENDS UserDirectory, FiniteSets, TLC

CONSTANTS g1, t1, t2

MCMethodOf == [x \in Identifiers |-> IF x = g1 THEN "google" ELSE "telegram"]

\* Requests, identities, user ids and Telegram ids are interchangeable.
Symmetry ==
    Permutations(Sessions) \cup Permutations(Deletes) \cup Permutations(Identities)
        \cup Permutations(UserIds) \cup Permutations({t1, t2})

\* Bound: two namings of an identifier by an identity, failed calls of one identity.
TwoNamings ==
    /\ Cardinality({<<x, i>> \in Identifiers \X Identities : i \in named[x]}) <= 2
    /\ Cardinality(faulted) <= 1
=============================================================================
