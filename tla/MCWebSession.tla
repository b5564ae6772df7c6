----------------------------- MODULE MCWebSession -----------------------------
(* Instances of WebSession for TLC. *)
EXTENDS WebSession, TLC

\* Tabs, scripts and sessions are interchangeable.
Symmetry == Permutations(Tabs) \cup Permutations(Scripts) \cup Permutations(SessionIds)
=============================================================================
