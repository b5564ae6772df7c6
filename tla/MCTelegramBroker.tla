-------------------------- MODULE MCTelegramBroker --------------------------
(* Instances of TelegramBroker for TLC. *)
EXTENDS TelegramBroker, TLC

\* Callbacks, token requests, states, codes, flows and accounts are
\* interchangeable: no definition tells one from another.
Symmetry ==
    Permutations(Callbacks) \cup Permutations(Tokens) \cup Permutations(States)
        \cup Permutations(Codes) \cup Permutations(Flows) \cup Permutations(Users)
=============================================================================
