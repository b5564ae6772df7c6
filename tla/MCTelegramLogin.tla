---------------------------- MODULE MCTelegramLogin ----------------------------
(* Instances of TelegramLogin for TLC. *)
EXTENDS TelegramLogin, TLC

\* Grants, users, loads and sessions are interchangeable.
Symmetry ==
    Permutations(Grants) \cup Permutations(Users) \cup Permutations(Proxies)
        \cup Permutations(SessionIds)
=============================================================================
