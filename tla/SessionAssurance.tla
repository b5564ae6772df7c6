--------------------------- MODULE SessionAssurance ---------------------------
(***************************************************************************)
(* What step-up promises about sessions, with nothing said about requests, *)
(* contexts or the two databases.  A session begins by one login and names *)
(* the provider of that login, if any; the session that a step-up's own    *)
(* login makes begins like any other.  A step-up is asked for by an active *)
(* session, and a session comes to name only what it was asked for.  That  *)
(* the provider was in fact proven is no part of the promise.  A session   *)
(* ends by its owner's logout, or by being merged: into another session of *)
(* the same person, for a method asked for there and that both name.       *)
(* No session that has ended comes back, and no named method is lost.      *)
(***************************************************************************)
CONSTANTS
    People,      \* identities
    SessionIds,  \* sessions; an id is used once
    Methods,     \* the OIDC providers
    None         \* absence of a value

VARIABLES
    life,        \* life[s]: "none", "active" or "ended"
    person,      \* person[s]: whose session it is
    asked,       \* asked[s]: methods a step-up of s was started for
    named,       \* named[s]: methods that s names
    into         \* into[s]: the session s was merged into, None if it was not

vars == <<life, person, asked, named, into>>

Init ==
    /\ life = [s \in SessionIds |-> "none"]
    /\ person = [s \in SessionIds |-> None]
    /\ asked = [s \in SessionIds |-> {}]
    /\ named = [s \in SessionIds |-> {}]
    /\ into = [s \in SessionIds |-> None]

Begins(s, i, M) ==
    /\ life[s] = "none"
    /\ life' = [life EXCEPT ![s] = "active"]
    /\ person' = [person EXCEPT ![s] = i]
    /\ named' = [named EXCEPT ![s] = M]
    /\ UNCHANGED into

\* A login at provider m, or (M empty) by another method.
Login(s, i) ==
    /\ Begins(s, i, {}) \/ \E m \in Methods : Begins(s, i, {m})
    /\ UNCHANGED asked

\* A step-up of session s at m is started.
Ask(s, m) ==
    /\ life[s] = "active"
    /\ asked' = [asked EXCEPT ![s] = @ \cup {m}]
    /\ UNCHANGED <<life, person, named, into>>

Name(s, m) ==
    /\ m \in asked[s]
    /\ named' = [named EXCEPT ![s] = @ \cup {m}]
    /\ UNCHANGED <<life, person, asked, into>>

Logout(s) ==
    /\ life[s] = "active"
    /\ life' = [life EXCEPT ![s] = "ended"]
    /\ UNCHANGED <<person, asked, named, into>>

\* Session n is given up for session s.
Merge(n, s) ==
    /\ n # s
    /\ life[n] # "none"
    /\ person[n] = person[s]
    /\ asked[s] \cap named[s] \cap named[n] # {}
    /\ life' = [life EXCEPT ![n] = "ended"]
    /\ into' = [into EXCEPT ![n] = s]
    /\ UNCHANGED <<person, asked, named>>

Next == \E s \in SessionIds :
    \/ Logout(s)
    \/ \E i \in People : Login(s, i)
    \/ \E m \in Methods : Ask(s, m) \/ Name(s, m)
    \/ \E n \in SessionIds : Merge(n, s)

Spec == Init /\ [][Next]_vars
=============================================================================
