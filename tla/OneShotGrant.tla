---------------------------- MODULE OneShotGrant ----------------------------
(***************************************************************************)
(* What the Telegram login broker promises Kratos, with nothing said about *)
(* tables, handlers or clocks.  A grant is opened for one login flow; a    *)
(* user signs in at Telegram; at most once the grant is turned into an     *)
(* authorization code for one of those users; and at most once that code   *)
(* is redeemed for an ID token, which names the flow the grant was opened  *)
(* for and the user the code was given for.                                *)
(***************************************************************************)
CONSTANTS
    Grants,     \* authorization requests accepted by the broker
    Flows,      \* login flows of Kratos: state, nonce and PKCE pair of one login
    Users,      \* Telegram accounts
    Requests,   \* calls of the token endpoint
    None        \* "no flow"

VARIABLES
    flowOf,     \* flowOf[g]: the flow grant g was opened for, None if unopened
    asserted,   \* asserted[g]: users Telegram has signed in for g
    coded,      \* coded[g]: users for whom a code of g was handed to Kratos
    tokens      \* tokens[g]: ID tokens issued for g

vars == <<flowOf, asserted, coded, tokens>>

IDToken == [request : Requests, nonce : Flows, subject : Users]

Init ==
    /\ flowOf = [g \in Grants |-> None]
    /\ asserted = [g \in Grants |-> {}]
    /\ coded = [g \in Grants |-> {}]
    /\ tokens = [g \in Grants |-> {}]

Open(g, f) ==
    /\ flowOf[g] = None
    /\ flowOf' = [flowOf EXCEPT ![g] = f]
    /\ UNCHANGED <<asserted, coded, tokens>>

SignIn(g, u) ==
    /\ flowOf[g] # None
    /\ asserted' = [asserted EXCEPT ![g] = @ \cup {u}]
    /\ UNCHANGED <<flowOf, coded, tokens>>

HandCode(g, u) ==
    /\ u \in asserted[g]
    /\ coded[g] = {}
    /\ coded' = [coded EXCEPT ![g] = {u}]
    /\ UNCHANGED <<flowOf, asserted, tokens>>

Redeem(g, t) ==
    /\ tokens[g] = {}
    /\ \E u \in coded[g] :
          tokens' = [tokens EXCEPT ![g] =
                       {[request |-> t, nonce |-> flowOf[g], subject |-> u]}]
    /\ UNCHANGED <<flowOf, asserted, coded>>

Next == \E g \in Grants :
    \/ \E f \in Flows : Open(g, f)
    \/ \E u \in Users : SignIn(g, u) \/ HandCode(g, u)
    \/ \E t \in Requests : Redeem(g, t)

Spec == Init /\ [][Next]_vars
=============================================================================
