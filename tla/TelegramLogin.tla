---------------------------- MODULE TelegramLogin ----------------------------
(***************************************************************************)
(* A Telegram login or registration from the start request to the session  *)
(* token (server.go).  The start request opens a Kratos flow, saves its    *)
(* init code, and replaces Kratos' long OAuth state by a short one, which  *)
(* is what the broker and Telegram see.  The broker sends the browser back *)
(* through the proxy of Kratos, which restores the long state.  Kratos     *)
(* redeems the broker's code, makes a session, and sends the browser to    *)
(* the return page, which exchanges init code and return code for the      *)
(* session token.                                                          *)
(*                                                                         *)
(* The broker is taken at its promise, OneShotGrant, which TelegramBroker  *)
(* is shown to keep.  A flow has one start request, ctx id, init code,     *)
(* short state and long state, so it stands for each of them.  The browser *)
(* may load every page again, and loads run concurrently.                  *)
(***************************************************************************)
CONSTANTS
    Flows,       \* start requests and the Kratos flow each one opens
    Whole,       \* flows whose state is short enough to be sent as it is
    Grants,      \* authorization requests accepted by the broker
    Users,       \* Telegram accounts
    Proxies,     \* loads of /auth/kratos/.../oidc/callback/telegram
    Returns,     \* loads of /api/v1/auth/oidc/return with a ctx and a code
    SessionIds,  \* Kratos session ids
    None         \* absence of a value

ASSUME WholeAssumption == Whole \subseteq Flows

VARIABLES
    start,       \* where each start request is
    ctxs,        \* table poc_oidc_ctx
    states,      \* table poc_oidc_state
    flowOf, asserted, coded, tokens,    \* the broker, see OneShotGrant
    denied,      \* grants that the broker ended with an error
    px,          \* the loads of the proxied callback
    rt,          \* the loads of the return page
    sessions,    \* Kratos' sessions: flow, grant and user of each
    exchanger,   \* the session Kratos attached to a flow's exchange codes
    kept,        \* flows whose state row was used without being deleted (history)
    expired,     \* flows of which a row was removed by DynamoDB's cleanup (history)
    faulted      \* flows of which a call failed (history)

broker == <<flowOf, asserted, coded, tokens, denied>>
history == <<kept, expired, faulted>>
vars == <<start, ctxs, states, broker, px, rt, sessions, exchanger, history>>

\* What the broker promises; a load of the callback makes one token call.
Grant == INSTANCE OneShotGrant WITH Requests <- Proxies

-----------------------------------------------------------------------------
StartPc == {"idle", "context", "submit", "shorten", "sent", "failed"}

ProxyRequest ==
    [pc : {"idle", "delete", "kratos", "answered", "failed", "dropped"},
     grant : Grants \cup {None},
     flow : Flows \cup {None}]       \* flow whose long state is in the URL, if any

ReturnRequest ==
    [pc : {"idle", "exchange", "whoami", "ok", "failed", "ctx_missing", "dropped"},
     flow : Flows \cup {None},
     session : SessionIds \cup {None}]

Session == [flow : Flows, grant : Grants, user : Users]

ASSUME NoneAssumption ==
    None \notin Flows \cup Grants \cup Users \cup SessionIds \cup Session

TypeOK ==
    /\ start \in [Flows -> StartPc]
    /\ ctxs \subseteq Flows
    /\ states \subseteq Flows
    /\ flowOf \in [Grants -> Flows \cup {None}]
    /\ asserted \in [Grants -> SUBSET Users]
    /\ coded \in [Grants -> SUBSET Users]
    /\ tokens \in [Grants -> SUBSET Grant!IDToken]
    /\ denied \subseteq Grants
    /\ px \in [Proxies -> ProxyRequest]
    /\ rt \in [Returns -> ReturnRequest]
    /\ sessions \in [SessionIds -> Session \cup {None}]
    /\ exchanger \in [Flows -> SessionIds \cup {None}]
    /\ kept \subseteq Flows
    /\ expired \subseteq Flows
    /\ faulted \subseteq Flows
    \* what a grant and a load hold at each point
    /\ \A g \in Grants : flowOf[g] = None => asserted[g] = {} /\ coded[g] = {} /\ g \notin denied
    /\ \A q \in Proxies : /\ px[q].pc # "idle" => px[q].grant # None
                          /\ px[q].pc \in {"delete", "answered"} => px[q].flow # None
    /\ \A r \in Returns : /\ rt[r].pc # "idle" => rt[r].flow # None
                          /\ rt[r].pc \in {"whoami", "ok"} => rt[r].session # None

Init ==
    /\ start = [f \in Flows |-> "idle"]
    /\ ctxs = {}
    /\ states = {}
    /\ Grant!Init
    /\ denied = {}
    /\ px = [q \in Proxies |-> [pc |-> "idle", grant |-> None, flow |-> None]]
    /\ rt = [r \in Returns |-> [pc |-> "idle", flow |-> None, session |-> None]]
    /\ sessions = [s \in SessionIds |-> None]
    /\ exchanger = [f \in Flows |-> None]
    /\ kept = {}
    /\ expired = {}
    /\ faulted = {}

-----------------------------------------------------------------------------
(* startOIDCFlow with intent login or register, provider telegram.         *)

StartGoto(f, pc) == start' = [start EXCEPT ![f] = pc]

\* StartFlow gives a flow with its init code.
StartFlow(f) ==
    /\ start[f] = "idle"
    /\ StartGoto(f, "context")
    /\ UNCHANGED <<ctxs, states, broker, px, rt, sessions, exchanger, history>>

\* Mutant: the error of the write is ignored, as saveFlowRef's callers do.
StartSavesMaybe(f) ==
    /\ start[f] = "context"
    /\ ctxs' \in {ctxs, ctxs \cup {f}}
    /\ StartGoto(f, "submit")
    /\ UNCHANGED <<states, broker, px, rt, sessions, exchanger, history>>

\* SaveOIDCContext.
StartSavesContext(f) ==
    /\ start[f] = "context"
    /\ ctxs' = ctxs \cup {f}
    /\ StartGoto(f, "submit")
    /\ UNCHANGED <<states, broker, px, rt, sessions, exchanger, history>>

\* Kratos answers the submission with a redirect to the broker.
StartSubmits(f) ==
    /\ start[f] = "submit"
    /\ StartGoto(f, "shorten")
    /\ UNCHANGED <<ctxs, states, broker, px, rt, sessions, exchanger, history>>

\* shortenTelegramOIDCRedirect, and the answer with redirect_url.
StartShortens(f) ==
    /\ start[f] = "shorten"
    /\ states' = IF f \in Whole THEN states ELSE states \cup {f}
    /\ StartGoto(f, "sent")
    /\ UNCHANGED <<ctxs, broker, px, rt, sessions, exchanger, history>>

\* A call fails; what a save may have written stays.
StartFails(f) ==
    /\ \/ start[f] = "context" /\ ctxs' \in {ctxs, ctxs \cup {f}} /\ UNCHANGED states
       \/ start[f] = "submit" /\ UNCHANGED <<ctxs, states>>
       \/ start[f] = "shorten" /\ f \notin Whole /\ states' \in {states, states \cup {f}}
             /\ UNCHANGED ctxs
    /\ StartGoto(f, "failed")
    /\ UNCHANGED <<broker, px, rt, sessions, exchanger, history>>

-----------------------------------------------------------------------------
(* The broker, by the steps of its promise.                                *)

\* The browser opens the redirect; opening it again gives another grant.
Authorize(g, f) ==
    /\ start[f] = "sent"
    /\ Grant!Open(g, f)
    /\ UNCHANGED <<denied, start, ctxs, states, px, rt, sessions, exchanger, history>>

\* The user signs in at Telegram, and the broker sends the browser to Kratos.
SignInAndReturn(g, u) ==
    /\ \/ Grant!SignIn(g, u)
       \/ g \notin denied /\ Grant!HandCode(g, u)
    /\ UNCHANGED <<denied, start, ctxs, states, px, rt, sessions, exchanger, history>>

\* redirectError: the browser is sent to Kratos with an error and the state.
Deny(g) ==
    /\ flowOf[g] # None
    /\ coded[g] = {}
    /\ denied' = denied \cup {g}
    /\ UNCHANGED <<flowOf, asserted, coded, tokens, start, ctxs, states, px, rt, sessions,
                   exchanger, history>>

-----------------------------------------------------------------------------
(* proxyKratos, with expandTelegramCallbackURL and ConsumeOIDCState.  The  *)
(* state is consumed whether the URL carries a code or an error.           *)

ProxyRunning(q) == px[q].pc \in {"delete", "kratos"}

\* Mutant: the latest row is taken for the row of the short state.
ProxyReadsAnyRow(q, g) ==
    /\ px[q].pc = "idle"
    /\ coded[g] # {} \/ g \in denied
    /\ \E f \in states :
          px' = [px EXCEPT ![q] = [pc |-> "delete", grant |-> g, flow |-> f]]
    /\ UNCHANGED <<start, ctxs, states, broker, rt, sessions, exchanger, history>>

\* GetItem finds the row of the short state.
ProxyReads(q, g) ==
    /\ px[q].pc = "idle"
    /\ coded[g] # {} \/ g \in denied
    /\ flowOf[g] \in states
    /\ px' = [px EXCEPT ![q] = [pc |-> "delete", grant |-> g, flow |-> flowOf[g]]]
    /\ kept' = kept \cup
          {flowOf[g] : p \in {o \in Proxies : px[o].pc = "delete" /\ px[o].flow = flowOf[g]}}
    /\ UNCHANGED <<start, ctxs, states, broker, rt, sessions, exchanger, expired, faulted>>

\* There is no row, or it cannot be read: the URL goes to Kratos as it came.
ProxyMisses(q, g) ==
    /\ px[q].pc = "idle"
    /\ coded[g] # {} \/ g \in denied
    /\ px' = [px EXCEPT ![q] = [pc |-> "kratos", grant |-> g,
                                flow |-> IF flowOf[g] \in Whole THEN flowOf[g] ELSE None]]
    /\ faulted' = IF flowOf[g] \in states THEN faulted \cup {flowOf[g]} ELSE faulted
    /\ UNCHANGED <<start, ctxs, states, broker, rt, sessions, exchanger, kept, expired>>

\* Mutant: the delete is left to the table's ttl.
ProxyLeaves(q) ==
    /\ px[q].pc = "delete"
    /\ px' = [px EXCEPT ![q].pc = "kratos"]
    /\ UNCHANGED <<start, ctxs, states, broker, rt, sessions, exchanger, history>>

\* DeleteItem, with no condition on what is there.
ProxyDeletes(q) ==
    /\ px[q].pc = "delete"
    /\ states' = states \ {px[q].flow}
    /\ px' = [px EXCEPT ![q].pc = "kratos"]
    /\ UNCHANGED <<start, ctxs, broker, rt, sessions, exchanger, history>>

\* Mutant: without a deletion there is no state.
ProxyDeleteFailsHard(q) ==
    /\ px[q].pc = "delete"
    /\ px' = [px EXCEPT ![q].pc = "kratos", ![q].flow = None]
    /\ kept' = kept \cup {px[q].flow}
    /\ UNCHANGED <<start, ctxs, states, broker, rt, sessions, exchanger, expired, faulted>>

\* Its error is ignored.
ProxyDeleteFails(q) ==
    /\ px[q].pc = "delete"
    /\ px' = [px EXCEPT ![q].pc = "kratos"]
    /\ kept' = kept \cup {px[q].flow}
    /\ UNCHANGED <<start, ctxs, states, broker, rt, sessions, exchanger, expired, faulted>>

\* Mutant: the broker redeems a code again.
RedeemsAgain(q) ==
    \E u \in coded[px[q].grant] :
        /\ tokens' = [tokens EXCEPT ![px[q].grant] = @ \cup
                        {[request |-> q, nonce |-> flowOf[px[q].grant], subject |-> u]}]
        /\ UNCHANGED <<flowOf, asserted, coded, denied>>

\* Kratos' call of the broker's token endpoint.
Redeems(q) == Grant!Redeem(px[q].grant, q) /\ UNCHANGED denied

\* Kratos knows the state, redeems the code, finds the nonce of the flow in the
\* ID token, makes a session and attaches it to the flow's exchange codes.  The
\* browser is sent to the return page, unless the answer is lost.
KratosCompletes(q, s) ==
    /\ px[q].pc = "kratos"
    /\ px[q].flow # None
    /\ sessions[s] = None
    /\ Redeems(q)
    /\ \E tok \in tokens'[px[q].grant] :
          /\ tok.request = q
          /\ tok.nonce = px[q].flow
          /\ sessions' = [sessions EXCEPT ![s] =
                            [flow |-> px[q].flow, grant |-> px[q].grant, user |-> tok.subject]]
    /\ exchanger' = [exchanger EXCEPT ![px[q].flow] = s]
    /\ \E pc \in {"answered", "failed"} : px' = [px EXCEPT ![q].pc = pc]
    /\ UNCHANGED <<start, ctxs, states, rt, history>>

\* Kratos could have completed the login.
Redeemable(q) == px[q].flow # None /\ coded[px[q].grant] # {} /\ tokens[px[q].grant] = {}

\* Kratos refuses, or does not answer, before or after it redeemed the code.
KratosRefuses(q) ==
    /\ px[q].pc = "kratos"
    /\ px' = [px EXCEPT ![q].pc = "failed"]
    /\ \/ UNCHANGED broker
       \/ px[q].flow # None /\ Redeems(q)
    /\ faulted' = IF Redeemable(q) THEN faulted \cup {px[q].flow} ELSE faulted
    /\ UNCHANGED <<start, ctxs, states, rt, sessions, exchanger, kept, expired>>

-----------------------------------------------------------------------------
(* handleOIDCReturn, with the ctx and the code of Kratos' redirect.        *)

ReturnRunning(r) == rt[r].pc \in {"exchange", "whoami"}
Redirected(f) == \E q \in Proxies : px[q].pc = "answered" /\ px[q].flow = f

\* GetOIDCContext finds the init code; its ttl is not looked at.
ReturnReads(r, f) ==
    /\ rt[r].pc = "idle"
    /\ Redirected(f)
    /\ f \in ctxs
    /\ rt' = [rt EXCEPT ![r].pc = "exchange", ![r].flow = f]
    /\ UNCHANGED <<start, ctxs, states, broker, px, sessions, exchanger, history>>

\* There is no context, or it cannot be read.
ReturnMisses(r, f) ==
    /\ rt[r].pc = "idle"
    /\ Redirected(f)
    /\ rt' = [rt EXCEPT ![r].pc = "ctx_missing", ![r].flow = f]
    /\ UNCHANGED <<start, ctxs, states, broker, px, sessions, exchanger, history>>

\* Mutant: the token the browser came with is used when there is one.
ReturnPrefersCookie(r) ==
    /\ rt[r].pc = "exchange"
    /\ \E s \in SessionIds :
          /\ sessions[s] # None
          /\ rt' = [rt EXCEPT ![r].pc = "whoami", ![r].session = s]
    /\ UNCHANGED <<start, ctxs, states, broker, px, sessions, exchanger, history>>

\* ExchangeSessionToken: Kratos takes init code and return code of one flow.
ReturnExchanges(r) ==
    /\ rt[r].pc = "exchange"
    /\ exchanger[rt[r].flow] # None
    /\ rt' = [rt EXCEPT ![r].pc = "whoami", ![r].session = exchanger[rt[r].flow]]
    /\ UNCHANGED <<start, ctxs, states, broker, px, sessions, exchanger, history>>

\* WhoAmI accepts the token; the cookie is set and the page hands it over.
ReturnAnswers(r) ==
    /\ rt[r].pc = "whoami"
    /\ rt' = [rt EXCEPT ![r].pc = "ok"]
    /\ UNCHANGED <<start, ctxs, states, broker, px, sessions, exchanger, history>>

\* Mutant: the error of the exchange is ignored.
ReturnFailsOpen(r) ==
    /\ ReturnRunning(r)
    /\ rt' = [rt EXCEPT ![r].pc = IF @ = "exchange" THEN "whoami" ELSE "failed"]
    /\ UNCHANGED <<start, ctxs, states, broker, px, sessions, exchanger, history>>

\* The exchange or WhoAmI fails.
ReturnFails(r) ==
    /\ ReturnRunning(r)
    /\ rt' = [rt EXCEPT ![r].pc = "failed"]
    /\ UNCHANGED <<start, ctxs, states, broker, px, sessions, exchanger, history>>

-----------------------------------------------------------------------------
\* DynamoDB removes a row 30 minutes old: the browser may take any time.
DynamoExpires(f) ==
    /\ \/ f \in ctxs /\ ctxs' = ctxs \ {f} /\ UNCHANGED states
       \/ f \in states /\ states' = states \ {f} /\ UNCHANGED ctxs
    /\ expired' = expired \cup {f}
    /\ UNCHANGED <<start, broker, px, rt, sessions, exchanger, kept, faulted>>

StartRunning(f) == start[f] \in {"context", "submit", "shorten"}

\* The service ends and starts again; requests in progress are not answered.
Restart ==
    /\ \/ \E f \in Flows : StartRunning(f)
       \/ \E q \in Proxies : ProxyRunning(q)
       \/ \E r \in Returns : ReturnRunning(r)
    /\ start' = [f \in Flows |-> IF StartRunning(f) THEN "failed" ELSE start[f]]
    /\ px' = [q \in Proxies |-> IF ProxyRunning(q) THEN [px[q] EXCEPT !.pc = "dropped"] ELSE px[q]]
    /\ rt' = [r \in Returns |-> IF ReturnRunning(r) THEN [rt[r] EXCEPT !.pc = "dropped"] ELSE rt[r]]
    /\ faulted' = faulted \cup {px[q].flow : q \in {o \in Proxies : ProxyRunning(o) /\ px[o].flow # None}}
    /\ UNCHANGED <<ctxs, states, broker, sessions, exchanger, kept, expired>>

StartStep(f) ==
    StartFlow(f) \/ StartSavesContext(f) \/ StartSubmits(f) \/ StartShortens(f) \/ StartFails(f)

ProxyStarts(q) == \E g \in Grants : ProxyReads(q, g) \/ ProxyMisses(q, g)

ProxyContinues(q) ==
    \/ ProxyDeletes(q) \/ ProxyDeleteFails(q)
    \/ \E s \in SessionIds : KratosCompletes(q, s)
    \/ KratosRefuses(q)

ReturnStep(r) ==
    \/ \E f \in Flows : ReturnReads(r, f) \/ ReturnMisses(r, f)
    \/ ReturnExchanges(r) \/ ReturnAnswers(r) \/ ReturnFails(r)

Next ==
    \/ \E f \in Flows : StartStep(f) \/ DynamoExpires(f) \/ \E g \in Grants : Authorize(g, f)
    \/ \E g \in Grants : Deny(g) \/ \E u \in Users : SignInAndReturn(g, u)
    \/ \E q \in Proxies : ProxyStarts(q) \/ ProxyContinues(q)
    \/ \E r \in Returns : ReturnStep(r)
    \/ Restart

Spec == Init /\ [][Next]_vars

\* A load of the callback that has started goes on: its waits on DynamoDB end by
\* the SDK's timeout, and Kratos answers or the connection to it breaks.
Fairness == \A q \in Proxies : WF_vars(ProxyContinues(q))

FairSpec == Spec /\ Fairness
-----------------------------------------------------------------------------
(* Properties                                                              *)

\* The token that a return page hands over is that of a session which Kratos made
\* for the flow of its own start request, for a user Telegram signed in on a
\* grant opened from that start request.
TokenOfOwnStart ==
    \A r \in Returns : rt[r].pc = "ok" =>
        LET session == sessions[rt[r].session] IN
        /\ session.flow = rt[r].flow
        /\ flowOf[session.grant] = rt[r].flow
        /\ session.user \in asserted[session.grant]

\* However often the browser loads the callback, and though two loads may both
\* read the state row before either deletes it, one sign-in at Telegram makes at
\* most one Kratos session.
OneSessionPerSignIn ==
    \A s, o \in SessionIds :
        /\ sessions[s] # None /\ sessions[o] # None
        /\ sessions[s].grant = sessions[o].grant
        => s = o

\* One start request makes at most one session even if the user signs in twice
\* from it, because its state is consumed; unless the state row was read twice
\* before its deletion or the deletion failed, or the state was never shortened.
OneSessionPerStart ==
    \A s, o \in SessionIds :
        /\ sessions[s] # None /\ sessions[o] # None
        /\ sessions[s].flow = sessions[o].flow
        /\ sessions[s].flow \notin kept \cup Whole
        => s = o

\* A browser that Kratos sends to the return page finds its context there: the
\* start request has saved it before it gave the redirect away.
ContextAwaitsReturn ==
    \A f \in Flows : Redirected(f) => f \in ctxs \cup expired

\* A load of the callback that is at work with the state of flow f.
Holds(q, f) == ProxyRunning(q) /\ px[q].flow = f

\* A sign-in of flow f was redeemed or denied.
Settled(f) == \E h \in Grants : flowOf[h] = f /\ (tokens[h] # {} \/ h \in denied)

\* Loads of the callback do not spoil each other: when one has started with a
\* code, a code of the flow is redeemed, by this load or by another, unless a
\* call failed, a row expired or a sign-in of the flow was denied.
CallbackCounts ==
    \A g \in Grants :
        (\E q \in Proxies : ProxyRunning(q) /\ px[q].grant = g) /\ coded[g] # {} ~>
            Settled(flowOf[g]) \/ flowOf[g] \in faulted \cup expired

\* Nothing of flow f is left undone.
Accounted(f) ==
    \/ Settled(f)
    \/ \E p \in Proxies : Holds(p, f)
    \/ f \in faulted \cup expired

\* A load that came too late for the state row, and is refused by Kratos, leaves
\* nothing undone: a sign-in of its flow is settled, or another load is at work
\* with the state, unless a call failed or a row expired.
CallbackNotLost ==
    \A q \in Proxies : px[q].pc # "idle" => Accounted(flowOf[px[q].grant])
-----------------------------------------------------------------------------
(* The inductive invariant behind the safety properties.                   *)

\* A start request saves its context before it gives the redirect away, and only
\* a redirect given away opens a grant.
StartInv ==
    /\ \A f \in Flows : start[f] \in {"submit", "shorten", "sent"} => f \in ctxs \cup expired
    /\ \A g \in Grants : flowOf[g] # None => start[flowOf[g]] = "sent"

\* The broker hands out a code for a user who signed in.
GrantInv ==
    \A g \in Grants : coded[g] \subseteq asserted[g]

\* A load of the callback holds the flow its grant was opened for, or none.
ProxyInv ==
    \A q \in Proxies : px[q].pc # "idle" =>
        /\ flowOf[px[q].grant] # None
        /\ px[q].flow \in {flowOf[px[q].grant], None}

\* A session stands on a redeemed grant of its flow; exchange codes and return
\* pages lead to a session of their own flow.
SessionInv ==
    /\ \A s \in SessionIds : sessions[s] # None =>
          /\ tokens[sessions[s].grant] # {}
          /\ flowOf[sessions[s].grant] = sessions[s].flow
          /\ sessions[s].user \in asserted[sessions[s].grant]
    /\ \A f \in Flows : exchanger[f] # None =>
          sessions[exchanger[f]] # None /\ sessions[exchanger[f]].flow = f
    /\ \A r \in Returns : rt[r].pc \in {"whoami", "ok"} =>
          sessions[rt[r].session] # None /\ sessions[rt[r].session].flow = rt[r].flow

HasSession(f) == \E s \in SessionIds : sessions[s] # None /\ sessions[s].flow = f

\* The state row of a flow, a load that took it, and a session made with it
\* exclude each other.
StateInv ==
    \A f \in Flows \ (kept \cup Whole) :
        /\ \A q, p \in Proxies : Holds(q, f) /\ Holds(p, f) => q = p
        /\ \A q \in Proxies : Holds(q, f) => ~HasSession(f)
        /\ f \in states => ~HasSession(f) /\ \A q \in Proxies : Holds(q, f) => px[q].pc = "delete"

\* A load has a code or an error of its grant; and the state of a flow whose
\* redirect was given away is in its row, or in a load, unless it did its work.
CallbackInv ==
    /\ \A q \in Proxies : px[q].pc # "idle" => coded[px[q].grant] # {} \/ px[q].grant \in denied
    /\ \A f \in Flows \ Whole : start[f] = "sent" => f \in states \/ Accounted(f)

CoreInv ==
    /\ StartInv /\ GrantInv /\ ProxyInv /\ SessionInv /\ StateInv
    /\ OneSessionPerSignIn /\ OneSessionPerStart

LoginInv == CoreInv /\ CallbackInv /\ CallbackNotLost
=============================================================================
