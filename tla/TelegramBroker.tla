--------------------------- MODULE TelegramBroker ---------------------------
(***************************************************************************)
(* The Telegram OIDC broker of the auth service (broker.go) with the two   *)
(* DynamoDB tables it keeps its state in (store.go).  The broker stands    *)
(* between Kratos, which sees an OIDC provider, and Telegram, which sees a *)
(* relying party.  Every HTTP request is a process of its own: the browser *)
(* may reload a callback, Kratos' OAuth2 client may repeat a token call,   *)
(* and all of them run concurrently on the same two tables.                *)
(*                                                                         *)
(* One login flow of Kratos stands for the three values Kratos derives for *)
(* it: its state, its nonce and its PKCE pair.  One upstream state stands  *)
(* for the state, nonce and PKCE verifier which Authorize draws together.  *)
(* A random value is one that was never drawn before.  Client credentials, *)
(* redirect URIs and scopes are compared with constants of the             *)
(* configuration; a request that fails those comparisons changes nothing   *)
(* and is left out.                                                        *)
(***************************************************************************)
EXTENDS Naturals

CONSTANTS
    Flows,       \* login flows of Kratos
    States,      \* upstream states the broker may draw
    Codes,       \* broker codes the broker may draw
    Users,       \* Telegram accounts
    Callbacks,   \* requests to GET /oidc/telegram/callback
    Tokens,      \* requests to POST /internal/oidc/telegram/token
    AuthTTL,     \* life of an authorization, in clock ticks (10 minutes)
    CodeTTL,     \* life of a broker code, in clock ticks (2 minutes)
    MaxNow,      \* bound on the clock
    None         \* absence of a value

VARIABLES
    now,         \* time.Now().Unix() of the auth service, in ticks
    flowOf,      \* flowOf[s]: flow for which Authorize drew s, None if undrawn
    redirected,  \* upstream states handed to the browser
    auths,       \* table poc_telegram_broker_auth
    replies,     \* redirects from Telegram to the callback, kept by browsers
    spent,       \* Telegram codes that Telegram has redeemed
    drawn,       \* broker codes drawn so far
    codes,       \* table poc_telegram_broker_code
    cb,          \* the callback requests
    tk           \* the token requests

vars == <<now, flowOf, redirected, auths, replies, spent, drawn, codes, cb, tk>>

-----------------------------------------------------------------------------
(* Records.  The key of a table is the first field of its record.          *)

BrokerAuthorization ==
    [upstreamState : States, clientState : Flows, nonce : Flows,
     codeChallenge : Flows, upstreamNonce : States, codeVerifier : States,
     ttl : Nat]

BrokerCode ==
    [code : Codes, codeChallenge : Flows, nonce : Flows, subject : Users,
     ttl : Nat]

\* A redirect of Telegram: the state and either a code, identified by the
\* state and the user it was given for, or an error (no user).
Reply == [state : States, user : Users \cup {None}]

CallbackPc == {"idle", "exchange", "validate", "save",
               "code", "error", "bad_request", "dropped"}

CallbackRequest ==
    [pc : CallbackPc,
     reply : Reply \cup {None},             \* query parameters
     rec : BrokerAuthorization \cup {None}, \* the consumed authorization
     idNonce : States \cup {None},          \* nonce claim of Telegram's ID token
     sub : Users \cup {None},               \* sub claim of Telegram's ID token
     code : Codes \cup {None}]              \* broker code sent to Kratos

TokenPc == {"idle", "delete", "verify",
            "issued", "invalid_grant", "server_error", "dropped"}

TokenRequest ==
    [pc : TokenPc,
     code : Codes \cup {None},              \* form value code
     verifier : Flows \cup {None},          \* flow whose code_verifier is sent
     rec : BrokerCode \cup {None}]          \* the record read from the table

ASSUME NoneAssumption ==
    /\ None \notin Flows \cup States \cup Codes \cup Users
    /\ None \notin Reply
    /\ None \notin BrokerAuthorization
    /\ None \notin BrokerCode

ASSUME BoundAssumption == AuthTTL \in Nat /\ CodeTTL \in Nat /\ MaxNow \in Nat

TypeOK ==
    /\ now \in 0..MaxNow
    /\ flowOf \in [States -> Flows \cup {None}]
    /\ redirected \subseteq States
    /\ auths \subseteq BrokerAuthorization
    /\ replies \subseteq Reply
    /\ spent \subseteq Reply
    /\ drawn \subseteq Codes
    /\ codes \subseteq BrokerCode
    /\ cb \in [Callbacks -> CallbackRequest]
    /\ tk \in [Tokens -> TokenRequest]
    \* what a request holds at each point of its handler
    /\ \A c \in Callbacks :
          /\ cb[c].pc # "idle" => cb[c].reply # None
          /\ cb[c].pc \in {"exchange", "validate", "save", "code", "error"} => cb[c].rec # None
          /\ cb[c].pc \in {"save", "code"} => cb[c].sub # None
    /\ \A t \in Tokens : tk[t].pc \in {"delete", "verify", "issued"} => tk[t].rec # None

Init ==
    /\ now = 0
    /\ flowOf = [s \in States |-> None]
    /\ redirected = {}
    /\ auths = {}
    /\ replies = {}
    /\ spent = {}
    /\ drawn = {}
    /\ codes = {}
    /\ cb = [c \in Callbacks |->
               [pc |-> "idle", reply |-> None, rec |-> None,
                idNonce |-> None, sub |-> None, code |-> None]]
    /\ tk = [t \in Tokens |->
               [pc |-> "idle", code |-> None, verifier |-> None, rec |-> None]]

Expired(rec) == rec.ttl < now

-----------------------------------------------------------------------------
(* GET /oidc/telegram/authorize.  Reloading the page draws another state   *)
(* for the same flow.                                                      *)

\* SaveBrokerAuthorization succeeds, fails, or succeeds with its answer lost.
Authorize(f, s) ==
    /\ flowOf[s] = None
    /\ flowOf' = [flowOf EXCEPT ![s] = f]
    /\ LET rec == [upstreamState |-> s, clientState |-> f, nonce |-> f,
                   codeChallenge |-> f, upstreamNonce |-> s,
                   codeVerifier |-> s, ttl |-> now + AuthTTL]
       IN \/ /\ auths' = auths \cup {rec}
             /\ redirected' = redirected \cup {s}
          \/ /\ auths' \in {auths, auths \cup {rec}}
             /\ UNCHANGED redirected
    /\ UNCHANGED <<now, replies, spent, drawn, codes, cb, tk>>

\* External: a browser that was sent to Telegram comes back, signed in as u or
\* (u = None) with an error or without a code.
TelegramReplies(s, u) ==
    /\ s \in redirected
    /\ replies' = replies \cup {[state |-> s, user |-> u]}
    /\ UNCHANGED <<now, flowOf, redirected, auths, spent, drawn, codes, cb, tk>>

-----------------------------------------------------------------------------
(* GET /oidc/telegram/callback.  A reply may be delivered any number of    *)
(* times.  Each store call and each call to Telegram is a step.            *)

Goto(c, pc) == cb' = [cb EXCEPT ![c].pc = pc]

\* ConsumeBrokerAuthorization finds no record, or DynamoDB does not answer and
\* has not deleted it.
CallbackUnknown(c, r) ==
    /\ cb[c].pc = "idle"
    /\ cb' = [cb EXCEPT ![c].pc = "bad_request", ![c].reply = r]
    /\ UNCHANGED <<now, flowOf, redirected, auths, replies, spent, drawn, codes, tk>>

\* The record is deleted, but it had expired or the answer was lost.
CallbackLoses(c, r) ==
    /\ cb[c].pc = "idle"
    /\ \E rec \in auths :
          /\ rec.upstreamState = r.state
          /\ auths' = auths \ {rec}
    /\ cb' = [cb EXCEPT ![c].pc = "bad_request", ![c].reply = r]
    /\ UNCHANGED <<now, flowOf, redirected, replies, spent, drawn, codes, tk>>

\* Mutant: the authorization is read and left in the table.
CallbackPeeks(c, r) ==
    /\ cb[c].pc = "idle"
    /\ \E rec \in auths :
          /\ rec.upstreamState = r.state
          /\ ~Expired(rec)
          /\ cb' = [cb EXCEPT ![c].pc = IF r.user = None THEN "error" ELSE "exchange",
                              ![c].reply = r,
                              ![c].rec = rec]
    /\ UNCHANGED <<now, flowOf, redirected, auths, replies, spent, drawn, codes, tk>>

\* The record is deleted and handed to this request alone.  An error or a
\* missing code in the reply ends the login; redirectError tells Kratos.
CallbackTakes(c, r) ==
    /\ cb[c].pc = "idle"
    /\ \E rec \in auths :
          /\ rec.upstreamState = r.state
          /\ ~Expired(rec)
          /\ auths' = auths \ {rec}
          /\ cb' = [cb EXCEPT ![c].pc = IF r.user = None THEN "error" ELSE "exchange",
                              ![c].reply = r,
                              ![c].rec = rec]
    /\ UNCHANGED <<now, flowOf, redirected, replies, spent, drawn, codes, tk>>

\* exchangeTelegramCode.  Telegram redeems an unspent code for the verifier of
\* the challenge it was given; its ID token may lack the nonce or the subject.
CallbackExchanges(c) ==
    /\ cb[c].pc = "exchange"
    /\ cb[c].reply \notin spent
    /\ cb[c].rec.codeVerifier = cb[c].reply.state
    /\ spent' = spent \cup {cb[c].reply}
    /\ \E nonce \in {cb[c].reply.state, None}, sub \in {cb[c].reply.user, None} :
          cb' = [cb EXCEPT ![c].pc = "validate", ![c].idNonce = nonce, ![c].sub = sub]
    /\ UNCHANGED <<now, flowOf, redirected, auths, replies, drawn, codes, tk>>

\* Mutant: the login may be tried again after a failed exchange.
CallbackRestores(c) ==
    /\ cb[c].pc = "exchange"
    /\ auths' = auths \cup {cb[c].rec}
    /\ Goto(c, "error")
    /\ UNCHANGED <<now, flowOf, redirected, replies, spent, drawn, codes, tk>>

\* Telegram refuses, or the 10 second client timeout fires, possibly after
\* Telegram has redeemed the code.
CallbackExchangeFails(c) ==
    /\ cb[c].pc = "exchange"
    /\ Goto(c, "error")
    /\ spent' \in {spent, spent \cup {cb[c].reply}}
    /\ UNCHANGED <<now, flowOf, redirected, auths, replies, drawn, codes, tk>>

\* Mutant: the subject is not checked.
CallbackValidatesNonce(c) ==
    /\ cb[c].pc = "validate"
    /\ cb[c].idNonce = cb[c].rec.upstreamNonce
    /\ Goto(c, "save")
    /\ UNCHANGED <<now, flowOf, redirected, auths, replies, spent, drawn, codes, tk>>

\* validateTelegramIDToken, with the fetch of Telegram's JWKS, and the check
\* that a subject is present.
CallbackValidates(c) ==
    /\ cb[c].pc = "validate"
    /\ cb[c].idNonce = cb[c].rec.upstreamNonce
    /\ cb[c].sub # None
    /\ Goto(c, "save")
    /\ UNCHANGED <<now, flowOf, redirected, auths, replies, spent, drawn, codes, tk>>

\* The nonce or the subject is not acceptable, or the keys cannot be fetched.
CallbackInvalid(c) ==
    /\ cb[c].pc = "validate"
    /\ Goto(c, "error")
    /\ UNCHANGED <<now, flowOf, redirected, auths, replies, spent, drawn, codes, tk>>

\* Mutant: the broker's own nonce is stored for Kratos' nonce.
OwnNonceBrokerCode(c, k) ==
    [code |-> k, codeChallenge |-> cb[c].rec.codeChallenge,
     nonce |-> cb[c].rec.upstreamNonce, subject |-> cb[c].sub, ttl |-> now + CodeTTL]

NewBrokerCode(c, k) ==
    [code |-> k, codeChallenge |-> cb[c].rec.codeChallenge,
     nonce |-> cb[c].rec.nonce, subject |-> cb[c].sub, ttl |-> now + CodeTTL]

\* SaveBrokerCode succeeds and the browser is sent to Kratos with the code and
\* the client state; or it fails, possibly with the record written.
CallbackSaves(c, k) ==
    /\ cb[c].pc = "save"
    /\ k \notin drawn
    /\ drawn' = drawn \cup {k}
    /\ codes' = codes \cup {NewBrokerCode(c, k)}
    /\ cb' = [cb EXCEPT ![c].pc = "code", ![c].code = k]
    /\ UNCHANGED <<now, flowOf, redirected, auths, replies, spent, tk>>

CallbackSaveFails(c, k) ==
    /\ cb[c].pc = "save"
    /\ k \notin drawn
    /\ drawn' = drawn \cup {k}
    /\ codes' \in {codes, codes \cup {NewBrokerCode(c, k)}}
    /\ Goto(c, "error")
    /\ UNCHANGED <<now, flowOf, redirected, auths, replies, spent, tk>>

-----------------------------------------------------------------------------
(* POST /internal/oidc/telegram/token.  Kratos sends a code it was handed, *)
(* as often as it likes, with the PKCE verifier of some flow.              *)

Handed == {k \in Codes : \E c \in Callbacks : cb[c].pc = "code" /\ cb[c].code = k}

\* Mutant: expiry is left to DynamoDB.
TokenReadsAnyAge(t, k, f) ==
    /\ tk[t].pc = "idle"
    /\ \E rec \in codes :
          /\ rec.code = k
          /\ tk' = [tk EXCEPT ![t] = [pc |-> "delete", code |-> k, verifier |-> f, rec |-> rec]]
    /\ UNCHANGED <<now, flowOf, redirected, auths, replies, spent, drawn, codes, cb>>

\* ConsumeBrokerCode, first half: GetItem finds the record in its lifetime.
TokenReads(t, k, f) ==
    /\ tk[t].pc = "idle"
    /\ \E rec \in codes :
          /\ rec.code = k
          /\ ~Expired(rec)
          /\ tk' = [tk EXCEPT ![t] = [pc |-> "delete", code |-> k, verifier |-> f, rec |-> rec]]
    /\ UNCHANGED <<now, flowOf, redirected, auths, replies, spent, drawn, codes, cb>>

\* GetItem fails, finds nothing, or finds an expired record.
TokenMisses(t, k, f) ==
    /\ tk[t].pc = "idle"
    /\ tk' = [tk EXCEPT ![t].pc = "invalid_grant", ![t].code = k, ![t].verifier = f]
    /\ UNCHANGED <<now, flowOf, redirected, auths, replies, spent, drawn, codes, cb>>

\* Mutant: the DeleteItem has no condition.
TokenDeletesAnyway(t) ==
    /\ tk[t].pc = "delete"
    /\ codes' = {rec \in codes : rec.code # tk[t].code}
    /\ tk' = [tk EXCEPT ![t].pc = "verify"]
    /\ UNCHANGED <<now, flowOf, redirected, auths, replies, spent, drawn, cb>>

\* ConsumeBrokerCode, second half: the conditional DeleteItem.
TokenDeletes(t) ==
    /\ tk[t].pc = "delete"
    /\ \E rec \in codes :
          /\ rec.code = tk[t].code
          /\ codes' = codes \ {rec}
    /\ tk' = [tk EXCEPT ![t].pc = "verify"]
    /\ UNCHANGED <<now, flowOf, redirected, auths, replies, spent, drawn, cb>>

\* The condition does not hold, or DynamoDB fails before or after deleting.
TokenDeleteFails(t) ==
    /\ tk[t].pc = "delete"
    /\ codes' \in {codes, {rec \in codes : rec.code # tk[t].code}}
    /\ tk' = [tk EXCEPT ![t].pc = "invalid_grant"]
    /\ UNCHANGED <<now, flowOf, redirected, auths, replies, spent, drawn, cb>>

\* Mutant: the PKCE verifier is not compared.
TokenIssuesUnproven(t) ==
    /\ tk[t].pc = "verify"
    /\ tk' = [tk EXCEPT ![t].pc = "issued"]
    /\ UNCHANGED <<now, flowOf, redirected, auths, replies, spent, drawn, codes, cb>>

\* The PKCE check comes after the code is gone; then SignOIDC.
TokenIssues(t) ==
    /\ tk[t].pc = "verify"
    /\ tk[t].verifier = tk[t].rec.codeChallenge
    /\ tk' = [tk EXCEPT ![t].pc = "issued"]
    /\ UNCHANGED <<now, flowOf, redirected, auths, replies, spent, drawn, codes, cb>>

TokenRefuses(t) ==
    /\ tk[t].pc = "verify"
    /\ tk' = [tk EXCEPT ![t].pc = IF tk[t].verifier = tk[t].rec.codeChallenge
                                  THEN "server_error" ELSE "invalid_grant"]
    /\ UNCHANGED <<now, flowOf, redirected, auths, replies, spent, drawn, codes, cb>>

-----------------------------------------------------------------------------
(* Time, the asynchronous expiry of DynamoDB, and restarts of the service. *)

Tick ==
    /\ now < MaxNow
    /\ now' = now + 1
    /\ UNCHANGED <<flowOf, redirected, auths, replies, spent, drawn, codes, cb, tk>>

\* DynamoDB may delete an item some time after its ttl, or never.
DynamoExpires ==
    /\ \/ \E rec \in auths : Expired(rec) /\ auths' = auths \ {rec} /\ UNCHANGED codes
       \/ \E rec \in codes : Expired(rec) /\ codes' = codes \ {rec} /\ UNCHANGED auths
    /\ UNCHANGED <<now, flowOf, redirected, replies, spent, drawn, cb, tk>>

CallbackRunning(c) == cb[c].pc \in {"exchange", "validate", "save"}
TokenRunning(t) == tk[t].pc \in {"delete", "verify"}

\* The process ends and is started again: requests in progress get no answer.
Restart ==
    /\ (\E c \in Callbacks : CallbackRunning(c)) \/ (\E t \in Tokens : TokenRunning(t))
    /\ cb' = [c \in Callbacks |-> IF CallbackRunning(c) THEN [cb[c] EXCEPT !.pc = "dropped"] ELSE cb[c]]
    /\ tk' = [t \in Tokens |-> IF TokenRunning(t) THEN [tk[t] EXCEPT !.pc = "dropped"] ELSE tk[t]]
    /\ UNCHANGED <<now, flowOf, redirected, auths, replies, spent, drawn, codes>>

-----------------------------------------------------------------------------
CallbackStarts(c) == \E r \in replies :
    CallbackUnknown(c, r) \/ CallbackLoses(c, r) \/ CallbackTakes(c, r)

CallbackContinues(c) ==
    \/ CallbackExchanges(c) \/ CallbackExchangeFails(c)
    \/ CallbackValidates(c) \/ CallbackInvalid(c)
    \/ \E k \in Codes : CallbackSaves(c, k) \/ CallbackSaveFails(c, k)

TokenStarts(t) == \E k \in Handed, f \in Flows : TokenReads(t, k, f) \/ TokenMisses(t, k, f)

TokenContinues(t) ==
    TokenDeletes(t) \/ TokenDeleteFails(t) \/ TokenIssues(t) \/ TokenRefuses(t)

Next ==
    \/ \E f \in Flows, s \in States : Authorize(f, s)
    \/ \E s \in States, u \in Users \cup {None} : TelegramReplies(s, u)
    \/ \E c \in Callbacks : CallbackStarts(c) \/ CallbackContinues(c)
    \/ \E t \in Tokens : TokenStarts(t) \/ TokenContinues(t)
    \/ Tick
    \/ DynamoExpires
    \/ Restart

Spec == Init /\ [][Next]_vars

-----------------------------------------------------------------------------
(* Properties                                                              *)

Took(c) == cb[c].rec # None         \* c consumed its authorization
HandedBy(c) == cb[c].pc = "code"    \* c sent a broker code to Kratos
Issued(t) == tk[t].pc = "issued"    \* t was answered with an ID token
From(t, c) == HandedBy(c) /\ cb[c].code = tk[t].code

\* "It is consumed exactly once" (BrokerAuthorization): no two callbacks work on
\* the same authorization, however often the browser delivers the reply.
AuthorizationConsumedOnce ==
    \A c, d \in Callbacks :
        Took(c) /\ Took(d) /\ cb[c].reply.state = cb[d].reply.state => c = d

\* One Telegram login yields at most one ID token, however often callback and
\* token calls are repeated and however they interleave.
OneIDTokenPerLogin ==
    \A t, u \in Tokens : \A c, d \in Callbacks :
        /\ Issued(t) /\ From(t, c)
        /\ Issued(u) /\ From(u, d)
        /\ cb[c].reply.state = cb[d].reply.state
        => t = u

\* An ID token carries the nonce of the flow whose verifier redeemed it, its
\* code went back to that flow's client state, the authorization was opened for
\* that flow, and its subject is a user Telegram signed in for it.
TokenMatchesLogin ==
    \A t \in Tokens : Issued(t) =>
        \E c \in Callbacks :
            /\ From(t, c)
            /\ tk[t].rec.nonce = tk[t].verifier
            /\ cb[c].rec.clientState = tk[t].verifier
            /\ flowOf[cb[c].reply.state] = tk[t].verifier
            /\ tk[t].rec.subject = cb[c].reply.user
            /\ [state |-> cb[c].reply.state, user |-> tk[t].rec.subject] \in replies

\* A login that Kratos was told has failed never yields an ID token: neither a
\* reload of the callback nor a code whose save was reported as failed revives it.
ErrorEndsLogin ==
    \A c \in Callbacks, t \in Tokens, d \in Callbacks :
        cb[c].pc = "error" /\ Issued(t) /\ From(t, d)
            => cb[c].reply.state # cb[d].reply.state

\* Consumed or expired, and no request holds what was read before.
DeadAuthorization(s) ==
    /\ flowOf[s] # None
    /\ \A rec \in auths : rec.upstreamState = s => Expired(rec)
    /\ \A c \in Callbacks : CallbackRunning(c) => cb[c].reply.state # s

DeadCode(k) ==
    /\ k \in drawn
    /\ \A rec \in codes : rec.code = k => Expired(rec)
    /\ \A t \in Tokens : TokenRunning(t) => tk[t].code # k

\* "TTL is checked at read time": an authorization or a code that is used up or
\* out of date is never worked on again, whatever DynamoDB's cleanup has done.
DeadStaysDead ==
    [][/\ \A s \in States : DeadAuthorization(s) => DeadAuthorization(s)'
       /\ \A k \in Codes : DeadCode(k) => DeadCode(k)']_vars

-----------------------------------------------------------------------------
(* The inductive invariant behind the safety properties.                   *)

\* A stored authorization carries the values drawn for its flow and its state,
\* and is the only one of its state; only drawn states leave the broker.
AuthInv ==
    /\ \A s \in redirected : flowOf[s] # None
    /\ \A rec \in auths :
          /\ flowOf[rec.upstreamState] = rec.clientState
          /\ rec.nonce = rec.clientState
          /\ rec.codeChallenge = rec.clientState
    /\ \A rec, other \in auths :
          rec.upstreamState = other.upstreamState => rec = other

\* A callback that consumed an authorization holds what Authorize stored, left
\* nothing in the table, and continues with the user of the reply.
CallbackInv ==
    /\ AuthorizationConsumedOnce
    /\ \A c \in Callbacks :
          /\ cb[c].pc = "idle" => ~Took(c)
          /\ Took(c) =>
               /\ cb[c].reply \in replies
               /\ flowOf[cb[c].reply.state] = cb[c].rec.clientState
               /\ cb[c].rec.nonce = cb[c].rec.clientState
               /\ cb[c].rec.codeChallenge = cb[c].rec.clientState
               /\ \A rec \in auths : rec.upstreamState # cb[c].reply.state
          /\ cb[c].pc = "validate" => cb[c].sub \in {cb[c].reply.user, None}
          /\ cb[c].pc \in {"save", "code"} => cb[c].sub = cb[c].reply.user

\* A stored code was drawn; a code handed to Kratos was drawn by one callback,
\* and what is stored under it is that callback's login.
CodeInv ==
    /\ \A rec \in codes : rec.code \in drawn
    /\ \A rec, other \in codes : rec.code = other.code => rec = other
    /\ \A c \in Callbacks : HandedBy(c) =>
          /\ cb[c].code \in drawn
          /\ \A rec \in codes : rec.code = cb[c].code =>
                /\ rec.nonce = cb[c].rec.nonce
                /\ rec.codeChallenge = cb[c].rec.codeChallenge
                /\ rec.subject = cb[c].sub
    /\ \A c, d \in Callbacks : HandedBy(c) /\ HandedBy(d) /\ cb[c].code = cb[d].code => c = d

Redeemed(t) == tk[t].pc \in {"verify", "issued"}    \* t deleted the code record

\* A token request holds a handed code and the record of its login; a redeemed
\* code is gone, and gone to one request.
TokenInv ==
    /\ \A t \in Tokens :
          /\ tk[t].pc # "idle" => \E c \in Callbacks : From(t, c)
          /\ tk[t].pc \in {"delete", "verify", "issued"} =>
               \A c \in Callbacks : From(t, c) =>
                  /\ tk[t].rec.nonce = cb[c].rec.nonce
                  /\ tk[t].rec.codeChallenge = cb[c].rec.codeChallenge
                  /\ tk[t].rec.subject = cb[c].sub
          /\ Redeemed(t) => \A rec \in codes : rec.code # tk[t].code
          /\ Issued(t) => tk[t].verifier = tk[t].rec.codeChallenge
    /\ \A t, u \in Tokens : Redeemed(t) /\ Redeemed(u) /\ tk[t].code = tk[u].code => t = u

BrokerInv == AuthInv /\ CallbackInv /\ CodeInv /\ TokenInv

-----------------------------------------------------------------------------
(* The broker implements OneShotGrant: a grant is an upstream state.       *)

AssertedFor(s) == {u \in Users : [state |-> s, user |-> u] \in replies}

CodedFor(s) ==
    {u \in Users : \E c \in Callbacks :
        HandedBy(c) /\ cb[c].reply.state = s /\ cb[c].sub = u}

TokensFor(s) ==
    {[request |-> t, nonce |-> tk[t].rec.nonce, subject |-> tk[t].rec.subject] :
        t \in {u \in Tokens : Issued(u) /\ \E c \in Callbacks :
                                  From(u, c) /\ cb[c].reply.state = s}}

Grant == INSTANCE OneShotGrant WITH
    Grants <- States,
    Requests <- Tokens,
    asserted <- [s \in States |-> AssertedFor(s)],
    coded <- [s \in States |-> CodedFor(s)],
    tokens <- [s \in States |-> TokensFor(s)]

\* The broker is a one-shot grant: at most one code and one token per login, for
\* the flow it was opened for and a user Telegram signed in.
ImplementsOneShotGrant == Grant!Spec
=============================================================================
