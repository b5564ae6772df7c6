# Verification of the Kratos proof-of-concept auth service

This directory holds TLA+ models of the auth service under `src/auth-service`, the
TLC configurations that check them on small instances, and proofs, checked by TLAPS,
of the properties that matter most for every size of instance. `PROJECT.json` lists
components, runs, the source lines behind every definition, hazards, findings and theorems.

Run `tlc -workers 2 -config <X>.cfg MC<Module>.tla` for a run and
`tlapm <Module>Proofs.tla` for a proof.

## 1. The system

A Go service (Fiber) stands in front of Ory Kratos. Kratos owns identities, credentials,
login flows and sessions. The service turns JSON requests of a web console into Kratos
self-service flows, keeps its own rows in DynamoDB, signs JWTs, and acts as an OIDC
provider towards Kratos on behalf of Telegram. The console never speaks to Kratos
itself: even the OAuth callback passes through the service.

```
 browser / console --- JSON ---> httpapi.Server ---- self-service, admin ---> Kratos ---> Postgres
        |                             |     \------- AMR update (sessionmerge) -----------^
        |                             +--- store.Store ---> DynamoDB (poc_* tables)
        +--- redirects --> telegramoidc.Broker <--- token call --- Kratos (as OIDC client)
                              +--- token exchange ---> Telegram
```

Every request runs in a goroutine of its own, no lock is held between two store calls,
and no two DynamoDB writes are in one transaction. What requests share is in DynamoDB,
in Kratos, in Kratos' Postgres database and in the browser's cookie.

| Component | State it keeps | Operations | Hard behaviour | What makes it correct |
|---|---|---|---|---|
| Telegram broker (`telegramoidc/broker.go`) | `poc_telegram_broker_auth`, `poc_telegram_broker_code` | Authorize, Callback, Token | repeated and racing callbacks and token calls; consume first, then fail; lost acknowledgements; expiry; values of two logins mixed up | one login gives at most one ID token, for its own flow and user; a login reported failed stays failed |
| User directory (`store.go`, `sessionResponse`) | `poc_users`, `poc_identity_index`, `poc_identifiers` | GetOrCreateUser, PutIdentifier, DeleteUserData | check-then-create without a condition, errors read as absence, half-done writes, traits and credentials that change apart, deletion racing with a session request | one stable user id per identity, never one id for two identities, nothing left after deletion |
| OIDC step-up (`startOIDCFlow`, `handleOIDCStepUpDone`, `mergeOIDCStepUp`, `sessionmerge`) | `poc_oidc_ctx`; Kratos' `sessions` rows | start, done, append, revoke | several tabs and devices, repeated and early done pages, guessing the extra session, errors swallowed half-way | the method lands in the session that asked for it and proved it, once; no login is lost |
| Telegram login (`startOIDCFlow`, `shortenTelegramOIDCRedirect`, `proxyKratos`, `handleOIDCReturn`) | `poc_oidc_ctx`, `poc_oidc_state` | start, proxied callback, return | state row read and deleted in two calls, callback reloaded, context lost or old | one sign-in makes one session; the return page hands over the session of its own start |
| Flow references, passkey and e-mail ceremonies | `poc_flow_refs` | start, finish, link, step-up | swallowed save errors, the kind of a flow written down in three places, any reference presented to any finish, a new cookie beside an answer for the old token, a check for a linked address three calls before it is set | a reference answered finds its flow; an answer speaks of the session the browser holds |
| Credential settings (link, unlink, TOTP), AAL2 | `poc_flow_refs` for link and TOTP | a settings flow per change, an aal2 login flow | statuses of Kratos not looked at, refusals, several passkeys shown as one method, a change by another request between change and answer | the answer lists what Kratos left |
| Logout, JWT denylist | cookie; `poc_revoked_jti` (no caller) | logout | errors of WhoAmI and DisableSession dropped | a logout whose calls succeeded ended the session |
| Token signer (`token.go`) | the RSA key | sign, JWKS | none | subject and nonce are those given |
| Courier, debug pages, policy demonstration | `lastOTP` in memory | webhook, read-only views | two map entries per message | development aids |
| Web console (`web/app.js`), session cookie | a token per tab in sessionStorage, one cookie | buttons, `refreshSession`, the return page | answers late, lost or out of order, a done page that writes an old token, a refresh in flight during a logout, tabs that hold old tokens | the browser keeps hold of the session that is signed in |
| Configuration, Kratos configuration | files | read at start | none | taken as given |

External: Kratos, Postgres, DynamoDB, Telegram, Google. They appear as environment
actions, modelled from what the service's calls ask of them and marked external in the map.

## 2. Plan

Order of modules, most important behaviour first.

1. `OneShotGrant`, what the broker promises; `TelegramBroker`, how it keeps it
   (refinement); `TelegramBrokerProofs`. *Done.*
2. `UserDirectory`, `UserDirectoryProofs`. *Done.*
3. `StepUp`, `StepUpProofs`. *Done.*
4. `TelegramLogin`, which composes the front half of a login with `OneShotGrant`, so
   that the broker is used by its promise and not by its tables; `TelegramLoginProofs`. *Done.*
5. `Ceremonies`, for everything that runs on Kratos' native flows: flow references, e-mail
   codes, passkeys, TOTP, AAL2 and credential settings; `CeremoniesProofs`. *Done.*
6. `WebSession`, for the session a browser holds: cookie, tabs, sign-in, logout, deletion
   and refresh; `WebSessionProofs`. *Done.*
7. The proofs that need an invariant about requests nothing disturbs:
   `StableUserIDWhenQuiet`, `QuietDeletePurgesUser`, `StepUpLeavesOneSession`. *Done.*
8. `SessionAssurance`, what step-up promises about sessions, with the refinement by `StepUp`;
   the safety halves of `MethodLands` and `CallbackCounts`; where the rows of
   `poc_identifiers` lead. *Done.*
9. Done pages loaded early (`StepUp`), traits apart from credentials (`UserDirectory`), several
   passkeys and the kinds each handler files (`Ceremonies`), lost sign-ins and the cookie of the
   step-up (`WebSession`). *Done.*
10. Open: Google's login and the linking of a provider, in `TelegramLogin`'s form.

Each module has one run for its safety properties and, where something must eventually come of
requests that race, one for liveness; the bounds below keep each run under five minutes
with two workers.

## 3. The modules

Conventions. One step is one call to DynamoDB, Kratos, Postgres or Telegram, with what the handler
does up to the next call. A handler is a record with a program counter named after the call it is
about to make, and the locals it still needs. A call that fails has an action of its own; where a
failed write may have been applied, both outcomes are possible. `Restart` ends the requests in
progress and leaves the tables; the code has a cause for it: several start handlers dereference
the missing result of a failed call (server.go:973 and four more) and no recover middleware is
installed. Variables marked (history) record what happened for a property's sake; no action's
guard reads them, but for `owner`, by which a user id is known to be fresh. Properties are at the
end of each module, the inductive invariant after them.

### OneShotGrant
The abstract specification, on four variables: a grant is opened for one flow, users sign
in on it, at most one code is handed out, and at most one ID token is issued for it. No
tables, clocks or handlers.

### SessionAssurance
The abstract specification of step-up: sessions with the methods a step-up was asked for and the
methods they name. A session comes to name only what it was asked for and loses none; it ends by
its owner's logout, or by being merged into another session of the same person through a method
that was asked for there and that both name; an ended session stays ended. Requests, contexts and
the two databases do not appear. That a method was proven is no part of the promise, because the
code does not keep it (finding 4).

### TelegramBroker
| Model | Code |
|---|---|
| `auths`, `codes` | the two tables, rows with their `ttl` |
| `flowOf[s]` | the flow (state, nonce, PKCE pair of one Kratos login) for which Authorize drew upstream state `s` |
| `replies`, `spent` | Telegram's redirects, which browsers keep and may deliver again; Telegram codes already redeemed |
| `cb`, `tk` | running requests of Callback and Token |
| `Authorize` | Authorize with SaveBrokerAuthorization: answered, failed, or applied and reported failed |
| `CallbackTakes` / `CallbackUnknown` / `CallbackLoses` | ConsumeBrokerAuthorization: DeleteItem returning the old row, the row missing or out of date, the answer lost |
| `CallbackExchanges`, `CallbackValidates`, `CallbackSaves` and their failures | exchangeTelegramCode, validateTelegramIDToken, SaveBrokerCode |
| `TokenReads`, `TokenDeletes`, `TokenIssues` and their failures | ConsumeBrokerCode (GetItem, then conditional DeleteItem), the PKCE check, SignOIDC |
| `Tick`, `DynamoExpires` | the clock; DynamoDB's cleanup, which may come at any time after expiry or never |

Client credentials, redirect URI, scope and grant type are compared with constants of the
configuration; a request that fails there changes nothing and is left out.

### UserDirectory
| Model | Code |
|---|---|
| `users`, `index`, `identifiers` | the three tables |
| `live`, `deleted`, `holder`, `traits` | Kratos' identities, the identifiers linked to them as credentials and those among their traits (environment) |
| `Register`, `Link`, `Unlink`, `Profile` | Kratos: the mappers fill the traits at registration only, linking and unlinking leave them, a profile update replaces them |
| `named[x]` (history) | the identities that ever had `x` as a credential or a trait |
| `owner[u]` (history) | the identity for which user id `u` was drawn |
| `sr` and `Session*` | sessionResponse: WhoAmI, GetUserByKratosID (index, then user), the two puts of GetOrCreateUser, GetAdminIdentity, PutIdentifier for the Google subject among the credentials and for the trait of every other linked method, the answer |
| `dr` and `Delete*` | handleDeleteAccount: WhoAmI, lookup, DeleteIdentity, the two deletes of DeleteUserData with their errors ignored |
| `faulted`, `overlapped` (history) | identities that met a failed call or a restart; identities with two requests at once |

`sessionResponse` asks whether a *Telegram credential* is linked and then files the *trait*
`telegram_id` (server.go:353), which need not belong to that credential: registration fills it,
linking Telegram later does not, unlinking leaves it, and the profile update of an e-mail link drops
it (server.go:1615). So an identifier row may name a Telegram account that the identity no longer
holds, or, since the trait is not unique, never held; `IdentifierWasNamed` promises no more than
that the identity once had the identifier as a credential or a trait.

### StepUp
| Model | Code |
|---|---|
| `sessions` | Kratos' sessions; of the AMR, the number of `oidc` entries per provider |
| `ctxs`, `st` | `poc_oidc_ctx`; startOIDCFlow with intent stepup, by the ctx id it draws, which the client is told with the answer (`Told`) |
| `Login`, `Logout`, `KratosCompletes` | what else goes on at Kratos, and its completion of the refresh login with a session of its own |
| `dn` and `Done*` | handleOIDCStepUpDone: GetOIDCContext, WhoAmI of the prior session, ListIdentitySessions, the two statements of AppendMethod, RevokeSession, DeleteOIDCContext, the last WhoAmI |
| `completed`, `early` | contexts whose login Kratos completed, which the handler does not look at; those whose done page was loaded before (history) |
| `ended`, `disturbed`, `overlapped` (history) | which done request revoked a session; contexts that met a failed call; sessions and providers with two merges at once |

Assumptions: `KRATOS_DSN` is set (otherwise every merge fails at once and nothing is changed); the
order in which Kratos lists sessions is any order; the merge does not compare the account used at
the provider with the session's, and Kratos may complete the login for another identity, so
`KratosCompletes` takes any. `None` is no identity, session, context, provider or done request.
A done page may be loaded as soon as the start was answered: `GetOIDCContext` (store.go:289) finds
the context whether or not the login took place. `Assurance` maps the state to `SessionAssurance`:
`AskedFor` are the providers of the step-ups that a session started, `NamedBy` its AMR, and
`MergedInto` the prior session of the request that ended it. A done page without a ctx only repeats
the cookie and is left out.

### TelegramLogin
| Model | Code |
|---|---|
| `start` and `Start*` | startOIDCFlow with intent login or register for telegram: StartFlow, SaveOIDCContext, SubmitFlow, shortenTelegramOIDCRedirect with SaveOIDCState |
| `ctxs`, `states` | `poc_oidc_ctx`, `poc_oidc_state` |
| `flowOf`, `asserted`, `coded`, `tokens` | the broker, `Grant == INSTANCE OneShotGrant`; `denied` are the grants it ended by redirectError |
| `px` and `Proxy*` | proxyKratos with expandTelegramCallbackURL and ConsumeOIDCState, GetItem and DeleteItem apart |
| `KratosCompletes`, `KratosRefuses` | what Kratos does behind reverseProxy: redeem the code, check the nonce, make a session, attach it to the exchange codes |
| `rt` and `Return*` | handleOIDCReturn: GetOIDCContext, ExchangeSessionToken, WhoAmI |
| `Whole` | flows whose state has at most 256 characters and is sent as it is |
| `kept`, `expired`, `faulted` (history) | flows whose row was used and not deleted, removed by cleanup, or met by a failed call |

There is no clock: a row may be cleaned up at any time, which allows every timing of the 30
minutes, and neither read compares the TTL.

### Ceremonies
| Model | Code |
|---|---|
| `rq[r]`, `op`, `Comes` | a request to one of 22 endpoints (`StartOps`, `FinishOps`, `RemoveOps`); `token` is its kratosToken, `ref` the flow_ref in its body, any that was answered, `cred` the credential it names: a passkey id in the path, or the one the endpoint is about |
| `refs` | `poc_flow_refs`; row `a` is the one that request `a` saved |
| `sessions`, `flow`, `methods`, `email` | Kratos: sessions with their AMR, native flows with kind and mode (refresh, aal2), credentials with any number of passkeys by id, the linked e-mail address |
| `KindOf`, `FiledKind`, `SubmitKind` | the kind of flow a handler asks Kratos for, the constant it passes to saveFlowRef, and the kind its finish submits to, each from its own line |
| `ModeOf`, `Body`, `Named`, `SendsCode`, `StatusIgnored`, `SaveUnchecked`, `NeedsToken`, `Unguarded` | what else distinguishes the handlers, which otherwise run the same steps |
| `FinishesOf` | the finish that the console sends a start's flow_ref to |
| `LinkChecks`, `Opens`, `SendsTheCode`, `LinkSubmits`, `Saves` and their failures | the calls of a start: WhoAmI and GetAdminIdentity of an e-mail link, StartFlow, the submit that mails the code or updates the profile, saveFlowRef |
| `SaveFails` | saveFlowRef fails: an error, or, where its error is dropped, 200 with an empty flow_ref (`gave_empty`) |
| `Reads`, `Submit*` | the calls of a finish: GetFlow, SubmitFlow; a removal opens its flow itself |
| `WhoAmI`, `Answers`, `AnswersUnlinked` | sessionResponse; `Listed` is AggregateLinkedMethods, which does not tell passkeys apart |
| `OpenPanics` | StartFlow fails and the handler reads its missing result: the process ends |
| `before`, `shown`, `disturbed` (history) | what a request found, what its answer says, requests that met a failed call or whose identity another request changed |

A table of sets stands for 22 handlers because they are one sequence of calls with
different constants; which constants is what the map's lines show. A request that is over
forgets its locals (`Vacant`), which keeps the model small and no property needs them.
The identity of a new registration is any that has no credential. Codes, WebAuthn answers and
TOTP secrets are right or wrong by choice: Kratos accepts or refuses.

`Cookie(r)` is what persistSessionToken sets with the answer. sessionResponse reads the token
of the *request*, so a sign-in that came without a cookie answers `authenticated: false`
beside the new cookie, and only the console's next refresh shows the session. The
documents promise nothing about this answer; `AnswerNamesHeldSession` is what holds:
an answer that does name a session names the one the browser holds.

### WebSession
| Model | Code |
|---|---|
| `cookie` | `poc_kratos_session`, shared by all tabs; HttpOnly, so only answers change it |
| `stored[b]` | a tab's sessionStorage |
| `script[r]` | a run of a click handler, or of the page's first refresh: a request, then refreshSession; `stepup` is the Google step-up from its start to the answer of its done page |
| `Clicks`, `Resumes` | apiHeaders: cookie and header go with the request as they are when it is sent |
| `Arrives` | SetSessionToken and ClearSessionToken take effect when the answer arrives |
| `KeepsToken` | the rest of refreshSession |
| `AnswersSession`, `SignsIn`, `Refreshes`, `LooksUp`, `Disables` and their failures | sessionResponse, a finish that Kratos accepts with a new session or with the one it has, handleLogout and handleDeleteAccount |
| `SignInFails` | the sign-in fails before Kratos made a session, or after, with its answer lost |
| `StepsUp` | handleOIDCStepUpDone puts the prior token of its context into the cookie, whenever the page is loaded |
| `SessionEnds` | expiry, or a sign-out elsewhere |
| `quiet`, `failed` (history) | whether no two writers of the cookie overlapped, no logout met a failed call and no token of a new session was lost, between Kratos and the service or on the way to the browser; whether a call of this handler failed |

Every click may come at any time in every tab, scripts of one tab overlap as the event loop
allows, and answers arrive in any order or not at all. `KratosToken` is modelled where
the request is sent, since browser and handler read the same cookie and header.

## 4. Runs

All cfgs set `CHECK_DEADLOCK FALSE`: the sets of requests are finite, and when they are
used up the model stops as the service does when nobody calls it.

| Run | Instance | States | Shows |
|---|---|---|---|
| `broker_safety` | 2 flows, 2 states, 2 codes, 1 user, 2 callbacks, 2 token calls, `AuthTTL` = `CodeTTL` = 1, `MaxNow` = 2 | 0.81 M | a login is consumed once, gives one token, for its own flow and user, and none after an error; every step is a step of `OneShotGrant`; what is dead stays dead |
| `directory_safety` | 2 identities, 2 user ids, 2 Telegram ids, 2 session requests, 1 deletion, under `TwoNamings` | 1.0 M | a user id serves one identity; an identifier leads to a user of an identity that named it; stability and purge when nothing fails or overlaps |
| `stepup_safety` | 2 identities, 3 sessions, 1 provider, 2 contexts, 2 done pages, under `FourSessionsAndStepUps` | 0.93 M | methods land in the session that asked, append comes before revoke, an undisturbed step-up leaves one session |
| `stepup_liveness` | 2 identities, 2 sessions, 1 context, 2 done pages | 0.25 M | a step-up is not lost between two loads; every step is a step of `SessionAssurance` |
| `login_safety` | 2 flows (one `Whole`), 2 grants, 2 users, 2 callback loads, 1 return, 2 sessions | 0.79 M | one session per sign-in and per start; the return page's session is its own |
| `login_liveness` | 1 flow, 2 grants, 1 user, 2 callback loads, 1 return, 2 sessions | 74 k | two loads racing for a state row do not spoil each other |
| `ceremony_safety` | 3 requests to 8 endpoints, 2 sessions, 1 identity, 2 passkeys, with no credentials at first or with Google and a passkey, under `OneEnds` | 2.1 M | references serve their finishes, answers speak of the session held and list what a change left, a linked address stays |
| `console_safety` | 2 tabs, 3 scripts, 3 sessions | 2.3 M | a signed-in session is held by the browser; logout ends its session |
| `stable_user_id` | 1 identity, 2 user ids, 2 identifiers, 2 session requests, 1 deletion | violated | finding 1 |
| `account_purged` | the same | violated | finding 2 |
| `only_step_up_sessions_ended` | 1 identity, 3 sessions, 1 context, 1 done page | violated | finding 3 |
| `method_was_proven` | the same | violated | finding 4 |

Why the bounds are enough. The named bounds are the constant sets; `AuthTTL`, `CodeTTL` and `MaxNow`
in the broker; and three state constraints in the MC modules. `TwoNamings`: identifiers become a
credential or trait of an identity at most twice, and calls fail for one identity.
`FourSessionsAndStepUps`: sessions and step-ups are four together, so two sessions with a step-up each
or twice for one, or three sessions (the prior one, Kratos' own and a bystander) and one step-up.
`OneEnds`: one session ends and one row expires. Each cuts combinations of cases that are there one by
one; the properties they cut are proved without them.

Races need two requests for one row, and two of each kind are there wherever the code can race; mixing
needs two logins, two users or two identities. A TTL of 1 with a clock up to 2 has a row written at 0
that is good, good at the edge (`ttl = now`), and out of date. Two codes let two callbacks save one
each, and let a code whose save was reported as failed be there beside the other. Two user ids are
what two racing requests draw; a third session request would repeat the case of a later reader. Two
Telegram ids are what a trait and a credential need to differ. Three ceremony requests are a start, its
finish and a change in between, or three changes of one identity; the eight endpoints (e-mail
registration, login, verification, link and refresh, link start, link and removal of a passkey) with
two passkeys have an accepted and a refused removal that the answer shows apart and that it does not.
The other fourteen, TOTP, AAL2 and unlinking among them, differ in constants only; the proofs take all
22. Three scripts are a sign-in, a sign-out or step-up, and a refresh that overtakes either; with three
sessions a token can be stale, another current and a third new.

Some of what the models can do is left to the proofs, because no run with it ends in time:
logins of two users in one run of the broker, a second load of the return page in the login, and the
refinement by step-up with two contexts.
Symmetry sets contain only constants that no definition tells apart (`Whole` fixes its flow, so
flows are not in the set); runs of liveness properties use no symmetry and no constraint.

Fairness. Only handlers that have started are fair (weak fairness of a request's next
step). In the step-up, Kratos calls run under the 30-second timeout of
`kratosx.Client` and Postgres and DynamoDB answer or break the connection. In the proxied callback
the service uses Go's default HTTP client, which has no timeout: there the assumption is
that Kratos answers or the connection breaks. No fairness is assumed of browsers, of users,
of DynamoDB's cleanup or of the clock. In the broker nothing waits for another request: its handlers
are straight lines of calls with timeouts, and no liveness is checked of them.

Every property of a passing run has a mutant in its module: an operator with a plausible
slip (a code deleted unconditionally, a lookup by the wrong key, a revoke before the append, a
start that files the wrong kind, an ignored error) that makes TLC report that very property.

## 5. Findings

1. `StableUserID`. poc-plan.md:369 promises that a user "resolves to one stable `user_id`".
   Two first session requests of one identity that overlap both find no index row
   (store.go:170), draw an id each, and answer with different ids. The console issues two
   such requests on one page load after an OIDC return (app.js:635 and 643).
2. `AccountPurged`. test-matrix.md:52 expects "DynamoDB rows purged". `DeleteUserData`
   (store.go:438) leaves the rows of `poc_identifiers`.
3. `OnlyStepUpSessionsEnded`. server.go:774 says Kratos' extra session is merged into the prior one;
   the session revoked is the first active one that names the provider (847), which may
   be an ordinary login on another device.
4. `MethodWasProven`. server.go:773 calls the done page "the browser return_to target after Google
   OIDC step-up (refresh login)". The handler (780) needs a saved context only, not a completed
   login, so a page loaded between the start and the login merges the method and deletes the
   context.

Each has a passing counterpart that says what does hold: `StableUserIDWhenQuiet`; for 2, the users and
index tables are emptied (`QuietDeletePurgesUser`); `EndedAfterMerge`; and `MethodOfOwnStepUp`, by which
the method lands only in the session that started the step-up.

More is visible in the models that has no run of its own:

- A refused change is answered 200 like an accepted one (server.go:1014), and the answer tells them
  apart only where the credential's kind shows: with a second passkey, "passkey" is listed
  after an accepted removal and after a refused one. test-matrix.md:45 (row 17, "Try remove last 1FA")
  expects "Kratos error / disabled remove button"; the answer to a refused removal of the last first
  factor is 200 with the method still listed, and the methods page says `can_remove` of every passkey
  and provider (server.go:932 and 944). `AnswerShowsOutcome` says only that the list is right.
- test-matrix.md:29 (row 11, "Link Telegram") expects "`telegram_id` in session/JWT". The trait is
  filled at registration only, so an identity that links Telegram later gets no identifier row for it
  and no `telegram_id` in its JWT; and linking an e-mail address sends traits without the ones an OIDC
  registration left (server.go:1615). `IdentifierWasNamed` is weak for that reason.
- AppendMethod's check (merge.go:43) and its UPDATE (59) are two statements, so two loads of one done
  page append a method twice, and `NoDuplicateUnlessOverlapped` says so.
- A logout that overlaps a sign-in or a done page, or whose call to Kratos fails, leaves a session that
  no cookie names until it expires, and so does a sign-in whose answer is lost: `LiveSessionIsHeld` holds
  under `quiet`.

## 6. Proofs

For each module the proof has the same form: `TypeCorrect`, by one step per action; an
inductive invariant, one lemma per group of actions; then each property as a consequence.
Assumptions are the named ASSUMEs: `None` is none of the other values, the TTLs and the
clock's bound are naturals, `Whole` is a set of flows, `Ops` and `Enrolled` are sets of endpoints and of
sets of credentials, and a passkey's id is not the name of a method. Nothing is assumed finite.

- **TelegramBroker**: `BrokerInv` = `AuthInv` (a stored authorization carries the values of
  its flow, and is the only one of its state), `CallbackInv` (a callback that
  consumed an authorization left nothing in the table), `CodeInv` (what is stored under a handed code
  is its callback's login, and no two callbacks hand out the same code), `TokenInv` (a
  redeemed code is gone, to one request). `OneIDTokenPerLogin` alone is not inductive: a
  code still in the table after one token request redeemed it would allow a second.
  Theorems `BrokerInvariant`, `ConsumedOnce`, `OneToken`, `TokenOfItsLogin`, `ErrorIsFinal`,
  `DeadForever` (an action property), and `Refinement`: `Spec` implements `OneShotGrant`. The
  mapping takes an upstream state to a grant, Telegram's replies to sign-ins, and the
  histories of the callbacks and token requests to codes and tokens; each step is a grant
  step or a stutter (`SaveHandsCode`, `IssueRedeems`, `GrantUnchanged`).
- **UserDirectory**: `DirectoryInv` = `OwnerInv` (a user id found anywhere was drawn for the
  identity it is found under), `KnownInv`, `NamedInv` and `QuietInv`. `JwtOfItsIdentity` follows from the
  first, with faults and overlaps allowed. `QuietInv` is about an identity that met no failed call
  and no overlap: one request at a time works on it (`OneRequest`), what that request has read
  still holds (`SessionSees`, `DeleteSees`), and between requests users and index agree (`Tidy`).
  Neither property is inductive without the middle part: a second user id is drawn exactly where a
  request acts on a lookup that no longer holds. Steps of other identities leave the rows alone
  (`OthersRows`), because no user id serves two. Theorems `UserIDStable`, `DeletionPurgesUser`.
  `IdentifierOfPastName` needs `NamedInv`: every identifier that a session request has read, among the
  traits or the credentials, and not yet put was named by its identity at some time. With `OwnerInv`,
  the put then names a user drawn for such an identity. More does not hold: trait and credential may
  differ, and the identifier may have moved on between the reads and the put.
- **StepUp**: `CoreInv` adds to three of the properties what a done request holds, whether its context
  was completed or was read early (`DoneInv`), and that without overlap what it read before the append
  still holds (`MergeInv`). Theorems `MethodsOfOwnStepUps`, `MergeBeforeEnd`, `AppendedOnce`; none of them
  needs the login to have been completed. `StepUpLeavesOneSession` does, and says so: it exempts contexts
  in `early`. For it the rest of `StepUpInv` follows a step-up that is `Clean`, which a step may spoil and
  none can restore (`CleanWas`): Kratos made one session for it (`OriginInv`); the done request finds the
  method missing, finds that session or none to end, and ends it before it forgets the context
  (`FindInv`); and no second request begins in between, since the context is gone or the first is
  still running (`FreshInv`). Theorem `MergeComplete`. `MethodHasLanded` is the safety half of
  `MethodLands`: a done request that is past the merge has its method in the prior session, or a
  call failed or that session ended; what is left to TLC is that the request gets there.
  `OrphanInv` says that the session a request is about to revoke names the provider, though it was
  listed earlier. With it `Refinement` shows that `Spec` implements `SessionAssurance`: a login
  and Kratos' completion begin a session (`LoginBegins`, `CompletionBegins`), a start asks (`StartAsks`),
  the append names a method (`AppendNames`), the revoke is a merge (`RevokeMerges`), and every other
  step but a logout (`LogoutEnds`) is a stutter.
- **TelegramLogin**: `LoginInv`; its heart is `StateInv`: a state row, a load that took it, and a
  session made with it exclude each other. Theorems `TokenOfItsStart`, `SignInOnce`, `StartOnce`,
  `ContextBeforeReturn`. These rest on `CoreInv`. `CallbackInv` adds that the state of a redirect
  given away is in its row or held by a load until a sign-in of its flow is redeemed or denied
  (`Accounted`). Theorem `NoCallbackLost` is the safety half of `CallbackCounts`: a load that lost
  the race for the row and is refused leaves the sign-in settled or another load at work with it,
  unless a call failed or a row expired. That the load at work ends is what TLC checks under
  fairness.
- **Ceremonies**: `CeremonyInv` is one `RequestInv` per request, so the proof has a lemma for what
  a step of another request leaves alone (`BystanderInv`: it disturbs or does not touch the
  identity) and one per action of the request itself. `FlowAsFiled` relates the three places that say
  what kind a flow is, from the moment it is opened, through the branch of an e-mail link, to the row
  and the finish that reads it; `RefCorrect` then needs that each finish takes what its starts file.
  `OutcomeTold` carries what the request found (`before`) through the submit to the answer, for any set
  of passkeys, and `Listed` is applied at the end; `CookieOfNewcomer` says a new cookie goes only to a
  request without a live session, so its answer names nobody; `NoAddressYet` spans the three calls
  of an e-mail link. Theorems `RefCorrect`, `AnswerCorrect`, `OutcomeCorrect`, `AddressCorrect`
  (an action property).
- **WebSession**: `LiveSessionIsHeld` is not inductive, since an answer that replaces the cookie could
  drop a live session. `WriterAlone` adds that, as long as `quiet`, at most one writer
  is under way and it speaks for the cookie: the token it carries is the cookie's, or the cookie's
  session is over. A step-up is a writer from the moment its done page has read the session of the
  token its start had: that session is signed in, so by the invariant itself it is the cookie's, whatever
  came in between. `TokensMade` makes a new session's token one that nobody names yet. Theorems
  `HeldCorrect`, `LogoutCorrect`.

Only model-checked: liveness (`MethodLands`, `CallbackCounts`), which is out
of the prover's reach; its safety half is proved. Every safety property of a
passing run is proved.

What the properties do not say. Where a call fails or two requests of one identity overlap, the code
promises little, and the properties that exempt `faulted`, `disturbed`, `overlapped` or `early` are about
the rest; the hazards in `PROJECT.json` say which is which. A broker code that was saved and reported
as failed is in no answer, so Kratos cannot hand it in, and `ErrorEndsLogin` does not meet it. The edge
of an expiry is judged by the code's own comparison, so `DeadStaysDead` catches a row that is read
without it and not a comparison that is off by one.

## 7. Not modelled

The Google provider's login uses the same start and return handlers without the short
state and without the broker, and linking a provider is the same start with a browser
settings flow, whose continuity cookies (`cookies/kratos.go`) the service passes on; neither is
modelled. The JWT denylist is written and read by nobody. The courier, the debug pages and the policy
demonstration change nothing the other components read. Key files, JWKS, discovery and the parsing
of Kratos' flow nodes are data. Kratos' configuration is its own program's.
