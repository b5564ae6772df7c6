------------------------------ MODULE Ceremonies ------------------------------
(***************************************************************************)
(* The ceremonies of server.go that run on Kratos' native flows: e-mail    *)
(* codes, passkeys, TOTP, step-up to AAL2 and the credential settings.  A  *)
(* start opens a flow and hands the client a flow_ref, a row of the table  *)
(* poc_flow_refs that keeps the flow's id and kind; a finish looks the     *)
(* reference up and submits the credential to the flow.  The settings      *)
(* calls that remove a credential do both in one request.  A finish ends   *)
(* in sessionResponse, which answers for the token the request came with.  *)
(*                                                                         *)
(* Requests run concurrently, and every call to Kratos and to DynamoDB is  *)
(* a step.  A client may present any reference it was given to any finish, *)
(* again and again, with any session token it ever held.  A token and its  *)
(* session are one value, a flow and its reference are named by the        *)
(* request that opened it, and so is the address of an e-mail link.        *)
(***************************************************************************)

CONSTANTS
    Requests,     \* requests to the endpoints below
    SessionIds,   \* Kratos sessions and their tokens
    Identities,   \* Kratos identities
    Ops,          \* the endpoints that clients use
    Passkeys,     \* passkeys, by their credential ids
    Enrolled,     \* sets of credentials that identities have at first
    None          \* absence of a value

RegistrationStarts == {"email_register_start", "passkey_register_start"}
SettingsStarts == {"passkey_link_start", "email_link_start", "totp_start"}
RefreshStarts == {"refresh_start", "stepup_passkey_start", "stepup_email_start"}
StartOps == {"email_login_start", "passkey_login_start", "aal2_start"}
                \cup RegistrationStarts \cup SettingsStarts \cup RefreshStarts
FinishOps == {"email_verify", "passkey_register_finish", "passkey_login_finish",
              "passkey_link_finish", "email_link_verify", "totp_confirm", "aal2_totp",
              "stepup_email_verify"}
RemoveOps == {"passkey_remove", "oidc_unlink", "totp_delete"}
AddOps == {"passkey_link_finish", "totp_confirm"}

Credentials == Passkeys \cup {"totp", "google"}   \* all but the e-mail address
Methods == {"passkey", "totp", "google"}           \* ... as the answers name them
Linkable == Methods \cup {"email_otp"}
Proofs == {"code"} \cup Methods                    \* what a session may list

ASSUME NoneAssumption == None \notin Requests \cup SessionIds \cup Identities \cup Credentials
ASSUME PasskeysAssumption == Passkeys \cap Linkable = {}
ASSUME OpsAssumption == Ops \subseteq StartOps \cup FinishOps \cup RemoveOps
ASSUME EnrolledAssumption == Enrolled \subseteq SUBSET Credentials

VARIABLES
    sessions,     \* Kratos: its sessions
    flow,         \* Kratos: flow[r] is the flow that request r opened
    methods,      \* Kratos: credentials of an identity
    email,        \* Kratos: the request whose address an identity has
    refs,         \* table poc_flow_refs
    rq,           \* the requests
    disturbed     \* requests that met a failed call, or whose session or identity
                  \* another request changed while they ran (history)

vars == <<sessions, flow, methods, email, refs, rq, disturbed>>
kratos == <<sessions, flow, methods, email>>

-----------------------------------------------------------------------------
\* What a start asks Kratos for, and with which credential a finish answers.
KindOf(op) ==
    IF op \in RegistrationStarts THEN "registration"
    ELSE IF op \in SettingsStarts \cup RemoveOps THEN "settings" ELSE "login"

ModeOf(op) ==
    IF op \in RefreshStarts THEN "refresh" ELSE IF op = "aal2_start" THEN "aal2" ELSE "plain"

Body(op) ==
    CASE op \in {"totp_confirm", "aal2_totp", "totp_delete"} -> "totp"
      [] op \in {"email_verify", "email_link_verify", "stepup_email_verify"} -> "code"
      [] op = "oidc_unlink" -> "google"
      [] OTHER -> "passkey"

\* Mutant: the e-mail starts file a login whatever the intent.
FiledAsLogin(op, branch) == IF op = "email_link_start" THEN branch ELSE "login"

\* The kind a start passes to saveFlowRef; email_link_start has one for each branch.
FiledKind(op, branch) ==
    CASE op \in RegistrationStarts -> "registration"
      [] op \in {"passkey_link_start", "totp_start"} -> "settings"
      [] op = "email_link_start" -> branch
      [] OTHER -> "login"

\* The finishes that a start's flow_ref is for (app.js).
FinishesOf(op) ==
    CASE op \in {"email_login_start", "email_register_start"} -> {"email_verify"}
      [] op = "passkey_register_start" -> {"passkey_register_finish"}
      [] op = "passkey_link_start" -> {"passkey_link_finish"}
      [] op = "email_link_start" -> {"email_link_verify"}
      [] op = "totp_start" -> {"totp_confirm"}
      [] op = "aal2_start" -> {"aal2_totp"}
      [] op = "stepup_email_start" -> {"stepup_email_verify"}
      [] op \in {"passkey_login_start", "stepup_passkey_start"} -> {"passkey_login_finish"}
      [] op = "refresh_start" -> {"email_verify", "passkey_login_finish"}
      [] OTHER -> {}

\* The kind of flow a finish submits to, given the kind its row says.
SubmitKind(op, rowKind) ==
    CASE op \in {"email_verify", "email_link_verify"} -> rowKind
      [] op = "passkey_register_finish" -> "registration"
      [] op \in AddOps -> "settings"
      [] OTHER -> "login"

SendsCode == {"email_login_start", "email_register_start", "stepup_email_start"}
StatusIgnored == AddOps \cup RemoveOps \cup {"aal2_totp"}

\* Starts that drop the error of saveFlowRef.
SaveUnchecked ==
    {"passkey_register_start", "passkey_login_start", "passkey_link_start", "totp_start",
     "aal2_start", "refresh_start", "stepup_passkey_start"}

\* The credentials a request may name: a passkey id in the path, the passkey that
\* the authenticator has just made, or the one the endpoint is about.
Named(op) ==
    CASE op \in {"passkey_remove", "passkey_link_finish", "passkey_register_finish"} -> Passkeys
      [] op = "oidc_unlink" -> {"google"}
      [] op \in {"totp_confirm", "totp_delete"} -> {"totp"}
      [] OTHER -> {None}

\* Handlers that read the result of StartFlow although the call failed.
Unguarded == SettingsStarts \cup {"stepup_passkey_start", "stepup_email_start"}

Kinds == {"login", "registration", "settings", "verification"}

NoSession == [state |-> "none", identity |-> None, amr |-> {}]
Session == {NoSession}
    \cup [state : {"active", "ended"}, identity : Identities, amr : SUBSET Proofs]

Flow == [state : {"none", "open", "used"}, kind : Kinds,
         mode : {"plain", "refresh", "aal2"}, identity : Identities \cup {None}]

Ref == [state : {"none", "saved", "expired"}, kind : Kinds]

Stand == [amr : SUBSET Proofs, creds : SUBSET (Credentials \cup {"email_otp"})]
View == [amr : SUBSET Proofs, linked : SUBSET Linkable]

RequestPc == {"idle", "address", "open", "send", "save", "read", "submit", "whoami", "answer",
              "gave_ref", "gave_empty", "session", "over"}

Request ==
    [pc : RequestPc,
     op : Ops \cup {None},
     token : SessionIds \cup {None},    \* kratosToken of the request
     ref : Requests \cup {None},        \* flow_ref
     cred : Credentials \cup {None},    \* the credential it names
     kind : Kinds,                      \* kind of the flow it got or submits to
     outcome : {"none", "accepted", "refused"},   \* of that submit
     made : SessionIds \cup {None},     \* session_token of Kratos' answer to it
     before : Stand,                    \* when the request arrived (history)
     shown : View]                      \* what the answer says

TypeOK ==
    /\ sessions \in [SessionIds -> Session]
    /\ flow \in [Requests -> Flow]
    /\ methods \in [Identities -> SUBSET Credentials]
    /\ email \in [Identities -> Requests \cup {None}]
    /\ refs \in [Requests -> Ref]
    /\ rq \in [Requests -> Request]
    /\ disturbed \subseteq Requests

\* A request that is yet to come, or one that is over: it has answered an error,
\* that nobody is signed in, or nothing.
Vacant(pc) ==
    [pc |-> pc, op |-> None, token |-> None, ref |-> None, cred |-> None, kind |-> "login",
     outcome |-> "none", made |-> None,
     before |-> [amr |-> {}, creds |-> {}], shown |-> [amr |-> {}, linked |-> {}]]

Init ==
    /\ sessions = [s \in SessionIds |-> NoSession]
    /\ flow = [r \in Requests |-> [state |-> "none", kind |-> "login", mode |-> "plain", identity |-> None]]
    /\ methods \in [Identities -> Enrolled]
    /\ email = [i \in Identities |-> None]
    /\ refs = [r \in Requests |-> [state |-> "none", kind |-> "login"]]
    /\ rq = [r \in Requests |-> Vacant("idle")]
    /\ disturbed = {}

-----------------------------------------------------------------------------
Running(r) == rq[r].pc \in {"address", "open", "send", "save", "read", "submit", "whoami", "answer"}
Active(t) == t # None /\ sessions[t].state = "active"
Owner(r) == IF rq[r].token = None THEN None ELSE sessions[rq[r].token].identity

\* AggregateLinkedMethods: passkeys are not told apart.
Listed(creds) == {IF c \in Passkeys THEN "passkey" ELSE c : c \in creds}

Creds(i) == methods[i] \cup (IF email[i] = None THEN {} ELSE {"email_otp"})

Goto(r, pc) == rq' = [rq EXCEPT ![r].pc = pc]
Ends(r, pc) == rq' = [rq EXCEPT ![r] = Vacant(pc)]
\* A start is over with a flow_ref for the client.
Gives(r, pc) == rq' = [rq EXCEPT ![r] = [Vacant(pc) EXCEPT !.op = rq[r].op]]
Fault(r) == disturbed' = disturbed \cup {r}

\* The cookie that persistSessionToken leaves with the answer to r.
Cookie(r) == IF rq[r].outcome = "accepted" THEN rq[r].made ELSE None

\* Request r changes identity i: every other request of i may see it.
Disturbs(r, i) ==
    disturbed' = disturbed \cup {q \in Requests \ {r} : Running(q) /\ Owner(q) = i}

-----------------------------------------------------------------------------
\* A sign-in at an OIDC provider, which is not one of the requests here.
SignsIn(s, i) ==
    /\ sessions[s].state = "none"
    /\ "google" \in methods[i]
    /\ sessions' = [sessions EXCEPT ![s] = [state |-> "active", identity |-> i, amr |-> {"google"}]]
    /\ UNCHANGED <<flow, methods, email, refs, rq, disturbed>>

-----------------------------------------------------------------------------
(* A request arrives, with token t, reference a if it is a finish, and     *)
(* credential c if it names one.                                           *)

FirstCall(op) ==
    CASE op = "email_link_start" -> "address" [] op \in FinishOps -> "read" [] OTHER -> "open"

NeedsToken == {"email_link_start", "email_link_verify", "totp_start", "stepup_passkey_start",
               "stepup_email_start", "stepup_email_verify"}

Arrives(r, op, t, a, c) ==
    /\ t # None => sessions[t].state # "none"
    /\ op \in NeedsToken => t # None
    /\ a # None => op \in FinishOps /\ rq[a].pc = "gave_ref"
    /\ c \in Named(op)
    /\ rq' = [rq EXCEPT ![r].pc = FirstCall(op), ![r].op = op, ![r].token = t, ![r].ref = a,
                        ![r].cred = c,
                        ![r].before = IF t = None \/ op \notin StatusIgnored THEN @
                                      ELSE [amr |-> sessions[t].amr, creds |-> Creds(sessions[t].identity)]]
    /\ UNCHANGED <<kratos, refs, disturbed>>

Comes(r) ==
    /\ rq[r].pc = "idle"
    /\ \E op \in Ops, t \in SessionIds \cup {None}, a \in Requests \cup {None},
          c \in Credentials \cup {None} : Arrives(r, op, t, a, c)

-----------------------------------------------------------------------------
(* Starts.                                                                 *)

\* Mutant: a linked address is not looked for.
LinkNotChecked(r) ==
    rq[r].pc = "address" /\ Active(rq[r].token) /\ Goto(r, "open") /\ UNCHANGED <<kratos, refs, disturbed>>

\* email_link_start: WhoAmI, then GetAdminIdentity and HasLinkedMethod.
LinkChecks(r) ==
    /\ rq[r].pc = "address"
    /\ Active(rq[r].token)
    /\ IF email[Owner(r)] = None THEN Goto(r, "open") ELSE Ends(r, "over")
    /\ UNCHANGED <<kratos, refs, disturbed>>

\* WhoAmI refuses; or GetAdminIdentity fails, which counts as not linked.
LinkCheckFails(r) ==
    /\ rq[r].pc = "address"
    /\ Ends(r, "over") \/ (Active(rq[r].token) /\ Goto(r, "open"))
    /\ Fault(r)
    /\ UNCHANGED <<kratos, refs>>

\* Kratos has no plain login or registration for somebody signed in, and all
\* other flows only for somebody who is.
KratosOpens(op, t) ==
    IF KindOf(op) # "settings" /\ ModeOf(op) = "plain" THEN ~Active(t) ELSE Active(t)

\* Where the handler of r goes with the flow it got.
AfterOpen(r) ==
    CASE rq[r].op = "totp_start" /\ "totp" \in methods[Owner(r)] -> "over"
      [] rq[r].op \in SendsCode \cup {"email_link_start"} -> "send"
      [] rq[r].op \in RemoveOps -> "submit"
      [] OTHER -> "save"

Opens(r) ==
    /\ rq[r].pc = "open"
    /\ KratosOpens(rq[r].op, rq[r].token)
    /\ flow' = [flow EXCEPT ![r] = [state |-> "open", kind |-> KindOf(rq[r].op), mode |-> ModeOf(rq[r].op),
                                    identity |-> IF Active(rq[r].token) THEN Owner(r) ELSE None]]
    /\ IF AfterOpen(r) = "over" THEN Ends(r, "over")
       ELSE rq' = [rq EXCEPT ![r].pc = AfterOpen(r), ![r].kind = KindOf(rq[r].op)]
    /\ UNCHANGED <<sessions, methods, email, refs, disturbed>>

\* Kratos answers without a flow, or with one that lacks the node asked for (the
\* session must be refreshed first, no passkey is linked); or stepup_email_start
\* finds no session or no address.
OpenRefused(r) ==
    /\ rq[r].pc = "open"
    /\ Ends(r, "over")
    /\ UNCHANGED <<kratos, refs, disturbed>>

\* The requests in progress are never answered.
DropAll ==
    rq' = [r \in Requests |-> IF Running(r) THEN Vacant("over") ELSE rq[r]]

\* The call to Kratos fails: res is nil, and res.ErrorID ends the process.
OpenPanics(r) ==
    /\ rq[r].pc = "open"
    /\ rq[r].op \in Unguarded
    /\ DropAll
    /\ UNCHANGED <<kratos, refs, disturbed>>

\* The submit that sends the code; the handlers do not look at its status.
SendsTheCode(r) ==
    /\ rq[r].pc = "send"
    /\ rq[r].op \in SendsCode
    /\ Goto(r, "save")
    /\ UNCHANGED <<kratos, refs, disturbed>>

\* The profile update of email_link_start: the address is a credential from now on.
NewAddress(r) ==
    /\ Active(rq[r].token)
    /\ flow[r].identity = Owner(r)
    /\ email' = [email EXCEPT ![Owner(r)] = r]
    /\ Disturbs(r, Owner(r))

\* Kratos goes on with a verification flow, or asks for the code in the settings
\* flow, or is content.
LinkSubmits(r) ==
    /\ rq[r].pc = "send"
    /\ rq[r].op = "email_link_start"
    /\ NewAddress(r)
    /\ \/ \E k \in {"verification", "settings"} :
             /\ flow' = [flow EXCEPT ![r].kind = k]
             /\ rq' = [rq EXCEPT ![r].pc = "save", ![r].kind = k]
       \/ flow' = [flow EXCEPT ![r].state = "used"] /\ Goto(r, "whoami")
    /\ UNCHANGED <<sessions, methods, refs>>

\* Kratos refuses or the call fails; a failed call may have been applied.
SendFails(r) ==
    /\ rq[r].pc = "send"
    /\ \/ rq[r].op = "email_link_start" /\ NewAddress(r)
       \/ UNCHANGED <<email, disturbed>>
    /\ Ends(r, "over")
    /\ UNCHANGED <<sessions, flow, methods, refs>>

SavesRow(r) == refs' = [refs EXCEPT ![r] = [state |-> "saved", kind |-> FiledKind(rq[r].op, rq[r].kind)]]

\* saveFlowRef.
Saves(r) ==
    /\ rq[r].pc = "save"
    /\ SavesRow(r)
    /\ Gives(r, "gave_ref")
    /\ UNCHANGED <<kratos, disturbed>>

\* saveFlowRef fails: an error, or 200 with an empty flow_ref.  A row that was
\* written nonetheless is one that nobody can name.
SaveFails(r) ==
    /\ rq[r].pc = "save"
    /\ IF rq[r].op \in SaveUnchecked THEN Gives(r, "gave_empty") ELSE Ends(r, "over")
    /\ UNCHANGED <<kratos, refs, disturbed>>

\* DynamoDB removes a row after its TTL; nothing in the code does.
RowExpires(a) ==
    /\ refs[a].state = "saved"
    /\ refs' = [refs EXCEPT ![a].state = "expired"]
    /\ UNCHANGED <<kratos, rq, disturbed>>

-----------------------------------------------------------------------------
(* Finishes and removals.                                                  *)

\* GetFlow.
Reads(r) ==
    /\ rq[r].pc = "read"
    /\ rq[r].ref # None
    /\ refs[rq[r].ref].state = "saved"
    /\ rq[r].op = "stepup_email_verify" => refs[rq[r].ref].kind = "login"
    /\ rq' = [rq EXCEPT ![r].pc = "submit",
                        ![r].kind = SubmitKind(rq[r].op, refs[rq[r].ref].kind)]
    /\ UNCHANGED <<kratos, refs, disturbed>>

\* No such row, one of a wrong kind, no credential in the body, or the call fails.
Misses(r) ==
    /\ rq[r].pc = "read"
    /\ Ends(r, "over")
    /\ UNCHANGED <<kratos, refs, disturbed>>

FlowOf(r) == IF rq[r].op \in RemoveOps THEN r ELSE rq[r].ref

\* Mutant: the submit goes out without the session token.
NoToken(r) == None

\* The session token SubmitFlow sends along.
SubmitToken(r) == rq[r].token

\* Kratos takes the submit of r to an open flow of the kind submitted to.
Takes(r) ==
    /\ rq[r].pc = "submit"
    /\ flow[FlowOf(r)].state = "open"
    /\ flow[FlowOf(r)].kind = rq[r].kind
    /\ flow' = [flow EXCEPT ![FlowOf(r)].state = "used"]

ModeTaken(r) == flow[FlowOf(r)].mode

\* The answer of Kratos arrives, or it is lost and the handler answers 500.
Submitted(r, s) ==
    \/ rq' = [rq EXCEPT ![r].pc = "whoami", ![r].outcome = "accepted", ![r].made = s]
    \/ Ends(r, "over")

\* Identity i can prove itself with this credential.
Holds(i, body) == IF body = "code" THEN email[i] # None ELSE body \in Listed(methods[i])

\* Kratos makes session s for identity i; it has none for somebody signed in.
NewSession(r, s, i, kind) ==
    /\ Takes(r)
    /\ rq[r].kind = kind /\ ModeTaken(r) = "plain"
    /\ Body(rq[r].op) # "totp"
    /\ ~Active(SubmitToken(r))
    /\ sessions[s].state = "none"
    /\ sessions' = [sessions EXCEPT ![s] = [state |-> "active", identity |-> i, amr |-> {Body(rq[r].op)}]]
    /\ Submitted(r, s)
    /\ UNCHANGED refs

SubmitLogsIn(r, s, i) ==
    /\ NewSession(r, s, i, "login")
    /\ Holds(i, Body(rq[r].op))
    /\ UNCHANGED <<methods, email, disturbed>>

\* No identity has this passkey yet.
NewPasskey(c) == \A i \in Identities : c \notin methods[i]

\* Identity i is one that nobody has registered; an address is that of the start.
SubmitRegisters(r, s, i) ==
    /\ NewSession(r, s, i, "registration")
    /\ Creds(i) = {}
    /\ IF Body(rq[r].op) = "code"
       THEN email' = [email EXCEPT ![i] = FlowOf(r)] /\ UNCHANGED methods
       ELSE /\ rq[r].cred \in Passkeys /\ NewPasskey(rq[r].cred)
            /\ methods' = [methods EXCEPT ![i] = {rq[r].cred}]
            /\ UNCHANGED email
    /\ Disturbs(r, i)

\* A refresh adds its method to the session of the token; only a flow for AAL2
\* takes a second factor, and it takes nothing else.
SubmitStepsUp(r) ==
    LET t == SubmitToken(r) IN
    /\ Takes(r)
    /\ rq[r].kind = "login" /\ ModeTaken(r) # "plain"
    /\ Body(rq[r].op) = "totp" <=> ModeTaken(r) = "aal2"
    /\ Active(t) /\ Holds(sessions[t].identity, Body(rq[r].op))
    /\ sessions' = [sessions EXCEPT ![t].amr = @ \cup {Body(rq[r].op)}]
    /\ Disturbs(r, sessions[t].identity)
    /\ Submitted(r, t)
    /\ UNCHANGED <<methods, email, refs>>

\* The set creds after the operation of r.
Changed(r, creds) ==
    IF rq[r].op \in AddOps THEN creds \cup {rq[r].cred}
    ELSE IF rq[r].op \in RemoveOps THEN creds \ {rq[r].cred} ELSE creds

\* Kratos removes what is there and keeps a first factor, and adds a new passkey.
MayChange(r, i) ==
    /\ rq[r].op \in RemoveOps => rq[r].cred \in methods[i] /\ Creds(i) \ {rq[r].cred, "totp"} # {}
    /\ rq[r].op = "passkey_link_finish" => NewPasskey(rq[r].cred)

\* A settings flow belongs to the identity that opened it; a verification flow
\* needs no session.
SubmitChanges(r) ==
    /\ Takes(r)
    /\ \/ /\ rq[r].kind = "settings"
          /\ Active(rq[r].token)
          /\ Owner(r) = flow[FlowOf(r)].identity
          /\ MayChange(r, Owner(r))
          /\ methods' = [methods EXCEPT ![Owner(r)] = Changed(r, @)]
          /\ Disturbs(r, Owner(r))
       \/ rq[r].kind = "verification" /\ UNCHANGED <<methods, disturbed>>
    /\ Submitted(r, None)
    /\ UNCHANGED <<sessions, email, refs>>

\* Kratos refuses; where the status is not looked at, the handler goes on, but
\* passkey_link_finish stops at session_refresh_required.
SubmitRefused(r) ==
    /\ rq[r].pc = "submit"
    /\ \/ /\ rq[r].op \in StatusIgnored
          /\ rq' = [rq EXCEPT ![r].pc = "whoami", ![r].outcome = "refused"]
       \/ /\ rq[r].op \notin StatusIgnored \/ rq[r].op = "passkey_link_finish"
          /\ Ends(r, "over")
    /\ UNCHANGED <<kratos, refs, disturbed>>

SubmitFails(r) ==
    /\ rq[r].pc = "submit"
    /\ Ends(r, "over")
    /\ UNCHANGED <<kratos, refs, disturbed>>

-----------------------------------------------------------------------------
(* sessionResponse, for the token the request came with: the cookie that   *)
(* persistSessionToken set is one of the answer, not of the request.       *)

\* WhoAmI and GetOrCreateUser.
WhoAmI(r) ==
    /\ rq[r].pc = "whoami"
    /\ Active(rq[r].token)
    /\ rq' = [rq EXCEPT ![r].pc = "answer", ![r].shown.amr = sessions[rq[r].token].amr]
    /\ UNCHANGED <<kratos, refs, disturbed>>

\* WhoAmI knows no such session, or a call fails.
WhoAmIFails(r) ==
    /\ rq[r].pc = "whoami"
    /\ Ends(r, "over")
    /\ UNCHANGED <<kratos, refs, disturbed>>

\* Mutant: passkeys are listed by their ids.
LinkedIds(r) == Creds(Owner(r))

\* Mutant: the answer says what was linked when the request came in.
LinkedBefore(r) == Listed(rq[r].before.creds)

\* What GetAdminIdentity says is linked, of the identity of r.
LinkedRead(r) == Listed(Creds(Owner(r)))

Answers(r) ==
    /\ rq[r].pc = "answer"
    /\ rq' = [rq EXCEPT ![r].pc = "session", ![r].shown.linked = LinkedRead(r)]
    /\ UNCHANGED <<kratos, refs, disturbed>>

\* GetAdminIdentity fails: its error is dropped and nothing is linked.
AnswersUnlinked(r) ==
    /\ rq[r].pc = "answer"
    /\ Goto(r, "session")
    /\ Fault(r)
    /\ UNCHANGED <<kratos, refs>>

-----------------------------------------------------------------------------
\* A session ends: logout, expiry, or the end of its identity.
SessionEnds(s) ==
    /\ sessions[s].state = "active"
    /\ sessions' = [sessions EXCEPT ![s].state = "ended"]
    /\ UNCHANGED <<flow, methods, email, refs, rq, disturbed>>

StartStep(r) ==
    \/ LinkChecks(r) \/ LinkCheckFails(r)
    \/ Opens(r) \/ OpenRefused(r) \/ OpenPanics(r)
    \/ SendsTheCode(r) \/ LinkSubmits(r) \/ SendFails(r)
    \/ Saves(r) \/ SaveFails(r)

FinishStep(r) ==
    \/ Reads(r) \/ Misses(r)
    \/ \E s \in SessionIds, i \in Identities : SubmitLogsIn(r, s, i) \/ SubmitRegisters(r, s, i)
    \/ SubmitStepsUp(r) \/ SubmitChanges(r)
    \/ SubmitRefused(r) \/ SubmitFails(r)
    \/ WhoAmI(r) \/ WhoAmIFails(r)
    \/ Answers(r) \/ AnswersUnlinked(r)

RequestStep(r) ==
    \/ Comes(r) \/ StartStep(r) \/ FinishStep(r) \/ RowExpires(r)

Next ==
    \/ \E r \in Requests : RequestStep(r)
    \/ \E s \in SessionIds : SessionEnds(s) \/ \E i \in Identities : SignsIn(s, i)

Spec == Init /\ [][Next]_vars

-----------------------------------------------------------------------------
(* Properties                                                              *)

\* A finish that was given the flow_ref of a start it belongs to submits to the kind
\* of flow that Kratos has under it: the kind the start asked for or Kratos went on
\* with, the one its handler filed and the one the finish takes, each written down
\* in a place of its own, agree.
RefServesItsFinish ==
    \A r, a \in Requests :
        rq[r].pc = "submit" /\ rq[r].ref = a /\ rq[r].op \in FinishesOf(rq[a].op) =>
            flow[a].state # "none" /\ rq[r].kind = flow[a].kind

\* An answer that says who is signed in speaks of the session the browser holds
\* after it: when a finish changed the cookie, the answer for the request's old
\* token names no other session.
AnswerNamesHeldSession ==
    \A r \in Requests : rq[r].pc = "session" => Cookie(r) \in {None, rq[r].token}

\* What a change leaves that found r.before and had the outcome it had.
After(r) ==
    IF rq[r].outcome # "accepted" THEN rq[r].before
    ELSE [amr |-> rq[r].before.amr \cup (IF rq[r].op = "aal2_totp" THEN {"totp"} ELSE {}),
          creds |-> Changed(r, rq[r].before.creds)]

\* The settings handlers and the TOTP step-up answer 200 whether Kratos accepted or
\* refused, and nothing in the answer says which: a refused removal of the last
\* first factor is no error.  What the answer lists is all there is, and it is
\* right: without a failed call or another request of the identity, the AMR and the
\* linked methods are those the accepted change leaves, or the refused one found.
AnswerShowsOutcome ==
    \A r \in Requests :
        rq[r].pc = "session" /\ r \notin disturbed /\ rq[r].op \in StatusIgnored =>
            rq[r].shown = [amr |-> After(r).amr, linked |-> Listed(After(r).creds)]

\* email_link_start checks that no address is linked, three calls before it
\* updates the profile: an address is replaced only by a start that met a failed
\* call or another change of the identity in between.
LinkedAddressKept ==
    [][\A i \in Identities :
          email[i] # None /\ email'[i] # email[i] => email'[i] \in disturbed]_vars

-----------------------------------------------------------------------------
(* The inductive invariant behind them.                                    *)

\* The kinds written down about the flow of start a agree.
RefFindsFlow(a) ==
    flow[a].state # "none" /\ refs[a].state # "none" /\ refs[a].kind = flow[a].kind

FlowAsFiled(r) ==
    /\ rq[r].pc \in {"send", "save"} =>
          flow[r].state # "none" /\ flow[r].kind = FiledKind(rq[r].op, rq[r].kind)
    /\ rq[r].pc = "gave_ref" => RefFindsFlow(r) /\ FiledKind(rq[r].op, flow[r].kind) = flow[r].kind
    /\ rq[r].pc = "submit" /\ rq[r].op \notin RemoveOps =>
          /\ rq[r].ref \in Requests /\ rq[rq[r].ref].pc = "gave_ref"
          /\ rq[r].kind = SubmitKind(rq[r].op, refs[rq[r].ref].kind)

\* The token names a session that Kratos made, an answer has one, the outcome of
\* a submit is known after it, the endpoints that ignore a status send no code, a
\* removal looks up no reference, a finish has one that was given, and a change
\* names its credential.
Known(r) ==
    /\ rq[r].token # None => sessions[rq[r].token].state # "none"
    /\ rq[r].pc \in {"answer", "session"} => rq[r].token # None
    /\ rq[r].pc \notin {"whoami", "answer", "session"} => rq[r].outcome = "none"
    /\ rq[r].pc \in {"address", "send"} => rq[r].op \notin StatusIgnored
    /\ rq[r].pc = "read" => rq[r].op \notin RemoveOps
    /\ rq[r].pc = "read" /\ rq[r].ref # None => rq[rq[r].ref].pc = "gave_ref"
    /\ rq[r].pc \in {"open", "read", "submit"} /\ rq[r].op \in AddOps \cup RemoveOps =>
          rq[r].cred \in Credentials

\* A finish that gets a new cookie came without a session, or with an ended one,
\* and its answer speaks of nobody.
CookieOfNewcomer(r) ==
    Cookie(r) \notin {None, rq[r].token} =>
        /\ rq[r].pc = "whoami"
        /\ rq[r].token # None => sessions[rq[r].token].state = "ended"

\* A start that passed its check finds no address until it sets one.
NoAddressYet(r) ==
    rq[r].op = "email_link_start" /\ rq[r].pc \in {"open", "send"} =>
        rq[r].token # None /\ email[Owner(r)] = None

\* A change finds what its request found, and leaves what its outcome says.
Now(r) == [amr |-> sessions[rq[r].token].amr, creds |-> Creds(Owner(r))]

OutcomeTold(r) ==
    rq[r].token # None /\ rq[r].op \in StatusIgnored =>
        /\ rq[r].pc \in {"open", "read", "submit"} => rq[r].before = Now(r)
        /\ rq[r].pc = "submit" => rq[r].kind = IF rq[r].op = "aal2_totp" THEN "login" ELSE "settings"
        /\ rq[r].pc = "whoami" => After(r) = Now(r)
        /\ rq[r].pc = "answer" => rq[r].shown.amr = After(r).amr /\ After(r).creds = Creds(Owner(r))
        /\ rq[r].pc = "session" => rq[r].shown = [amr |-> After(r).amr, linked |-> Listed(After(r).creds)]

RequestInv(r) ==
    /\ Known(r) /\ FlowAsFiled(r) /\ CookieOfNewcomer(r)
    /\ r \notin disturbed => NoAddressYet(r) /\ OutcomeTold(r)

CeremonyInv == TypeOK /\ \A r \in Requests : RequestInv(r)
=============================================================================
