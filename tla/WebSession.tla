------------------------------ MODULE WebSession ------------------------------
(***************************************************************************)
(* The session a browser holds: the cookie poc_kratos_session, which all   *)
(* tabs share, and the copy of its token that each tab of the console      *)
(* (app.js) keeps in sessionStorage and sends as X-Session-Token.          *)
(*                                                                         *)
(* A click starts a script of a tab: a request, then, for all but a        *)
(* refresh, refreshSession.  The browser attaches cookie and header when a *)
(* request is sent, takes Set-Cookie when its answer arrives, and resumes  *)
(* the script some time after that.  Requests of several scripts are under *)
(* way at once, and their answers arrive in any order.                     *)
(*                                                                         *)
(* The sessions are those whose token the service hands out; the separate  *)
(* session of a Google step-up, which no browser holds, is StepUp's.       *)
(***************************************************************************)

CONSTANTS
    Tabs,         \* tabs of one browser
    Scripts,      \* runs of a click handler or of the page's first refresh
    SessionIds,   \* Kratos sessions and their tokens
    None          \* absence of a token

ASSUME NoneAssumption == None \notin SessionIds

SignIns == {"login", "oidc"}       \* a verify or finish, of a step-up too; the OIDC return page
SignOuts == {"logout", "delete"}
Sets == SignIns \cup {"stepup"}    \* ... and the Google step-up with its done page
Writers == Sets \cup SignOuts      \* their answers set or clear the cookie

VARIABLES
    sessions,     \* Kratos: state of a session
    cookie,       \* the token in the cookie jar
    stored,       \* the token in a tab's sessionStorage
    script,       \* the scripts
    quiet         \* no two writers of the cookie overlapped, no logout met a failed
                  \* call and no token of a new session was lost (history)

vars == <<sessions, cookie, stored, script, quiet>>
browser == <<cookie, stored>>

Token == SessionIds \cup {None}

Script ==
    [pc : {"idle", "sent", "disable", "answered", "arrived", "done"},
     tab : Tabs,
     op : Writers \cup {"refresh"},
     token : Token,      \* kratosToken of the request under way; the done page's is the
                         \* one the start of its step-up had (the context's prior token)
     got : Token,        \* the session of its answer
     failed : BOOLEAN]   \* a call of its handler failed (history)

TypeOK ==
    /\ sessions \in [SessionIds -> {"none", "active", "ended"}]
    /\ cookie \in Token
    /\ stored \in [Tabs -> Token]
    /\ script \in [Scripts -> Script]
    /\ quiet \in BOOLEAN

Init ==
    /\ sessions = [s \in SessionIds |-> "none"]
    /\ cookie = None
    /\ stored = [b \in Tabs |-> None]
    /\ script \in [Scripts -> [pc : {"idle"}, tab : Tabs, op : {"refresh"}, token : {None},
                               got : {None}, failed : {FALSE}]]
    /\ quiet = TRUE

-----------------------------------------------------------------------------
Active(t) == t # None /\ sessions[t] = "active"

\* A sign-in or sign-out is under way, or the answer of a step-up is.
Writing(r) == \/ script[r].op \in SignIns \cup SignOuts /\ script[r].pc \in {"sent", "disable", "answered"}
              \/ script[r].op = "stepup" /\ script[r].pc = "answered"

Bringing(r, s) == script[r].op \in SignIns /\ script[r].pc = "answered" /\ script[r].got = s

Handles(r, pc, op) == script[r].pc = pc /\ script[r].op = op
Answers(r, t) == script' = [script EXCEPT ![r].pc = "answered", ![r].got = t]
Goto(r, pc) == script' = [script EXCEPT ![r].pc = pc]

\* Mutant: the header takes precedence.
HeaderFirst(jar, header) == IF header # None THEN header ELSE jar

\* kratosToken: the cookie, or else the header.
KratosToken(jar, header) == IF jar # None THEN jar ELSE header

-----------------------------------------------------------------------------
(* The console.                                                            *)

\* A click, or the load of a page, sends the request of script r.  Kratos starts no
\* OIDC login for somebody signed in; the start of a step-up asks WhoAmI.
Clicks(r, op) ==
    LET token == KratosToken(cookie, stored[script[r].tab]) IN
    /\ script[r].pc = "idle"
    /\ op = "oidc" => ~Active(token)
    /\ op = "stepup" => Active(token)
    /\ script' = [script EXCEPT ![r].pc = "sent", ![r].op = op, ![r].token = token]
    /\ quiet' = (quiet /\ ~(op \in SignIns \cup SignOuts /\ \E q \in Scripts : Writing(q)))
    /\ UNCHANGED <<sessions, browser>>

\* The answer arrives with its Set-Cookie.
Arrives(r) ==
    /\ script[r].pc = "answered"
    /\ Goto(r, "arrived")
    /\ cookie' = CASE script[r].op \in Sets -> script[r].got
                   [] script[r].op \in SignOuts -> None
                   [] OTHER -> cookie
    /\ UNCHANGED <<sessions, stored, quiet>>

\* No answer arrives, and the script stops.
Loses(r) ==
    /\ script[r].pc = "answered"
    /\ Goto(r, "done")
    /\ quiet' = (quiet /\ (script[r].op \in SignIns => script[r].got = script[r].token))
    /\ UNCHANGED <<sessions, browser>>

\* The answer was an error although its cookie stands (sessionResponse failed), or
\* the tab is closed: the script stops.
Stops(r) ==
    /\ script[r].pc = "arrived"
    /\ Goto(r, "done")
    /\ UNCHANGED <<sessions, browser, quiet>>

\* Mutant: a field of the answer other than the token is stored.
StoresState(r) ==
    /\ Handles(r, "arrived", "refresh") /\ script[r].got # None
    /\ stored' = [stored EXCEPT ![script[r].tab] = sessions[script[r].got]]
    /\ Goto(r, "done")
    /\ UNCHANGED <<sessions, cookie, quiet>>

\* The rest of refreshSession: the tab keeps the token of the answer, or none.
KeepsToken(r) ==
    /\ Handles(r, "arrived", "refresh")
    /\ stored' = [stored EXCEPT ![script[r].tab] = script[r].got]
    /\ Goto(r, "done")
    /\ UNCHANGED <<sessions, cookie, quiet>>

\* After any other answer the script goes on with refreshSession: a logout forgets
\* the tab's token first, a return page stores its token and loads the console.
Resumes(r) ==
    LET b == script[r].tab
        kept == CASE script[r].op = "logout" -> None
                  [] script[r].op \in {"oidc", "stepup"} -> script[r].got
                  [] OTHER -> stored[b]
    IN
    /\ script[r].pc = "arrived" /\ script[r].op \in Writers
    /\ stored' = [stored EXCEPT ![b] = kept]
    /\ script' = [script EXCEPT ![r] = [@ EXCEPT !.pc = "sent", !.op = "refresh", !.got = None,
                                                 !.token = KratosToken(cookie, kept), !.failed = FALSE]]
    /\ UNCHANGED <<sessions, cookie, quiet>>

-----------------------------------------------------------------------------
(* The service.                                                            *)

\* sessionResponse: WhoAmI with the token of the request.
AnswersSession(r) ==
    /\ Handles(r, "sent", "refresh")
    /\ Answers(r, IF Active(script[r].token) THEN script[r].token ELSE None)
    /\ UNCHANGED <<sessions, browser, quiet>>

\* WhoAmI fails, which counts as signed out; or a store call fails with 500.
SessionFails(r) ==
    /\ Handles(r, "sent", "refresh")
    /\ Answers(r, None) \/ Goto(r, "done")
    /\ UNCHANGED <<sessions, browser, quiet>>

\* Kratos makes a session; a login for a token that is signed in makes none.
Makes(r, s) ==
    /\ script[r].op = "login" => ~Active(script[r].token)
    /\ sessions[s] = "none"
    /\ sessions' = [sessions EXCEPT ![s] = "active"]

SignsIn(r, s) ==
    /\ script[r].pc = "sent" /\ script[r].op \in SignIns
    /\ Makes(r, s)
    /\ Answers(r, s)
    /\ UNCHANGED <<browser, quiet>>

\* The finish of a refresh login: Kratos keeps the session and repeats its token.
Refreshes(r) ==
    /\ Handles(r, "sent", "login") /\ Active(script[r].token)
    /\ Answers(r, script[r].token)
    /\ UNCHANGED <<sessions, browser, quiet>>

\* Kratos refuses, or a call fails: before Kratos made a session, or after, with the
\* answer of SubmitFlow or of the exchange lost.
SignInFails(r) ==
    /\ script[r].pc = "sent" /\ script[r].op \in SignIns
    /\ Goto(r, "done")
    /\ \/ UNCHANGED <<sessions, quiet>>
       \/ (\E s \in SessionIds : Makes(r, s)) /\ quiet' = FALSE
    /\ UNCHANGED browser

\* The done page of a step-up: WhoAmI with the prior token, which becomes the cookie.
StepsUp(r) ==
    /\ Handles(r, "sent", "stepup") /\ Active(script[r].token)
    /\ Answers(r, script[r].token)
    /\ quiet' = (quiet /\ \A q \in Scripts : ~Writing(q))
    /\ UNCHANGED <<sessions, browser>>

StepUpFails(r) ==
    /\ Handles(r, "sent", "stepup")
    /\ Goto(r, "done")
    /\ UNCHANGED <<sessions, browser, quiet>>

\* Mutant: logout answers without asking Kratos.
ClearsOnly(r) ==
    Handles(r, "sent", "logout") /\ Answers(r, None) /\ UNCHANGED <<sessions, browser, quiet>>

\* handleLogout, handleDeleteAccount: WhoAmI.
LooksUp(r) ==
    /\ script[r].pc = "sent" /\ script[r].op \in SignOuts
    /\ IF Active(script[r].token) THEN Goto(r, "disable")
       ELSE IF script[r].op = "logout" THEN Answers(r, None) ELSE Goto(r, "done")
    /\ UNCHANGED <<sessions, browser, quiet>>

\* A failed call ends a deletion with an error; a logout goes on and answers ok.
Fails(r) ==
    /\ IF script[r].op = "logout"
       THEN script' = [script EXCEPT ![r].pc = "answered", ![r].failed = TRUE]
       ELSE Goto(r, "done")
    /\ quiet' = (quiet /\ script[r].op # "logout")

LookUpFails(r) ==
    /\ script[r].pc = "sent" /\ script[r].op \in SignOuts
    /\ Fails(r)
    /\ UNCHANGED <<sessions, browser>>

Ended(s) == [sessions EXCEPT ![s] = "ended"]

\* DisableSession, or DeleteIdentity, which takes the session with it.
Disables(r) ==
    /\ script[r].pc = "disable"
    /\ sessions' = Ended(script[r].token)
    /\ Answers(r, None)
    /\ UNCHANGED <<browser, quiet>>

DisableFails(r) ==
    /\ script[r].pc = "disable"
    /\ sessions' \in {sessions, Ended(script[r].token)}
    /\ Fails(r)
    /\ UNCHANGED browser

\* A session ends by itself: expiry, or a sign-out elsewhere.
SessionEnds(s) ==
    /\ sessions[s] = "active"
    /\ sessions' = Ended(s)
    /\ UNCHANGED <<browser, script, quiet>>

-----------------------------------------------------------------------------
ScriptStep(r) ==
    \/ Arrives(r) \/ Loses(r) \/ Stops(r) \/ KeepsToken(r) \/ Resumes(r)
    \/ AnswersSession(r) \/ SessionFails(r)
    \/ \E s \in SessionIds : SignsIn(r, s)
    \/ Refreshes(r) \/ SignInFails(r) \/ StepsUp(r) \/ StepUpFails(r)
    \/ LooksUp(r) \/ LookUpFails(r) \/ Disables(r) \/ DisableFails(r)

Next ==
    \/ \E r \in Scripts : ScriptStep(r) \/ \E op \in Writers \cup {"refresh"} : Clicks(r, op)
    \/ \E s \in SessionIds : SessionEnds(s)

Spec == Init /\ [][Next]_vars

-----------------------------------------------------------------------------
(* Properties                                                              *)

\* The browser never loses hold of a session that is signed in: it is the one in the
\* cookie or in a sign-in's answer under way, unless two writers of the cookie
\* overlapped, a logout met a failed call or the token of a new session was lost.  So
\* a stale token, in a tab's storage, in the context of a step-up begun long before or
\* in the late answer of a refresh, opens nothing.
LiveSessionIsHeld ==
    quiet => \A s \in SessionIds : sessions[s] = "active" =>
                cookie = s \/ \E r \in Scripts : Bringing(r, s)

\* When a logout whose calls did not fail has answered, the session its request
\* spoke for is over, whatever else signed in, refreshed or signed out beside it.
LogoutEndsSession ==
    \A r \in Scripts :
        script[r].op = "logout" /\ script[r].pc \in {"answered", "arrived"} /\ ~script[r].failed
            => ~Active(script[r].token)

-----------------------------------------------------------------------------
(* The inductive invariant behind them.                                    *)

\* Writers that do not overlap speak for the cookie they will replace.
SpeaksForCookie(r) ==
    /\ script[r].op # "oidc" /\ script[r].pc \in {"sent", "disable"} => cookie \in {None, script[r].token}
    /\ script[r].op = "oidc" /\ script[r].pc = "sent" => ~Active(cookie)
    /\ script[r].op \in SignOuts /\ script[r].pc = "answered" => ~Active(cookie)
    /\ script[r].op \in Sets /\ script[r].pc = "answered" =>
          /\ script[r].got # None
          /\ IF script[r].got = script[r].token THEN cookie = script[r].got ELSE ~Active(cookie)

WriterAlone ==
    quiet => \A r \in Scripts : Writing(r) =>
                SpeaksForCookie(r) /\ \A q \in Scripts : Writing(q) => q = r

\* Only sessions that were made are named.
TokensMade ==
    /\ cookie # None => sessions[cookie] # "none"
    /\ \A b \in Tabs : stored[b] # None => sessions[stored[b]] # "none"
    /\ \A r \in Scripts : /\ script[r].token # None => sessions[script[r].token] # "none"
                          /\ script[r].got # None => sessions[script[r].got] # "none"

\* Only a sign-out goes on to end a session; a step-up answers with its token.
SignOutDisables == \A r \in Scripts : script[r].pc = "disable" => script[r].op \in SignOuts
StepUpKeepsToken == \A r \in Scripts : Handles(r, "answered", "stepup") => script[r].got = script[r].token

WebInv == TypeOK /\ SignOutDisables /\ StepUpKeepsToken /\ TokensMade /\ WriterAlone /\ LiveSessionIsHeld /\ LogoutEndsSession
=============================================================================
