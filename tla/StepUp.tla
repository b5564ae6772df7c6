-------------------------------- MODULE StepUp --------------------------------
(***************************************************************************)
(* Step-up of a session by an OIDC login (server.go, sessionmerge).  The   *)
(* browser of session s starts a refresh login at provider p               *)
(* (startOIDCFlow), Kratos completes it with a session of its own and      *)
(* sends the browser to stepup/done (handleOIDCStepUpDone), which appends  *)
(* the method to s in Kratos' database and revokes the extra session       *)
(* (mergeOIDCStepUp, AppendMethod).                                        *)
(*                                                                         *)
(* Several tabs and devices do this at once.  The address of the done page *)
(* is known once the start was answered: it may be loaded more than once,  *)
(* and before the login is completed, which the handler does not look at.  *)
(* Every call to Kratos, to its database and to DynamoDB is a step.  Of a  *)
(* session's authentication methods only the OIDC ones are kept, as the    *)
(* number of entries of each provider.                                     *)
(***************************************************************************)
EXTENDS Naturals

CONSTANTS
    Identities,   \* Kratos identities
    SessionIds,   \* Kratos session ids; an id is used once
    Providers,    \* OIDC providers
    Contexts,     \* ctx ids, one per start request
    Dones,        \* requests to GET /api/v1/auth/oidc/stepup/done
    None          \* absence of a value

ASSUME NoneAssumption ==
    None \notin Identities \cup SessionIds \cup Providers \cup Contexts \cup Dones

VARIABLES
    sessions,     \* Kratos' sessions table
    ctxs,         \* table poc_oidc_ctx: the saved contexts
    st,           \* the start requests, by the ctx id each one draws
    completed,    \* contexts whose login Kratos completed
    dn,           \* the done requests
    ended,        \* ended[s]: done request that revoked s, None if none (history)
    early,        \* contexts a done read before their login was completed (history)
    disturbed,    \* contexts for a done of which a call failed (history)
    overlapped    \* session and provider of two dones that overlapped (history)

vars == <<sessions, ctxs, st, completed, dn, ended, early, disturbed, overlapped>>
history == <<ended, early, disturbed, overlapped>>

-----------------------------------------------------------------------------
Session ==
    [state : {"none", "active", "ended"},
     identity : Identities \cup {None},
     first : Providers \cup {None},    \* provider of the login that made it
     origin : Contexts \cup {None},    \* context of the step-up that made it
     amr : [Providers -> Nat]]         \* entries "oidc:p" of authentication_methods

StartRequest ==
    [pc : {"idle", "save", "flow", "redirected", "refused", "failed"},
     prior : SessionIds \cup {None},
     provider : Providers \cup {None}]

DonePc == {"idle", "prior", "list", "exists", "append", "revoke", "forget", "whoami",
           "stepup", "whoami_failed", "ctx_missing", "dropped"}

DoneRequest ==
    [pc : DonePc,
     ctx : Contexts \cup {None},
     prior : SessionIds \cup {None},      \* PriorSessionID, PriorSessionToken
     provider : Providers \cup {None},    \* StepUpProvider
     orphan : SessionIds \cup {None}]     \* orphanID

TypeOK ==
    /\ sessions \in [SessionIds -> Session]
    /\ ctxs \subseteq Contexts
    /\ st \in [Contexts -> StartRequest]
    /\ completed \subseteq Contexts
    /\ dn \in [Dones -> DoneRequest]
    /\ ended \in [SessionIds -> Dones \cup {None}]
    /\ early \subseteq Contexts
    /\ disturbed \subseteq Contexts
    /\ overlapped \subseteq SessionIds \X Providers
    \* what a request holds at each point of its handler
    /\ \A x \in Contexts : st[x].pc # "idle" => st[x].prior # None /\ st[x].provider # None
    /\ \A x \in completed : st[x].pc = "redirected"
    /\ \A d \in Dones :
          /\ dn[d].pc # "idle" => dn[d].ctx # None
          /\ dn[d].pc \notin {"idle", "ctx_missing"} => dn[d].prior # None /\ dn[d].provider # None
          /\ dn[d].pc = "revoke" => dn[d].orphan # None

Init ==
    /\ sessions = [s \in SessionIds |->
                     [state |-> "none", identity |-> None, first |-> None, origin |-> None,
                      amr |-> [p \in Providers |-> 0]]]
    /\ ctxs = {}
    /\ st = [x \in Contexts |-> [pc |-> "idle", prior |-> None, provider |-> None]]
    /\ completed = {}
    /\ dn = [d \in Dones |-> [pc |-> "idle", ctx |-> None, prior |-> None,
                              provider |-> None, orphan |-> None]]
    /\ ended = [s \in SessionIds |-> None]
    /\ early = {}
    /\ disturbed = {}
    /\ overlapped = {}

Active(s) == sessions[s].state = "active"

\* Mutant: an entry of another provider counts.
HasOtherAuthMethod(s, p) == \E q \in Providers \ {p} : sessions[s].amr[q] > 0

HasAuthMethod(s, p) == sessions[s].amr[p] > 0

StartRunning(x) == st[x].pc \in {"save", "flow"}

\* The client has x from the answer to its start: in return_to, or in the debug
\* field of an answer with an error.
Told(x) == st[x].pc \in {"redirected", "refused"}

DoneRunning(d) ==
    dn[d].pc \in {"prior", "list", "exists", "append", "revoke", "forget", "whoami"}

-----------------------------------------------------------------------------
(* Kratos: logins and the end of sessions.                                 *)

NewSession(i, p, x) ==
    [state |-> "active", identity |-> i, first |-> p, origin |-> x,
     amr |-> [q \in Providers |-> IF q = p THEN 1 ELSE 0]]

\* A login that is no step-up, at a provider or (p = None) by other means.
Login(s, i, p) ==
    /\ sessions[s].state = "none"
    /\ sessions' = [sessions EXCEPT ![s] = NewSession(i, p, None)]
    /\ UNCHANGED <<ctxs, st, completed, dn, history>>

\* handleLogout disables the session; if that fails nothing changes.
Logout(s) ==
    /\ Active(s)
    /\ sessions' = [sessions EXCEPT ![s].state = "ended"]
    /\ UNCHANGED <<ctxs, st, completed, dn, history>>

\* The user completes the refresh login of context x, with an account of the
\* same or of another identity.  Kratos makes a session for it and redirects to
\* return_to, the done page of x.
KratosCompletes(x, s, i) ==
    /\ st[x].pc = "redirected"
    /\ x \notin completed
    /\ sessions[s].state = "none"
    /\ sessions' = [sessions EXCEPT ![s] = NewSession(i, st[x].provider, x)]
    /\ completed' = completed \cup {x}
    /\ UNCHANGED <<ctxs, st, dn, history>>

-----------------------------------------------------------------------------
(* startOIDCFlow with intent stepup.                                       *)

StartGoto(x, pc) == st' = [st EXCEPT ![x].pc = pc]

\* WhoAmI accepts the session token; a ctx id is drawn.
StartWhoAmI(x, s, p) ==
    /\ st[x].pc = "idle"
    /\ Active(s)
    /\ st' = [st EXCEPT ![x] = [pc |-> "save", prior |-> s, provider |-> p]]
    /\ UNCHANGED <<sessions, ctxs, completed, dn, history>>

StartSaves(x) ==
    /\ st[x].pc = "save"
    /\ ctxs' = ctxs \cup {x}
    /\ StartGoto(x, "flow")
    /\ UNCHANGED <<sessions, completed, dn, history>>

StartSaveFails(x) ==
    /\ st[x].pc = "save"
    /\ ctxs' \in {ctxs, ctxs \cup {x}}
    /\ StartGoto(x, "failed")
    /\ UNCHANGED <<sessions, completed, dn, history>>

\* Kratos starts the browser flow and answers its submission with a redirect.
StartRedirects(x) ==
    /\ st[x].pc = "flow"
    /\ StartGoto(x, "redirected")
    /\ UNCHANGED <<sessions, ctxs, completed, dn, history>>

\* Either call fails or gives no redirect; the saved context stays, and the answer
\* names it.
StartFails(x) ==
    /\ st[x].pc = "flow"
    /\ StartGoto(x, "refused")
    /\ UNCHANGED <<sessions, ctxs, completed, dn, history>>

-----------------------------------------------------------------------------
(* handleOIDCStepUpDone.                                                   *)

DoneGoto(d, pc) == dn' = [dn EXCEPT ![d].pc = pc]

\* A call of request d failed.
DoneFault(d) == disturbed' = disturbed \cup {dn[d].ctx}

\* Mutant: the browser's current session is stepped up.
DoneReadsCookie(d, x) ==
    /\ dn[d].pc = "idle"
    /\ Told(x)
    /\ x \in ctxs
    /\ \E s \in SessionIds :
          /\ Active(s)
          /\ dn' = [dn EXCEPT ![d] = [pc |-> "prior", ctx |-> x, prior |-> s,
                                      provider |-> st[x].provider, orphan |-> None]]
    /\ UNCHANGED <<sessions, ctxs, st, completed, history>>

\* GetOIDCContext finds the context; that the login was completed is not asked.
DoneReads(d, x) ==
    /\ dn[d].pc = "idle"
    /\ Told(x)
    /\ x \in ctxs
    /\ dn' = [dn EXCEPT ![d] = [pc |-> "prior", ctx |-> x, prior |-> st[x].prior,
                                provider |-> st[x].provider, orphan |-> None]]
    /\ early' = IF x \in completed THEN early ELSE early \cup {x}
    /\ overlapped' = overlapped \cup
          {<<st[x].prior, st[x].provider>> :
              e \in {f \in Dones : DoneRunning(f) /\ dn[f].prior = st[x].prior
                                     /\ dn[f].provider = st[x].provider}}
    /\ UNCHANGED <<sessions, ctxs, st, completed, ended, disturbed>>

\* The context is gone, or the read fails.
DoneMisses(d, x) ==
    /\ dn[d].pc = "idle"
    /\ Told(x)
    /\ dn' = [dn EXCEPT ![d].pc = "ctx_missing", ![d].ctx = x]
    /\ disturbed' = IF x \in ctxs THEN disturbed \cup {x} ELSE disturbed
    /\ UNCHANGED <<sessions, ctxs, st, completed, ended, early, overlapped>>

\* WhoAmI for the prior session, and HasAuthMethod on its answer.
DonePrior(d) ==
    /\ dn[d].pc = "prior"
    /\ Active(dn[d].prior)
    /\ DoneGoto(d, IF HasAuthMethod(dn[d].prior, dn[d].provider) THEN "forget" ELSE "list")
    /\ UNCHANGED <<sessions, ctxs, st, completed, history>>

\* The merge fails: the prior session has ended, or Kratos does not answer.
DonePriorFails(d) ==
    /\ dn[d].pc = "prior"
    /\ DoneGoto(d, "forget")
    /\ disturbed' = IF Active(dn[d].prior) THEN disturbed \cup {dn[d].ctx} ELSE disturbed
    /\ UNCHANGED <<sessions, ctxs, st, completed, ended, early, overlapped>>

\* Mutant: the loop does not look at the methods of a session.
OtherSessions(d) ==
    {s \in SessionIds :
        /\ s # dn[d].prior
        /\ Active(s)
        /\ sessions[s].identity = sessions[dn[d].prior].identity}

\* Sessions that ListIdentitySessions gives and the loop accepts.
OrphanCandidates(d) ==
    {s \in SessionIds :
        /\ s # dn[d].prior
        /\ Active(s)
        /\ sessions[s].identity = sessions[dn[d].prior].identity
        /\ HasAuthMethod(s, dn[d].provider)}

\* Mutant: without an extra session there is nothing to merge.
DoneListsOrLeaves(d) ==
    /\ dn[d].pc = "list"
    /\ \/ /\ OrphanCandidates(d) = {}
          /\ DoneGoto(d, "forget")
       \/ \E s \in OrphanCandidates(d) :
             dn' = [dn EXCEPT ![d].pc = "exists", ![d].orphan = s]
    /\ UNCHANGED <<sessions, ctxs, st, completed, history>>

\* The first candidate in the order of Kratos' answer is taken.
DoneLists(d) ==
    /\ dn[d].pc = "list"
    /\ \/ /\ OrphanCandidates(d) = {}
          /\ DoneGoto(d, "exists")
       \/ \E s \in OrphanCandidates(d) :
             dn' = [dn EXCEPT ![d].pc = "exists", ![d].orphan = s]
    /\ UNCHANGED <<sessions, ctxs, st, completed, history>>

\* A failed list is ignored.
DoneListFails(d) ==
    /\ dn[d].pc = "list"
    /\ DoneGoto(d, "exists")
    /\ DoneFault(d)
    /\ UNCHANGED <<sessions, ctxs, st, completed, ended, early, overlapped>>

\* AppendMethod, SELECT EXISTS.
DoneSelects(d) ==
    /\ dn[d].pc = "exists"
    /\ DoneGoto(d, IF HasAuthMethod(dn[d].prior, dn[d].provider) THEN "forget" ELSE "append")
    /\ UNCHANGED <<sessions, ctxs, st, completed, history>>

DoneSelectFails(d) ==
    /\ dn[d].pc = "exists"
    /\ DoneGoto(d, "forget")
    /\ DoneFault(d)
    /\ UNCHANGED <<sessions, ctxs, st, completed, ended, early, overlapped>>

Appended(s, p) == [sessions EXCEPT ![s].amr[p] = @ + 1]

\* Mutant: a revocation always follows.
DoneAppendsThenRevokes(d) ==
    /\ dn[d].pc = "append"
    /\ sessions' = Appended(dn[d].prior, dn[d].provider)
    /\ DoneGoto(d, "revoke")
    /\ UNCHANGED <<ctxs, st, completed, history>>

\* AppendMethod, UPDATE; the row is there whether the session is active or not.
DoneAppends(d) ==
    /\ dn[d].pc = "append"
    /\ sessions' = Appended(dn[d].prior, dn[d].provider)
    /\ DoneGoto(d, IF dn[d].orphan = None THEN "forget" ELSE "revoke")
    /\ UNCHANGED <<ctxs, st, completed, history>>

\* Mutant: the extra session is revoked whether or not the method was appended.
DoneAppendFailsRevokes(d) ==
    /\ dn[d].pc = "append"
    /\ sessions' \in {sessions, Appended(dn[d].prior, dn[d].provider)}
    /\ DoneGoto(d, IF dn[d].orphan = None THEN "forget" ELSE "revoke")
    /\ DoneFault(d)
    /\ UNCHANGED <<ctxs, st, completed, ended, early, overlapped>>

DoneAppendFails(d) ==
    /\ dn[d].pc = "append"
    /\ sessions' \in {sessions, Appended(dn[d].prior, dn[d].provider)}
    /\ DoneGoto(d, "forget")
    /\ DoneFault(d)
    /\ UNCHANGED <<ctxs, st, completed, ended, early, overlapped>>

Revoked(s, d) ==
    /\ sessions' = [sessions EXCEPT ![s].state = "ended"]
    /\ ended' = [ended EXCEPT ![s] = d]

\* RevokeSession.
DoneRevokes(d) ==
    /\ dn[d].pc = "revoke"
    /\ Revoked(dn[d].orphan, d)
    /\ DoneGoto(d, "forget")
    /\ UNCHANGED <<ctxs, st, completed, early, disturbed, overlapped>>

\* Its error is ignored.
DoneRevokeFails(d) ==
    /\ dn[d].pc = "revoke"
    /\ Revoked(dn[d].orphan, d) \/ UNCHANGED <<sessions, ended>>
    /\ DoneGoto(d, "forget")
    /\ DoneFault(d)
    /\ UNCHANGED <<ctxs, st, completed, early, overlapped>>

\* DeleteOIDCContext; its error is ignored.
DoneForgets(d) ==
    /\ dn[d].pc = "forget"
    /\ ctxs' = ctxs \ {dn[d].ctx}
    /\ DoneGoto(d, "whoami")
    /\ UNCHANGED <<sessions, st, completed, history>>

DoneForgetFails(d) ==
    /\ dn[d].pc = "forget"
    /\ DoneGoto(d, "whoami")
    /\ DoneFault(d)
    /\ UNCHANGED <<sessions, ctxs, st, completed, ended, early, overlapped>>

\* WhoAmI accepts the prior token, which becomes the browser's again.
DoneAnswers(d) ==
    /\ dn[d].pc = "whoami"
    /\ Active(dn[d].prior)
    /\ DoneGoto(d, "stepup")
    /\ UNCHANGED <<sessions, ctxs, st, completed, history>>

DoneWhoAmIFails(d) ==
    /\ dn[d].pc = "whoami"
    /\ DoneGoto(d, "whoami_failed")
    /\ UNCHANGED <<sessions, ctxs, st, completed, history>>

-----------------------------------------------------------------------------
\* The service ends and starts again; requests in progress are not answered.
Restart ==
    /\ (\E x \in Contexts : StartRunning(x)) \/ (\E d \in Dones : DoneRunning(d))
    /\ st' = [x \in Contexts |-> IF StartRunning(x) THEN [st[x] EXCEPT !.pc = "failed"] ELSE st[x]]
    /\ dn' = [d \in Dones |-> IF DoneRunning(d) THEN [dn[d] EXCEPT !.pc = "dropped"] ELSE dn[d]]
    /\ disturbed' = disturbed \cup {dn[d].ctx : d \in {e \in Dones : DoneRunning(e)}}
    /\ UNCHANGED <<sessions, ctxs, completed, ended, early, overlapped>>

StartStep(x) == StartSaves(x) \/ StartSaveFails(x) \/ StartRedirects(x) \/ StartFails(x)

DoneStep(d) ==
    \/ DonePrior(d) \/ DonePriorFails(d)
    \/ DoneLists(d) \/ DoneListFails(d)
    \/ DoneSelects(d) \/ DoneSelectFails(d)
    \/ DoneAppends(d) \/ DoneAppendFails(d)
    \/ DoneRevokes(d) \/ DoneRevokeFails(d)
    \/ DoneForgets(d) \/ DoneForgetFails(d)
    \/ DoneAnswers(d) \/ DoneWhoAmIFails(d)

Next ==
    \/ \E s \in SessionIds :
          \/ \E i \in Identities, p \in Providers \cup {None} : Login(s, i, p)
          \/ Logout(s)
          \/ \E x \in Contexts :
                \/ \E p \in Providers : StartWhoAmI(x, s, p)
                \/ \E i \in Identities : KratosCompletes(x, s, i)
    \/ \E x \in Contexts : StartStep(x) \/ \E d \in Dones : DoneReads(d, x) \/ DoneMisses(d, x)
    \/ \E d \in Dones : DoneStep(d)
    \/ Restart

Spec == Init /\ [][Next]_vars

\* A done request that has started goes on: each of its calls has a client
\* timeout.  Nothing forces a browser to load the page.
Fairness == \A d \in Dones : WF_vars(DoneStep(d))

FairSpec == Spec /\ Fairness
-----------------------------------------------------------------------------
(* Properties                                                              *)

\* Contexts whose step-up was started from session s, at provider p.
StepUpsOf(s, p) ==
    {x \in Contexts : st[x].pc # "idle" /\ st[x].prior = s /\ st[x].provider = p}

\* A session names a provider only if a login there made it, or if the done page
\* of a step-up that this very session started there was loaded: the merge never
\* reaches another tab's or another device's session.
MethodOfOwnStepUp ==
    \A s \in SessionIds, p \in Providers :
        HasAuthMethod(s, p) =>
            \/ sessions[s].first = p
            \/ \E d \in Dones : dn[d].pc \notin {"idle", "ctx_missing"}
                                  /\ dn[d].ctx \in StepUpsOf(s, p)

\* "the browser return_to target after Google OIDC step-up (refresh login)": a
\* method is merged after a login of the step-up was completed at Kratos.
MethodWasProven ==
    \A s \in SessionIds, p \in Providers :
        HasAuthMethod(s, p) =>
            sessions[s].first = p \/ StepUpsOf(s, p) \cap completed # {}

\* A done request ends a session only after its method has landed in the session
\* the browser keeps, never that session itself, and never one of another
\* identity: a failed merge costs the user no login.
EndedAfterMerge ==
    \A s \in SessionIds : ended[s] # None =>
        LET d == ended[s] IN
        /\ HasAuthMethod(dn[d].prior, dn[d].provider)
        /\ s # dn[d].prior
        /\ sessions[s].identity = sessions[dn[d].prior].identity

\* "adds an authentication method ... if not already present", for sessions and
\* providers of which no two done requests were in progress at once.
NoDuplicateUnlessOverlapped ==
    \A s \in SessionIds, p \in Providers :
        <<s, p>> \notin overlapped => sessions[s].amr[p] <= 1

\* No other step-up of the same session and provider was started, and no other
\* session of the identity ever had the provider.
Alone(x) ==
    /\ StepUpsOf(st[x].prior, st[x].provider) = {x}
    /\ \A s \in SessionIds \ {st[x].prior} :
          /\ sessions[s].identity = sessions[st[x].prior].identity
          /\ HasAuthMethod(s, st[x].provider)
          => sessions[s].origin = x

\* A step-up that is answered with success, met no failed call, was alone and whose
\* done page was not loaded before the login was completed, has the method in the
\* prior session once, has ended the session Kratos made for it, and has left no
\* context behind.
StepUpLeavesOneSession ==
    \A d \in Dones :
        LET x == dn[d].ctx
            p == dn[d].provider
            prior == dn[d].prior
        IN  /\ dn[d].pc = "stepup"
            /\ x \notin early \cup disturbed
            /\ <<prior, p>> \notin overlapped
            /\ sessions[prior].first # p
            /\ Alone(x)
            => /\ sessions[prior].amr[p] = 1
               /\ \A s \in SessionIds :
                     /\ sessions[s].origin = x
                     /\ sessions[s].identity = sessions[prior].identity
                     => ~Active(s)
               /\ x \notin ctxs

\* A done request in progress ends with the method in the prior session, unless
\* a call failed or the session has ended: nothing is lost between two tabs.
MethodLands ==
    \A d \in Dones, x \in Contexts, s \in SessionIds, p \in Providers :
        DoneRunning(d) /\ dn[d].ctx = x /\ x \in StepUpsOf(s, p) ~>
            x \in disturbed \/ HasAuthMethod(s, p) \/ ~Active(s)

\* "Kratos ProcessLogin creates a separate OIDC-only session": the session that a
\* merge revokes is such a session.
OnlyStepUpSessionsEnded ==
    \A s \in SessionIds : ended[s] # None => sessions[s].origin # None
-----------------------------------------------------------------------------
(* The inductive invariant behind the safety properties.                   *)

\* A start request stands on a session that was made.
StartInv ==
    \A x \in Contexts : st[x].pc # "idle" => sessions[st[x].prior].state # "none"

\* A done request works on what its context saved, completed or not; the extra
\* session it found is another session of the same identity, and is revoked after
\* the append only.
DoneInv ==
    /\ \A d \in Dones : dn[d].pc \notin {"idle", "ctx_missing"} =>
          /\ st[dn[d].ctx].pc # "idle"
          /\ dn[d].ctx \in completed \cup early
          /\ dn[d].prior = st[dn[d].ctx].prior
          /\ dn[d].provider = st[dn[d].ctx].provider
          /\ dn[d].orphan # None =>
                /\ dn[d].orphan # dn[d].prior
                /\ sessions[dn[d].orphan].state # "none"
                /\ sessions[dn[d].orphan].identity = sessions[dn[d].prior].identity
          /\ dn[d].pc = "revoke" => HasAuthMethod(dn[d].prior, dn[d].provider)
    /\ \A s \in SessionIds : ended[s] # None =>
          /\ dn[ended[s]].pc \notin {"idle", "ctx_missing"}
          /\ sessions[s].state # "none"

\* Without overlap one done request at most works on a session and provider, and
\* what it read before it appends still holds.
MergeInv ==
    \A d \in Dones :
        DoneRunning(d) /\ <<dn[d].prior, dn[d].provider>> \notin overlapped =>
            /\ dn[d].pc = "append" => ~HasAuthMethod(dn[d].prior, dn[d].provider)
            /\ \A e \in Dones :
                  DoneRunning(e) /\ dn[e].prior = dn[d].prior /\ dn[e].provider = dn[d].provider
                     => e = d

CoreInv ==
    /\ StartInv /\ DoneInv /\ MergeInv
    /\ MethodOfOwnStepUp /\ EndedAfterMerge /\ NoDuplicateUnlessOverlapped

\* A step-up makes one session, by a login at its provider; no provider is named
\* before a session is made.
OriginInv ==
    /\ \A s \in SessionIds : sessions[s].state = "none" => sessions[s].first = None
    /\ \A s \in SessionIds : sessions[s].origin # None =>
          /\ sessions[s].state # "none"
          /\ sessions[s].origin \in completed
          /\ sessions[s].first = st[sessions[s].origin].provider
          /\ HasAuthMethod(s, st[sessions[s].origin].provider)
    /\ \A s, t \in SessionIds :
          sessions[s].origin # None /\ sessions[s].origin = sessions[t].origin => s = t

\* The extra session that the step-up of context x has to end.
Extra(x) ==
    {s \in SessionIds : /\ sessions[s].origin = x
                        /\ sessions[s].identity = sessions[st[x].prior].identity}

Merged(x) ==
    /\ HasAuthMethod(st[x].prior, st[x].provider)
    /\ \A s \in Extra(x) : ~Active(s)

\* The step-ups that StepUpLeavesOneSession is about.
Clean(x) ==
    /\ x \in completed
    /\ x \notin early \cup disturbed
    /\ <<st[x].prior, st[x].provider>> \notin overlapped
    /\ sessions[st[x].prior].first # st[x].provider
    /\ Alone(x)

\* As long as its context is there, the method of a clean step-up is missing, or
\* the request that appended it has yet to delete the context.
FreshInv ==
    \A x \in Contexts :
        x \in ctxs /\ Clean(x) /\ HasAuthMethod(st[x].prior, st[x].provider) =>
            \E d \in Dones : dn[d].ctx = x /\ dn[d].pc \in {"revoke", "forget"}

\* What a request of a clean step-up has found, from its first call to its answer.
Finds(d, x) ==
    /\ dn[d].pc \in {"prior", "list"} => dn[d].orphan = None
    /\ dn[d].pc \in {"prior", "list", "exists", "append"} =>
          ~HasAuthMethod(st[x].prior, st[x].provider)
    /\ dn[d].pc \in {"exists", "append"} /\ dn[d].orphan = None => \A s \in Extra(x) : ~Active(s)
    /\ dn[d].pc \in {"exists", "append", "revoke"} /\ dn[d].orphan # None => dn[d].orphan \in Extra(x)
    /\ dn[d].pc \in {"forget", "whoami"} => ~Active(st[x].prior) \/ Merged(x)
    /\ dn[d].pc \in {"whoami", "stepup"} => x \notin ctxs
    /\ dn[d].pc = "stepup" => Merged(x)

FindInv ==
    \A d \in Dones :
        dn[d].pc \notin {"idle", "ctx_missing"} /\ Clean(dn[d].ctx) => Finds(d, dn[d].ctx)

\* The safety half of MethodLands: a done request that is through with the merge
\* has the method in the prior session, unless a call for its context failed or
\* that session has ended.  No overlap of tabs and no other session excuses it.
MethodLanded ==
    \A d \in Dones :
        dn[d].pc \in {"forget", "whoami", "whoami_failed", "stepup"} /\ dn[d].ctx \notin disturbed
            => HasAuthMethod(dn[d].prior, dn[d].provider) \/ ~Active(dn[d].prior)

\* The extra session that a done request found names the method of the step-up.
OrphanInv ==
    \A d \in Dones : dn[d].pc \notin {"idle", "ctx_missing"} /\ dn[d].orphan # None
        => HasAuthMethod(dn[d].orphan, dn[d].provider)

StepUpInv == CoreInv /\ OriginInv /\ FreshInv /\ FindInv /\ MethodLanded /\ OrphanInv

-----------------------------------------------------------------------------
(* Step-up implements SessionAssurance.                                    *)

AskedFor(s) == {p \in Providers : StepUpsOf(s, p) # {}}
NamedBy(s) == {p \in Providers : HasAuthMethod(s, p)}
MergedInto(s) == IF ended[s] = None THEN None ELSE dn[ended[s]].prior

Assurance == INSTANCE SessionAssurance WITH
    People <- Identities,
    Methods <- Providers,
    life <- [s \in SessionIds |-> sessions[s].state],
    person <- [s \in SessionIds |-> sessions[s].identity],
    asked <- [s \in SessionIds |-> AskedFor(s)],
    named <- [s \in SessionIds |-> NamedBy(s)],
    into <- [s \in SessionIds |-> MergedInto(s)]

\* Tabs, failed calls, repeated done pages and restarts come down to sessions that
\* gain only what their own user asked a step-up for, and that are given up only
\* for a session of the same person in which the method has landed.
ImplementsSessionAssurance == Assurance!Spec
=============================================================================
