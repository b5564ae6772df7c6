--------------------------- MODULE CeremoniesProofs ---------------------------
(***************************************************************************)
(* Proofs about Ceremonies, for every number of requests, sessions and     *)
(* identities, every set of endpoints and every initial set of credentials. *)
(***************************************************************************)
EXTENDS Ceremonies, TLAPS

-----------------------------------------------------------------------------
(* What the tables of the endpoints say.                                   *)

LEMMA OpShapes ==
  ASSUME NEW op
  PROVE  /\ KindOf(op) \in {"login", "registration", "settings"}
         /\ ModeOf(op) \in {"plain", "refresh", "aal2"}
         /\ Body(op) \in Proofs
         /\ \A k \in Kinds : SubmitKind(op, k) \in Kinds
         /\ FirstCall(op) \in {"address", "open", "read"}
         /\ \A k \in Kinds : FiledKind(op, k) \in Kinds
         /\ op \notin RemoveOps => FiledKind(op, KindOf(op)) = KindOf(op)
         /\ Named(op) \subseteq Credentials \cup {None}
         /\ op \in AddOps \cup RemoveOps => Named(op) \subseteq Credentials
         /\ \A k : FiledKind(op, FiledKind(op, k)) = FiledKind(op, k)
  <1>1. /\ KindOf(op) \in {"login", "registration", "settings"}
        /\ ModeOf(op) \in {"plain", "refresh", "aal2"}
        /\ Body(op) \in Proofs
        /\ \A k \in Kinds : SubmitKind(op, k) \in Kinds
        /\ FirstCall(op) \in {"address", "open", "read"}
    BY DEF KindOf, ModeOf, Body, SubmitKind, FirstCall, Kinds, Proofs, Methods
  <1>2. \A k \in Kinds : FiledKind(op, k) \in Kinds
    BY DEF FiledKind, Kinds
  <1>3. op \notin RemoveOps => FiledKind(op, KindOf(op)) = KindOf(op)
    BY DEF FiledKind, KindOf, RegistrationStarts, SettingsStarts
  <1>4. Named(op) \subseteq Credentials \cup {None}
    BY DEF Named, Credentials
  <1>5. op \in AddOps \cup RemoveOps => Named(op) \subseteq Credentials
    BY DEF Named, Credentials, AddOps, RemoveOps
  <1>6. \A k : FiledKind(op, FiledKind(op, k)) = FiledKind(op, k)
    BY DEF FiledKind
  <1> QED BY <1>1, <1>2, <1>3, <1>4, <1>5, <1>6

\* The finishes of a start submit to the kind it filed.
LEMMA FinishShapes ==
  ASSUME NEW start, NEW op \in FinishesOf(start), NEW k, FiledKind(start, k) = k
  PROVE  op \notin RemoveOps /\ SubmitKind(op, k) = k
  <1>1. start \in RegistrationStarts => k = "registration"
    BY DEF FiledKind, RegistrationStarts
  <1>2. start \in {"passkey_link_start", "totp_start"} => k = "settings"
    BY DEF FiledKind, RegistrationStarts
  <1>3. start \notin RegistrationStarts \cup SettingsStarts => k = "login"
    BY DEF FiledKind, SettingsStarts
  <1> QED
    BY <1>1, <1>2, <1>3 DEF FinishesOf, SubmitKind, RemoveOps, AddOps, RegistrationStarts, SettingsStarts

\* Endpoints that change credentials and the TOTP step-up, and what they submit.
LEMMA IgnoredShapes ==
  ASSUME NEW op \in StatusIgnored
  PROVE  /\ op \notin NeedsToken \cup {"email_link_start"} \cup SendsCode
         /\ Body(op) \in Methods
         /\ op \in AddOps \cup RemoveOps <=> op # "aal2_totp"
         /\ op = "aal2_totp" => Body(op) = "totp"
         /\ FirstCall(op) = IF op \in RemoveOps THEN "open" ELSE "read"
         /\ op \in RemoveOps => KindOf(op) = "settings" /\ op \notin AddOps
         /\ op \notin RemoveOps =>
              \A k : SubmitKind(op, k) = IF op = "aal2_totp" THEN "login" ELSE "settings"
  BY DEF StatusIgnored, NeedsToken, SendsCode, Body, AddOps, RemoveOps, FirstCall, FinishOps,
         KindOf, SubmitKind, RegistrationStarts, SettingsStarts, Methods

-----------------------------------------------------------------------------
(* Types.                                                                  *)

LEMMA VacantType ==
  ASSUME NEW pc \in RequestPc PROVE Vacant(pc) \in Request
  BY DEF Vacant, Request, Stand, View, Kinds

LEMMA InitType == Init => TypeOK
  <1> SUFFICES ASSUME Init PROVE TypeOK
    OBVIOUS
  <1>1. Vacant("idle") \in Request
    BY VacantType DEF RequestPc
  <1> QED BY <1>1, EnrolledAssumption DEF Init, TypeOK, Session, Flow, Ref, Kinds

\* A request that ends, moves on, or is dropped keeps its type.
LEMMA EndsType ==
  ASSUME TypeOK, NEW r \in Requests, NEW pc \in RequestPc,
         Ends(r, pc) \/ Goto(r, pc) \/ Gives(r, pc) \/ DropAll
  PROVE  rq' \in [Requests -> Request]
  <1>1. CASE Ends(r, pc)
    BY <1>1, VacantType DEF Ends, TypeOK
  <1>2. CASE Goto(r, pc)
    BY <1>2 DEF Goto, TypeOK, Request
  <1>3. CASE DropAll
    BY <1>3, VacantType DEF DropAll, TypeOK, RequestPc
  <1>4. CASE Gives(r, pc)
    <2>1. [Vacant(pc) EXCEPT !.op = rq[r].op] \in Request
      BY VacantType DEF TypeOK, Request
    <2> QED BY <1>4, <2>1 DEF Gives, TypeOK
  <1> QED BY <1>1, <1>2, <1>3, <1>4

\* A session that was made has an identity, and a token of one its owner.
LEMMA OwnerType ==
  ASSUME TypeOK, NEW r \in Requests
  PROVE  /\ \A s \in SessionIds : sessions[s].state # "none" =>
               /\ sessions[s].identity \in Identities
               /\ sessions[s] \in [state : {"active", "ended"}, identity : Identities, amr : SUBSET Proofs]
         /\ Active(rq[r].token) =>
               /\ rq[r].token \in SessionIds
               /\ Owner(r) = sessions[rq[r].token].identity
               /\ Owner(r) \in Identities
  <1>1. \A s \in SessionIds : sessions[s].state # "none" =>
           /\ sessions[s].identity \in Identities
           /\ sessions[s] \in [state : {"active", "ended"}, identity : Identities, amr : SUBSET Proofs]
    BY DEF TypeOK, Session, NoSession
  <1>2. rq[r].token \in SessionIds \cup {None}
    BY DEF TypeOK, Request
  <1> QED BY <1>1, <1>2 DEF Active, Owner

LEMMA CredsType ==
  ASSUME TypeOK, NEW i \in Identities PROVE Creds(i) \subseteq Credentials \cup {"email_otp"}
  BY DEF TypeOK, Creds

LEMMA ListedType ==
  ASSUME NEW creds \in SUBSET (Credentials \cup {"email_otp"}) PROVE Listed(creds) \subseteq Linkable
  BY DEF Listed, Credentials, Linkable, Methods

\* A start reaches its next call with a flow of its own.
LEMMA OpensType ==
  ASSUME TypeOK, NEW r \in Requests, Opens(r) PROVE TypeOK'
  <1>1. /\ KindOf(rq[r].op) \in Kinds /\ ModeOf(rq[r].op) \in {"plain", "refresh", "aal2"}
        /\ AfterOpen(r) \in RequestPc
    BY OpShapes DEF Kinds, AfterOpen, RequestPc
  <1>2. (IF Active(rq[r].token) THEN Owner(r) ELSE None) \in Identities \cup {None}
    BY OwnerType
  <1>3. flow' \in [Requests -> Flow]
    BY <1>1, <1>2 DEF Opens, TypeOK, Flow
  <1>4. rq' \in [Requests -> Request]
    <2>1. CASE AfterOpen(r) = "over"
      BY <2>1, EndsType DEF Opens, RequestPc
    <2>2. CASE AfterOpen(r) # "over"
      BY <1>1, <2>2 DEF Opens, TypeOK, Request
    <2> QED BY <2>1, <2>2
  <1> QED BY <1>3, <1>4 DEF Opens, TypeOK

LEMMA DisturbsType ==
  ASSUME TypeOK, NEW r \in Requests, NEW i, Disturbs(r, i) PROVE disturbed' \subseteq Requests
  BY DEF Disturbs, TypeOK

LEMMA SubmittedType ==
  ASSUME TypeOK, NEW r \in Requests, NEW s \in SessionIds \cup {None}, Submitted(r, s)
  PROVE  rq' \in [Requests -> Request]
  <1>1. CASE rq' = [rq EXCEPT ![r].pc = "whoami", ![r].outcome = "accepted", ![r].made = s]
    <2>1. rq[r] \in Request
      BY DEF TypeOK
    <2>2. [rq[r] EXCEPT !.pc = "whoami", !.outcome = "accepted", !.made = s] \in Request
      BY <2>1 DEF Request, RequestPc
    <2> QED BY <1>1, <2>2 DEF TypeOK
  <1>2. CASE Ends(r, "over")
    BY <1>2, EndsType DEF RequestPc
  <1> QED BY <1>1, <1>2 DEF Submitted

LEMMA TakesType ==
  ASSUME TypeOK, NEW r \in Requests, Takes(r)
  PROVE  flow' \in [Requests -> Flow]
  BY DEF TypeOK, Takes, Flow

LEMMA NewSessionType ==
  ASSUME TypeOK, NEW r \in Requests, NEW s \in SessionIds, NEW i \in Identities, NEW kind,
         NewSession(r, s, i, kind)
  PROVE  /\ sessions' \in [SessionIds -> Session] /\ flow' \in [Requests -> Flow]
         /\ rq' \in [Requests -> Request] /\ refs' = refs
  <1>1. sessions' \in [SessionIds -> Session]
    BY OpShapes DEF NewSession, TypeOK, Session
  <1> QED BY <1>1, TakesType, SubmittedType DEF NewSession

LEMMA NextType == CeremonyInv /\ [Next]_vars => TypeOK'
  <1> SUFFICES ASSUME TypeOK, \A r \in Requests : Known(r), [Next]_vars PROVE TypeOK'
    BY DEF CeremonyInv, RequestInv
  <1> USE DEF kratos
  <1>1. ASSUME NEW r \in Requests, NEW op \in Ops, NEW t \in SessionIds \cup {None},
               NEW a \in Requests \cup {None}, NEW c, Arrives(r, op, t, a, c)
        PROVE  TypeOK'
    <2> DEFINE b == IF t = None \/ op \notin StatusIgnored THEN rq[r].before
                    ELSE [amr |-> sessions[t].amr, creds |-> Creds(sessions[t].identity)]
    <2>1. b \in Stand
      <3>1. CASE t = None \/ op \notin StatusIgnored
        BY <3>1 DEF TypeOK, Request
      <3>2. CASE t # None /\ op \in StatusIgnored
        <4>1. /\ sessions[t].identity \in Identities
              /\ sessions[t] \in [state : {"active", "ended"}, identity : Identities, amr : SUBSET Proofs]
          BY <1>1, <3>2, OwnerType DEF Arrives
        <4>2. Creds(sessions[t].identity) \subseteq Credentials \cup {"email_otp"}
          BY <4>1, CredsType
        <4>3. b = [amr |-> sessions[t].amr, creds |-> Creds(sessions[t].identity)]
          BY <3>2
        <4> HIDE DEF b
        <4> QED BY <4>1, <4>2, <4>3 DEF Stand
      <3> QED BY <3>1, <3>2
    <2>2. rq' = [rq EXCEPT ![r].pc = FirstCall(op), ![r].op = op, ![r].token = t, ![r].ref = a,
                           ![r].cred = c, ![r].before = b]
      BY <1>1 DEF Arrives, TypeOK, Request
    <2> HIDE DEF b
    <2>3. FirstCall(op) \in RequestPc /\ c \in Credentials \cup {None}
      BY <1>1, OpShapes DEF RequestPc, Arrives
    <2>4. rq' \in [Requests -> Request]
      <3>1. [rq[r] EXCEPT !.pc = FirstCall(op), !.op = op, !.token = t, !.ref = a, !.cred = c,
                          !.before = b] \in Request
        BY <2>1, <2>3 DEF TypeOK, Request
      <3> QED BY <2>2, <3>1 DEF TypeOK
    <2> QED BY <1>1, <2>4 DEF Arrives, TypeOK
  <1>2. ASSUME NEW r \in Requests,
               \/ LinkChecks(r) \/ LinkCheckFails(r) \/ OpenRefused(r) \/ OpenPanics(r)
               \/ SendsTheCode(r) \/ SaveFails(r) \/ Misses(r) \/ SubmitFails(r) \/ WhoAmIFails(r)
               \/ AnswersUnlinked(r)
        PROVE  TypeOK'
    <2>1. \E pc \in RequestPc : Ends(r, pc) \/ Goto(r, pc) \/ Gives(r, pc) \/ DropAll
      BY <1>2 DEF LinkChecks, LinkCheckFails, OpenRefused, OpenPanics, SendsTheCode, SaveFails, Misses,
                  SubmitFails, WhoAmIFails, AnswersUnlinked, RequestPc
    <2>2. UNCHANGED <<sessions, flow, methods, email, refs>> /\ disturbed' \subseteq Requests
      BY <1>2 DEF LinkChecks, LinkCheckFails, OpenRefused, OpenPanics, SendsTheCode, SaveFails, Misses,
                  SubmitFails, WhoAmIFails, AnswersUnlinked, Fault, TypeOK
    <2>3. rq' \in [Requests -> Request]
      BY <2>1, EndsType
    <2> QED BY <2>2, <2>3 DEF TypeOK
  <1>3. ASSUME NEW r \in Requests, Opens(r) PROVE TypeOK'
    BY <1>3, OpensType
  <1>4. ASSUME NEW r \in Requests, LinkSubmits(r) \/ SendFails(r) PROVE TypeOK'
    <2>1. rq' \in [Requests -> Request]
      <3>1. CASE \E pc \in RequestPc : Ends(r, pc) \/ Goto(r, pc)
        BY <3>1, EndsType
      <3>2. ASSUME NEW k \in {"verification", "settings"}, rq' = [rq EXCEPT ![r].pc = "save", ![r].kind = k]
            PROVE  rq' \in [Requests -> Request]
        <4>1. "save" \in RequestPc /\ k \in Kinds /\ rq[r] \in Request
          BY DEF TypeOK, RequestPc, Kinds
        <4>2. [rq[r] EXCEPT !.pc = "save", !.kind = k] \in Request
          BY <4>1 DEF Request
        <4> QED BY <3>2, <4>2 DEF TypeOK
      <3> QED BY <1>4, <3>1, <3>2 DEF LinkSubmits, SendFails, RequestPc
    <2>2. flow' \in [Requests -> Flow]
      <3>1. ASSUME NEW k \in {"verification", "settings"}, flow' = [flow EXCEPT ![r].kind = k]
            PROVE  flow' \in [Requests -> Flow]
        BY <3>1 DEF TypeOK, Flow, Kinds
      <3>2. CASE flow' = [flow EXCEPT ![r].state = "used"]
        BY <3>2 DEF TypeOK, Flow
      <3>3. CASE flow' = flow
        BY <3>3 DEF TypeOK
      <3>4. CASE LinkSubmits(r)
        BY <3>1, <3>2, <3>4 DEF LinkSubmits
      <3> QED BY <1>4, <3>3, <3>4 DEF SendFails
    <2>3. email' \in [Identities -> Requests \cup {None}] /\ disturbed' \subseteq Requests
      BY <1>4, DisturbsType DEF LinkSubmits, SendFails, NewAddress, TypeOK
    <2> QED BY <1>4, <2>1, <2>2, <2>3 DEF LinkSubmits, SendFails, TypeOK
  <1>5. ASSUME NEW r \in Requests, Saves(r) PROVE TypeOK'
    <2>1. rq' \in [Requests -> Request]
      BY <1>5, EndsType DEF Saves, RequestPc
    <2>2. FiledKind(rq[r].op, rq[r].kind) \in Kinds
      BY OpShapes DEF TypeOK, Request
    <2> QED BY <1>5, <2>1, <2>2 DEF Saves, SavesRow, TypeOK, Ref
  <1>6. ASSUME NEW r \in Requests, RowExpires(r) PROVE TypeOK'
    BY <1>6 DEF RowExpires, TypeOK, Ref
  <1>7. ASSUME NEW r \in Requests, Reads(r) PROVE TypeOK'
    <2>1. rq[r].ref \in Requests
      BY <1>7 DEF Reads, TypeOK, Request
    <2>2. SubmitKind(rq[r].op, refs[rq[r].ref].kind) \in Kinds
      BY <2>1, OpShapes DEF TypeOK, Ref
    <2>3. [rq[r] EXCEPT !.pc = "submit", !.kind = SubmitKind(rq[r].op, refs[rq[r].ref].kind)] \in Request
      BY <2>2 DEF TypeOK, Request, RequestPc
    <2> QED BY <1>7, <2>3 DEF Reads, TypeOK
  <1>8. ASSUME NEW r \in Requests, NEW s \in SessionIds, NEW i \in Identities, SubmitLogsIn(r, s, i)
        PROVE  TypeOK'
    BY <1>8, NewSessionType DEF SubmitLogsIn, TypeOK
  <1>9. ASSUME NEW r \in Requests, NEW s \in SessionIds, NEW i \in Identities, SubmitRegisters(r, s, i)
        PROVE  TypeOK'
    <2>1. /\ sessions' \in [SessionIds -> Session] /\ flow' \in [Requests -> Flow]
          /\ rq' \in [Requests -> Request] /\ refs' = refs
      BY <1>9, NewSessionType DEF SubmitRegisters
    <2>2. disturbed' \subseteq Requests
      BY <1>9, DisturbsType DEF SubmitRegisters
    <2>3. FlowOf(r) \in Requests \cup {None}
      BY DEF FlowOf, TypeOK, Request
    <2>4. /\ methods' \in [Identities -> SUBSET Credentials]
          /\ email' \in [Identities -> Requests \cup {None}]
      BY <1>9, <2>3 DEF SubmitRegisters, TypeOK, Credentials
    <2> QED BY <2>1, <2>2, <2>4 DEF TypeOK
  <1>10. ASSUME NEW r \in Requests, SubmitStepsUp(r) PROVE TypeOK'
    <2>1. flow' \in [Requests -> Flow]
      BY <1>10, TakesType DEF SubmitStepsUp
    <2>2. rq[r].token \in SessionIds /\ sessions[rq[r].token].state # "none"
      BY <1>10, OwnerType DEF SubmitStepsUp, SubmitToken, Active
    <2>3. sessions[rq[r].token] \in [state : {"active", "ended"}, identity : Identities, amr : SUBSET Proofs]
      BY <2>2, OwnerType
    <2>4. sessions' = [sessions EXCEPT ![rq[r].token].amr = @ \cup {Body(rq[r].op)}]
      BY <1>10 DEF SubmitStepsUp, SubmitToken
    <2>5. sessions' \in [SessionIds -> Session]
      BY <2>2, <2>3, <2>4, OpShapes DEF TypeOK, Session
    <2>6. rq' \in [Requests -> Request] /\ disturbed' \subseteq Requests
      BY <1>10, <2>2, SubmittedType, DisturbsType DEF SubmitStepsUp, SubmitToken
    <2> QED BY <1>10, <2>1, <2>5, <2>6 DEF SubmitStepsUp, TypeOK
  <1>11. ASSUME NEW r \in Requests, SubmitChanges(r) PROVE TypeOK'
    <2>1. flow' \in [Requests -> Flow] /\ rq' \in [Requests -> Request]
      BY <1>11, TakesType, SubmittedType DEF SubmitChanges
    <2>2. methods' \in [Identities -> SUBSET Credentials] /\ disturbed' \subseteq Requests
      <3>1. CASE UNCHANGED <<methods, disturbed>>
        BY <3>1 DEF TypeOK
      <3>2. CASE /\ Active(rq[r].token) /\ Disturbs(r, Owner(r))
                 /\ methods' = [methods EXCEPT ![Owner(r)] = Changed(r, @)]
        <4>1. Owner(r) \in Identities
          BY <3>2, OwnerType
        <4>2. rq[r].op \in AddOps => rq[r].cred \in Credentials
          BY <1>11 DEF Known, SubmitChanges, Takes
        <4>3. Changed(r, methods[Owner(r)]) \subseteq Credentials
          BY <4>1, <4>2 DEF Changed, TypeOK
        <4> QED BY <3>2, <4>3, DisturbsType DEF TypeOK
      <3> QED BY <1>11, <3>1, <3>2 DEF SubmitChanges
    <2> QED BY <1>11, <2>1, <2>2 DEF SubmitChanges, TypeOK
  <1>12. ASSUME NEW r \in Requests, SubmitRefused(r) PROVE TypeOK'
    <2>1. CASE Ends(r, "over")
      BY <1>12, <2>1, EndsType DEF SubmitRefused, TypeOK, RequestPc
    <2>2. CASE rq' = [rq EXCEPT ![r].pc = "whoami", ![r].outcome = "refused"]
      <3>1. "whoami" \in RequestPc /\ rq[r] \in Request
        BY DEF TypeOK, RequestPc
      <3>2. [rq[r] EXCEPT !.pc = "whoami", !.outcome = "refused"] \in Request
        BY <3>1 DEF Request
      <3> QED BY <1>12, <2>2, <3>2 DEF SubmitRefused, TypeOK
    <2> QED BY <1>12, <2>1, <2>2 DEF SubmitRefused
  <1>13. ASSUME NEW r \in Requests, WhoAmI(r) PROVE TypeOK'
    <2>1. rq[r].token \in SessionIds /\ sessions[rq[r].token].amr \subseteq Proofs
      BY <1>13, OwnerType DEF WhoAmI, Active
    <2> DEFINE v == [rq[r].shown EXCEPT !.amr = sessions[rq[r].token].amr]
    <2>2. v \in View
      BY <2>1 DEF TypeOK, Request, View
    <2>3. rq' = [rq EXCEPT ![r] = [rq[r] EXCEPT !.pc = "answer", !.shown = v]]
      BY <1>13 DEF WhoAmI
    <2> HIDE DEF v
    <2>4. [rq[r] EXCEPT !.pc = "answer", !.shown = v] \in Request
      <3>1. "answer" \in RequestPc /\ rq[r] \in Request
        BY DEF TypeOK, RequestPc
      <3> QED BY <2>2, <3>1 DEF Request
    <2> QED BY <1>13, <2>3, <2>4 DEF WhoAmI, TypeOK
  <1>14. ASSUME NEW r \in Requests, Answers(r) PROVE TypeOK'
    <2>1. rq[r].token \in SessionIds /\ sessions[rq[r].token].state # "none"
      BY <1>14 DEF Answers, Known, TypeOK, Request
    <2>2. LinkedRead(r) \subseteq Linkable
      <3>1. Owner(r) \in Identities
        BY <2>1, NoneAssumption, OwnerType DEF Owner
      <3> QED BY <3>1, CredsType, ListedType DEF LinkedRead
    <2> DEFINE v == [rq[r].shown EXCEPT !.linked = LinkedRead(r)]
    <2>3. v \in View
      BY <2>2 DEF TypeOK, Request, View
    <2>4. rq' = [rq EXCEPT ![r] = [rq[r] EXCEPT !.pc = "session", !.shown = v]]
      BY <1>14 DEF Answers
    <2> HIDE DEF v
    <2>5. [rq[r] EXCEPT !.pc = "session", !.shown = v] \in Request
      <3>1. "session" \in RequestPc /\ rq[r] \in Request
        BY DEF TypeOK, RequestPc
      <3> QED BY <2>3, <3>1 DEF Request
    <2> QED BY <1>14, <2>4, <2>5 DEF Answers, TypeOK
  <1>15. ASSUME NEW s \in SessionIds, SessionEnds(s) PROVE TypeOK'
    <2>1. sessions[s] \in [state : {"active", "ended"}, identity : Identities, amr : SUBSET Proofs]
      BY <1>15, OwnerType DEF SessionEnds, TypeOK, Session, NoSession
    <2> QED BY <1>15, <2>1 DEF SessionEnds, TypeOK, Session
  <1>16. ASSUME NEW s \in SessionIds, NEW i \in Identities, SignsIn(s, i) PROVE TypeOK'
    BY <1>16 DEF SignsIn, TypeOK, Session, Proofs, Methods
  <1>17. CASE UNCHANGED vars
    BY <1>17 DEF vars, TypeOK
  <1> QED
    BY <1>1, <1>2, <1>3, <1>4, <1>5, <1>6, <1>7, <1>8, <1>9, <1>10, <1>11, <1>12, <1>13, <1>14, <1>15,
       <1>16, <1>17
    DEF Next, RequestStep, Comes, StartStep, FinishStep

-----------------------------------------------------------------------------
(* What a step leaves alone.                                               *)

\* A request that arrives changes nothing else.
LEMMA ArrivesKeeps ==
  ASSUME NEW r \in Requests, Comes(r)
  PROVE  UNCHANGED <<sessions, flow, methods, email, refs, disturbed>>
  <1>1. PICK op \in Ops, t \in SessionIds \cup {None}, a \in Requests \cup {None},
             c \in Credentials \cup {None} : Arrives(r, op, t, a, c)
    BY DEF Comes
  <1>2. UNCHANGED <<kratos, refs, disturbed>>
    BY <1>1 DEF Arrives
  <1> QED BY <1>2 DEF kratos

\* A session keeps its identity, and one that ended does not come back.
LEMMA SessionsKeep ==
  ASSUME TypeOK, [Next]_vars, NEW s \in SessionIds, sessions[s].state # "none"
  PROVE  /\ sessions'[s].state # "none" /\ sessions'[s].identity = sessions[s].identity
         /\ sessions[s].state = "ended" => sessions'[s].state = "ended"
  <1> USE DEF kratos, TypeOK
  <1>1. ASSUME NEW r \in Requests, NEW o \in SessionIds, NEW i \in Identities,
               SubmitLogsIn(r, o, i) \/ SubmitRegisters(r, o, i)
        PROVE  sessions'[s] = sessions[s]
    BY <1>1 DEF SubmitLogsIn, SubmitRegisters, NewSession
  <1>2. ASSUME NEW r \in Requests, SubmitStepsUp(r)
        PROVE  sessions'[s].state = sessions[s].state /\ sessions'[s].identity = sessions[s].identity
    BY <1>2 DEF SubmitStepsUp
  <1>3. ASSUME NEW o \in SessionIds, SessionEnds(o)
        PROVE  /\ sessions'[s].identity = sessions[s].identity
               /\ sessions'[s].state \in {sessions[s].state, "ended"}
    BY <1>3 DEF SessionEnds
  <1>4. ASSUME NEW o \in SessionIds, NEW i \in Identities, SignsIn(o, i) PROVE sessions'[s] = sessions[s]
    BY <1>4 DEF SignsIn
  <1>5. ASSUME NEW r \in Requests, StartStep(r) PROVE sessions' = sessions
    BY <1>5 DEF StartStep, LinkChecks, LinkCheckFails, Opens, OpenRefused, OpenPanics, SendsTheCode,
                LinkSubmits, SendFails, Saves, SaveFails
  <1>6. ASSUME NEW r \in Requests,
               \/ Reads(r) \/ Misses(r) \/ SubmitChanges(r) \/ SubmitRefused(r) \/ SubmitFails(r)
               \/ WhoAmI(r) \/ WhoAmIFails(r) \/ Answers(r) \/ AnswersUnlinked(r) \/ RowExpires(r)
        PROVE  sessions' = sessions
    BY <1>6 DEF Reads, Misses, SubmitChanges, SubmitRefused, SubmitFails, WhoAmI, WhoAmIFails, Answers,
                AnswersUnlinked, RowExpires
  <1> QED
    BY <1>1, <1>2, <1>3, <1>4, <1>5, <1>6, ArrivesKeeps DEF Next, RequestStep, FinishStep, vars

\* What a request in progress relies on about its identity and session.
Kept(q) ==
    /\ methods'[Owner(q)] = methods[Owner(q)]
    /\ email'[Owner(q)] = email[Owner(q)]
    /\ sessions'[rq[q].token].amr = sessions[rq[q].token].amr

\* A change of identity i by another request disturbs q if it is about i.
LEMMA DisturbedOrOther ==
  ASSUME NEW q \in Requests, NEW r \in Requests, q # r, NEW i, Disturbs(r, i),
         Running(q), q \notin disturbed'
  PROVE  Owner(q) # i
  BY DEF Disturbs

\* A step of one request leaves another alone, drops it, or disturbs it.
LEMMA Bystander ==
  ASSUME TypeOK, \A o \in Requests : Known(o), NEW r \in Requests, NEW q \in Requests, q # r, RequestStep(r)
  PROVE  /\ rq'[q] \in {rq[q], Vacant("over")}
         /\ rq[q].pc = "gave_ref" => rq'[q] = rq[q]
         /\ flow'[q].kind = flow[q].kind
         /\ flow[q].state # "none" => flow'[q].state # "none"
         /\ refs'[q] = refs[q]
         /\ q \notin disturbed' => q \notin disturbed
         /\ q \notin disturbed' /\ Running(q) /\ rq[q].token # None => Kept(q)
  <1> DEFINE Quiet == UNCHANGED <<sessions, methods, email>> /\ disturbed \subseteq disturbed'
             Others == /\ rq'[q] \in {rq[q], Vacant("over")} /\ refs'[q] = refs[q]
                       /\ rq[q].pc = "gave_ref" => rq'[q] = rq[q]
             Flows == /\ flow'[q].kind = flow[q].kind
                      /\ flow[q].state # "none" => flow'[q].state # "none"
  <1> USE DEF kratos
  <1>1. Others
    <2>1. CASE Comes(r)
      BY <2>1 DEF Comes, Arrives, TypeOK
    <2>2. CASE StartStep(r)
      BY <2>2 DEF StartStep, LinkChecks, LinkCheckFails, Opens, OpenRefused, OpenPanics, SendsTheCode,
                  LinkSubmits, SendFails, Saves, SavesRow, SaveFails, Goto, Ends, Gives, DropAll, Running, TypeOK
    <2>3. CASE FinishStep(r)
      BY <2>3 DEF FinishStep, Reads, Misses, SubmitLogsIn, SubmitRegisters, NewSession, SubmitStepsUp,
                  SubmitChanges, SubmitRefused, SubmitFails, WhoAmI, WhoAmIFails, Answers, AnswersUnlinked,
                  Submitted, Goto, Ends, TypeOK
    <2>4. CASE RowExpires(r)
      BY <2>4 DEF RowExpires, TypeOK
    <2> QED BY <2>1, <2>2, <2>3, <2>4 DEF RequestStep
  <1>2. Flows
    <2>1. CASE StartStep(r)
      BY <2>1 DEF StartStep, LinkChecks, LinkCheckFails, Opens, OpenRefused, OpenPanics, SendsTheCode,
                  LinkSubmits, SendFails, Saves, SaveFails, TypeOK
    <2>2. CASE flow' = flow \/ Takes(r)
      <3>1. flow[q] \in Flow /\ flow \in [Requests -> Flow]
        BY DEF TypeOK
      <3>2. CASE Takes(r)
        <4>1. flow' = [flow EXCEPT ![FlowOf(r)].state = "used"]
          BY <3>2 DEF Takes
        <4>2. flow'[q] \in {flow[q], [flow[q] EXCEPT !.state = "used"]}
          BY <3>1, <4>1
        <4> QED BY <3>1, <4>2 DEF Flow
      <3> QED BY <2>2, <3>2
    <2> QED
      BY <2>1, <2>2, ArrivesKeeps
      DEF RequestStep, FinishStep, RowExpires, Reads, Misses, SubmitLogsIn, SubmitRegisters,
          NewSession, SubmitStepsUp, SubmitChanges, SubmitRefused, SubmitFails, WhoAmI, WhoAmIFails, Answers,
          AnswersUnlinked
  <1>3. /\ q \notin disturbed' => q \notin disturbed
        /\ q \notin disturbed' /\ Running(q) /\ rq[q].token # None => Kept(q)
    <2>1. CASE Quiet
      BY <2>1 DEF Kept
    <2>2. CASE NewAddress(r) /\ UNCHANGED <<sessions, methods>>
      <3>1. q \notin disturbed' /\ Running(q) => Owner(q) # Owner(r)
        BY <2>2, DisturbedOrOther DEF NewAddress
      <3> QED BY <2>2, <3>1 DEF NewAddress, Disturbs, Kept, TypeOK
    <2>3. ASSUME NEW s \in SessionIds, NEW i \in Identities, SubmitLogsIn(r, s, i) \/ SubmitRegisters(r, s, i)
          PROVE  /\ q \notin disturbed' => q \notin disturbed
                 /\ q \notin disturbed' /\ Running(q) /\ rq[q].token # None => Kept(q)
      <3>1. disturbed \subseteq disturbed'
        BY <2>3 DEF SubmitLogsIn, SubmitRegisters, Disturbs
      <3>2. ASSUME rq[q].token # None PROVE sessions'[rq[q].token] = sessions[rq[q].token]
        <4>1. sessions[rq[q].token].state # "none" /\ sessions[s].state = "none"
          BY <2>3, <3>2 DEF Known, SubmitLogsIn, SubmitRegisters, NewSession
        <4>2. rq[q].token \in SessionIds /\ rq[q].token # s
          BY <3>2, <4>1 DEF TypeOK, Request
        <4> QED BY <2>3, <4>2 DEF SubmitLogsIn, SubmitRegisters, NewSession, TypeOK
      <3>3. CASE SubmitLogsIn(r, s, i)
        BY <3>1, <3>2, <3>3 DEF SubmitLogsIn, Kept
      <3>4. CASE SubmitRegisters(r, s, i)
        <4>1. q \notin disturbed' /\ Running(q) => Owner(q) # i
          <5>1. Disturbs(r, i)
            BY <3>4 DEF SubmitRegisters
          <5> QED BY <5>1, DisturbedOrOther
        <4>2. ASSUME rq[q].token # None, Owner(q) # i
              PROVE  methods'[Owner(q)] = methods[Owner(q)] /\ email'[Owner(q)] = email[Owner(q)]
          <5>1. Owner(q) \in Identities
            BY <4>2, OwnerType DEF Known, Owner, TypeOK, Request
          <5>2. CASE Body(rq[r].op) = "code"
            BY <3>4, <4>2, <5>1, <5>2 DEF SubmitRegisters, TypeOK
          <5>3. CASE Body(rq[r].op) # "code"
            BY <3>4, <4>2, <5>1, <5>3 DEF SubmitRegisters, TypeOK
          <5> QED BY <5>2, <5>3
        <4> QED BY <3>1, <3>2, <4>1, <4>2 DEF Kept
      <3> QED BY <2>3, <3>3, <3>4
    <2>4. CASE SubmitStepsUp(r)
      <3> DEFINE i == sessions[rq[r].token].identity
      <3>1. q \notin disturbed' /\ Running(q) => Owner(q) # i
        BY <2>4, DisturbedOrOther DEF SubmitStepsUp, SubmitToken
      <3>2. q \notin disturbed' /\ Running(q) /\ rq[q].token # None => rq[q].token # rq[r].token
        BY <3>1 DEF Owner
      <3>3. disturbed \subseteq disturbed'
        BY <2>4 DEF SubmitStepsUp, Disturbs
      <3> QED BY <2>4, <3>2, <3>3 DEF SubmitStepsUp, SubmitToken, Kept, TypeOK
    <2>5. CASE SubmitChanges(r)
      <3>1. CASE UNCHANGED <<methods, disturbed>>
        BY <2>5, <3>1 DEF SubmitChanges, Kept
      <3>2. CASE /\ methods' = [methods EXCEPT ![Owner(r)] = Changed(r, @)]
                 /\ Disturbs(r, Owner(r))
        <4>1. q \notin disturbed' /\ Running(q) => Owner(q) # Owner(r)
          BY <3>2, DisturbedOrOther
        <4> QED BY <2>5, <3>2, <4>1 DEF SubmitChanges, Disturbs, Kept, TypeOK
      <3> QED BY <2>5, <3>1, <3>2 DEF SubmitChanges
    <2> QED
      BY <2>1, <2>2, <2>3, <2>4, <2>5, ArrivesKeeps
      DEF RequestStep, StartStep, FinishStep, RowExpires, LinkChecks, LinkCheckFails,
          Opens, OpenRefused, OpenPanics, SendsTheCode, LinkSubmits, SendFails, Saves, SaveFails, Reads, Misses,
          SubmitRefused, SubmitFails, WhoAmI, WhoAmIFails, Answers, AnswersUnlinked, Fault
  <1> QED BY <1>1, <1>2, <1>3

-----------------------------------------------------------------------------
(* The inductive invariant.                                                *)

\* A request that is over, or gave a reference, has nothing left to keep.
LEMMA VacantInv ==
  ASSUME NEW r \in Requests, rq'[r] = Vacant("over") PROVE RequestInv(r)'
  BY DEF RequestInv, Known, FlowAsFiled, CookieOfNewcomer, Cookie, NoAddressYet, OutcomeTold, Vacant

LEMMA GivesInv ==
  ASSUME NEW r \in Requests, NEW op, NEW pc \in {"gave_ref", "gave_empty"},
         rq'[r] = [Vacant(pc) EXCEPT !.op = op],
         pc = "gave_ref" => RefFindsFlow(r)' /\ FiledKind(op, flow'[r].kind) = flow'[r].kind
  PROVE  RequestInv(r)'
  <1>1. /\ rq'[r].pc = pc /\ rq'[r].op = op /\ rq'[r].token = None /\ rq'[r].outcome = "none"
    BY DEF Vacant
  <1>2. FlowAsFiled(r)'
    BY <1>1 DEF FlowAsFiled
  <1> QED BY <1>1, <1>2 DEF RequestInv, Known, CookieOfNewcomer, Cookie, NoAddressYet, OutcomeTold

\* A request that gave a reference is over, and its row keeps its kind.
LEMMA GivenKept ==
  ASSUME TypeOK, \A o \in Requests : Known(o), NEW r \in Requests, RequestStep(r),
         NEW a \in Requests, rq[a].pc = "gave_ref"
  PROVE  rq'[a] = rq[a] /\ refs'[a].kind = refs[a].kind
  <1>1. CASE a # r
    BY <1>1, Bystander
  <1>2. CASE a = r
    <2>1. RowExpires(r)
      BY <1>2
      DEF RequestStep, StartStep, FinishStep, Comes, LinkChecks, LinkCheckFails, Opens, OpenRefused, OpenPanics,
          SendsTheCode, LinkSubmits, SendFails, Saves, SaveFails, Reads, Misses, SubmitLogsIn, SubmitRegisters,
          NewSession, Takes, SubmitStepsUp, SubmitChanges, SubmitRefused, SubmitFails, WhoAmI, WhoAmIFails,
          Answers, AnswersUnlinked
    <2> QED BY <1>2, <2>1 DEF RowExpires, TypeOK, Ref
  <1> QED BY <1>1, <1>2

\* The invariant of a request outlives a step of another one.
LEMMA BystanderInv ==
  ASSUME CeremonyInv, [Next]_vars, NEW r \in Requests, NEW q \in Requests, q # r, RequestStep(r)
  PROVE  RequestInv(q)'
  <1>1. TypeOK /\ \A o \in Requests : RequestInv(o) /\ Known(o)
    BY DEF CeremonyInv, RequestInv
  <1>2. /\ rq'[q] \in {rq[q], Vacant("over")}
        /\ flow'[q].kind = flow[q].kind
        /\ flow[q].state # "none" => flow'[q].state # "none"
        /\ refs'[q] = refs[q]
        /\ rq[q].pc = "gave_ref" => rq'[q] = rq[q]
        /\ q \notin disturbed' => q \notin disturbed
        /\ q \notin disturbed' /\ Running(q) /\ rq[q].token # None => Kept(q)
    BY <1>1, Bystander
  <1>3. CASE rq'[q] = Vacant("over")
    BY <1>3, VacantInv
  <1>4. CASE rq'[q] = rq[q]
    <2>1. ASSUME rq[q].token # None
          PROVE  /\ rq[q].token \in SessionIds /\ sessions[rq[q].token].state # "none"
                 /\ sessions'[rq[q].token].state # "none"
                 /\ sessions'[rq[q].token].identity = sessions[rq[q].token].identity
                 /\ sessions[rq[q].token].state = "ended" => sessions'[rq[q].token].state = "ended"
      <3>1. rq[q].token \in SessionIds /\ sessions[rq[q].token].state # "none"
        BY <1>1, <2>1 DEF Known, TypeOK, Request
      <3> QED BY <1>1, <3>1, SessionsKeep
    <2>2. ASSUME NEW a \in Requests, rq[a].pc = "gave_ref"
          PROVE  rq'[a].pc = "gave_ref" /\ refs'[a].kind = refs[a].kind
      BY <1>1, <2>2, GivenKept
    <2>3. Known(q)' /\ CookieOfNewcomer(q)' /\ FlowAsFiled(q)'
      <3>1. Known(q)'
        BY <1>1, <1>2, <1>4, <2>1, <2>2 DEF Known, TypeOK, Request
      <3>2. CookieOfNewcomer(q)'
        BY <1>1, <1>2, <1>4, <2>1 DEF RequestInv, CookieOfNewcomer, Cookie
      <3>3. FlowAsFiled(q)'
        BY <1>1, <1>2, <1>4, <2>2 DEF RequestInv, FlowAsFiled, RefFindsFlow
      <3> QED BY <3>1, <3>2, <3>3
    <2>4. Owner(q)' = Owner(q)
      BY <1>4, <2>1 DEF Owner
    <2>5. ASSUME q \notin disturbed' PROVE NoAddressYet(q)'
      BY <1>1, <1>2, <1>4, <2>4, <2>5 DEF RequestInv, NoAddressYet, Running, Kept
    <2>6. ASSUME q \notin disturbed' PROVE OutcomeTold(q)'
      <3>1. OutcomeTold(q)
        BY <1>1, <1>2, <2>6 DEF RequestInv
      <3>2. CASE Running(q) /\ rq[q].token # None
        <4>1. Creds(Owner(q))' = Creds(Owner(q)) /\ sessions'[rq[q].token].amr = sessions[rq[q].token].amr
          BY <1>2, <2>4, <2>6, <3>2 DEF Kept, Creds
        <4>2. Now(q)' = Now(q) /\ After(q)' = After(q)
          BY <1>4, <4>1 DEF Now, After, Changed
        <4> QED BY <1>4, <3>1, <4>1, <4>2 DEF OutcomeTold
      <3>3. CASE ~Running(q) /\ rq[q].token # None
        <4>1. After(q)' = After(q)
          BY <1>4 DEF After, Changed
        <4> QED BY <1>4, <3>1, <3>3, <4>1 DEF Running, OutcomeTold
      <3> QED BY <1>4, <3>2, <3>3 DEF OutcomeTold
    <2> QED BY <2>3, <2>5, <2>6 DEF RequestInv
  <1> QED BY <1>2, <1>3, <1>4

\* A request that arrives has yet to see anything.
LEMMA ArrivesInv ==
  ASSUME CeremonyInv, [Next]_vars, NEW r \in Requests, NEW op \in Ops, NEW t \in SessionIds \cup {None},
         NEW a \in Requests \cup {None}, NEW c, rq[r].pc = "idle", Arrives(r, op, t, a, c)
  PROVE  RequestInv(r)'
  <1> DEFINE b == IF t = None \/ op \notin StatusIgnored THEN rq[r].before
                  ELSE [amr |-> sessions[t].amr, creds |-> Creds(sessions[t].identity)]
  <1>1. TypeOK /\ Known(r)
    BY DEF CeremonyInv, RequestInv
  <1>2. rq' = [rq EXCEPT ![r].pc = FirstCall(op), ![r].op = op, ![r].token = t, ![r].ref = a,
                         ![r].cred = c, ![r].before = b]
    BY <1>1 DEF Arrives, TypeOK, Request
  <1>3. t # None /\ op \in StatusIgnored =>
           b = [amr |-> sessions[t].amr, creds |-> Creds(sessions[t].identity)]
    OBVIOUS
  <1> HIDE DEF b
  <1>4. /\ rq'[r].pc = FirstCall(op) /\ rq'[r].op = op /\ rq'[r].token = t /\ rq'[r].before = b
        /\ rq'[r].ref = a /\ rq'[r].cred = c /\ rq'[r].outcome = "none"
    BY <1>1, <1>2 DEF TypeOK, Request, Known
  <1>5. /\ FirstCall(op) \in {"address", "open", "read"}
        /\ op = "email_link_start" => FirstCall(op) = "address"
        /\ op \in StatusIgnored => FirstCall(op) # "address"
        /\ FirstCall(op) = "read" => op \notin RemoveOps
    BY OpShapes, IgnoredShapes DEF FirstCall, FinishOps, RemoveOps
  <1>6. UNCHANGED <<sessions, flow, methods, email, refs, disturbed>>
    BY DEF Arrives, kratos
  <1>7. OutcomeTold(r)'
    <2>1. ASSUME t # None, op \in StatusIgnored
          PROVE  rq'[r].before = [amr |-> sessions'[rq'[r].token].amr, creds |-> Creds(Owner(r))']
      <3>1. Owner(r)' = sessions[t].identity
        BY <1>4, <1>6, <2>1 DEF Owner
      <3>2. Creds(Owner(r))' = Creds(sessions[t].identity)
        BY <1>6, <3>1 DEF Creds
      <3> QED BY <1>3, <1>4, <1>6, <2>1, <3>2
    <2> QED BY <1>4, <1>5, <2>1 DEF OutcomeTold, Now
  <1>8. NoAddressYet(r)' /\ CookieOfNewcomer(r)' /\ FlowAsFiled(r)'
    BY <1>4, <1>5 DEF NoAddressYet, CookieOfNewcomer, Cookie, FlowAsFiled
  <1>9. Known(r)'
    <2>1. op \in AddOps \cup RemoveOps => c \in Credentials
      BY OpShapes DEF Arrives
    <2>2. a # None => rq'[a].pc = "gave_ref"
      <3>1. a # None => rq[a].pc = "gave_ref" /\ a # r
        BY DEF Arrives
      <3> QED BY <1>1, <1>2, <3>1 DEF TypeOK
    <2>3. t # None => sessions'[t].state # "none"
      BY <1>6 DEF Arrives
    <2> QED BY <1>4, <1>5, <2>1, <2>2, <2>3 DEF Known
  <1> QED BY <1>7, <1>8, <1>9 DEF RequestInv

\* A request that moves on without a submit keeps what was established.
Moves(r, from, to) ==
    /\ rq[r].pc = from /\ rq'[r].pc = to
    /\ rq'[r].op = rq[r].op /\ rq'[r].token = rq[r].token
    /\ rq'[r].ref = rq[r].ref /\ rq'[r].cred = rq[r].cred
    /\ rq'[r].outcome = rq[r].outcome /\ rq'[r].before = rq[r].before

LEMMA MovesInv ==
  ASSUME CeremonyInv, [Next]_vars, NEW r \in Requests, NEW from \in {"address", "open", "send", "read"},
         NEW to \in {"open", "send", "save", "submit"}, Moves(r, from, to),
         r \notin disturbed' => r \notin disturbed,
         to \in {"send", "save"} =>
            flow'[r].state # "none" /\ flow'[r].kind = FiledKind(rq[r].op, rq'[r].kind),
         to = "submit" /\ rq[r].op \notin RemoveOps =>
            /\ rq[r].ref \in Requests /\ rq'[rq[r].ref].pc = "gave_ref"
            /\ rq'[r].kind = SubmitKind(rq[r].op, refs'[rq[r].ref].kind),
         to = "send" => rq[r].op \notin StatusIgnored,
         r \notin disturbed' /\ rq[r].op = "email_link_start" /\ to \in {"open", "send"} =>
            rq[r].token # None /\ email'[Owner(r)] = None,
         rq[r].op \in StatusIgnored => Kept(r),
         rq[r].op \in StatusIgnored /\ to = "submit" =>
            rq'[r].kind = IF rq[r].op = "aal2_totp" THEN "login" ELSE "settings"
  PROVE  RequestInv(r)'
  <1>1. TypeOK /\ RequestInv(r) /\ Known(r) /\ rq[r] \in Request
    BY DEF CeremonyInv, RequestInv, TypeOK
  <1>2. /\ rq'[r].pc = to /\ rq'[r].op = rq[r].op /\ rq'[r].token = rq[r].token
        /\ rq'[r].ref = rq[r].ref /\ rq'[r].cred = rq[r].cred
        /\ rq'[r].outcome = "none" /\ rq'[r].before = rq[r].before
    BY <1>1 DEF Moves, Known
  <1>3. ASSUME rq[r].token # None
        PROVE  /\ sessions'[rq[r].token].state # "none"
               /\ sessions'[rq[r].token].identity = sessions[rq[r].token].identity
    <2>1. rq[r].token \in SessionIds /\ sessions[rq[r].token].state # "none"
      BY <1>1, <1>3 DEF Known, Request
    <2> QED BY <1>1, <2>1, SessionsKeep
  <1>4. Owner(r)' = Owner(r)
    BY <1>2, <1>3 DEF Owner
  <1>5. Known(r)' /\ CookieOfNewcomer(r)' /\ FlowAsFiled(r)'
    <2>1. rq[r].op \in AddOps \cup RemoveOps /\ to \in {"open", "submit"} => rq[r].cred \in Credentials
      BY <1>1 DEF Known, Moves, StatusIgnored
    <2>2. to \in {"address", "send"} => rq[r].op \notin StatusIgnored
      OBVIOUS
    <2>3. Known(r)'
      BY <1>2, <1>3, <2>1, <2>2 DEF Known
    <2> QED BY <1>2, <2>3 DEF CookieOfNewcomer, Cookie, FlowAsFiled
  <1>6. ASSUME r \notin disturbed' PROVE NoAddressYet(r)'
    BY <1>2, <1>4, <1>6 DEF NoAddressYet
  <1>7. ASSUME r \notin disturbed', rq[r].token # None, rq[r].op \in StatusIgnored
        PROVE  rq[r].before = Now(r)'
    <2>1. rq[r].pc \in {"open", "read"}
      BY <1>1, <1>7 DEF Known, Moves
    <2>2. rq[r].before = Now(r)
      BY <1>1, <1>7, <2>1 DEF RequestInv, OutcomeTold
    <2>3. Creds(Owner(r))' = Creds(Owner(r)) /\ sessions'[rq[r].token].amr = sessions[rq[r].token].amr
      BY <1>4, <1>7 DEF Kept, Creds
    <2> QED BY <1>2, <2>2, <2>3 DEF Now
  <1>8. ASSUME r \notin disturbed' PROVE OutcomeTold(r)'
    BY <1>2, <1>7, <1>8 DEF OutcomeTold
  <1> QED BY <1>2, <1>5, <1>6, <1>8 DEF RequestInv

LEMMA StartStepInv ==
  ASSUME CeremonyInv, [Next]_vars, NEW r \in Requests, StartStep(r) PROVE RequestInv(r)'
  <1>1. TypeOK /\ RequestInv(r) /\ Known(r) /\ rq[r] \in Request /\ flow[r] \in Flow
    BY DEF CeremonyInv, RequestInv, TypeOK
  <1> USE DEF kratos
  <1>2. ASSUME Ends(r, "over") \/ (DropAll /\ rq[r].pc = "open") PROVE RequestInv(r)'
    <2>1. rq'[r] = Vacant("over")
      BY <1>1, <1>2 DEF Ends, DropAll, Running, TypeOK
    <2> QED BY <2>1, VacantInv
  <1>3. CASE LinkChecks(r) \/ (LinkCheckFails(r) /\ Goto(r, "open"))
    <2>1. CASE Ends(r, "over")
      BY <1>2, <2>1
    <2>2. CASE Goto(r, "open") /\ ~Ends(r, "over")
      <3>1. /\ Moves(r, "address", "open") /\ rq[r].pc = "address" /\ rq[r].token # None
            /\ UNCHANGED <<sessions, flow, methods, email, refs>>
            /\ disturbed \subseteq disturbed'
            /\ r \notin disturbed' => email[Owner(r)] = None
        BY <1>1, <1>3, <2>2
        DEF LinkChecks, LinkCheckFails, Goto, Fault, Active, TypeOK, Request, Moves
      <3> QED BY <1>1, <3>1, MovesInv DEF Known
    <2> QED BY <1>3, <2>1, <2>2 DEF LinkChecks
  <1>4. CASE Opens(r)
    <2>1. CASE AfterOpen(r) = "over"
      BY <1>2, <1>4, <2>1 DEF Opens
    <2>2. CASE AfterOpen(r) # "over"
      <3> DEFINE pc == AfterOpen(r)
      <3>1. /\ Moves(r, "open", pc) /\ rq'[r].kind = KindOf(rq[r].op)
            /\ UNCHANGED <<sessions, methods, email, refs, disturbed>>
            /\ flow'[r].state = "open"
        BY <1>1, <1>4, <2>2 DEF Opens, TypeOK, Request, Moves
      <3>2. flow'[r].kind = KindOf(rq[r].op)
        BY <1>1, <1>4 DEF Opens, TypeOK
      <3>3. /\ pc \in {"send", "save", "submit"}
            /\ pc = "submit" => rq[r].op \in RemoveOps
            /\ pc # "submit" => rq[r].op \notin RemoveOps
        BY <2>2 DEF AfterOpen, SendsCode, RemoveOps
      <3>4. pc # "submit" => flow'[r].kind = FiledKind(rq[r].op, rq'[r].kind)
        BY <3>1, <3>2, <3>3, OpShapes
      <3>5. rq[r].op \in StatusIgnored =>
              /\ pc # "send"
              /\ pc = "submit" => KindOf(rq[r].op) = IF rq[r].op = "aal2_totp" THEN "login" ELSE "settings"
        BY <2>2, IgnoredShapes DEF AfterOpen, StatusIgnored, RemoveOps
      <3>6. Kept(r)
        BY <3>1 DEF Kept
      <3>7. r \notin disturbed' /\ rq[r].op = "email_link_start" => rq[r].token # None /\ email'[Owner(r)] = None
        BY <1>1, <3>1 DEF RequestInv, NoAddressYet, Moves
      <3> HIDE DEF pc
      <3> QED BY <3>1, <3>3, <3>4, <3>5, <3>6, <3>7, MovesInv
    <2> QED BY <2>1, <2>2
  <1>5. CASE SendsTheCode(r)
    <2>1. /\ Moves(r, "send", "save") /\ rq[r].pc = "send"
          /\ UNCHANGED <<sessions, flow, methods, email, refs, disturbed>>
      BY <1>1, <1>5 DEF SendsTheCode, Goto, TypeOK, Request, Moves
    <2>2. Kept(r)
      BY <2>1 DEF Kept
    <2>3. flow'[r].state # "none" /\ flow'[r].kind = FiledKind(rq[r].op, rq'[r].kind)
      <3>1. rq'[r].kind = rq[r].kind
        BY <1>1, <1>5 DEF SendsTheCode, Goto, TypeOK, Request
      <3> QED BY <1>1, <2>1, <3>1 DEF RequestInv, FlowAsFiled
    <2> QED BY <1>1, <2>1, <2>2, <2>3, MovesInv DEF Known
  <1>6. CASE LinkSubmits(r)
    <2>1. /\ rq[r].pc = "send" /\ rq[r].op \notin StatusIgnored /\ flow[r].state # "none"
          /\ disturbed \subseteq disturbed'
      BY <1>1, <1>6 DEF LinkSubmits, RequestInv, Known, FlowAsFiled, NewAddress, Disturbs
    <2>2. ASSUME NEW k \in {"verification", "settings"}, flow' = [flow EXCEPT ![r].kind = k],
                 rq' = [rq EXCEPT ![r].pc = "save", ![r].kind = k]
          PROVE  RequestInv(r)'
      <3>1. Moves(r, "send", "save") /\ rq'[r].kind = k
        BY <1>1, <2>1, <2>2 DEF TypeOK, Request, Moves
      <3>2. flow'[r].state # "none" /\ flow'[r].kind = k
        BY <1>1, <2>1, <2>2 DEF TypeOK, Flow
      <3>3. FiledKind(rq[r].op, k) = k
        BY <1>6 DEF LinkSubmits, FiledKind, RegistrationStarts
      <3> QED BY <2>1, <3>1, <3>2, <3>3, MovesInv
    <2>3. CASE Goto(r, "whoami")
      <3>1. /\ rq'[r].pc = "whoami" /\ rq'[r].op = rq[r].op /\ rq'[r].token = rq[r].token
            /\ rq'[r].outcome = "none" /\ sessions' = sessions
        BY <1>1, <1>6, <2>1, <2>3 DEF LinkSubmits, Goto, TypeOK, Request, Known
      <3> QED BY <1>1, <2>1, <3>1
              DEF RequestInv, Known, FlowAsFiled, CookieOfNewcomer, Cookie, NoAddressYet, OutcomeTold
    <2> QED BY <1>6, <2>2, <2>3 DEF LinkSubmits
  <1>7. CASE Saves(r)
    <2>1. /\ rq'[r] = [Vacant("gave_ref") EXCEPT !.op = rq[r].op] /\ flow' = flow
          /\ refs'[r] = [state |-> "saved", kind |-> FiledKind(rq[r].op, rq[r].kind)]
      BY <1>1, <1>7 DEF Saves, SavesRow, Gives, TypeOK
    <2>2. flow[r].state # "none" /\ flow[r].kind = FiledKind(rq[r].op, rq[r].kind)
      BY <1>1, <1>7 DEF Saves, RequestInv, FlowAsFiled
    <2>3. RefFindsFlow(r)'
      BY <2>1, <2>2 DEF RefFindsFlow
    <2>4. FiledKind(rq[r].op, flow'[r].kind) = flow'[r].kind
      BY <2>1, <2>2, OpShapes
    <2> QED BY <2>1, <2>3, <2>4, GivesInv
  <1>8. CASE SaveFails(r)
    <2>1. CASE Gives(r, "gave_empty")
      <3>1. rq'[r] = [Vacant("gave_empty") EXCEPT !.op = rq[r].op]
        BY <1>1, <2>1 DEF Gives, TypeOK
      <3> QED BY <3>1, GivesInv
    <2> QED BY <1>2, <1>8, <2>1 DEF SaveFails
  <1>9. CASE \/ OpenRefused(r) \/ OpenPanics(r) \/ SendFails(r)
             \/ LinkCheckFails(r) /\ Ends(r, "over")
    BY <1>2, <1>9 DEF OpenRefused, OpenPanics, SendFails
  <1> QED
    BY <1>3, <1>4, <1>5, <1>6, <1>7, <1>8, <1>9 DEF StartStep, LinkCheckFails

\* Kratos' answer to a submit: the session it names is that of the token, or a new
\* one for a token whose session is over.
LEMMA AcceptedInv ==
  ASSUME CeremonyInv, [Next]_vars, NEW r \in Requests, NEW s \in SessionIds \cup {None}, Submitted(r, s),
         rq[r].pc = "submit", r \notin disturbed' => r \notin disturbed,
         s \notin {None, rq[r].token} /\ rq[r].token # None => sessions[rq[r].token].state = "ended",
         r \notin disturbed /\ rq[r].token # None /\ rq[r].op \in StatusIgnored =>
            /\ sessions'[rq[r].token].amr =
                  rq[r].before.amr \cup (IF rq[r].op = "aal2_totp" THEN {"totp"} ELSE {})
            /\ Changed(r, rq[r].before.creds) =
                  methods'[Owner(r)] \cup (IF email'[Owner(r)] = None THEN {} ELSE {"email_otp"})
  PROVE  RequestInv(r)'
  <1>1. TypeOK /\ RequestInv(r) /\ Known(r) /\ rq[r] \in Request
    BY DEF CeremonyInv, RequestInv, TypeOK
  <1>2. CASE Ends(r, "over")
    <2>1. rq'[r] = Vacant("over")
      BY <1>1, <1>2 DEF Ends, TypeOK
    <2> QED BY <2>1, VacantInv
  <1>3. CASE rq' = [rq EXCEPT ![r].pc = "whoami", ![r].outcome = "accepted", ![r].made = s]
    <2>1. /\ rq'[r].pc = "whoami" /\ rq'[r].outcome = "accepted" /\ rq'[r].made = s
          /\ rq'[r].op = rq[r].op /\ rq'[r].token = rq[r].token /\ rq'[r].before = rq[r].before
          /\ rq'[r].cred = rq[r].cred
      BY <1>1, <1>3 DEF TypeOK, Request
    <2>2. ASSUME rq[r].token # None
          PROVE  /\ sessions'[rq[r].token].state # "none"
                 /\ sessions[rq[r].token].state = "ended" => sessions'[rq[r].token].state = "ended"
      <3>1. rq[r].token \in SessionIds /\ sessions[rq[r].token].state # "none"
        BY <1>1, <2>2 DEF Known, Request
      <3> QED BY <1>1, <3>1, SessionsKeep
    <2>3. Known(r)' /\ NoAddressYet(r)' /\ FlowAsFiled(r)'
      BY <2>1, <2>2 DEF Known, NoAddressYet, FlowAsFiled
    <2>4. CookieOfNewcomer(r)'
      BY <2>1, <2>2 DEF CookieOfNewcomer, Cookie
    <2>5. ASSUME r \notin disturbed', rq[r].token # None, rq[r].op \in StatusIgnored
          PROVE  After(r)' = Now(r)'
      <3>1. /\ After(r)'.amr = rq[r].before.amr \cup (IF rq[r].op = "aal2_totp" THEN {"totp"} ELSE {})
            /\ After(r)' = [amr |-> After(r)'.amr, creds |-> Changed(r, rq[r].before.creds)]
        BY <2>1 DEF After, Changed
      <3>2. Owner(r)' = Owner(r)
        BY <1>1, <2>1, <2>2, <2>5, SessionsKeep DEF Owner, Known, Request
      <3>3. Now(r)' = [amr |-> sessions'[rq[r].token].amr,
                       creds |-> methods'[Owner(r)] \cup (IF email'[Owner(r)] = None THEN {} ELSE {"email_otp"})]
        BY <2>1, <3>2 DEF Now, Creds
      <3> QED BY <2>5, <3>1, <3>3
    <2>6. ASSUME r \notin disturbed' PROVE OutcomeTold(r)'
      BY <2>1, <2>5, <2>6 DEF OutcomeTold
    <2> QED BY <2>1, <2>3, <2>4, <2>6 DEF RequestInv
  <1> QED BY <1>2, <1>3 DEF Submitted

LEMMA FinishStepInv ==
  ASSUME CeremonyInv, [Next]_vars, NEW r \in Requests, FinishStep(r) PROVE RequestInv(r)'
  <1>1. TypeOK /\ RequestInv(r) /\ Known(r) /\ rq[r] \in Request
    BY DEF CeremonyInv, RequestInv, TypeOK
  <1> USE DEF kratos
  <1>2. ASSUME Ends(r, "over") PROVE RequestInv(r)'
    <2>1. rq'[r] = Vacant("over")
      BY <1>1, <1>2 DEF Ends, TypeOK
    <2> QED BY <2>1, VacantInv
  <1>3. CASE Misses(r) \/ SubmitFails(r) \/ WhoAmIFails(r)
    BY <1>2, <1>3 DEF Misses, SubmitFails, WhoAmIFails
  <1>4. CASE Reads(r)
    <2>1. /\ Moves(r, "read", "submit")
          /\ rq'[r].kind = SubmitKind(rq[r].op, refs[rq[r].ref].kind)
          /\ UNCHANGED <<sessions, flow, methods, email, refs, disturbed>>
      BY <1>1, <1>4 DEF Reads, TypeOK, Request, Moves
    <2>2. Kept(r)
      BY <2>1 DEF Kept
    <2>3. rq[r].op \in StatusIgnored => rq'[r].kind = IF rq[r].op = "aal2_totp" THEN "login" ELSE "settings"
      BY <1>1, <1>4, <2>1, IgnoredShapes DEF Known, Reads
    <2>4. rq[r].ref \in Requests /\ rq'[rq[r].ref].pc = "gave_ref"
      <3>1. rq[r].ref \in Requests /\ rq[rq[r].ref].pc = "gave_ref" /\ rq[r].pc = "read"
        BY <1>1, <1>4 DEF Reads, Known, Request
      <3>2. rq'[rq[r].ref] = rq[rq[r].ref]
        BY <1>1, <1>4, <3>1 DEF Reads, TypeOK
      <3> QED BY <3>1, <3>2
    <2> QED BY <2>1, <2>2, <2>3, <2>4, MovesInv
  <1>5. ASSUME NEW s \in SessionIds, NEW i \in Identities, SubmitLogsIn(r, s, i) \/ SubmitRegisters(r, s, i)
        PROVE  RequestInv(r)'
    <2>1. /\ Submitted(r, s) /\ rq[r].pc = "submit" /\ rq[r].kind \in {"login", "registration"}
          /\ Body(rq[r].op) # "totp" /\ ~Active(rq[r].token) /\ disturbed \subseteq disturbed'
      BY <1>5 DEF SubmitLogsIn, SubmitRegisters, NewSession, Takes, SubmitToken, Disturbs
    <2>2. rq[r].token # None => sessions[rq[r].token].state = "ended"
      <3>1. rq[r].token \in SessionIds \cup {None}
        BY <1>1 DEF Request
      <3>2. rq[r].token # None => sessions[rq[r].token].state # "none" /\ sessions[rq[r].token].state # "active"
        BY <1>1, <2>1 DEF Known, Active
      <3> QED BY <1>1, <3>1, <3>2, OwnerType
    <2>3. ~(r \notin disturbed /\ rq[r].token # None /\ rq[r].op \in StatusIgnored)
      BY <1>1, <2>1, IgnoredShapes DEF RequestInv, OutcomeTold
    <2> QED BY <2>1, <2>2, <2>3, AcceptedInv
  <1>6. CASE SubmitStepsUp(r)
    <2> DEFINE t == rq[r].token
    <2>1. /\ Submitted(r, t) /\ rq[r].pc = "submit" /\ rq[r].kind = "login" /\ t \in SessionIds
          /\ r \notin disturbed' => r \notin disturbed
      BY <1>1, <1>6 DEF SubmitStepsUp, SubmitToken, Takes, Active, Disturbs, Request
    <2>2. sessions'[t].amr = sessions[t].amr \cup {Body(rq[r].op)}
      <3>1. sessions[t].state # "none"
        BY <1>6 DEF SubmitStepsUp, SubmitToken, Active
      <3>2. sessions[t] \in [state : {"active", "ended"}, identity : Identities, amr : SUBSET Proofs]
        BY <1>1, <2>1, <3>1, OwnerType
      <3> QED BY <1>1, <1>6, <2>1, <3>2 DEF SubmitStepsUp, SubmitToken, TypeOK
    <2>3. ASSUME r \notin disturbed, rq[r].op \in StatusIgnored
          PROVE  /\ rq[r].op = "aal2_totp" /\ Body(rq[r].op) = "totp"
                 /\ sessions'[t].amr = rq[r].before.amr \cup {"totp"}
                 /\ Changed(r, rq[r].before.creds) =
                       methods'[Owner(r)] \cup (IF email'[Owner(r)] = None THEN {} ELSE {"email_otp"})
      <3>1. rq[r].op = "aal2_totp" /\ Body(rq[r].op) = "totp" /\ rq[r].before = Now(r)
        BY <1>1, <2>1, <2>3, NoneAssumption, IgnoredShapes DEF RequestInv, OutcomeTold
      <3>2. methods' = methods /\ email' = email
        BY <1>6 DEF SubmitStepsUp
      <3>3. rq[r].op \notin AddOps \cup RemoveOps
        BY <3>1 DEF AddOps, RemoveOps
      <3> QED BY <2>2, <3>1, <3>2, <3>3 DEF Now, Changed, Creds
    <2> QED BY <2>1, <2>3, AcceptedInv
  <1>7. CASE SubmitChanges(r)
    <2>1. Submitted(r, None) /\ rq[r].pc = "submit" /\ disturbed \subseteq disturbed'
      BY <1>7 DEF SubmitChanges, Takes, Disturbs
    <2>2. ASSUME r \notin disturbed, rq[r].token # None, rq[r].op \in StatusIgnored
          PROVE  /\ rq[r].op # "aal2_totp" /\ sessions'[rq[r].token].amr = rq[r].before.amr
                 /\ Changed(r, rq[r].before.creds) =
                       methods'[Owner(r)] \cup (IF email'[Owner(r)] = None THEN {} ELSE {"email_otp"})
      <3>1. /\ rq[r].kind = IF rq[r].op = "aal2_totp" THEN "login" ELSE "settings"
            /\ rq[r].before = Now(r)
        BY <1>1, <2>1, <2>2 DEF RequestInv, OutcomeTold
      <3>2. /\ rq[r].op # "aal2_totp" /\ Active(rq[r].token)
            /\ methods' = [methods EXCEPT ![Owner(r)] = Changed(r, @)]
            /\ UNCHANGED <<sessions, email>>
        BY <1>7, <3>1 DEF SubmitChanges
      <3>3. Owner(r) \in Identities /\ rq[r].op \in AddOps \cup RemoveOps
        BY <1>1, <2>2, <3>2, OwnerType, IgnoredShapes
      <3>4. methods'[Owner(r)] = Changed(r, methods[Owner(r)])
        BY <1>1, <3>2, <3>3 DEF TypeOK
      <3>5. rq[r].cred \in Credentials /\ rq[r].cred # "email_otp"
        BY <1>1, <2>1, <3>3, PasskeysAssumption DEF Known, Credentials, Linkable
      <3>6. ASSUME NEW M, NEW E, E \subseteq {"email_otp"}
            PROVE  Changed(r, M \cup E) = Changed(r, M) \cup E
        BY <3>5, <3>6 DEF Changed
      <3> DEFINE E == IF email[Owner(r)] = None THEN {} ELSE {"email_otp"}
      <3>7. Changed(r, methods[Owner(r)] \cup E) = Changed(r, methods[Owner(r)]) \cup E
        <4>1. E \subseteq {"email_otp"}
          OBVIOUS
        <4> HIDE DEF E
        <4> QED BY <3>6, <4>1
      <3>8. rq[r].before.creds = methods[Owner(r)] \cup (IF email[Owner(r)] = None THEN {} ELSE {"email_otp"})
        BY <3>1 DEF Now, Creds
      <3>9. rq[r].before.amr = sessions'[rq[r].token].amr
        BY <3>1, <3>2 DEF Now
      <3> QED BY <3>2, <3>4, <3>7, <3>8, <3>9
    <2> QED BY <2>1, <2>2, AcceptedInv
  <1>8. CASE SubmitRefused(r)
    <2>1. CASE rq' = [rq EXCEPT ![r].pc = "whoami", ![r].outcome = "refused"]
      <3>1. /\ rq'[r].pc = "whoami" /\ rq'[r].outcome = "refused" /\ rq[r].pc = "submit"
            /\ rq'[r].op = rq[r].op /\ rq'[r].token = rq[r].token /\ rq'[r].before = rq[r].before
            /\ UNCHANGED <<sessions, flow, methods, email, refs, disturbed>>
        BY <1>1, <1>8, <2>1 DEF SubmitRefused, TypeOK, Request
      <3>2. Now(r)' = Now(r) /\ After(r)' = rq[r].before
        BY <3>1 DEF Now, After, Creds, Owner
      <3>3. ASSUME r \notin disturbed' PROVE OutcomeTold(r)'
        BY <1>1, <3>1, <3>2, <3>3 DEF RequestInv, OutcomeTold
      <3>4. Known(r)' /\ CookieOfNewcomer(r)' /\ NoAddressYet(r)' /\ FlowAsFiled(r)'
        BY <1>1, <3>1 DEF Known, CookieOfNewcomer, Cookie, NoAddressYet, FlowAsFiled
      <3> QED BY <3>3, <3>4 DEF RequestInv
    <2> QED BY <1>2, <1>8, <2>1 DEF SubmitRefused
  <1>9. CASE WhoAmI(r) \/ Answers(r) \/ AnswersUnlinked(r)
    <2>1. /\ rq[r].pc \in {"whoami", "answer"} /\ rq'[r].pc \in {"answer", "session"}
          /\ rq'[r].outcome = rq[r].outcome /\ rq'[r].made = rq[r].made
          /\ rq'[r].op = rq[r].op /\ rq'[r].token = rq[r].token /\ rq'[r].before = rq[r].before
          /\ rq'[r].cred = rq[r].cred
          /\ UNCHANGED <<sessions, flow, methods, email, refs>> /\ disturbed \subseteq disturbed'
          /\ rq[r].pc = "whoami" => Active(rq[r].token)
      BY <1>1, <1>9 DEF WhoAmI, Answers, AnswersUnlinked, Goto, Fault, TypeOK, Request
    <2>2. Known(r)' /\ NoAddressYet(r)' /\ FlowAsFiled(r)'
      BY <1>1, <2>1 DEF Known, NoAddressYet, FlowAsFiled, Active
    <2>3. CookieOfNewcomer(r)'
      BY <1>1, <2>1 DEF RequestInv, CookieOfNewcomer, Cookie, Active
    <2>4. After(r)' = After(r) /\ Creds(Owner(r))' = Creds(Owner(r))
      BY <2>1 DEF After, Changed, Owner, Creds
    <2>5. ASSUME r \notin disturbed' PROVE OutcomeTold(r)'
      <3>1. OutcomeTold(r)
        BY <1>1, <2>1, <2>5 DEF RequestInv
      <3>2. CASE WhoAmI(r)
        <4>1. rq'[r].pc = "answer" /\ rq'[r].shown.amr = sessions[rq[r].token].amr /\ rq[r].pc = "whoami"
          BY <1>1, <3>2 DEF WhoAmI, TypeOK, Request, View
        <4>2. rq[r].token # None /\ rq[r].op \in StatusIgnored => After(r) = Now(r)
          BY <3>1, <4>1 DEF OutcomeTold
        <4> QED BY <2>1, <2>4, <4>1, <4>2 DEF OutcomeTold, Now
      <3>3. CASE Answers(r)
        <4>1. /\ rq'[r].pc = "session" /\ rq[r].pc = "answer"
              /\ rq'[r].shown = [amr |-> rq[r].shown.amr, linked |-> Listed(Creds(Owner(r)))]
          BY <1>1, <3>3 DEF Answers, LinkedRead, TypeOK, Request, View
        <4> QED BY <2>1, <2>4, <3>1, <4>1 DEF OutcomeTold
      <3>4. CASE AnswersUnlinked(r)
        BY <2>5, <3>4 DEF AnswersUnlinked, Fault
      <3> QED BY <1>9, <3>2, <3>3, <3>4
    <2> QED BY <2>1, <2>2, <2>3, <2>5 DEF RequestInv
  <1> QED
    BY <1>3, <1>4, <1>5, <1>6, <1>7, <1>8, <1>9 DEF FinishStep

\* A step of nobody's request ends a session, or makes one.
LEMMA SessionStepInv ==
  ASSUME CeremonyInv, [Next]_vars, NEW q \in Requests,
         UNCHANGED <<flow, methods, email, refs, rq, disturbed>>,
         \A s \in SessionIds : sessions[s].state # "none" => sessions'[s].amr = sessions[s].amr
  PROVE  RequestInv(q)'
  <1>1. TypeOK /\ RequestInv(q) /\ Known(q) /\ FlowAsFiled(q) /\ rq[q] \in Request
    BY DEF CeremonyInv, RequestInv, TypeOK
  <1>2. ASSUME rq[q].token # None
        PROVE  /\ sessions'[rq[q].token].state # "none"
               /\ sessions'[rq[q].token].identity = sessions[rq[q].token].identity
               /\ sessions'[rq[q].token].amr = sessions[rq[q].token].amr
               /\ sessions[rq[q].token].state = "ended" => sessions'[rq[q].token].state = "ended"
    <2>1. rq[q].token \in SessionIds /\ sessions[rq[q].token].state # "none"
      BY <1>1, <1>2 DEF Known, Request
    <2> QED BY <1>1, <2>1, SessionsKeep
  <1>3. Owner(q)' = Owner(q) /\ Creds(Owner(q))' = Creds(Owner(q)) /\ After(q)' = After(q)
    BY <1>2 DEF Owner, Creds, After, Changed
  <1>4. Known(q)' /\ CookieOfNewcomer(q)' /\ FlowAsFiled(q)'
    <2>1. Known(q)'
      BY <1>1, <1>2 DEF Known
    <2>2. CookieOfNewcomer(q)'
      BY <1>1, <1>2 DEF RequestInv, CookieOfNewcomer, Cookie
    <2> QED BY <1>1, <2>1, <2>2 DEF FlowAsFiled, RefFindsFlow
  <1>5. NoAddressYet(q) => NoAddressYet(q)'
    BY <1>3 DEF NoAddressYet
  <1>6. ASSUME OutcomeTold(q), rq[q].token # None PROVE OutcomeTold(q)'
    <2>1. Now(q)' = Now(q)
      BY <1>2, <1>3, <1>6 DEF Now
    <2> QED BY <1>2, <1>3, <1>6, <2>1 DEF OutcomeTold
  <1>7. rq[q].token = None => OutcomeTold(q)'
    BY DEF OutcomeTold
  <1> QED BY <1>1, <1>4, <1>5, <1>6, <1>7 DEF RequestInv

\* The row of a reference that was answered may be cleaned up.
LEMMA RowExpiresInv ==
  ASSUME CeremonyInv, NEW r \in Requests, NEW q \in Requests, RowExpires(r) PROVE RequestInv(q)'
  <1>1. TypeOK /\ RequestInv(q)
    BY DEF CeremonyInv
  <1>2. /\ UNCHANGED <<sessions, flow, methods, email, rq, disturbed>>
        /\ refs'[q].kind = refs[q].kind /\ refs'[q].state \in {refs[q].state, "expired"}
    BY <1>1 DEF RowExpires, kratos, TypeOK, Ref
  <1>3. \A a \in Requests : refs'[a].kind = refs[a].kind
    BY <1>1 DEF RowExpires, TypeOK, Ref
  <1>4. FlowAsFiled(q)'
    BY <1>1, <1>2, <1>3 DEF RequestInv, FlowAsFiled, RefFindsFlow
  <1>5. Now(q)' = Now(q) /\ After(q)' = After(q) /\ Creds(Owner(q))' = Creds(Owner(q))
    BY <1>2 DEF Now, After, Changed, Owner, Creds
  <1>6. OutcomeTold(q) => OutcomeTold(q)'
    BY <1>2, <1>5 DEF OutcomeTold
  <1>7. Known(q)' /\ CookieOfNewcomer(q)' /\ (NoAddressYet(q) => NoAddressYet(q)')
    BY <1>1, <1>2 DEF RequestInv, Known, CookieOfNewcomer, Cookie, NoAddressYet, Owner
  <1> QED BY <1>1, <1>2, <1>4, <1>6, <1>7 DEF RequestInv

LEMMA InitInv == Init => CeremonyInv
  <1> SUFFICES ASSUME Init PROVE CeremonyInv
    OBVIOUS
  <1>1. \A r \in Requests : rq[r] = Vacant("idle")
    BY DEF Init
  <1>2. ASSUME NEW r \in Requests PROVE RequestInv(r)
    BY <1>1 DEF RequestInv, Known, FlowAsFiled, CookieOfNewcomer, Cookie, NoAddressYet, OutcomeTold, Vacant
  <1> QED BY <1>2, InitType DEF CeremonyInv

LEMMA NextInv == CeremonyInv /\ [Next]_vars => CeremonyInv'
  <1> SUFFICES ASSUME CeremonyInv, [Next]_vars, NEW q \in Requests PROVE RequestInv(q)'
    BY NextType DEF CeremonyInv
  <1>1. ASSUME NEW r \in Requests, RequestStep(r) PROVE RequestInv(q)'
    <2>1. CASE q # r
      BY <1>1, <2>1, BystanderInv
    <2>2. CASE q = r
      BY <1>1, <2>2, ArrivesInv, StartStepInv, FinishStepInv, RowExpiresInv DEF RequestStep, Comes
    <2> QED BY <2>1, <2>2
  <1>2. ASSUME NEW s \in SessionIds, SessionEnds(s) PROVE RequestInv(q)'
    <2>1. \A o \in SessionIds : sessions'[o].amr = sessions[o].amr
      BY <1>2 DEF SessionEnds, CeremonyInv, TypeOK
    <2> QED BY <1>2, <2>1, SessionStepInv DEF SessionEnds
  <1>3. ASSUME NEW s \in SessionIds, NEW i \in Identities, SignsIn(s, i) PROVE RequestInv(q)'
    <2>1. \A o \in SessionIds : sessions[o].state # "none" => sessions'[o].amr = sessions[o].amr
      BY <1>3 DEF SignsIn, CeremonyInv, TypeOK
    <2> QED BY <1>3, <2>1, SessionStepInv DEF SignsIn
  <1>4. CASE UNCHANGED vars
    BY <1>4, SessionStepInv DEF vars
  <1> QED BY <1>1, <1>2, <1>3, <1>4 DEF Next

-----------------------------------------------------------------------------
(* The theorems.                                                           *)

\* Every state of the ceremonies satisfies the inductive invariant.
THEOREM InvCorrect == Spec => []CeremonyInv
  BY InitInv, NextInv, PTL DEF Spec

\* The variables keep their types.
THEOREM TypeCorrect == Spec => []TypeOK
  <1>1. CeremonyInv => TypeOK
    BY DEF CeremonyInv
  <1> QED BY <1>1, InvCorrect, PTL

\* A flow_ref given by a start leads the finishes it is for to the kind of its flow.
THEOREM RefCorrect == Spec => []RefServesItsFinish
  <1>1. ASSUME CeremonyInv PROVE RefServesItsFinish
    <2> SUFFICES ASSUME NEW r \in Requests, NEW a \in Requests, rq[r].pc = "submit", rq[r].ref = a,
                        rq[r].op \in FinishesOf(rq[a].op)
                 PROVE  flow[a].state # "none" /\ rq[r].kind = flow[a].kind
      BY DEF RefServesItsFinish
    <2>1. FlowAsFiled(r) /\ FlowAsFiled(a)
      BY <1>1 DEF CeremonyInv, RequestInv
    <2>2. rq[r].op \notin RemoveOps
      BY DEF FinishesOf, RemoveOps
    <2>3. rq[a].pc = "gave_ref" /\ rq[r].kind = SubmitKind(rq[r].op, refs[a].kind)
      BY <2>1, <2>2 DEF FlowAsFiled
    <2>4. RefFindsFlow(a) /\ FiledKind(rq[a].op, flow[a].kind) = flow[a].kind
      BY <2>1, <2>3 DEF FlowAsFiled
    <2>5. SubmitKind(rq[r].op, flow[a].kind) = flow[a].kind
      BY <2>4, FinishShapes
    <2> QED BY <2>3, <2>4, <2>5 DEF RefFindsFlow
  <1> QED BY <1>1, InvCorrect, PTL

\* An answer of sessionResponse names no session but the one the browser holds.
THEOREM AnswerCorrect == Spec => []AnswerNamesHeldSession
  <1>1. CeremonyInv => AnswerNamesHeldSession
    BY DEF CeremonyInv, RequestInv, CookieOfNewcomer, AnswerNamesHeldSession
  <1> QED BY <1>1, InvCorrect, PTL

\* The answer to an undisturbed change lists what its outcome leaves.
THEOREM OutcomeCorrect == Spec => []AnswerShowsOutcome
  <1>1. CeremonyInv => AnswerShowsOutcome
    BY DEF CeremonyInv, RequestInv, Known, OutcomeTold, AnswerShowsOutcome
  <1> QED BY <1>1, InvCorrect, PTL

\* A linked address is replaced only by a start that something came in between.
THEOREM AddressCorrect == Spec => LinkedAddressKept
  <1>1. ASSUME CeremonyInv, Next
        PROVE  \A i \in Identities : email[i] # None /\ email'[i] # email[i] => email'[i] \in disturbed
    <2>1. CASE email' = email
      BY <2>1
    <2>2. ASSUME NEW r \in Requests, NewAddress(r), rq[r].pc = "send", rq[r].op = "email_link_start"
          PROVE  \A i \in Identities : email[i] # None /\ email'[i] # email[i] => email'[i] \in disturbed
      <3>1. r \notin disturbed => email[Owner(r)] = None
        BY <1>1, <2>2 DEF CeremonyInv, RequestInv, NoAddressYet
      <3>2. email' = [email EXCEPT ![Owner(r)] = r]
        BY <2>2 DEF NewAddress
      <3> QED BY <1>1, <3>1, <3>2 DEF CeremonyInv, TypeOK
    <2>3. ASSUME NEW r \in Requests, NEW s \in SessionIds, NEW j \in Identities, SubmitRegisters(r, s, j)
          PROVE  \A i \in Identities : email[i] # None /\ email'[i] # email[i] => email'[i] \in disturbed
      <3>1. email[j] = None
        BY <2>3 DEF SubmitRegisters, Creds
      <3> QED BY <1>1, <2>3, <3>1 DEF SubmitRegisters, CeremonyInv, TypeOK
    <2>4. ASSUME NEW r \in Requests, StartStep(r)
          PROVE  email' = email \/ (NewAddress(r) /\ rq[r].pc = "send" /\ rq[r].op = "email_link_start")
      BY <2>4 DEF StartStep, LinkChecks, LinkCheckFails, Opens, OpenRefused, OpenPanics, SendsTheCode,
                  LinkSubmits, SendFails, Saves, SaveFails, kratos
    <2>5. ASSUME NEW r \in Requests, FinishStep(r)
          PROVE  email' = email \/ \E s \in SessionIds, j \in Identities : SubmitRegisters(r, s, j)
      BY <2>5 DEF FinishStep, Reads, Misses, SubmitLogsIn, SubmitStepsUp, SubmitChanges, SubmitRefused,
                  SubmitFails, WhoAmI, WhoAmIFails, Answers, AnswersUnlinked, kratos
    <2>6. ASSUME NEW r \in Requests, RequestStep(r), ~StartStep(r), ~FinishStep(r) PROVE email' = email
      BY <2>6, ArrivesKeeps DEF RequestStep, RowExpires, kratos
    <2>7. ASSUME NEW s \in SessionIds, SessionEnds(s) \/ \E i \in Identities : SignsIn(s, i)
          PROVE  email' = email
      BY <2>7 DEF SessionEnds, SignsIn
    <2> QED BY <1>1, <2>1, <2>2, <2>3, <2>4, <2>5, <2>6, <2>7 DEF Next
  <1>2. CeremonyInv /\ [Next]_vars =>
          [\A i \in Identities : email[i] # None /\ email'[i] # email[i] => email'[i] \in disturbed]_vars
    BY <1>1
  <1> QED BY <1>2, InvCorrect, PTL DEF Spec, LinkedAddressKept
=============================================================================
