----------------------------- MODULE StepUpProofs -----------------------------
(***************************************************************************)
(* Proofs about StepUp, for every number of identities, sessions,          *)
(* providers, step-ups and concurrent requests.                            *)
(***************************************************************************)
EXTENDS StepUp, TLAPS

LEMMA InitType == Init => TypeOK
  BY NoneAssumption DEF Init, TypeOK, Session, StartRequest, DoneRequest, DonePc

\* A new session has the type of a session.
LEMMA NewSessionType ==
  ASSUME NEW i \in Identities, NEW p \in Providers \cup {None}, NEW x \in Contexts \cup {None}
  PROVE  NewSession(i, p, x) \in Session
  <1> DEFINE amr == [q \in Providers |-> IF q = p THEN 1 ELSE 0]
  <1>1. amr \in [Providers -> Nat]
    OBVIOUS
  <1> HIDE DEF amr
  <1>2. NewSession(i, p, x) =
          [state |-> "active", identity |-> i, first |-> p, origin |-> x, amr |-> amr]
    BY DEF NewSession, amr
  <1> QED BY <1>1, <1>2 DEF Session

\* What Appended does to one session, and that it leaves the others alone.
LEMMA AppendedEffect ==
  ASSUME sessions \in [SessionIds -> Session], NEW s \in SessionIds, NEW p \in Providers
  PROVE  /\ Appended(s, p) \in [SessionIds -> Session]
         /\ \A t \in SessionIds :
               /\ Appended(s, p)[t].state = sessions[t].state
               /\ Appended(s, p)[t].identity = sessions[t].identity
               /\ Appended(s, p)[t].first = sessions[t].first
               /\ Appended(s, p)[t].origin = sessions[t].origin
               /\ \A q \in Providers :
                     Appended(s, p)[t].amr[q] = IF t = s /\ q = p THEN sessions[t].amr[q] + 1
                                                                   ELSE sessions[t].amr[q]
  <1>1. sessions[s] \in Session /\ sessions[s].amr \in [Providers -> Nat]
    BY DEF Session
  <1> DEFINE amr == [sessions[s].amr EXCEPT ![p] = @ + 1]
             rec == [sessions[s] EXCEPT !.amr = amr]
  <1>2. amr \in [Providers -> Nat]
        /\ \A q \in Providers : amr[q] = IF q = p THEN sessions[s].amr[q] + 1 ELSE sessions[s].amr[q]
    BY <1>1
  <1> HIDE DEF amr
  <1>3. rec \in Session /\ rec.amr = amr /\ rec.state = sessions[s].state
        /\ rec.identity = sessions[s].identity /\ rec.first = sessions[s].first
        /\ rec.origin = sessions[s].origin
    BY <1>1, <1>2 DEF Session
  <1>4. Appended(s, p) = [sessions EXCEPT ![s] = rec]
    BY DEF Appended, amr
  <1> HIDE DEF rec
  <1>5. Appended(s, p)[s] = rec /\ \A t \in SessionIds : t # s => Appended(s, p)[t] = sessions[t]
    BY <1>4
  <1> QED BY <1>2, <1>3, <1>4, <1>5

\* What ending a session does.
LEMMA EndedEffect ==
  ASSUME sessions \in [SessionIds -> Session], NEW s \in SessionIds
  PROVE  /\ [sessions EXCEPT ![s].state = "ended"] \in [SessionIds -> Session]
         /\ \A t \in SessionIds :
               /\ [sessions EXCEPT ![s].state = "ended"][t].state
                     = IF t = s THEN "ended" ELSE sessions[t].state
               /\ [sessions EXCEPT ![s].state = "ended"][t].identity = sessions[t].identity
               /\ [sessions EXCEPT ![s].state = "ended"][t].first = sessions[t].first
               /\ [sessions EXCEPT ![s].state = "ended"][t].origin = sessions[t].origin
               /\ [sessions EXCEPT ![s].state = "ended"][t].amr = sessions[t].amr
  <1> DEFINE rec == [sessions[s] EXCEPT !.state = "ended"]
  <1>1. sessions[s] \in Session
    OBVIOUS
  <1>2. rec \in Session /\ rec.state = "ended" /\ rec.identity = sessions[s].identity
        /\ rec.first = sessions[s].first /\ rec.origin = sessions[s].origin
        /\ rec.amr = sessions[s].amr
    BY <1>1 DEF Session
  <1>3. [sessions EXCEPT ![s].state = "ended"] = [sessions EXCEPT ![s] = rec]
    OBVIOUS
  <1> HIDE DEF rec
  <1>4. [sessions EXCEPT ![s] = rec][s] = rec
        /\ \A t \in SessionIds : t # s => [sessions EXCEPT ![s] = rec][t] = sessions[t]
    OBVIOUS
  <1> QED BY <1>2, <1>3, <1>4

LEMMA DoneStepType ==
  ASSUME TypeOK, NEW d \in Dones, DoneStep(d)
  PROVE  TypeOK'
  <1>1. dn[d] \in DoneRequest
    BY DEF TypeOK
  <1> USE NoneAssumption, <1>1 DEF DoneGoto, DoneFault, history
  <1>2. CASE DonePrior(d) \/ DonePriorFails(d) \/ DoneSelects(d) \/ DoneSelectFails(d)
    <2>1. CASE DonePrior(d)
      BY <2>1 DEF DonePrior, TypeOK, DoneRequest, DonePc
    <2>2. CASE DonePriorFails(d)
      BY <2>2 DEF DonePriorFails, TypeOK, DoneRequest, DonePc
    <2>3. CASE DoneSelects(d)
      BY <2>3 DEF DoneSelects, TypeOK, DoneRequest, DonePc
    <2>4. CASE DoneSelectFails(d)
      BY <2>4 DEF DoneSelectFails, TypeOK, DoneRequest, DonePc
    <2> QED BY <1>2, <2>1, <2>2, <2>3, <2>4
  <1>3. CASE DoneLists(d) \/ DoneListFails(d)
    <2>1. OrphanCandidates(d) \subseteq SessionIds
      BY DEF OrphanCandidates
    <2> QED BY <1>3, <2>1 DEF DoneLists, DoneListFails, TypeOK, DoneRequest, DonePc
  <1>4. CASE DoneAppends(d) \/ DoneAppendFails(d)
    <2>1. dn[d].prior \in SessionIds /\ dn[d].provider \in Providers
      BY <1>4 DEF DoneAppends, DoneAppendFails, TypeOK, DoneRequest
    <2>2. sessions' \in [SessionIds -> Session]
      BY <1>4, <2>1, AppendedEffect DEF DoneAppends, DoneAppendFails, TypeOK
    <2>3. /\ dn' \in [Dones -> DoneRequest]
          /\ dn'[d].ctx = dn[d].ctx /\ dn'[d].prior = dn[d].prior
          /\ dn'[d].provider = dn[d].provider /\ dn'[d].orphan = dn[d].orphan
          /\ dn'[d].pc = "forget" \/ (dn'[d].pc = "revoke" /\ dn[d].orphan # None)
          /\ \A e \in Dones : e # d => dn'[e] = dn[e]
      BY <1>4 DEF DoneAppends, DoneAppendFails, TypeOK, DoneRequest, DonePc
    <2>4. UNCHANGED <<ctxs, st, completed, ended, early, overlapped>> /\ disturbed' \subseteq Contexts
      BY <1>4 DEF DoneAppends, DoneAppendFails, TypeOK, DoneRequest
    <2>5. dn[d].pc \notin {"idle", "ctx_missing"}
      BY <1>4 DEF DoneAppends, DoneAppendFails
    <2> QED BY <2>2, <2>3, <2>4, <2>5 DEF TypeOK
  <1>5. CASE DoneRevokes(d) \/ DoneRevokeFails(d)
    <2>1. dn[d].orphan \in SessionIds
      BY <1>5 DEF DoneRevokes, DoneRevokeFails, TypeOK, DoneRequest
    <2>2. sessions' \in [SessionIds -> Session] /\ ended' \in [SessionIds -> Dones \cup {None}]
      BY <1>5, <2>1, EndedEffect DEF DoneRevokes, DoneRevokeFails, Revoked, TypeOK
    <2>3. UNCHANGED <<ctxs, st, completed, early, overlapped>>
          /\ dn' = [dn EXCEPT ![d].pc = "forget"]
          /\ dn[d].pc = "revoke"
          /\ disturbed' \subseteq Contexts
      BY <1>5 DEF DoneRevokes, DoneRevokeFails, TypeOK, DoneRequest
    <2>4. dn' \in [Dones -> DoneRequest]
      BY <2>3 DEF TypeOK, DoneRequest, DonePc
    <2> QED BY <2>2, <2>3, <2>4 DEF TypeOK, DoneRequest
  <1>6. CASE DoneForgets(d) \/ DoneForgetFails(d) \/ DoneAnswers(d) \/ DoneWhoAmIFails(d)
    BY <1>6 DEF DoneForgets, DoneForgetFails, DoneAnswers, DoneWhoAmIFails, TypeOK, DoneRequest, DonePc
  <1> QED BY <1>2, <1>3, <1>4, <1>5, <1>6 DEF DoneStep

LEMMA NextType == TypeOK /\ [Next]_vars => TypeOK'
  <1> SUFFICES ASSUME TypeOK, [Next]_vars PROVE TypeOK'
    OBVIOUS
  <1> USE NoneAssumption DEF history
  <1>1. ASSUME NEW s \in SessionIds, NEW i \in Identities, NEW p \in Providers \cup {None},
               Login(s, i, p)
        PROVE  TypeOK'
    BY <1>1, NewSessionType DEF Login, TypeOK
  <1>2. ASSUME NEW s \in SessionIds, Logout(s) PROVE TypeOK'
    BY <1>2, EndedEffect DEF Logout, TypeOK
  <1>3. ASSUME NEW s \in SessionIds, NEW x \in Contexts, NEW i \in Identities, KratosCompletes(x, s, i)
        PROVE  TypeOK'
    <2>1. st[x].provider \in Providers
      BY <1>3 DEF KratosCompletes, TypeOK, StartRequest
    <2> QED BY <1>3, <2>1, NewSessionType DEF KratosCompletes, TypeOK
  <1>4. ASSUME NEW s \in SessionIds, NEW x \in Contexts, NEW p \in Providers, StartWhoAmI(x, s, p)
        PROVE  TypeOK'
    BY <1>4 DEF StartWhoAmI, TypeOK, StartRequest
  <1>5. ASSUME NEW x \in Contexts, StartStep(x) PROVE TypeOK'
    BY SMTT(40), <1>5 DEF StartStep, StartSaves, StartSaveFails, StartRedirects, StartFails, StartGoto,
                TypeOK, StartRequest
  <1>6. ASSUME NEW x \in Contexts, NEW d \in Dones, DoneReads(d, x) PROVE TypeOK'
    <2>1. st[x].prior \in SessionIds /\ st[x].provider \in Providers
      BY <1>6 DEF DoneReads, Told, TypeOK, StartRequest
    <2>2. overlapped' \subseteq SessionIds \X Providers
      BY <1>6, <2>1 DEF DoneReads, TypeOK
    <2>3. early' \subseteq Contexts
      BY <1>6 DEF DoneReads, TypeOK
    <2> QED BY <1>6, <2>1, <2>2, <2>3 DEF DoneReads, TypeOK, DoneRequest, DonePc
  <1>7. ASSUME NEW x \in Contexts, NEW d \in Dones, DoneMisses(d, x) PROVE TypeOK'
    <2>1. /\ dn' \in [Dones -> DoneRequest]
          /\ dn'[d].pc = "ctx_missing" /\ dn'[d].ctx = x
          /\ \A e \in Dones : e # d => dn'[e] = dn[e]
      <3> DEFINE rec == [dn[d] EXCEPT !.pc = "ctx_missing", !.ctx = x]
      <3>1. dn[d] \in DoneRequest
        BY DEF TypeOK
      <3>2. rec \in DoneRequest /\ rec.pc = "ctx_missing" /\ rec.ctx = x
        BY <3>1 DEF DoneRequest, DonePc
      <3>3. dn' = [dn EXCEPT ![d] = rec]
        BY <1>7 DEF DoneMisses
      <3> HIDE DEF rec
      <3> QED BY <3>2, <3>3 DEF TypeOK
    <2>2. disturbed' \subseteq Contexts
      BY <1>7 DEF DoneMisses, TypeOK
    <2>3. UNCHANGED <<sessions, ctxs, st, completed, ended, early, overlapped>>
      BY <1>7 DEF DoneMisses
    <2> QED BY <2>1, <2>2, <2>3 DEF TypeOK
  <1>8. CASE Restart
    <2>1. ASSUME NEW x \in Contexts
          PROVE  /\ st'[x] \in StartRequest
                 /\ st'[x] = st[x] \/ (st[x].pc \in {"save", "flow"} /\ st'[x].pc = "failed"
                                        /\ st'[x].prior = st[x].prior
                                        /\ st'[x].provider = st[x].provider)
      BY <1>8 DEF Restart, StartRunning, TypeOK, StartRequest
    <2>2. ASSUME NEW d \in Dones
          PROVE  /\ dn'[d] \in DoneRequest
                 /\ dn'[d] = dn[d] \/ (dn[d].pc \notin {"idle", "ctx_missing"} /\ dn'[d].pc = "dropped"
                                        /\ dn'[d].ctx = dn[d].ctx /\ dn'[d].prior = dn[d].prior
                                        /\ dn'[d].provider = dn[d].provider)
      BY <1>8 DEF Restart, DoneRunning, TypeOK, DoneRequest, DonePc
    <2>3. st' \in [Contexts -> StartRequest] /\ dn' \in [Dones -> DoneRequest]
      BY <1>8, <2>1, <2>2 DEF Restart
    <2>4. UNCHANGED <<sessions, ctxs, completed, ended, early, overlapped>> /\ disturbed' \subseteq Contexts
      BY <1>8 DEF Restart, DoneRunning, TypeOK, DoneRequest
    <2>5. \A x \in Contexts : st'[x].pc # "idle" => st'[x].prior # None /\ st'[x].provider # None
      BY <2>1 DEF TypeOK
    <2>6. \A x \in completed' : st'[x].pc = "redirected"
      BY <2>1, <2>4 DEF TypeOK
    <2>7. ASSUME NEW d \in Dones
          PROVE  /\ dn'[d].pc # "idle" => dn'[d].ctx # None
                 /\ dn'[d].pc \notin {"idle", "ctx_missing"} => dn'[d].prior # None /\ dn'[d].provider # None
                 /\ dn'[d].pc = "revoke" => dn'[d].orphan # None
      BY <2>2 DEF TypeOK
    <2> QED BY <2>3, <2>4, <2>5, <2>6, <2>7 DEF TypeOK
  <1>9. CASE UNCHANGED vars
    BY <1>9 DEF vars, TypeOK
  <1> QED BY <1>1, <1>2, <1>3, <1>4, <1>5, <1>6, <1>7, <1>8, <1>9, DoneStepType DEF Next

\* Every variable of the step-up keeps its type.
THEOREM TypeCorrect == Spec => []TypeOK
  BY InitType, NextType, PTL DEF Spec

-----------------------------------------------------------------------------
\* A method comes by a login, or by a done request of a step-up of that session,
\* and a done request that has read its context keeps it.
LEMMA OwnStepUpStays ==
  ASSUME TypeOK, CoreInv,
         \A s \in SessionIds, p \in Providers : sessions'[s].amr[p] > 0 =>
            \/ sessions'[s].first = p
            \/ sessions[s].amr[p] > 0 /\ sessions'[s].first = sessions[s].first
            \/ \E d \in Dones : /\ dn[d].pc \notin {"idle", "ctx_missing"}
                                 /\ dn[d].prior = s /\ dn[d].provider = p,
         \A d \in Dones : dn[d].pc \notin {"idle", "ctx_missing"} =>
            dn'[d].pc \notin {"idle", "ctx_missing"} /\ dn'[d].ctx = dn[d].ctx,
         \A x \in Contexts : st[x].pc # "idle" =>
            st'[x].pc # "idle" /\ st'[x].prior = st[x].prior /\ st'[x].provider = st[x].provider
  PROVE  MethodOfOwnStepUp'
  <1> SUFFICES ASSUME NEW s \in SessionIds, NEW p \in Providers, sessions'[s].amr[p] > 0,
                      sessions'[s].first # p
               PROVE  \E d \in Dones : /\ dn'[d].pc \notin {"idle", "ctx_missing"}
                                       /\ dn'[d].ctx \in Contexts /\ st'[dn'[d].ctx].pc # "idle"
                                       /\ st'[dn'[d].ctx].prior = s /\ st'[dn'[d].ctx].provider = p
    BY DEF MethodOfOwnStepUp, StepUpsOf, HasAuthMethod
  <1>1. \E d \in Dones : /\ dn[d].pc \notin {"idle", "ctx_missing"}
                         /\ dn[d].ctx \in Contexts /\ st[dn[d].ctx].pc # "idle"
                         /\ st[dn[d].ctx].prior = s /\ st[dn[d].ctx].provider = p
    <2>1. CASE sessions[s].amr[p] > 0 /\ sessions'[s].first = sessions[s].first
      BY <2>1 DEF CoreInv, MethodOfOwnStepUp, StepUpsOf, HasAuthMethod
    <2>2. ASSUME NEW d \in Dones, dn[d].pc \notin {"idle", "ctx_missing"},
                 dn[d].prior = s, dn[d].provider = p
          PROVE  /\ dn[d].ctx \in Contexts /\ st[dn[d].ctx].pc # "idle"
                 /\ st[dn[d].ctx].prior = s /\ st[dn[d].ctx].provider = p
      BY <2>2 DEF TypeOK, DoneRequest, CoreInv, DoneInv
    <2> QED BY <2>1, <2>2
  <1>2. PICK d \in Dones : /\ dn[d].pc \notin {"idle", "ctx_missing"}
                           /\ dn[d].ctx \in Contexts /\ st[dn[d].ctx].pc # "idle"
                           /\ st[dn[d].ctx].prior = s /\ st[dn[d].ctx].provider = p
    BY <1>1
  <1>3. dn'[d].pc \notin {"idle", "ctx_missing"} /\ dn'[d].ctx = dn[d].ctx
    BY <1>2
  <1>4. /\ st'[dn[d].ctx].pc # "idle" /\ st'[dn[d].ctx].prior = s /\ st'[dn[d].ctx].provider = p
    BY <1>2
  <1> QED BY <1>2, <1>3, <1>4

LEMMA InitInv == Init => CoreInv
  BY NoneAssumption DEF Init, CoreInv, StartInv, DoneInv, MergeInv, MethodOfOwnStepUp, EndedAfterMerge,
     NoDuplicateUnlessOverlapped, HasAuthMethod, DoneRunning

\* A done request that goes on without touching a session.
LEMMA QuietDoneStep ==
  ASSUME TypeOK, TypeOK', CoreInv, NEW d \in Dones,
         UNCHANGED <<sessions, st, completed, ended, early, overlapped>>,
         \A e \in Dones \ {d} : dn'[e] = dn[e],
         DoneRunning(d),
         dn'[d].pc \notin {"idle", "ctx_missing", "revoke"},
         dn'[d].pc = "append" => ~HasAuthMethod(dn[d].prior, dn[d].provider),
         dn'[d].ctx = dn[d].ctx, dn'[d].prior = dn[d].prior, dn'[d].provider = dn[d].provider,
         dn'[d].orphan = dn[d].orphan \/ dn'[d].orphan \in OrphanCandidates(d)
  PROVE  CoreInv'
  <1>1. dn[d].pc \notin {"idle", "ctx_missing"}
    BY DEF DoneRunning
  <1>2. StartInv' /\ MethodOfOwnStepUp' /\ NoDuplicateUnlessOverlapped'
    <2>1. MethodOfOwnStepUp'
      BY <1>1, OwnStepUpStays
    <2> QED BY <2>1 DEF CoreInv, StartInv, NoDuplicateUnlessOverlapped
  <1>3. \A e \in Dones : dn'[e].ctx = dn[e].ctx /\ dn'[e].prior = dn[e].prior
                          /\ dn'[e].provider = dn[e].provider
    OBVIOUS
  <1>4. EndedAfterMerge'
    <2>1. \A s \in SessionIds : ended[s] # None => ended[s] \in Dones
      BY DEF TypeOK
    <2> QED BY <1>3, <2>1 DEF CoreInv, EndedAfterMerge, HasAuthMethod
  <1>5. DoneInv'
    <2>1. ASSUME NEW e \in Dones, dn'[e].pc \notin {"idle", "ctx_missing"}
          PROVE  /\ dn[e].pc \notin {"idle", "ctx_missing"}
                 /\ dn'[e].orphan # None =>
                       /\ dn'[e].orphan # dn[e].prior
                       /\ sessions[dn'[e].orphan].state # "none"
                       /\ sessions[dn'[e].orphan].identity = sessions[dn[e].prior].identity
                 /\ dn'[e].pc = "revoke" => dn[e].pc = "revoke"
      <3>1. dn[e].pc \notin {"idle", "ctx_missing"}
        BY <1>1, <2>1
      <3>2. CASE dn'[e].orphan = dn[e].orphan
        BY <3>1, <3>2, <2>1 DEF CoreInv, DoneInv
      <3>3. CASE e = d /\ dn'[e].orphan \in OrphanCandidates(d)
        BY <3>1, <3>3 DEF OrphanCandidates, Active
      <3> QED BY <3>1, <3>2, <3>3
    <2>2. \A s \in SessionIds : ended[s] # None =>
             ended[s] \in Dones /\ dn'[ended[s]].pc \notin {"idle", "ctx_missing"}
      BY DEF TypeOK, CoreInv, DoneInv
    <2> QED BY SMTT(40), <1>3, <2>1, <2>2 DEF CoreInv, DoneInv, HasAuthMethod
  <1>6. MergeInv'
    <2>1. \A e \in Dones : DoneRunning(e)' => DoneRunning(e)
      BY DEF DoneRunning
    <2> QED BY <1>3, <2>1 DEF CoreInv, MergeInv, HasAuthMethod
  <1> QED BY <1>2, <1>4, <1>5, <1>6 DEF CoreInv

\* A done request that appends its method, or fails to.
LEMMA AppendStep ==
  ASSUME TypeOK, TypeOK', CoreInv, NEW d \in Dones, DoneAppends(d) \/ DoneAppendFails(d)
  PROVE  CoreInv'
  <1> DEFINE s == dn[d].prior
             p == dn[d].provider
             x == dn[d].ctx
  <1>1. s \in SessionIds /\ p \in Providers /\ x \in Contexts /\ dn[d].pc = "append"
    BY DEF DoneAppends, DoneAppendFails, TypeOK, DoneRequest
  <1>2. st[x].pc # "idle" /\ s = st[x].prior /\ p = st[x].provider
    BY <1>1 DEF CoreInv, DoneInv
  <1>3. /\ UNCHANGED <<st, completed, ended, early, overlapped>>
        /\ \A e \in Dones : e # d => dn'[e] = dn[e]
        /\ dn'[d].ctx = x /\ dn'[d].prior = s /\ dn'[d].provider = p
        /\ dn'[d].orphan = dn[d].orphan
        /\ dn'[d].pc \in {"forget", "revoke"}
    BY <1>1 DEF DoneAppends, DoneAppendFails, DoneGoto, history, TypeOK, DoneRequest
  <1>4. sessions' = Appended(s, p) \/ (sessions' = sessions /\ dn'[d].pc # "revoke")
    BY <1>1 DEF DoneAppends, DoneAppendFails, DoneGoto, TypeOK, DoneRequest
  <1>5. /\ \A t \in SessionIds :
              /\ sessions'[t].state = sessions[t].state
              /\ sessions'[t].identity = sessions[t].identity
              /\ sessions'[t].first = sessions[t].first
              /\ sessions[t].amr \in [Providers -> Nat]
              /\ \A q \in Providers :
                    \/ sessions'[t].amr[q] = sessions[t].amr[q]
                    \/ t = s /\ q = p /\ sessions'[t].amr[q] = sessions[t].amr[q] + 1
        /\ dn'[d].pc = "revoke" => sessions'[s].amr[p] = sessions[s].amr[p] + 1
    <2>1. sessions \in [SessionIds -> Session]
      BY DEF TypeOK
    <2>2. \A t \in SessionIds : sessions[t].amr \in [Providers -> Nat]
      BY <2>1 DEF Session
    <2> HIDE DEF s, p
    <2> QED BY <1>1, <1>4, <2>1, <2>2, AppendedEffect
  <1> HIDE DEF s, p, x
  <1>6. \A t \in SessionIds, q \in Providers : HasAuthMethod(t, q) => HasAuthMethod(t, q)'
    BY <1>5 DEF HasAuthMethod
  <1>7. \A t \in SessionIds, q \in Providers :
           HasAuthMethod(t, q)' => HasAuthMethod(t, q) \/ (t = s /\ q = p)
    BY <1>5 DEF HasAuthMethod
  <1>8. \A e \in Dones : dn'[e].ctx = dn[e].ctx /\ dn'[e].prior = dn[e].prior
                          /\ dn'[e].provider = dn[e].provider /\ dn'[e].orphan = dn[e].orphan
    BY <1>3 DEF s, p, x
  <1>9. \A e \in Dones :
           /\ dn[e].pc \notin {"idle", "ctx_missing"} => dn[e].prior \in SessionIds /\ dn[e].provider \in Providers
           /\ dn[e].orphan # None => dn[e].orphan \in SessionIds
           /\ dn'[e].pc \notin {"idle", "ctx_missing"} <=> dn[e].pc \notin {"idle", "ctx_missing"}
    BY <1>1, <1>3 DEF TypeOK, DoneRequest
  <1>10. \A t \in SessionIds : ended[t] # None => ended[t] \in Dones
    BY DEF TypeOK
  <1>11. StartInv'
    <2>1. \A y \in Contexts : st[y].pc # "idle" => st[y].prior \in SessionIds
      BY DEF TypeOK, StartRequest
    <2> QED BY <1>3, <1>5, <2>1 DEF CoreInv, StartInv
  <1>12. DoneInv'
    <2>1. ASSUME NEW e \in Dones, dn'[e].pc = "revoke" PROVE HasAuthMethod(dn[e].prior, dn[e].provider)'
      <3>1. CASE e = d
        BY SMTT(40), <1>1, <1>3, <1>5, <2>1, <3>1 DEF HasAuthMethod, s, p
      <3>2. CASE e # d
        BY <1>3, <1>6, <1>9, <2>1, <3>2, dn[e].pc = "revoke", dn'[e] = dn[e] DEF CoreInv, DoneInv
      <3> QED BY <3>1, <3>2
    <2> QED BY SMTT(40), <1>3, <1>5, <1>8, <1>9, <1>10, <2>1 DEF CoreInv, DoneInv, HasAuthMethod
  <1>13. MethodOfOwnStepUp'
    <2>1. ASSUME NEW t \in SessionIds, NEW q \in Providers, sessions'[t].amr[q] > 0
          PROVE  \/ sessions[t].amr[q] > 0 /\ sessions'[t].first = sessions[t].first
                 \/ \E e \in Dones : /\ dn[e].pc \notin {"idle", "ctx_missing"}
                                      /\ dn[e].prior = t /\ dn[e].provider = q
      BY <1>1, <1>5, <2>1 DEF s, p
    <2> QED BY <1>3, <1>8, <1>9, <2>1, OwnStepUpStays
  <1>14. EndedAfterMerge'
    <2> SUFFICES ASSUME NEW t \in SessionIds, ended[t] # None
                 PROVE  /\ HasAuthMethod(dn[ended[t]].prior, dn[ended[t]].provider)'
                        /\ t # dn'[ended[t]].prior
                        /\ sessions'[t].identity = sessions'[dn'[ended[t]].prior].identity
      BY <1>3 DEF EndedAfterMerge
    <2>1. ended[t] \in Dones /\ dn[ended[t]].prior \in SessionIds /\ dn[ended[t]].provider \in Providers
      BY <1>9, <1>10 DEF CoreInv, DoneInv
    <2>2. dn'[ended[t]].prior = dn[ended[t]].prior /\ dn'[ended[t]].provider = dn[ended[t]].provider
      BY <1>8, <2>1
    <2>3. /\ HasAuthMethod(dn[ended[t]].prior, dn[ended[t]].provider)
          /\ t # dn[ended[t]].prior
          /\ sessions[t].identity = sessions[dn[ended[t]].prior].identity
      BY DEF CoreInv, EndedAfterMerge
    <2>4. sessions'[dn[ended[t]].prior].amr[dn[ended[t]].provider] > 0
      <3>1. ASSUME NEW u \in SessionIds, NEW q \in Providers, HasAuthMethod(u, q)
            PROVE  sessions'[u].amr[q] > 0
        BY <1>6, <3>1 DEF HasAuthMethod
      <3> QED BY <2>1, <2>3, <3>1
    <2>5. HasAuthMethod(dn[ended[t]].prior, dn[ended[t]].provider)'
      BY <1>3, <2>2, <2>4 DEF HasAuthMethod
    <2> QED BY <1>5, <2>1, <2>2, <2>3, <2>5
  <1>15. <<s, p>> \notin overlapped => ~HasAuthMethod(s, p)
    BY <1>1 DEF CoreInv, MergeInv, DoneRunning, s, p
  <1>16. NoDuplicateUnlessOverlapped'
    BY <1>1, <1>3, <1>5, <1>15 DEF CoreInv, NoDuplicateUnlessOverlapped, HasAuthMethod
  <1>17. MergeInv'
    <2> SUFFICES ASSUME NEW e \in Dones, DoneRunning(e)', <<dn[e].prior, dn[e].provider>> \notin overlapped
                 PROVE  /\ dn'[e].pc = "append" => ~HasAuthMethod(dn[e].prior, dn[e].provider)'
                        /\ \A f \in Dones :
                              DoneRunning(f)' /\ dn[f].prior = dn[e].prior /\ dn[f].provider = dn[e].provider
                                 => f = e
      BY <1>3, <1>8 DEF MergeInv, HasAuthMethod
    <2>1. \A f \in Dones : DoneRunning(f)' => DoneRunning(f)
      BY <1>1, <1>3 DEF DoneRunning
    <2>2. ASSUME dn'[e].pc = "append" PROVE ~HasAuthMethod(dn[e].prior, dn[e].provider)'
      <3>1. e # d /\ dn[e].pc = "append" /\ DoneRunning(d) /\ DoneRunning(e)
        BY <1>1, <1>3, <2>1, <2>2 DEF DoneRunning
      <3>2. dn[e].prior # s \/ dn[e].provider # p
        BY <3>1 DEF CoreInv, MergeInv, s, p
      <3>3. ~HasAuthMethod(dn[e].prior, dn[e].provider)
        BY <3>1 DEF CoreInv, MergeInv
      <3>4. dn[e].prior \in SessionIds /\ dn[e].provider \in Providers
        BY <1>9, <3>1
      <3> QED BY SMTT(40), <1>5, <1>8, <3>2, <3>3, <3>4 DEF HasAuthMethod
    <2> QED BY <2>1, <2>2 DEF CoreInv, MergeInv
  <1> QED BY <1>11, <1>12, <1>13, <1>14, <1>16, <1>17 DEF CoreInv

\* A done request that revokes the extra session, or tries to.
LEMMA RevokeStep ==
  ASSUME TypeOK, TypeOK', CoreInv, NEW d \in Dones, DoneRevokes(d) \/ DoneRevokeFails(d)
  PROVE  CoreInv'
  <1> DEFINE s == dn[d].prior
             p == dn[d].provider
             o == dn[d].orphan
  <1>1. s \in SessionIds /\ p \in Providers /\ o \in SessionIds /\ dn[d].pc = "revoke"
    BY DEF DoneRevokes, DoneRevokeFails, TypeOK, DoneRequest
  <1>2. /\ HasAuthMethod(s, p) /\ o # s
        /\ sessions[o].state # "none" /\ sessions[o].identity = sessions[s].identity
    BY <1>1 DEF CoreInv, DoneInv, TypeOK
  <1>3. /\ UNCHANGED <<st, completed, early, overlapped>>
        /\ \A e \in Dones : e # d => dn'[e] = dn[e]
        /\ dn'[d].ctx = dn[d].ctx /\ dn'[d].prior = dn[d].prior
        /\ dn'[d].provider = dn[d].provider /\ dn'[d].orphan = dn[d].orphan
        /\ dn'[d].pc = "forget"
    BY <1>1 DEF DoneRevokes, DoneRevokeFails, DoneGoto, TypeOK, DoneRequest
  <1>4. \/ sessions' = [sessions EXCEPT ![o].state = "ended"] /\ ended' = [ended EXCEPT ![o] = d]
        \/ UNCHANGED <<sessions, ended>>
    BY DEF DoneRevokes, DoneRevokeFails, Revoked
  <1>5. \A t \in SessionIds :
           /\ sessions[t].state # "none" => sessions'[t].state # "none"
           /\ sessions'[t].identity = sessions[t].identity
           /\ sessions'[t].first = sessions[t].first
           /\ sessions'[t].amr = sessions[t].amr
    <2> HIDE DEF s, p, o
    <2>1. sessions \in [SessionIds -> Session]
      BY DEF TypeOK
    <2>2. CASE sessions' = [sessions EXCEPT ![o].state = "ended"]
      BY <1>1, <2>1, <2>2, EndedEffect
    <2> QED BY <1>4, <2>2
  <1>6. \A t \in SessionIds : ended'[t] = ended[t] \/ (t = o /\ ended'[t] = d)
    BY <1>1, <1>4 DEF TypeOK
  <1> HIDE DEF s, p, o
  <1>7. \A e \in Dones : dn'[e].ctx = dn[e].ctx /\ dn'[e].prior = dn[e].prior
                          /\ dn'[e].provider = dn[e].provider /\ dn'[e].orphan = dn[e].orphan
    BY <1>3
  <1>8. \A e \in Dones :
           /\ dn[e].pc \notin {"idle", "ctx_missing"} => dn[e].prior \in SessionIds /\ dn[e].provider \in Providers
           /\ dn[e].orphan # None => dn[e].orphan \in SessionIds
           /\ dn'[e].pc \notin {"idle", "ctx_missing"} <=> dn[e].pc \notin {"idle", "ctx_missing"}
           /\ dn'[e].pc = "revoke" => dn[e].pc = "revoke"
    BY <1>1, <1>3 DEF TypeOK, DoneRequest
  <1>9. \A t \in SessionIds : ended[t] # None => ended[t] \in Dones
    BY DEF TypeOK
  <1>10. StartInv'
    <2>1. \A y \in Contexts : st[y].pc # "idle" => st[y].prior \in SessionIds
      BY DEF TypeOK, StartRequest
    <2> QED BY <1>3, <1>5, <2>1 DEF CoreInv, StartInv
  <1>11. MethodOfOwnStepUp' /\ NoDuplicateUnlessOverlapped'
    <2>1. MethodOfOwnStepUp'
      BY <1>3, <1>5, <1>7, <1>8, OwnStepUpStays
    <2> QED BY <1>3, <1>5, <2>1 DEF CoreInv, NoDuplicateUnlessOverlapped
  <1>12. DoneInv'
    <2>1. ASSUME NEW e \in Dones, dn'[e].pc = "revoke" PROVE HasAuthMethod(dn[e].prior, dn[e].provider)'
      <3>1. dn[e].pc = "revoke"
        BY <1>8, <2>1
      <3>2. HasAuthMethod(dn[e].prior, dn[e].provider)
        BY <3>1 DEF CoreInv, DoneInv
      <3> QED BY <1>5, <1>7, <1>8, <3>1, <3>2 DEF HasAuthMethod
    <2>2. \A t \in SessionIds : ended'[t] # None =>
             dn'[ended'[t]].pc \notin {"idle", "ctx_missing"} /\ sessions'[t].state # "none"
      BY <1>1, <1>2, <1>3, <1>5, <1>6, <1>8, <1>9 DEF CoreInv, DoneInv, o
    <2> QED BY <1>3, <1>5, <1>7, <1>8, <2>1, <2>2 DEF CoreInv, DoneInv
  <1>13. EndedAfterMerge'
    <2> SUFFICES ASSUME NEW t \in SessionIds, NEW e \in Dones, ended'[t] = e, e # None
                 PROVE  /\ sessions'[dn'[e].prior].amr[dn'[e].provider] > 0
                        /\ t # dn'[e].prior
                        /\ sessions'[t].identity = sessions'[dn'[e].prior].identity
      BY DEF EndedAfterMerge, HasAuthMethod, TypeOK
    <2>1. CASE t = o /\ e = d
      BY <1>1, <1>2, <1>3, <1>5, <2>1 DEF HasAuthMethod, s, p
    <2>2. CASE ended[t] = e
      <3>1. /\ HasAuthMethod(dn[e].prior, dn[e].provider)
            /\ t # dn[e].prior
            /\ sessions[t].identity = sessions[dn[e].prior].identity
        BY <2>2 DEF CoreInv, EndedAfterMerge
      <3>2. dn[e].prior \in SessionIds /\ dn[e].provider \in Providers
        BY <1>8, <2>2 DEF CoreInv, DoneInv
      <3> QED BY <1>5, <1>7, <3>1, <3>2 DEF HasAuthMethod
    <2> QED BY <1>6, <2>1, <2>2
  <1>14. MergeInv'
    <2>1. \A e \in Dones : DoneRunning(e)' => DoneRunning(e)
      BY <1>1, <1>3 DEF DoneRunning
    <2>2. \A e \in Dones : dn'[e].pc = "append" => dn[e].pc = "append"
      BY <1>3
    <2>3. \A e \in Dones, f \in Dones :
             /\ DoneRunning(e) /\ <<dn[e].prior, dn[e].provider>> \notin overlapped
             /\ DoneRunning(f) /\ dn[f].prior = dn[e].prior /\ dn[f].provider = dn[e].provider
             => f = e
      BY DEF CoreInv, MergeInv
    <2>4. ASSUME NEW e \in Dones, dn'[e].pc = "append", <<dn[e].prior, dn[e].provider>> \notin overlapped
          PROVE  ~(sessions'[dn[e].prior].amr[dn[e].provider] > 0)
      <3>1. dn[e].pc = "append" /\ DoneRunning(e)
        BY <2>2, <2>4 DEF DoneRunning
      <3>2. ~HasAuthMethod(dn[e].prior, dn[e].provider)
        BY <2>4, <3>1 DEF CoreInv, MergeInv
      <3> QED BY <1>5, <1>8, <3>1, <3>2 DEF HasAuthMethod
    <2> QED BY <1>3, <1>7, <2>1, <2>3, <2>4 DEF MergeInv, HasAuthMethod
  <1> QED BY <1>10, <1>11, <1>12, <1>13, <1>14 DEF CoreInv

\* Every other step of a done request leaves the sessions alone.
LEMMA DoneStepInv ==
  ASSUME TypeOK, TypeOK', CoreInv, NEW d \in Dones, DoneStep(d)
  PROVE  CoreInv'
  <1> USE DEF DoneGoto, DoneFault, history
  <1>1. dn[d] \in DoneRequest
    BY DEF TypeOK
  <1>2. CASE DonePrior(d) \/ DonePriorFails(d)
    <2>1. dn[d].pc = "prior" /\ UNCHANGED <<sessions, st, completed, ended, early, overlapped>>
      BY <1>2 DEF DonePrior, DonePriorFails
    <2>2. \E pc \in {"forget", "list"} : dn' = [dn EXCEPT ![d].pc = pc]
      BY <1>2 DEF DonePrior, DonePriorFails
    <2> QED BY <1>1, <2>1, <2>2, QuietDoneStep DEF TypeOK, DoneRequest, DoneRunning
  <1>3. CASE DoneLists(d) \/ DoneListFails(d)
    BY <1>1, <1>3, QuietDoneStep DEF DoneLists, DoneListFails, TypeOK, DoneRequest, DoneRunning
  <1>4. CASE DoneSelects(d) \/ DoneSelectFails(d)
    BY SMTT(40), <1>1, <1>4, QuietDoneStep DEF DoneSelects, DoneSelectFails, TypeOK, DoneRequest, DoneRunning
  <1>5. CASE DoneForgets(d) \/ DoneForgetFails(d)
    BY <1>1, <1>5, QuietDoneStep DEF DoneForgets, DoneForgetFails, TypeOK, DoneRequest, DoneRunning
  <1>6. CASE DoneAnswers(d) \/ DoneWhoAmIFails(d)
    BY <1>1, <1>6, QuietDoneStep DEF DoneAnswers, DoneWhoAmIFails, TypeOK, DoneRequest, DoneRunning
  <1> QED BY <1>2, <1>3, <1>4, <1>5, <1>6, AppendStep, RevokeStep DEF DoneStep

\* A done request that begins: from then on its session and provider count as
\* overlapped if another one works on them.
LEMMA ReadsStep ==
  ASSUME TypeOK, TypeOK', CoreInv, NEW x \in Contexts, NEW d \in Dones, DoneReads(d, x)
  PROVE  CoreInv'
  <1> DEFINE s == st[x].prior
             p == st[x].provider
  <1>1. /\ dn[d].pc = "idle" /\ st[x].pc # "idle" /\ x \in completed \cup early'
        /\ s \in SessionIds /\ p \in Providers
    BY DEF DoneReads, Told, TypeOK, StartRequest
  <1>2. /\ dn'[d].pc = "prior" /\ dn'[d].ctx = x /\ dn'[d].prior = s
        /\ dn'[d].provider = p /\ dn'[d].orphan = None
        /\ \A e \in Dones : e # d => dn'[e] = dn[e]
    BY DEF DoneReads, TypeOK
  <1>3. UNCHANGED <<sessions, st, completed, ended>> /\ early \subseteq early'
    BY DEF DoneReads
  <1>4. /\ overlapped \subseteq overlapped'
        /\ \A e \in Dones : DoneRunning(e) /\ dn[e].prior = s /\ dn[e].provider = p
              => <<s, p>> \in overlapped'
    BY DEF DoneReads
  <1> HIDE DEF s, p
  <1>5. StartInv' /\ MethodOfOwnStepUp'
    <2>1. MethodOfOwnStepUp'
      BY <1>1, <1>2, <1>3, OwnStepUpStays
    <2> QED BY <1>3, <2>1 DEF CoreInv, StartInv
  <1>6. NoDuplicateUnlessOverlapped'
    BY <1>3, <1>4 DEF CoreInv, NoDuplicateUnlessOverlapped
  <1>7. \A t \in SessionIds : ended[t] # None => ended[t] \in Dones /\ ended[t] # d
    BY <1>1 DEF CoreInv, DoneInv, TypeOK
  <1>8. EndedAfterMerge'
    BY <1>2, <1>3, <1>7 DEF CoreInv, EndedAfterMerge, HasAuthMethod
  <1>9. DoneInv'
    <2>1. \A t \in SessionIds : ended[t] # None =>
             dn'[ended[t]].pc \notin {"idle", "ctx_missing"} /\ sessions[t].state # "none"
      BY <1>2, <1>7 DEF CoreInv, DoneInv
    <2> QED BY <1>1, <1>2, <1>3, <2>1 DEF CoreInv, DoneInv, HasAuthMethod, s, p
  <1>10. MergeInv'
    <2>1. \A e \in Dones : DoneRunning(e)' /\ e # d => DoneRunning(e)
      BY <1>2 DEF DoneRunning
    <2> QED BY <1>2, <1>3, <1>4, <2>1 DEF CoreInv, MergeInv, HasAuthMethod
  <1> QED BY <1>5, <1>6, <1>8, <1>9, <1>10 DEF CoreInv

\* A done request that stops at once.
LEMMA MissesStep ==
  ASSUME TypeOK, TypeOK', CoreInv, NEW x \in Contexts, NEW d \in Dones, DoneMisses(d, x)
  PROVE  CoreInv'
  <1>1. UNCHANGED <<sessions, st, completed, ended, early, overlapped>>
    BY DEF DoneMisses
  <1>2. dn[d].pc = "idle" /\ dn'[d].pc = "ctx_missing" /\ \A e \in Dones : e # d => dn'[e] = dn[e]
    <2> DEFINE rec == [dn[d] EXCEPT !.pc = "ctx_missing", !.ctx = x]
    <2>1. dn' = [dn EXCEPT ![d] = rec] /\ dn[d].pc = "idle"
      BY DEF DoneMisses
    <2>2. rec.pc = "ctx_missing"
      BY DEF TypeOK, DoneRequest
    <2> HIDE DEF rec
    <2> QED BY <2>1, <2>2 DEF TypeOK
  <1>3. StartInv' /\ MethodOfOwnStepUp' /\ NoDuplicateUnlessOverlapped'
    <2>1. MethodOfOwnStepUp'
      BY <1>1, <1>2, OwnStepUpStays
    <2> QED BY <1>1, <2>1 DEF CoreInv, StartInv, NoDuplicateUnlessOverlapped
  <1>4. \A t \in SessionIds : ended[t] # None => ended[t] \in Dones /\ ended[t] # d
    BY <1>2 DEF CoreInv, DoneInv, TypeOK
  <1>5. EndedAfterMerge'
    BY <1>1, <1>2, <1>4 DEF CoreInv, EndedAfterMerge, HasAuthMethod
  <1>6. DoneInv'
    BY <1>1, <1>2, <1>4 DEF CoreInv, DoneInv, HasAuthMethod
  <1>7. MergeInv'
    <2>1. \A e \in Dones : DoneRunning(e)' => e # d /\ DoneRunning(e)
      BY <1>2 DEF DoneRunning
    <2> QED BY <1>1, <1>2, <2>1 DEF CoreInv, MergeInv, HasAuthMethod
  <1> QED BY <1>3, <1>5, <1>6, <1>7 DEF CoreInv

\* A restart drops requests and keeps what they had written.
LEMMA RestartStep ==
  ASSUME TypeOK, TypeOK', CoreInv, Restart
  PROVE  CoreInv'
  <1>1. UNCHANGED <<sessions, completed, ended, early, overlapped>>
    BY DEF Restart
  <1>2. \A x \in Contexts : /\ st'[x].prior = st[x].prior /\ st'[x].provider = st[x].provider
                            /\ st'[x].pc # "idle" <=> st[x].pc # "idle"
    BY DEF Restart, StartRunning, TypeOK, StartRequest
  <1>3. \A d \in Dones :
           /\ dn'[d].ctx = dn[d].ctx /\ dn'[d].prior = dn[d].prior
           /\ dn'[d].provider = dn[d].provider /\ dn'[d].orphan = dn[d].orphan
           /\ dn'[d].pc \notin {"idle", "ctx_missing"} <=> dn[d].pc \notin {"idle", "ctx_missing"}
           /\ dn'[d].pc \notin {"prior", "list", "exists", "append", "revoke", "forget", "whoami"}
    BY DEF Restart, DoneRunning, TypeOK, DoneRequest, DonePc
  <1>4. StartInv' /\ NoDuplicateUnlessOverlapped'
    BY <1>1, <1>2 DEF CoreInv, StartInv, NoDuplicateUnlessOverlapped
  <1>5. MethodOfOwnStepUp'
    BY <1>1, <1>2, <1>3, OwnStepUpStays
  <1>6. \A t \in SessionIds : ended[t] # None => ended[t] \in Dones
    BY DEF TypeOK
  <1>7. EndedAfterMerge'
    BY <1>1, <1>3, <1>6 DEF CoreInv, EndedAfterMerge, HasAuthMethod
  <1>8. DoneInv'
    <2>1. \A d \in Dones : dn[d].pc \notin {"idle", "ctx_missing"} => dn[d].ctx \in Contexts
      BY DEF TypeOK, DoneRequest
    <2> QED BY <1>1, <1>2, <1>3, <1>6, <2>1 DEF CoreInv, DoneInv, HasAuthMethod
  <1>9. MergeInv'
    BY <1>3 DEF MergeInv, DoneRunning
  <1> QED BY <1>4, <1>5, <1>7, <1>8, <1>9 DEF CoreInv

\* A step that leaves the done requests alone, makes or ends sessions that no
\* request works on, and completes no step-up that is already complete.
LEMMA OutsideStep ==
  ASSUME TypeOK, TypeOK', CoreInv, UNCHANGED <<dn, ended, early, overlapped>>,
         completed \subseteq completed',
         \A x \in Contexts : st[x].pc # "idle" =>
            st'[x].pc # "idle" /\ st'[x].prior = st[x].prior /\ st'[x].provider = st[x].provider,
         \A x \in Contexts : st[x].pc = "idle" /\ st'[x].pc # "idle" =>
            sessions[st'[x].prior].state # "none",
         \A s \in SessionIds :
            \/ sessions'[s].amr = sessions[s].amr /\ sessions'[s].first = sessions[s].first
            \/ \A p \in Providers :
                  /\ sessions'[s].amr[p] <= 1
                  /\ sessions'[s].amr[p] > 0 => sessions'[s].first = p,
         \A s \in SessionIds : sessions[s].state # "none" =>
            /\ sessions'[s].state # "none"
            /\ sessions'[s].identity = sessions[s].identity
            /\ sessions'[s].amr = sessions[s].amr
  PROVE  CoreInv'
  <1>1. \A x \in Contexts : st'[x].pc # "idle" => st'[x].prior \in SessionIds
    BY DEF TypeOK, StartRequest
  <1>2. \A x \in Contexts : st[x].pc # "idle" => st[x].prior \in SessionIds
    BY DEF TypeOK, StartRequest
  <1>3. StartInv'
    BY <1>1, <1>2 DEF CoreInv, StartInv
  <1>4. \A d \in Dones : dn[d].pc \notin {"idle", "ctx_missing"} =>
           /\ dn[d].prior \in SessionIds /\ dn[d].provider \in Providers
           /\ dn[d].ctx \in completed \cup early /\ dn[d].ctx \in Contexts
           /\ st[dn[d].ctx].pc # "idle"
           /\ dn[d].prior = st[dn[d].ctx].prior
           /\ dn[d].provider = st[dn[d].ctx].provider
           /\ sessions[dn[d].prior].state # "none"
           /\ dn[d].orphan # None => dn[d].orphan \in SessionIds
    BY <1>2 DEF CoreInv, DoneInv, StartInv, TypeOK, DoneRequest
  <1>5. DoneInv'
    <2>1. ASSUME NEW d \in Dones, dn[d].pc \notin {"idle", "ctx_missing"}
          PROVE  /\ dn[d].orphan # None =>
                       /\ dn[d].orphan # dn[d].prior
                       /\ sessions'[dn[d].orphan].state # "none"
                       /\ sessions'[dn[d].orphan].identity = sessions'[dn[d].prior].identity
                 /\ dn[d].pc = "revoke" => sessions'[dn[d].prior].amr[dn[d].provider] > 0
      BY <1>4, <2>1 DEF CoreInv, DoneInv, HasAuthMethod
    <2>2. \A d \in Dones : dn[d].pc \notin {"idle", "ctx_missing"} =>
             /\ st'[dn[d].ctx].pc # "idle"
             /\ dn[d].ctx \in completed' \cup early'
             /\ dn[d].prior = st'[dn[d].ctx].prior
             /\ dn[d].provider = st'[dn[d].ctx].provider
      BY <1>4
    <2>3. \A s \in SessionIds : ended[s] # None =>
             dn[ended[s]].pc \notin {"idle", "ctx_missing"} /\ sessions'[s].state # "none"
      BY DEF CoreInv, DoneInv
    <2> QED BY <2>1, <2>2, <2>3 DEF DoneInv, HasAuthMethod
  <1>6. MergeInv'
    <2>1. \A d \in Dones : DoneRunning(d) => dn[d].pc \notin {"idle", "ctx_missing"}
      BY DEF DoneRunning
    <2> QED BY <1>4, <2>1 DEF CoreInv, MergeInv, HasAuthMethod, DoneRunning
  <1>7. MethodOfOwnStepUp'
    BY OwnStepUpStays
  <1>8. EndedAfterMerge'
    <2> SUFFICES ASSUME NEW s \in SessionIds, ended[s] # None
                 PROVE  /\ sessions'[dn[ended[s]].prior].amr[dn[ended[s]].provider] > 0
                        /\ s # dn[ended[s]].prior
                        /\ sessions'[s].identity = sessions'[dn[ended[s]].prior].identity
      BY DEF EndedAfterMerge, HasAuthMethod
    <2>1. ended[s] \in Dones
      BY DEF TypeOK
    <2>2. dn[ended[s]].pc \notin {"idle", "ctx_missing"} /\ sessions[s].state # "none"
      BY DEF CoreInv, DoneInv
    <2> QED BY <1>4, <2>1, <2>2 DEF CoreInv, EndedAfterMerge, HasAuthMethod
  <1>9. NoDuplicateUnlessOverlapped'
    BY DEF CoreInv, NoDuplicateUnlessOverlapped
  <1> QED BY <1>3, <1>5, <1>6, <1>7, <1>8, <1>9 DEF CoreInv

\* The entries of a new session.
LEMMA NewSessionAmr ==
  ASSUME NEW i, NEW q, NEW x
  PROVE  /\ NewSession(i, q, x).first = q
         /\ \A p \in Providers :
               /\ NewSession(i, q, x).amr[p] <= 1
               /\ NewSession(i, q, x).amr[p] > 0 => q = p
  BY DEF NewSession

LEMMA NextInv == TypeOK /\ TypeOK' /\ CoreInv /\ [Next]_vars => CoreInv'
  <1> SUFFICES ASSUME TypeOK, TypeOK', CoreInv, [Next]_vars PROVE CoreInv'
    OBVIOUS
  <1> USE DEF history
  <1>1. ASSUME NEW s \in SessionIds, NEW i \in Identities, NEW p \in Providers \cup {None},
               Login(s, i, p)
        PROVE  CoreInv'
    <2>1. /\ sessions[s].state = "none" /\ sessions'[s] = NewSession(i, p, None)
          /\ \A t \in SessionIds : t # s => sessions'[t] = sessions[t]
          /\ UNCHANGED <<st, completed, dn, ended, early, overlapped>>
      BY <1>1 DEF Login, TypeOK
    <2> QED BY <2>1, NewSessionAmr, OutsideStep
  <1>2. ASSUME NEW s \in SessionIds, Logout(s) PROVE CoreInv'
    <2>1. \A t \in SessionIds :
             /\ sessions[t].state # "none" => sessions'[t].state # "none"
             /\ sessions'[t].identity = sessions[t].identity
             /\ sessions'[t].first = sessions[t].first
             /\ sessions'[t].amr = sessions[t].amr
      BY <1>2, EndedEffect DEF Logout, TypeOK
    <2> QED BY <1>2, <2>1, OutsideStep DEF Logout
  <1>3. ASSUME NEW s \in SessionIds, NEW x \in Contexts, NEW i \in Identities, KratosCompletes(x, s, i)
        PROVE  CoreInv'
    <2>1. /\ sessions[s].state = "none" /\ sessions'[s] = NewSession(i, st[x].provider, x)
          /\ \A t \in SessionIds : t # s => sessions'[t] = sessions[t]
          /\ UNCHANGED <<st, dn, ended, early, overlapped>> /\ completed \subseteq completed'
      BY <1>3 DEF KratosCompletes, TypeOK
    <2> QED BY <2>1, NewSessionAmr, OutsideStep
  <1>4. ASSUME NEW s \in SessionIds, NEW x \in Contexts, NEW p \in Providers, StartWhoAmI(x, s, p)
        PROVE  CoreInv'
    BY <1>4, OutsideStep DEF StartWhoAmI, Active, TypeOK
  <1>5. ASSUME NEW x \in Contexts, StartStep(x) PROVE CoreInv'
    <2>1. \E pc \in {"flow", "failed", "redirected", "refused"} : st' = [st EXCEPT ![x].pc = pc]
      BY SMTT(40), <1>5 DEF StartStep, StartSaves, StartSaveFails, StartRedirects, StartFails, StartGoto
    <2>2. UNCHANGED <<sessions, completed, dn, ended, early, overlapped>> /\ st[x].pc # "idle"
      BY SMTT(40), <1>5 DEF StartStep, StartSaves, StartSaveFails, StartRedirects, StartFails
    <2> QED BY <2>1, <2>2, OutsideStep DEF TypeOK, StartRequest
  <1>6. ASSUME NEW x \in Contexts, NEW d \in Dones, DoneReads(d, x) PROVE CoreInv'
    BY <1>6, ReadsStep
  <1>7. ASSUME NEW x \in Contexts, NEW d \in Dones, DoneMisses(d, x) PROVE CoreInv'
    BY <1>7, MissesStep
  <1>8. CASE Restart
    BY <1>8, RestartStep
  <1>9. CASE UNCHANGED vars
    <2>1. UNCHANGED <<sessions, st, completed, dn, ended, early, overlapped>>
      BY <1>9 DEF vars
    <2> QED BY <2>1, OutsideStep
  <1> QED BY <1>1, <1>2, <1>3, <1>4, <1>5, <1>6, <1>7, <1>8, <1>9, DoneStepInv DEF Next

-----------------------------------------------------------------------------
\* What no step takes back: the past of a session and of a step-up.
Keeps ==
    /\ completed \subseteq completed'
    /\ \A x \in Contexts : st[x].pc # "idle" => /\ st'[x].pc # "idle"
                                                /\ st'[x].prior = st[x].prior
                                                /\ st'[x].provider = st[x].provider
    /\ \A s \in SessionIds : sessions[s].state # "none" =>
          /\ sessions'[s].state # "none"
          /\ sessions'[s].identity = sessions[s].identity
          /\ sessions'[s].first = sessions[s].first
          /\ sessions'[s].origin = sessions[s].origin
          /\ sessions'[s].state = "active" => sessions[s].state = "active"
          /\ \A p \in Providers : sessions[s].amr[p] > 0 => sessions'[s].amr[p] > 0
    /\ \A s \in SessionIds : sessions[s].state = "none" =>
          /\ sessions'[s].origin = sessions[s].origin \/ sessions'[s].origin \notin completed
          /\ sessions'[s].state = "none" => sessions'[s].first = sessions[s].first
    /\ early \subseteq early' /\ disturbed \subseteq disturbed' /\ overlapped \subseteq overlapped'
    /\ \A x \in completed : x \in ctxs' => x \in ctxs

\* Where no session and no start request changes, little is to be said.
LEMMA KeepsQuietly ==
  ASSUME TypeOK, UNCHANGED <<sessions, st, completed>>,
         early \subseteq early', disturbed \subseteq disturbed', overlapped \subseteq overlapped',
         ctxs' \subseteq ctxs
  PROVE  Keeps
  BY DEF Keeps

\* The sessions that a done request writes to keep their past.
LEMMA DoneStepKeeps ==
  ASSUME TypeOK, NEW d \in Dones, DoneStep(d)
  PROVE  Keeps
  <1> USE DEF DoneGoto, DoneFault, history
  <1>1. CASE DoneAppends(d) \/ DoneAppendFails(d)
    <2>1. /\ UNCHANGED <<st, completed, ctxs, early, overlapped>> /\ disturbed \subseteq disturbed'
          /\ dn[d].prior \in SessionIds /\ dn[d].provider \in Providers
          /\ sessions' = sessions \/ sessions' = Appended(dn[d].prior, dn[d].provider)
      BY <1>1 DEF DoneAppends, DoneAppendFails, TypeOK, DoneRequest
    <2>2. \A s \in SessionIds : sessions[s].amr \in [Providers -> Nat]
      BY DEF TypeOK, Session
    <2>3. ASSUME NEW s \in SessionIds
          PROVE  /\ sessions'[s].state = sessions[s].state
                 /\ sessions'[s].identity = sessions[s].identity
                 /\ sessions'[s].first = sessions[s].first
                 /\ sessions'[s].origin = sessions[s].origin
                 /\ \A p \in Providers : sessions[s].amr[p] > 0 => sessions'[s].amr[p] > 0
      <3>1. CASE sessions' = sessions
        BY <3>1
      <3>2. CASE sessions' = Appended(dn[d].prior, dn[d].provider)
        <4>1. \A p \in Providers : sessions'[s].amr[p] \in {sessions[s].amr[p], sessions[s].amr[p] + 1}
          BY <2>1, <3>2, AppendedEffect DEF TypeOK
        <4>2. /\ sessions'[s].state = sessions[s].state
              /\ sessions'[s].identity = sessions[s].identity
              /\ sessions'[s].first = sessions[s].first
              /\ sessions'[s].origin = sessions[s].origin
          BY <2>1, <3>2, AppendedEffect DEF TypeOK
        <4>3. \A p \in Providers : sessions[s].amr[p] \in Nat
          BY <2>2
        <4> QED BY <4>1, <4>2, <4>3
      <3> QED BY <2>1, <3>1, <3>2
    <2> QED BY <2>1, <2>3 DEF Keeps
  <1>2. CASE DoneRevokes(d) \/ DoneRevokeFails(d)
    <2>1. /\ UNCHANGED <<st, completed, ctxs, early, overlapped>> /\ disturbed \subseteq disturbed'
          /\ dn[d].orphan \in SessionIds
          /\ sessions' = sessions \/ sessions' = [sessions EXCEPT ![dn[d].orphan].state = "ended"]
      BY <1>2 DEF DoneRevokes, DoneRevokeFails, Revoked, TypeOK, DoneRequest
    <2>2. ASSUME NEW s \in SessionIds
          PROVE  /\ sessions[s].state = sessions'[s].state \/ sessions'[s].state = "ended"
                 /\ sessions'[s].identity = sessions[s].identity
                 /\ sessions'[s].first = sessions[s].first
                 /\ sessions'[s].origin = sessions[s].origin
                 /\ sessions'[s].amr = sessions[s].amr
      <3>1. CASE sessions' = sessions
        BY <3>1
      <3>2. CASE sessions' = [sessions EXCEPT ![dn[d].orphan].state = "ended"]
        BY <2>1, <3>2, EndedEffect DEF TypeOK
      <3> QED BY <2>1, <3>1, <3>2
    <2> QED BY <2>1, <2>2 DEF Keeps
  <1>3. CASE \/ DonePrior(d) \/ DonePriorFails(d) \/ DoneLists(d) \/ DoneListFails(d)
             \/ DoneSelects(d) \/ DoneSelectFails(d)
    <2>1. UNCHANGED <<sessions, st, completed, ctxs, early, overlapped>> /\ disturbed \subseteq disturbed'
      BY <1>3 DEF DonePrior, DonePriorFails, DoneLists, DoneListFails, DoneSelects, DoneSelectFails
    <2> QED BY <2>1, KeepsQuietly
  <1>4. CASE DoneForgets(d) \/ DoneForgetFails(d) \/ DoneAnswers(d) \/ DoneWhoAmIFails(d)
    <2>1. UNCHANGED <<sessions, st, completed, early, overlapped>> /\ disturbed \subseteq disturbed'
          /\ ctxs' \subseteq ctxs
      BY <1>4 DEF DoneForgets, DoneForgetFails, DoneAnswers, DoneWhoAmIFails
    <2> QED BY <2>1, KeepsQuietly
  <1> QED BY <1>1, <1>2, <1>3, <1>4 DEF DoneStep

LEMMA NextKeeps == TypeOK /\ [Next]_vars => Keeps
  <1> SUFFICES ASSUME TypeOK, [Next]_vars PROVE Keeps
    OBVIOUS
  <1> USE DEF history
  <1>0. completed \subseteq Contexts /\ None \notin completed
        /\ \A x \in completed : st[x].pc = "redirected"
    BY NoneAssumption DEF TypeOK
  <1>1. ASSUME NEW s \in SessionIds, NEW i \in Identities, NEW p \in Providers \cup {None},
               Login(s, i, p)
        PROVE  Keeps
    <2>1. /\ sessions[s].state = "none" /\ sessions'[s].origin = None /\ sessions'[s].state # "none"
          /\ \A t \in SessionIds : t # s => sessions'[t] = sessions[t]
          /\ UNCHANGED <<st, completed, ctxs, early, disturbed, overlapped>>
      BY <1>1 DEF Login, TypeOK, NewSession
    <2> QED BY <1>0, <2>1 DEF Keeps
  <1>2. ASSUME NEW s \in SessionIds, Logout(s) PROVE Keeps
    <2>1. \A t \in SessionIds :
             /\ sessions[t].state = sessions'[t].state \/ (sessions'[t].state = "ended" /\ Active(t))
             /\ sessions'[t].identity = sessions[t].identity
             /\ sessions'[t].first = sessions[t].first
             /\ sessions'[t].origin = sessions[t].origin
             /\ sessions'[t].amr = sessions[t].amr
      BY <1>2, EndedEffect DEF Logout, TypeOK
    <2>2. UNCHANGED <<st, completed, ctxs, early, disturbed, overlapped>>
      BY <1>2 DEF Logout
    <2> QED BY <2>1, <2>2 DEF Keeps, Active
  <1>3. ASSUME NEW s \in SessionIds, NEW x \in Contexts, NEW i \in Identities, KratosCompletes(x, s, i)
        PROVE  Keeps
    <2>1. /\ sessions[s].state = "none" /\ sessions'[s].state # "none"
          /\ sessions'[s].origin = x /\ x \notin completed
          /\ \A t \in SessionIds : t # s => sessions'[t] = sessions[t]
          /\ UNCHANGED <<st, ctxs, early, disturbed, overlapped>> /\ completed \subseteq completed'
      BY <1>3 DEF KratosCompletes, TypeOK, NewSession
    <2> QED BY <2>1 DEF Keeps
  <1>4. ASSUME NEW s \in SessionIds, NEW x \in Contexts, NEW p \in Providers, StartWhoAmI(x, s, p)
        PROVE  Keeps
    <2>1. /\ st[x].pc = "idle" /\ \A y \in Contexts : y # x => st'[y] = st[y]
          /\ UNCHANGED <<sessions, ctxs, completed, early, disturbed, overlapped>>
      BY <1>0, <1>4 DEF StartWhoAmI, TypeOK
    <2> QED BY <1>0, <2>1 DEF Keeps
  <1>5. ASSUME NEW x \in Contexts, StartStep(x) PROVE Keeps
    <2>1. /\ x \notin completed /\ \A y \in Contexts : y # x => st'[y] = st[y]
          /\ st'[x].pc # "idle" /\ st'[x].prior = st[x].prior /\ st'[x].provider = st[x].provider
          /\ UNCHANGED <<sessions, completed, early, disturbed, overlapped>> /\ ctxs' \subseteq ctxs \cup {x}
      BY SMTT(40), <1>0, <1>5
         DEF StartStep, StartSaves, StartSaveFails, StartRedirects, StartFails, StartGoto, TypeOK,
             StartRequest
    <2> QED BY <1>0, <2>1 DEF Keeps
  <1>6. ASSUME NEW x \in Contexts, NEW d \in Dones, DoneReads(d, x) \/ DoneMisses(d, x) PROVE Keeps
    BY <1>6, KeepsQuietly DEF DoneReads, DoneMisses
  <1>7. CASE Restart
    <2>1. /\ \A x \in Contexts : /\ st'[x].pc = st[x].pc \/ st'[x].pc = "failed"
                                 /\ st'[x].prior = st[x].prior /\ st'[x].provider = st[x].provider
          /\ UNCHANGED <<sessions, ctxs, completed, early, overlapped>> /\ disturbed \subseteq disturbed'
      BY <1>7 DEF Restart, TypeOK, StartRequest
    <2> QED BY <1>0, <2>1 DEF Keeps
  <1>8. CASE UNCHANGED vars
    BY <1>8, KeepsQuietly DEF vars
  <1> QED BY <1>1, <1>2, <1>3, <1>4, <1>5, <1>6, <1>7, <1>8, DoneStepKeeps DEF Next

LEMMA NextOrigin == TypeOK /\ CoreInv /\ OriginInv /\ [Next]_vars => OriginInv'
  <1> SUFFICES ASSUME TypeOK, CoreInv, OriginInv, [Next]_vars PROVE OriginInv'
    OBVIOUS
  <1> USE NoneAssumption DEF history
  <1>1. Keeps
    BY NextKeeps
  <1>0. \A s \in SessionIds : sessions'[s].state = "none" => sessions'[s].first = None
    BY <1>1 DEF OriginInv, Keeps
  <1>2. ASSUME \A s \in SessionIds : sessions'[s].origin # None => sessions'[s].origin = sessions[s].origin
        PROVE  OriginInv'
    <2>1. ASSUME NEW s \in SessionIds, sessions'[s].origin # None
          PROVE  /\ sessions'[s].state # "none"
                 /\ sessions'[s].origin \in completed'
                 /\ sessions'[s].first = st'[sessions'[s].origin].provider
                 /\ sessions'[s].amr[st'[sessions'[s].origin].provider] > 0
      <3> DEFINE x == sessions[s].origin
      <3>1. /\ sessions'[s].origin = x /\ sessions[s].state # "none" /\ x \in completed
            /\ sessions[s].first = st[x].provider /\ sessions[s].amr[st[x].provider] > 0
        BY <1>2, <2>1 DEF OriginInv, HasAuthMethod
      <3>2. x \in Contexts /\ st[x].provider \in Providers /\ st[x].pc # "idle"
        BY <3>1 DEF TypeOK, StartRequest
      <3> QED BY <1>1, <3>1, <3>2 DEF Keeps
    <2>2. \A s, t \in SessionIds :
             sessions'[s].origin # None /\ sessions'[s].origin = sessions'[t].origin => s = t
      BY <1>2 DEF OriginInv
    <2> QED BY <1>0, <2>1, <2>2 DEF OriginInv, HasAuthMethod
  <1>3. ASSUME NEW s \in SessionIds, NEW i \in Identities, NEW p \in Providers \cup {None},
               Login(s, i, p)
        PROVE  OriginInv'
    <2>1. sessions'[s].origin = None /\ \A t \in SessionIds : t # s => sessions'[t] = sessions[t]
      BY <1>3 DEF Login, TypeOK, NewSession
    <2> QED BY <1>2, <2>1
  <1>4. ASSUME NEW s \in SessionIds, Logout(s) PROVE OriginInv'
    BY <1>2, <1>4, EndedEffect DEF Logout, TypeOK
  <1>5. ASSUME NEW s \in SessionIds, NEW x \in Contexts, NEW i \in Identities, KratosCompletes(x, s, i)
        PROVE  OriginInv'
    <2>1. /\ x \notin completed /\ completed' = completed \cup {x} /\ st' = st
          /\ sessions'[s] = NewSession(i, st[x].provider, x)
          /\ \A t \in SessionIds : t # s => sessions'[t] = sessions[t]
      BY <1>5 DEF KratosCompletes, TypeOK
    <2>2. st[x].provider \in Providers
      BY <1>5 DEF KratosCompletes, TypeOK, StartRequest
    <2>3. /\ sessions'[s].state = "active" /\ sessions'[s].origin = x
          /\ sessions'[s].first = st[x].provider /\ sessions'[s].amr[st[x].provider] > 0
      BY <2>1, <2>2 DEF NewSession
    <2>4. \A t \in SessionIds : t # s /\ sessions'[t].origin # None =>
             /\ sessions'[t].state # "none"
             /\ sessions'[t].origin \in completed
             /\ sessions'[t].first = st[sessions'[t].origin].provider
             /\ sessions'[t].amr[st[sessions'[t].origin].provider] > 0
      BY <2>1 DEF OriginInv, HasAuthMethod
    <2>5. \A t, u \in SessionIds :
             sessions'[t].origin # None /\ sessions'[t].origin = sessions'[u].origin => t = u
      <3>1. \A t \in SessionIds : t # s => sessions'[t].origin # x
        BY <2>1, <2>4
      <3>2. \A t, u \in SessionIds : t # s /\ u # s /\ sessions'[t].origin # None
                                       /\ sessions'[t].origin = sessions'[u].origin => t = u
        BY <2>1 DEF OriginInv
      <3> QED BY <2>3, <3>1, <3>2
    <2> QED BY <1>0, <2>1, <2>3, <2>4, <2>5 DEF OriginInv, HasAuthMethod
  <1>6. ASSUME NEW d \in Dones, DoneStep(d) PROVE OriginInv'
    <2>1. \A s \in SessionIds : sessions'[s].origin = sessions[s].origin
      <3>1. CASE DoneAppends(d) \/ DoneAppendFails(d)
        <4>1. /\ dn[d].prior \in SessionIds /\ dn[d].provider \in Providers
              /\ sessions' = sessions \/ sessions' = Appended(dn[d].prior, dn[d].provider)
          BY <3>1 DEF DoneAppends, DoneAppendFails, TypeOK, DoneRequest
        <4> QED BY <4>1, AppendedEffect DEF TypeOK
      <3>2. CASE DoneRevokes(d) \/ DoneRevokeFails(d)
        <4>1. /\ dn[d].orphan \in SessionIds
              /\ sessions' = sessions \/ sessions' = [sessions EXCEPT ![dn[d].orphan].state = "ended"]
          BY <3>2 DEF DoneRevokes, DoneRevokeFails, Revoked, TypeOK, DoneRequest
        <4>2. sessions \in [SessionIds -> Session]
          BY DEF TypeOK
        <4>3. CASE sessions' = [sessions EXCEPT ![dn[d].orphan].state = "ended"]
          BY <4>1, <4>2, <4>3, EndedEffect
        <4> QED BY <4>1, <4>3
      <3>3. CASE UNCHANGED sessions
        BY <3>3
      <3> QED BY <1>6, <3>1, <3>2, <3>3
              DEF DoneStep, DonePrior, DonePriorFails, DoneLists, DoneListFails, DoneSelects,
                  DoneSelectFails, DoneForgets, DoneForgetFails, DoneAnswers, DoneWhoAmIFails
    <2> QED BY <1>2, <2>1
  <1>7. ASSUME UNCHANGED sessions PROVE OriginInv'
    BY <1>2, <1>7
  <1>8. ASSUME NEW s \in SessionIds, NEW x \in Contexts, NEW p \in Providers, StartWhoAmI(x, s, p)
        PROVE  OriginInv'
    BY <1>7, <1>8 DEF StartWhoAmI
  <1>9. ASSUME NEW x \in Contexts, StartStep(x) PROVE OriginInv'
    BY <1>7, <1>9 DEF StartStep, StartSaves, StartSaveFails, StartRedirects, StartFails
  <1>10. ASSUME NEW x \in Contexts, NEW d \in Dones, DoneReads(d, x) \/ DoneMisses(d, x) PROVE OriginInv'
    BY <1>7, <1>10 DEF DoneReads, DoneMisses
  <1>11. CASE Restart \/ UNCHANGED vars
    BY <1>7, <1>11 DEF Restart, vars
  <1> QED BY <1>3, <1>4, <1>5, <1>6, <1>8, <1>9, <1>10, <1>11 DEF Next

\* The names of a step-up, and the session it stands on.
LEMMA StartNames ==
  ASSUME TypeOK, CoreInv, NEW x \in Contexts, st[x].pc # "idle"
  PROVE  /\ st[x].prior \in SessionIds /\ st[x].provider \in Providers
         /\ sessions[st[x].prior].state # "none"
  BY DEF TypeOK, StartRequest, CoreInv, StartInv

LEMMA CompletedNames ==
  ASSUME TypeOK, CoreInv, NEW x \in completed
  PROVE  /\ x \in Contexts /\ st[x].pc = "redirected"
         /\ st[x].prior \in SessionIds /\ st[x].provider \in Providers
         /\ sessions[st[x].prior].state # "none"
  BY DEF TypeOK, StartRequest, CoreInv, StartInv

\* A completed step-up keeps its extra session, and was clean if it still is.
LEMMA CleanWas ==
  ASSUME TypeOK, CoreInv, OriginInv, Keeps, NEW x \in completed
  PROVE  /\ Extra(x)' = Extra(x)
         /\ Clean(x)' => Clean(x)
         /\ Merged(x) => Merged(x)'
  <1> DEFINE s == st[x].prior
             p == st[x].provider
  <1>1. /\ x \in Contexts /\ s \in SessionIds /\ p \in Providers /\ sessions[s].state # "none"
        /\ x \in completed' /\ st'[x].prior = s /\ st'[x].provider = p
        /\ st[x].pc # "idle" /\ st'[x].pc # "idle"
        /\ sessions'[s].identity = sessions[s].identity /\ sessions'[s].first = sessions[s].first
    BY CompletedNames DEF Keeps
  <1> HIDE DEF s, p
  <1>2. x # None
    BY <1>1, NoneAssumption
  <1>3. ASSUME NEW t \in SessionIds
        PROVE  t \in Extra(x)' <=> t \in Extra(x)
    <2>1. CASE sessions[t].state # "none"
      BY <1>1, <2>1 DEF Extra, Keeps, s
    <2>2. CASE sessions[t].state = "none"
      <3>1. sessions[t].origin # x
        BY <1>2, <2>2 DEF OriginInv
      <3>2. sessions'[t].origin # x
        BY <2>2, <3>1 DEF Keeps
      <3> QED BY <3>1, <3>2 DEF Extra
    <2> QED BY <2>1, <2>2
  <1>4. Extra(x)' = Extra(x)
    BY <1>3 DEF Extra
  <1>5. ASSUME Clean(x)' PROVE Clean(x)
    <2>1. Alone(x)
      <3>1. \A y \in Contexts : st'[y].pc # "idle" /\ st'[y].prior = s /\ st'[y].provider = p => y = x
        BY <1>1, <1>5 DEF Clean, Alone, StepUpsOf
      <3>2. StepUpsOf(s, p) = {x}
        <4>1. \A y \in Contexts : st[y].pc # "idle" /\ st[y].prior = s /\ st[y].provider = p => y = x
          BY <3>1 DEF Keeps
        <4>2. x \in StepUpsOf(s, p)
          BY <1>1 DEF StepUpsOf, s, p
        <4> QED BY <4>1, <4>2 DEF StepUpsOf
      <3>3. ASSUME NEW t \in SessionIds \ {s}, sessions[t].identity = sessions[s].identity,
                   sessions[t].amr[p] > 0
            PROVE  sessions[t].origin = x
        <4>1. CASE sessions[t].state # "none"
          <5>1. /\ sessions'[t].identity = sessions'[s].identity
                /\ sessions'[t].amr[p] > 0 /\ sessions'[t].origin = sessions[t].origin
            BY <1>1, <3>3, <4>1 DEF Keeps
          <5> QED BY <1>1, <1>5, <5>1 DEF Clean, Alone, HasAuthMethod
        <4>2. CASE sessions[t].state = "none"
          <5>1. sessions[t].first = p \/ StepUpsOf(t, p) # {}
            BY <1>1, <3>3 DEF CoreInv, MethodOfOwnStepUp, HasAuthMethod
          <5>2. StepUpsOf(t, p) = {}
            BY <4>2, StartNames DEF StepUpsOf
          <5>3. sessions[t].first # p
            BY <1>1, <4>2, NoneAssumption DEF OriginInv
          <5> QED BY <5>1, <5>2, <5>3
        <4> QED BY <4>1, <4>2
      <3> QED BY <3>2, <3>3 DEF Alone, HasAuthMethod, s, p
    <2> QED BY <1>1, <1>5, <2>1 DEF Clean, Keeps, s, p
  <1>6. ASSUME Merged(x) PROVE Merged(x)'
    <2>1. \A t \in Extra(x) : t \in SessionIds /\ sessions[t].state # "none" /\ ~Active(t)
      BY <1>2, <1>6 DEF Merged, Extra, OriginInv
    <2>2. \A t \in Extra(x) : ~Active(t)'
      BY <2>1 DEF Keeps, Active
    <2> QED BY <1>1, <1>4, <1>6, <2>2 DEF Merged, HasAuthMethod, Keeps, s, p
  <1> QED BY <1>4, <1>5, <1>6

\* A session that was made gains a method by an append only.
LEMMA NewMethod ==
  ASSUME TypeOK, [Next]_vars, NEW s \in SessionIds, NEW p \in Providers,
         sessions[s].state # "none", ~(sessions[s].amr[p] > 0), sessions'[s].amr[p] > 0
  PROVE  \E d \in Dones : /\ dn[d].pc = "append" /\ dn[d].prior = s /\ dn[d].provider = p
                          /\ dn'[d].pc \in {"revoke", "forget"} /\ dn'[d].ctx = dn[d].ctx
  <1> USE DEF history
  <1>1. ASSUME NEW t \in SessionIds, NEW i \in Identities, NEW q \in Providers \cup {None},
               Login(t, i, q)
        PROVE  FALSE
    BY <1>1 DEF Login, TypeOK
  <1>2. ASSUME NEW t \in SessionIds, Logout(t) PROVE FALSE
    BY <1>2, EndedEffect DEF Logout, TypeOK
  <1>3. ASSUME NEW t \in SessionIds, NEW x \in Contexts, NEW i \in Identities, KratosCompletes(x, t, i)
        PROVE  FALSE
    BY <1>3 DEF KratosCompletes, TypeOK
  <1>4. ASSUME NEW d \in Dones, DoneAppends(d) \/ DoneAppendFails(d)
        PROVE  /\ dn[d].pc = "append" /\ dn[d].prior = s /\ dn[d].provider = p
               /\ dn'[d].pc \in {"revoke", "forget"} /\ dn'[d].ctx = dn[d].ctx
    <2>1. /\ dn[d].prior \in SessionIds /\ dn[d].provider \in Providers
          /\ sessions' = sessions \/ sessions' = Appended(dn[d].prior, dn[d].provider)
          /\ dn[d].pc = "append"
      BY <1>4 DEF DoneAppends, DoneAppendFails, TypeOK, DoneRequest
    <2>2. dn'[d].pc \in {"revoke", "forget"} /\ dn'[d].ctx = dn[d].ctx
      BY <1>4 DEF DoneAppends, DoneAppendFails, DoneGoto, TypeOK, DoneRequest
    <2>3. sessions' = Appended(dn[d].prior, dn[d].provider)
      BY <2>1
    <2>4. dn[d].prior = s /\ dn[d].provider = p
      BY <2>1, <2>3, AppendedEffect DEF TypeOK
    <2> QED BY <2>1, <2>2, <2>4
  <1>5. ASSUME NEW d \in Dones, DoneRevokes(d) \/ DoneRevokeFails(d) PROVE FALSE
    <2>1. /\ dn[d].orphan \in SessionIds /\ sessions \in [SessionIds -> Session]
          /\ sessions' = sessions \/ sessions' = [sessions EXCEPT ![dn[d].orphan].state = "ended"]
      BY <1>5 DEF DoneRevokes, DoneRevokeFails, Revoked, TypeOK, DoneRequest
    <2>2. CASE sessions' = [sessions EXCEPT ![dn[d].orphan].state = "ended"]
      BY <2>1, <2>2, EndedEffect
    <2> QED BY <2>1, <2>2
  <1>6. ASSUME UNCHANGED sessions PROVE FALSE
    BY <1>6
  <1>7. ASSUME NEW d \in Dones, DoneStep(d)
        PROVE  DoneAppends(d) \/ DoneAppendFails(d)
    BY <1>5, <1>6, <1>7
       DEF DoneStep, DonePrior, DonePriorFails, DoneLists, DoneListFails, DoneSelects,
           DoneSelectFails, DoneForgets, DoneForgetFails, DoneAnswers, DoneWhoAmIFails
  <1>8. ASSUME NEW t \in SessionIds, NEW x \in Contexts, NEW q \in Providers, StartWhoAmI(x, t, q)
        PROVE  FALSE
    BY <1>6, <1>8 DEF StartWhoAmI
  <1>9. ASSUME NEW x \in Contexts, StartStep(x) PROVE FALSE
    BY <1>6, <1>9 DEF StartStep, StartSaves, StartSaveFails, StartRedirects, StartFails
  <1>10. ASSUME NEW x \in Contexts, NEW d \in Dones, DoneReads(d, x) \/ DoneMisses(d, x) PROVE FALSE
    BY <1>6, <1>10 DEF DoneReads, DoneMisses
  <1>11. ASSUME Restart \/ UNCHANGED vars PROVE FALSE
    BY <1>6, <1>11 DEF Restart, vars
  <1>12. \E d \in Dones : DoneAppends(d) \/ DoneAppendFails(d)
    <2>1. \E d \in Dones : DoneStep(d)
      BY <1>1, <1>2, <1>3, <1>8, <1>9, <1>10, <1>11 DEF Next
    <2> QED BY <1>7, <2>1
  <1> QED BY <1>4, <1>12

\* Only the requests of a clean step-up work on its session and provider.
LEMMA OwnRequests ==
  ASSUME TypeOK, CoreInv, NEW x \in Contexts, Clean(x), NEW d \in Dones,
         dn[d].pc \notin {"idle", "ctx_missing"},
         dn[d].prior = st[x].prior, dn[d].provider = st[x].provider
  PROVE  dn[d].ctx = x
  <1>1. /\ dn[d].ctx \in Contexts /\ st[dn[d].ctx].pc # "idle"
        /\ dn[d].prior = st[dn[d].ctx].prior /\ dn[d].provider = st[dn[d].ctx].provider
    BY DEF CoreInv, DoneInv, TypeOK, DoneRequest
  <1>2. dn[d].ctx \in StepUpsOf(st[x].prior, st[x].provider)
    BY <1>1 DEF StepUpsOf
  <1> QED BY <1>2 DEF Clean, Alone

\* A done request moves by a step of its own, or is dropped by a restart.
LEMMA OwnStep ==
  ASSUME TypeOK, [Next]_vars, NEW d \in Dones
  PROVE  \/ dn'[d] = dn[d]
         \/ DoneStep(d)
         \/ \E x \in Contexts : DoneReads(d, x) \/ DoneMisses(d, x)
         \/ Restart
  <1> USE DEF history
  <1>1. CASE UNCHANGED dn
    BY <1>1
  <1>2. ASSUME NEW s \in SessionIds, NEW i \in Identities, NEW p \in Providers \cup {None}, Login(s, i, p)
        PROVE  UNCHANGED dn
    BY <1>2 DEF Login
  <1>3. ASSUME NEW s \in SessionIds, Logout(s) PROVE UNCHANGED dn
    BY <1>3 DEF Logout
  <1>4. ASSUME NEW s \in SessionIds, NEW x \in Contexts, NEW i \in Identities, KratosCompletes(x, s, i)
        PROVE  UNCHANGED dn
    BY <1>4 DEF KratosCompletes
  <1>5. ASSUME NEW s \in SessionIds, NEW x \in Contexts, NEW p \in Providers, StartWhoAmI(x, s, p)
        PROVE  UNCHANGED dn
    BY <1>5 DEF StartWhoAmI
  <1>6. ASSUME NEW x \in Contexts, StartStep(x) PROVE UNCHANGED dn
    BY <1>6 DEF StartStep, StartSaves, StartSaveFails, StartRedirects, StartFails
  <1>7. ASSUME NEW x \in Contexts, NEW e \in Dones, DoneReads(e, x) \/ DoneMisses(e, x), e # d
        PROVE  dn'[d] = dn[d]
    BY <1>7 DEF DoneReads, DoneMisses, TypeOK
  <1>8. ASSUME NEW e \in Dones, DoneStep(e), e # d PROVE dn'[d] = dn[d]
    BY <1>8 DEF DoneStep, DonePrior, DonePriorFails, DoneLists, DoneListFails, DoneSelects,
       DoneSelectFails, DoneAppends, DoneAppendFails, DoneRevokes, DoneRevokeFails,
       DoneForgets, DoneForgetFails, DoneAnswers, DoneWhoAmIFails, DoneGoto, TypeOK
  <1>9. CASE UNCHANGED vars
    BY <1>9 DEF vars
  <1> QED BY <1>1, <1>2, <1>3, <1>4, <1>5, <1>6, <1>7, <1>8, <1>9 DEF Next

\* Where a step of a done request leads, and that its context stays its own.
LEMMA DoneStepGoes ==
  ASSUME TypeOK, NEW d \in Dones, DoneStep(d)
  PROVE  /\ dn[d].pc \notin {"idle", "ctx_missing"} /\ dn'[d].pc \notin {"idle", "ctx_missing"}
         /\ dn'[d].ctx = dn[d].ctx
         /\ dn'[d].prior = dn[d].prior
         /\ dn'[d].provider = dn[d].provider
  <1>1. dn[d] \in DoneRequest
    BY DEF TypeOK
  <1>2. dn[d].pc \notin {"idle", "ctx_missing"}
    BY DEF DoneStep, DonePrior, DonePriorFails, DoneLists, DoneListFails, DoneSelects,
       DoneSelectFails, DoneAppends, DoneAppendFails, DoneRevokes, DoneRevokeFails,
       DoneForgets, DoneForgetFails, DoneAnswers, DoneWhoAmIFails
  <1>3. CASE \E s \in SessionIds : dn' = [dn EXCEPT ![d].pc = "exists", ![d].orphan = s]
    BY <1>1, <1>2, <1>3 DEF TypeOK, DoneRequest
  <1>4. CASE \E pc \in DonePc \ {"idle", "ctx_missing"} : dn' = [dn EXCEPT ![d].pc = pc]
    BY <1>1, <1>2, <1>4 DEF TypeOK, DoneRequest
  <1>5. CASE DonePrior(d) \/ DonePriorFails(d) \/ DoneSelects(d) \/ DoneSelectFails(d)
    BY <1>4, <1>5 DEF DonePrior, DonePriorFails, DoneSelects, DoneSelectFails, DoneGoto, DonePc
  <1>6. CASE DoneLists(d) \/ DoneListFails(d)
    BY <1>3, <1>4, <1>6 DEF DoneLists, DoneListFails, DoneGoto, DonePc, OrphanCandidates
  <1>7. CASE DoneAppends(d) \/ DoneAppendFails(d) \/ DoneRevokes(d) \/ DoneRevokeFails(d)
    BY <1>4, <1>7 DEF DoneAppends, DoneAppendFails, DoneRevokes, DoneRevokeFails, DoneGoto, DonePc
  <1>8. CASE DoneForgets(d) \/ DoneForgetFails(d) \/ DoneAnswers(d) \/ DoneWhoAmIFails(d)
    BY <1>4, <1>8 DEF DoneForgets, DoneForgetFails, DoneAnswers, DoneWhoAmIFails, DoneGoto, DonePc
  <1> QED BY <1>5, <1>6, <1>7, <1>8 DEF DoneStep

\* A request that leaves revoke and forget behind has deleted its context or met
\* a failed call.
LEMMA LeavesForget ==
  ASSUME TypeOK, [Next]_vars, NEW d \in Dones, dn[d].pc \in {"revoke", "forget"}
  PROVE  \/ dn'[d].pc \in {"revoke", "forget"} /\ dn'[d].ctx = dn[d].ctx
         \/ dn[d].ctx \notin ctxs'
         \/ dn[d].ctx \in disturbed'
  <1>1. CASE Restart
    BY <1>1 DEF Restart, DoneRunning
  <1>2. CASE dn'[d] = dn[d]
    BY <1>2
  <1>3. ASSUME NEW x \in Contexts, DoneReads(d, x) \/ DoneMisses(d, x) PROVE FALSE
    BY <1>3 DEF DoneReads, DoneMisses
  <1>4. CASE DoneRevokes(d) \/ DoneRevokeFails(d)
    BY <1>4 DEF DoneRevokes, DoneRevokeFails, DoneGoto, TypeOK, DoneRequest
  <1>5. CASE DoneForgets(d) \/ DoneForgetFails(d)
    BY <1>5 DEF DoneForgets, DoneForgetFails, DoneFault
  <1>6. CASE DoneStep(d)
    BY <1>4, <1>5, <1>6 DEF DoneStep, DonePrior, DonePriorFails, DoneLists, DoneListFails, DoneSelects,
       DoneSelectFails, DoneAppends, DoneAppendFails, DoneAnswers, DoneWhoAmIFails
  <1> QED BY <1>1, <1>2, <1>3, <1>6, OwnStep

LEMMA NextFresh ==
  ASSUME TypeOK, TypeOK', CoreInv, OriginInv, FreshInv, [Next]_vars
  PROVE  FreshInv'
  <1> SUFFICES ASSUME NEW x \in Contexts, Clean(x)', x \in ctxs',
                      HasAuthMethod(st[x].prior, st[x].provider)'
               PROVE  \E d \in Dones : dn'[d].ctx = x /\ dn'[d].pc \in {"revoke", "forget"}
    BY DEF FreshInv
  <1>1. Keeps
    BY NextKeeps
  <1>2. CASE x \in completed
    <2> DEFINE s == st[x].prior
               p == st[x].provider
    <2>1. /\ s \in SessionIds /\ p \in Providers /\ sessions[s].state # "none"
          /\ st'[x].prior = s /\ st'[x].provider = p /\ Clean(x) /\ x \in ctxs
      BY <1>1, <1>2, CompletedNames, CleanWas DEF Keeps
    <2> HIDE DEF s, p
    <2>2. sessions'[s].amr[p] > 0
      BY <2>1 DEF HasAuthMethod
    <2>3. CASE sessions[s].amr[p] > 0
      <3>1. PICK d \in Dones : dn[d].ctx = x /\ dn[d].pc \in {"revoke", "forget"}
        BY <2>1, <2>3 DEF FreshInv, HasAuthMethod, s, p
      <3> QED BY <3>1, LeavesForget DEF Clean
    <2>4. CASE ~(sessions[s].amr[p] > 0)
      <3>1. PICK d \in Dones : /\ dn[d].pc = "append" /\ dn[d].prior = s /\ dn[d].provider = p
                               /\ dn'[d].pc \in {"revoke", "forget"} /\ dn'[d].ctx = dn[d].ctx
        BY <2>1, <2>2, <2>4, NewMethod
      <3>2. dn[d].ctx = x
        BY <2>1, <3>1, OwnRequests DEF s, p
      <3> QED BY <3>1, <3>2
    <2> QED BY <2>3, <2>4
  <1>3. CASE x \notin completed
    <2>1. PICK s \in SessionIds, i \in Identities : KratosCompletes(x, s, i)
      <3>1. x \in completed'
        BY DEF Clean
      <3> QED BY <1>3, <3>1 DEF Next, Login, Logout, KratosCompletes, StartWhoAmI, StartStep, StartSaves,
              StartSaveFails, StartRedirects, StartFails, DoneReads, DoneMisses, Restart, vars,
              DoneStep, DonePrior, DonePriorFails, DoneLists, DoneListFails, DoneSelects,
              DoneSelectFails, DoneAppends, DoneAppendFails, DoneRevokes, DoneRevokeFails,
              DoneForgets, DoneForgetFails, DoneAnswers, DoneWhoAmIFails
    <2> DEFINE t == st[x].prior
               p == st[x].provider
    <2>2. /\ t \in SessionIds /\ p \in Providers /\ sessions[t].state # "none"
          /\ st' = st /\ sessions[s].state = "none"
          /\ \A u \in SessionIds : u # s => sessions'[u] = sessions[u]
          /\ completed' = completed \cup {x}
      BY <2>1 DEF KratosCompletes, TypeOK, StartRequest, CoreInv, StartInv
    <2>3. sessions[t].amr[p] > 0 /\ sessions[t].first # p
      BY <2>2 DEF HasAuthMethod, Clean
    <2>4. PICK d \in Dones : /\ dn[d].pc \notin {"idle", "ctx_missing"}
                             /\ dn[d].ctx \in StepUpsOf(t, p)
      BY <2>2, <2>3 DEF CoreInv, MethodOfOwnStepUp, HasAuthMethod
    <2>5. \A z \in Contexts : st'[z].pc # "idle" /\ st'[z].prior = st'[x].prior
                             /\ st'[z].provider = st'[x].provider => z = x
      BY DEF Clean, Alone, StepUpsOf
    <2>6. dn[d].ctx = x
      BY <2>2, <2>4, <2>5 DEF StepUpsOf
    <2>7. x \in early
      BY <1>3, <2>4, <2>6 DEF CoreInv, DoneInv
    <2> QED BY <1>1, <2>7 DEF Clean, Keeps
  <1> QED BY <1>2, <1>3

\* While others move, what a request of a clean step-up has found stays so.
LEMMA FindsStays ==
  ASSUME TypeOK, TypeOK', CoreInv, OriginInv, [Next]_vars, NEW x \in completed, Clean(x),
         NEW d \in Dones, dn'[d] = dn[d], dn[d].pc \notin {"idle", "ctx_missing"},
         dn[d].ctx = x, Finds(d, x)
  PROVE  Finds(d, x)'
  <1> DEFINE s == st[x].prior
             p == st[x].provider
  <1>1. Keeps
    BY NextKeeps
  <1>2. /\ x \in Contexts /\ s \in SessionIds /\ p \in Providers /\ sessions[s].state # "none"
        /\ st'[x].prior = s /\ st'[x].provider = p
        /\ dn[d].prior = s /\ dn[d].provider = p
    BY <1>1, CompletedNames DEF Keeps, CoreInv, DoneInv
  <1>3. Extra(x)' = Extra(x) /\ (Merged(x) => Merged(x)')
    BY <1>1, CleanWas
  <1>4. \A t \in SessionIds : sessions[t].state # "none" /\ ~Active(t) => ~Active(t)'
    BY <1>1 DEF Keeps, Active
  <1>5. \A t \in Extra(x) : t \in SessionIds /\ sessions[t].state # "none"
    BY <1>2, NoneAssumption DEF Extra, OriginInv
  <1>6. x \notin ctxs => x \notin ctxs'
    BY <1>1 DEF Keeps
  <1>7. ASSUME dn[d].pc \in {"prior", "list", "exists", "append"}
        PROVE  ~HasAuthMethod(st[x].prior, st[x].provider)'
    <2>1. ~(sessions[s].amr[p] > 0) /\ DoneRunning(d)
      BY <1>7 DEF Finds, HasAuthMethod, DoneRunning
    <2> HIDE DEF s, p
    <2> SUFFICES ASSUME sessions'[s].amr[p] > 0 PROVE FALSE
      BY <1>2 DEF HasAuthMethod
    <2>2. PICK e \in Dones : /\ dn[e].pc = "append" /\ dn[e].prior = s /\ dn[e].provider = p
                             /\ dn'[e].pc \in {"revoke", "forget"}
      BY <1>2, <2>1, NewMethod
    <2>3. e = d
      BY <1>2, <2>1, <2>2 DEF CoreInv, MergeInv, Clean, DoneRunning, s, p
    <2> QED BY <1>7, <2>2, <2>3
  <1> HIDE DEF s, p
  <1>8. dn[d].pc \in {"exists", "append"} /\ dn[d].orphan = None => \A t \in Extra(x) : ~Active(t)'
    BY <1>4, <1>5 DEF Finds
  <1>9. dn[d].pc \in {"forget", "whoami"} => ~Active(st[x].prior)' \/ Merged(x)'
    BY <1>2, <1>3, <1>4 DEF Finds, Active, s
  <1> QED BY <1>3, <1>6, <1>7, <1>8, <1>9 DEF Finds

\* A request that begins finds the method missing.
LEMMA FindsAtFirst ==
  ASSUME TypeOK, CoreInv, FreshInv, NEW x \in Contexts, NEW d \in Dones, DoneReads(d, x),
         Clean(x), Clean(x)'
  PROVE  Finds(d, x)'
  <1>1. /\ dn'[d].pc = "prior" /\ dn'[d].orphan = None
        /\ UNCHANGED <<sessions, st>> /\ x \in ctxs
    BY DEF DoneReads, TypeOK
  <1>2. \A e \in Dones : ~(DoneRunning(e) /\ dn[e].prior = st[x].prior
                                         /\ dn[e].provider = st[x].provider)
    BY <1>1 DEF DoneReads, Clean
  <1>3. ASSUME HasAuthMethod(st[x].prior, st[x].provider) PROVE FALSE
    <2>1. PICK e \in Dones : dn[e].ctx = x /\ dn[e].pc \in {"revoke", "forget"}
      BY <1>1, <1>3 DEF FreshInv
    <2>2. dn[e].prior = st[x].prior /\ dn[e].provider = st[x].provider
      BY <2>1 DEF CoreInv, DoneInv
    <2> QED BY <1>2, <2>1, <2>2 DEF DoneRunning
  <1> QED BY <1>1, <1>3 DEF Finds, HasAuthMethod

\* What a request of a clean step-up finds by a step of its own.
LEMMA FindsNext ==
  ASSUME TypeOK, TypeOK', CoreInv, OriginInv, [Next]_vars, NEW x \in completed, Clean(x), Clean(x)',
         NEW d \in Dones, DoneStep(d), dn[d].ctx = x, Finds(d, x)
  PROVE  Finds(d, x)'
  <1> DEFINE s == st[x].prior
             p == st[x].provider
  <1>1. Keeps
    BY NextKeeps
  <1>2. /\ x \in Contexts /\ s \in SessionIds /\ p \in Providers /\ sessions[s].state # "none"
        /\ st'[x].prior = s /\ st'[x].provider = p
        /\ dn[d].prior = s /\ dn[d].provider = p /\ dn[d] \in DoneRequest
    BY <1>1, CompletedNames, DoneStepGoes DEF Keeps, CoreInv, DoneInv, TypeOK
  <1>3. Extra(x)' = Extra(x) /\ (Merged(x) => Merged(x)')
    BY <1>1, CleanWas
  <1>4. \A t \in Extra(x) : t \in SessionIds /\ t # s /\ sessions[t].state # "none"
    BY <1>2, NoneAssumption DEF Extra, OriginInv, Clean, s
  <1>5. \A t, u \in Extra(x) : t = u
    BY <1>2, NoneAssumption DEF Extra, OriginInv
  <1>6. x \notin disturbed'
    BY DEF Clean
  <1> HIDE DEF s, p
  <1>7. CASE DonePrior(d) \/ DonePriorFails(d)
    <2>1. dn[d].pc = "prior" /\ UNCHANGED <<sessions, st>>
      BY <1>7 DEF DonePrior, DonePriorFails
    <2>2. dn[d].orphan = None /\ ~HasAuthMethod(s, p)
      BY <2>1 DEF Finds, s, p
    <2>3. CASE DonePrior(d)
      <3>1. dn'[d].pc = "list" /\ dn'[d].orphan = None
        BY <1>2, <2>2, <2>3 DEF DonePrior, DoneGoto, TypeOK, DoneRequest
      <3> QED BY <2>1, <2>2, <3>1 DEF Finds, HasAuthMethod, s, p
    <2>4. CASE DonePriorFails(d)
      <3>1. dn'[d].pc = "forget" /\ ~Active(s)
        BY <1>2, <1>6, <2>4 DEF DonePriorFails, DoneGoto, TypeOK, DoneRequest
      <3> QED BY <2>1, <3>1 DEF Finds, Active, s
    <2> QED BY <1>7, <2>3, <2>4
  <1>8. CASE DoneLists(d) \/ DoneListFails(d)
    <2>1. DoneLists(d)
      BY <1>6, <1>8 DEF DoneListFails, DoneFault
    <2>2. dn[d].pc = "list" /\ UNCHANGED <<sessions, st>>
      BY <2>1 DEF DoneLists
    <2>3. dn[d].orphan = None /\ ~HasAuthMethod(s, p)
      BY <2>2 DEF Finds, s, p
    <2>4. OrphanCandidates(d) = {t \in Extra(x) : Active(t)}
      <3>1. ASSUME NEW t \in OrphanCandidates(d) PROVE t \in Extra(x) /\ Active(t)
        BY <1>2, <3>1 DEF OrphanCandidates, Extra, Clean, Alone, s, p
      <3>2. ASSUME NEW t \in Extra(x), Active(t) PROVE t \in OrphanCandidates(d)
        BY <1>2, <1>4, <3>2, NoneAssumption DEF OrphanCandidates, Extra, OriginInv, s, p
      <3> QED BY <3>1, <3>2
    <2>5. CASE OrphanCandidates(d) = {} /\ DoneGoto(d, "exists")
      <3>1. dn'[d].pc = "exists" /\ dn'[d].orphan = None
        BY <1>2, <2>3, <2>5 DEF DoneGoto, TypeOK, DoneRequest
      <3>2. \A t \in Extra(x) : ~Active(t)
        BY <2>4, <2>5
      <3> QED BY <1>3, <2>2, <2>3, <3>1, <3>2 DEF Finds, HasAuthMethod, Active, s, p
    <2>6. ASSUME NEW t \in OrphanCandidates(d), dn' = [dn EXCEPT ![d].pc = "exists", ![d].orphan = t]
          PROVE  Finds(d, x)'
      <3>1. t \in Extra(x) /\ t # None
        BY <1>4, <2>4, NoneAssumption
      <3>2. dn'[d].pc = "exists" /\ dn'[d].orphan = t
        BY <1>2, <2>6 DEF TypeOK, DoneRequest
      <3> QED BY <1>3, <2>2, <2>3, <3>1, <3>2 DEF Finds, HasAuthMethod, s, p
    <2> QED BY <2>1, <2>5, <2>6 DEF DoneLists
  <1>9. CASE DoneSelects(d) \/ DoneSelectFails(d)
    <2>1. DoneSelects(d)
      BY <1>6, <1>9 DEF DoneSelectFails, DoneFault
    <2>2. dn[d].pc = "exists" /\ UNCHANGED <<sessions, st>>
      BY <2>1 DEF DoneSelects
    <2>3. ~HasAuthMethod(s, p)
      BY <2>2 DEF Finds, s, p
    <2>4. dn'[d].pc = "append" /\ dn'[d].orphan = dn[d].orphan
      BY <1>2, <2>1, <2>3 DEF DoneSelects, DoneGoto, TypeOK, DoneRequest
    <2> QED BY <1>3, <2>2, <2>3, <2>4 DEF Finds, HasAuthMethod, Active, s, p
  <1>10. CASE DoneAppends(d) \/ DoneAppendFails(d)
    <2>1. DoneAppends(d) /\ dn[d].pc = "append"
      BY <1>6, <1>10 DEF DoneAppendFails, DoneFault, DoneAppends
    <2>2. sessions' = Appended(s, p) /\ st' = st
      BY <1>2, <2>1 DEF DoneAppends
    <2>3. /\ dn'[d].orphan = dn[d].orphan
          /\ dn'[d].pc = IF dn[d].orphan = None THEN "forget" ELSE "revoke"
      BY <1>2, <2>1 DEF DoneAppends, DoneGoto, TypeOK, DoneRequest
    <2>4. sessions'[s].amr[p] > 0 /\ \A t \in SessionIds : Active(t)' <=> Active(t)
      <3>1. sessions \in [SessionIds -> Session] /\ sessions[s].amr[p] \in Nat
        BY <1>2 DEF TypeOK, Session
      <3>2. sessions'[s].amr[p] = sessions[s].amr[p] + 1
            /\ \A t \in SessionIds : sessions'[t].state = sessions[t].state
        BY <1>2, <2>2, <3>1, AppendedEffect
      <3> QED BY <3>1, <3>2 DEF Active
    <2>5. CASE dn[d].orphan = None
      <3>1. \A t \in Extra(x) : ~Active(t)'
        BY <1>4, <2>1, <2>4, <2>5 DEF Finds
      <3>2. Merged(x)'
        BY <1>2, <1>3, <2>4, <3>1 DEF Merged, HasAuthMethod
      <3> QED BY <2>3, <2>5, <3>2 DEF Finds
    <2>6. CASE dn[d].orphan # None
      <3>1. dn'[d].pc = "revoke" /\ dn'[d].orphan \in Extra(x)
        BY <2>1, <2>3, <2>6 DEF Finds
      <3> QED BY <1>3, <3>1 DEF Finds
    <2> QED BY <2>5, <2>6
  <1>11. CASE DoneRevokes(d) \/ DoneRevokeFails(d)
    <2>1. DoneRevokes(d) /\ dn[d].pc = "revoke"
      BY <1>6, <1>11 DEF DoneRevokeFails, DoneFault, DoneRevokes
    <2>2. dn[d].orphan \in Extra(x) /\ dn[d].orphan \in SessionIds
      BY <1>4, <2>1 DEF Finds, TypeOK
    <2>3. sessions' = [sessions EXCEPT ![dn[d].orphan].state = "ended"] /\ st' = st
          /\ sessions \in [SessionIds -> Session]
      BY <2>1 DEF DoneRevokes, Revoked, TypeOK
    <2>4. sessions'[dn[d].orphan].state = "ended" /\ sessions'[s].amr = sessions[s].amr
      BY <1>2, <2>2, <2>3, EndedEffect
    <2>5. \A t \in Extra(x) : ~Active(t)'
      BY <1>5, <2>2, <2>4 DEF Active
    <2>6. sessions[s].amr[p] > 0
      BY <1>2, <2>1 DEF CoreInv, DoneInv, HasAuthMethod
    <2>7. Merged(x)'
      BY <1>2, <1>3, <2>4, <2>5, <2>6 DEF Merged, HasAuthMethod
    <2>8. dn'[d].pc = "forget"
      BY <1>2, <2>1 DEF DoneRevokes, DoneGoto, TypeOK, DoneRequest
    <2> QED BY <2>7, <2>8 DEF Finds
  <1>12. CASE DoneForgets(d) \/ DoneForgetFails(d)
    <2>1. DoneForgets(d) /\ dn[d].pc = "forget"
      BY <1>6, <1>12 DEF DoneForgetFails, DoneFault, DoneForgets
    <2>2. dn'[d].pc = "whoami" /\ x \notin ctxs' /\ UNCHANGED <<sessions, st>>
      BY <1>2, <2>1 DEF DoneForgets, DoneGoto, TypeOK, DoneRequest
    <2>3. ~Active(s) \/ Merged(x)
      BY <2>1 DEF Finds, s
    <2> QED BY <1>3, <2>2, <2>3 DEF Finds, Active, s
  <1>13. CASE DoneAnswers(d) \/ DoneWhoAmIFails(d)
    <2>1. dn[d].pc = "whoami" /\ UNCHANGED <<sessions, st, ctxs>>
      BY <1>13 DEF DoneAnswers, DoneWhoAmIFails, history
    <2>2. x \notin ctxs'
      BY <2>1 DEF Finds
    <2>3. CASE DoneAnswers(d)
      <3>1. dn'[d].pc = "stepup" /\ Active(s)
        BY <1>2, <2>3 DEF DoneAnswers, DoneGoto, TypeOK, DoneRequest
      <3>2. Merged(x)
        BY <2>1, <3>1 DEF Finds, s
      <3> QED BY <1>3, <2>2, <3>1, <3>2 DEF Finds
    <2>4. CASE DoneWhoAmIFails(d)
      <3>1. dn'[d].pc = "whoami_failed"
        BY <1>2, <2>4 DEF DoneWhoAmIFails, DoneGoto, TypeOK, DoneRequest
      <3> QED BY <3>1 DEF Finds
    <2> QED BY <1>13, <2>3, <2>4
  <1> QED BY <1>7, <1>8, <1>9, <1>10, <1>11, <1>12, <1>13 DEF DoneStep

LEMMA NextFinds ==
  ASSUME TypeOK, TypeOK', CoreInv, CoreInv', OriginInv, FreshInv, FindInv, [Next]_vars
  PROVE  FindInv'
  <1> SUFFICES ASSUME NEW d \in Dones, NEW x, x = dn'[d].ctx,
                      dn'[d].pc \notin {"idle", "ctx_missing"}, Clean(x)'
               PROVE  Finds(d, x)'
    BY DEF FindInv
  <1>1. Keeps
    BY NextKeeps
  <1>2. ASSUME dn[d].pc \notin {"idle", "ctx_missing"}, dn[d].ctx = x
        PROVE  x \in completed /\ Clean(x) /\ Finds(d, x)
    <2>1. x \in completed
      BY <1>1, <1>2 DEF CoreInv, DoneInv, Clean, Keeps
    <2>2. Clean(x)
      BY <1>1, <2>1, CleanWas
    <2> QED BY <1>2, <2>1, <2>2 DEF FindInv
  <1>3. CASE dn'[d] = dn[d]
    BY <1>2, <1>3, FindsStays
  <1>4. CASE DoneStep(d)
    <2>1. dn[d].pc \notin {"idle", "ctx_missing"} /\ dn[d].ctx = x
      BY <1>4, DoneStepGoes
    <2> QED BY <1>2, <1>4, <2>1, FindsNext
  <1>5. ASSUME NEW y \in Contexts, DoneReads(d, y) PROVE Finds(d, x)'
    <2>1. x = y /\ x \in completed
      BY <1>5 DEF DoneReads, TypeOK, Clean
    <2> QED BY <1>1, <1>5, <2>1, CleanWas, FindsAtFirst
  <1>6. ASSUME NEW y \in Contexts, DoneMisses(d, y) PROVE FALSE
    <2> DEFINE rec == [dn[d] EXCEPT !.pc = "ctx_missing", !.ctx = y]
    <2>1. dn' = [dn EXCEPT ![d] = rec] /\ rec.pc = "ctx_missing"
      BY <1>6 DEF DoneMisses, TypeOK, DoneRequest
    <2> HIDE DEF rec
    <2> QED BY <2>1 DEF TypeOK
  <1>7. CASE Restart
    <2>1. dn'[d] = dn[d] \/ dn'[d].pc = "dropped"
      BY <1>7 DEF Restart, TypeOK, DoneRequest
    <2> QED BY <1>3, <2>1 DEF Finds
  <1> QED BY <1>3, <1>4, <1>5, <1>6, <1>7, OwnStep

\* What a finished merge has achieved is not undone: not by a step of another
\* request, and a request finishes its merge with the method or with a failed call.
LEMMA NextLanded ==
  ASSUME TypeOK, TypeOK', CoreInv, MethodLanded, [Next]_vars
  PROVE  MethodLanded'
  <1> DEFINE Over == {"forget", "whoami", "whoami_failed", "stepup"}
             Landed(s, p) == sessions[s].amr[p] > 0 \/ sessions[s].state # "active"
             LandedNow(s, p) == sessions'[s].amr[p] > 0 \/ sessions'[s].state # "active"
  <1> SUFFICES ASSUME NEW d \in Dones, dn'[d].pc \in Over, dn'[d].ctx \notin disturbed'
               PROVE  LandedNow(dn'[d].prior, dn'[d].provider)
    BY DEF MethodLanded, HasAuthMethod, Active
  <1>1. Keeps
    BY NextKeeps
  <1>2. ASSUME dn[d].pc \notin {"idle", "ctx_missing"}
        PROVE  /\ dn[d].prior \in SessionIds /\ dn[d].provider \in Providers
               /\ sessions[dn[d].prior].state # "none"
               /\ sessions[dn[d].prior].amr[dn[d].provider] \in Nat
    <2>1. /\ dn[d].ctx \in Contexts /\ st[dn[d].ctx].pc # "idle"
          /\ dn[d].prior = st[dn[d].ctx].prior /\ dn[d].provider = st[dn[d].ctx].provider
      BY <1>2 DEF CoreInv, DoneInv, TypeOK, DoneRequest
    <2>2. dn[d].prior \in SessionIds /\ dn[d].provider \in Providers
          /\ sessions[dn[d].prior].state # "none"
      BY <2>1, StartNames
    <2> QED BY <2>2 DEF TypeOK, Session
  <1>3. ASSUME dn[d].pc \notin {"idle", "ctx_missing"}, Landed(dn[d].prior, dn[d].provider)
        PROVE  LandedNow(dn[d].prior, dn[d].provider)
    BY <1>1, <1>2, <1>3 DEF Keeps
  <1>4. disturbed \subseteq disturbed'
    BY <1>1 DEF Keeps
  <1>5. CASE dn'[d] = dn[d]
    <2>1. Landed(dn[d].prior, dn[d].provider)
      BY <1>4, <1>5 DEF MethodLanded, HasAuthMethod, Active
    <2> QED BY <1>3, <1>5, <2>1
  <1>6. ASSUME DoneStep(d) PROVE LandedNow(dn[d].prior, dn[d].provider)
    <2>1. dn[d].pc \notin {"idle", "ctx_missing"} /\ dn'[d].ctx = dn[d].ctx /\ dn[d] \in DoneRequest
      BY <1>6, DoneStepGoes DEF TypeOK
    <2> USE DEF DoneGoto, DoneFault, TypeOK
    <2>2. CASE DonePrior(d) \/ DoneSelects(d)
      <3>1. CASE HasAuthMethod(dn[d].prior, dn[d].provider)
        BY <1>3, <2>1, <3>1 DEF HasAuthMethod
      <3>2. CASE ~HasAuthMethod(dn[d].prior, dn[d].provider)
        <4>1. dn' = [dn EXCEPT ![d].pc = "list"] \/ dn' = [dn EXCEPT ![d].pc = "append"]
          BY Zenon, <2>2, <3>2 DEF DonePrior, DoneSelects
        <4>2. dn'[d].pc \in {"list", "append"}
          BY <2>1, <4>1 DEF DoneRequest
        <4> QED BY <4>2
      <3> QED BY <3>1, <3>2
    <2>3. CASE DonePriorFails(d)
      <3>1. Landed(dn[d].prior, dn[d].provider)
        BY <2>1, <2>3 DEF DonePriorFails, Active
      <3> QED BY <1>3, <2>1, <3>1
    <2>4. CASE DoneLists(d)
      <3>1. dn'[d].pc = "exists"
        BY <2>1, <2>4 DEF DoneLists, DoneRequest
      <3> QED BY <3>1
    <2>5. CASE DoneListFails(d) \/ DoneSelectFails(d) \/ DoneAppendFails(d) \/ DoneRevokeFails(d)
               \/ DoneForgetFails(d)
      BY <2>1, <2>5 DEF DoneListFails, DoneSelectFails, DoneAppendFails, DoneRevokeFails, DoneForgetFails
    <2>6. CASE DoneAppends(d)
      <3>1. sessions' = Appended(dn[d].prior, dn[d].provider)
        BY <2>6 DEF DoneAppends
      <3>2. sessions'[dn[d].prior].amr[dn[d].provider] = sessions[dn[d].prior].amr[dn[d].provider] + 1
        BY <1>2, <2>1, <3>1, AppendedEffect
      <3> QED BY <1>2, <2>1, <3>2
    <2>7. CASE DoneRevokes(d)
      <3>1. Landed(dn[d].prior, dn[d].provider)
        BY <2>1, <2>7 DEF DoneRevokes, CoreInv, DoneInv, HasAuthMethod
      <3> QED BY <1>3, <2>1, <3>1
    <2>8. CASE DoneForgets(d) \/ DoneAnswers(d) \/ DoneWhoAmIFails(d)
      <3>1. dn[d].pc \in Over
        BY <2>8 DEF DoneForgets, DoneAnswers, DoneWhoAmIFails
      <3>2. Landed(dn[d].prior, dn[d].provider)
        BY <1>4, <2>1, <3>1 DEF MethodLanded, HasAuthMethod, Active
      <3> QED BY <1>3, <2>1, <3>2
    <2> QED BY <1>6, <2>2, <2>3, <2>4, <2>5, <2>6, <2>7, <2>8 DEF DoneStep
  <1>7. CASE DoneStep(d)
    BY <1>6, <1>7, DoneStepGoes
  <1>8. ASSUME NEW x \in Contexts, DoneReads(d, x) \/ DoneMisses(d, x) PROVE FALSE
    <2>1. dn[d] \in DoneRequest
      BY DEF TypeOK
    <2> QED BY <1>8, <2>1 DEF DoneReads, DoneMisses, TypeOK, DoneRequest
  <1>9. CASE Restart
    <2>1. dn'[d] = dn[d] \/ dn'[d].pc = "dropped"
      BY <1>9 DEF Restart, TypeOK, DoneRequest
    <2> QED BY <1>5, <2>1
  <1> QED BY <1>5, <1>7, <1>8, <1>9, OwnStep

\* The session found goes on to name the method.
LEMMA NextOrphan ==
  ASSUME TypeOK, TypeOK', CoreInv, OrphanInv, [Next]_vars
  PROVE  OrphanInv'
  <1> SUFFICES ASSUME NEW d \in Dones, dn'[d].pc \notin {"idle", "ctx_missing"}, dn'[d].orphan # None
               PROVE  sessions'[dn'[d].orphan].amr[dn'[d].provider] > 0
    BY DEF OrphanInv, HasAuthMethod
  <1>1. Keeps
    BY NextKeeps
  <1>2. dn[d] \in DoneRequest
    BY DEF TypeOK
  <1>3. ASSUME dn[d].pc \notin {"idle", "ctx_missing"}, dn[d].orphan # None
        PROVE  sessions'[dn[d].orphan].amr[dn[d].provider] > 0
    <2>1. /\ dn[d].orphan \in SessionIds /\ dn[d].provider \in Providers
          /\ sessions[dn[d].orphan].state # "none"
          /\ sessions[dn[d].orphan].amr[dn[d].provider] > 0
      BY <1>2, <1>3 DEF TypeOK, DoneRequest, CoreInv, DoneInv, OrphanInv, HasAuthMethod
    <2> QED BY <1>1, <2>1 DEF Keeps
  <1>4. CASE dn'[d] = dn[d]
    BY <1>3, <1>4
  <1>5. CASE DoneStep(d)
    <2>1. dn[d].pc \notin {"idle", "ctx_missing"} /\ dn'[d].provider = dn[d].provider
      BY <1>5, DoneStepGoes
    <2>2. CASE dn'[d].orphan = dn[d].orphan
      BY <1>3, <2>1, <2>2
    <2>3. CASE DoneLists(d)
      BY <1>2, <2>1, <2>2, <2>3 DEF DoneLists, DoneGoto, OrphanCandidates, HasAuthMethod, TypeOK, DoneRequest
    <2> QED BY <1>2, <1>5, <2>2, <2>3
            DEF DoneStep, DonePrior, DonePriorFails, DoneListFails, DoneSelects, DoneSelectFails,
                DoneAppends, DoneAppendFails, DoneRevokes, DoneRevokeFails, DoneForgets,
                DoneForgetFails, DoneAnswers, DoneWhoAmIFails, DoneGoto, TypeOK, DoneRequest
  <1>6. ASSUME NEW x \in Contexts, DoneReads(d, x) \/ DoneMisses(d, x) PROVE FALSE
    BY <1>2, <1>6 DEF DoneReads, DoneMisses, TypeOK, DoneRequest
  <1>7. CASE Restart
    <2>1. /\ dn'[d].orphan = dn[d].orphan /\ dn'[d].provider = dn[d].provider
          /\ dn'[d].pc = dn[d].pc \/ dn[d].pc \notin {"idle", "ctx_missing"}
      BY <1>2, <1>7 DEF Restart, DoneRunning, TypeOK, DoneRequest
    <2> QED BY <1>3, <2>1
  <1> QED BY <1>4, <1>5, <1>6, <1>7, OwnStep

LEMMA InitLeaves == Init => OriginInv /\ FreshInv /\ FindInv /\ MethodLanded /\ OrphanInv
  BY DEF Init, OriginInv, FreshInv, FindInv, Clean, MethodLanded, OrphanInv

-----------------------------------------------------------------------------
\* The inductive invariant of step-up: what a done request has read and found, what
\* the sessions it has written to owe to the user's own step-ups, and how far the
\* merge of a step-up that nothing disturbed has come.
THEOREM StepUpInvariant == Spec => []StepUpInv
  <1>1. Init => TypeOK /\ StepUpInv
    BY InitType, InitInv, InitLeaves DEF StepUpInv
  <1>2. TypeOK /\ StepUpInv /\ [Next]_vars => TypeOK' /\ StepUpInv'
    <2> SUFFICES ASSUME TypeOK, StepUpInv, [Next]_vars PROVE TypeOK' /\ StepUpInv'
      OBVIOUS
    <2>1. TypeOK' /\ CoreInv' /\ OriginInv'
      BY NextType, NextInv, NextOrigin DEF StepUpInv
    <2> QED BY <2>1, NextFresh, NextFinds, NextLanded, NextOrphan DEF StepUpInv
  <1> QED BY <1>1, <1>2, PTL DEF Spec

\* A session names a provider by its own login or by its own step-up, never by
\* another session's.
THEOREM MethodsOfOwnStepUps == Spec => []MethodOfOwnStepUp
  <1>1. StepUpInv => MethodOfOwnStepUp
    BY DEF StepUpInv, CoreInv
  <1> QED BY <1>1, StepUpInvariant, PTL

\* No login is lost to a merge that did not succeed.
THEOREM MergeBeforeEnd == Spec => []EndedAfterMerge
  <1>1. StepUpInv => EndedAfterMerge
    BY DEF StepUpInv, CoreInv
  <1> QED BY <1>1, StepUpInvariant, PTL

\* Without overlapping done requests a method is appended once.
THEOREM AppendedOnce == Spec => []NoDuplicateUnlessOverlapped
  <1>1. StepUpInv => NoDuplicateUnlessOverlapped
    BY DEF StepUpInv, CoreInv
  <1> QED BY <1>1, StepUpInvariant, PTL

\* A done request that is through with its merge has brought the method into the
\* session it was for, if no call failed and that session has not ended.
THEOREM MethodHasLanded == Spec => []MethodLanded
  <1>1. StepUpInv => MethodLanded
    BY DEF StepUpInv
  <1> QED BY <1>1, StepUpInvariant, PTL

\* A step-up that was answered with success, met no failed call and was alone, and
\* whose done page waited for the login, leaves one session, the method in it once, and no context.
THEOREM MergeComplete == Spec => []StepUpLeavesOneSession
  <1>1. TypeOK /\ StepUpInv => StepUpLeavesOneSession
    <2> SUFFICES ASSUME TypeOK, StepUpInv, NEW d \in Dones, NEW x, x = dn[d].ctx,
                        dn[d].pc = "stepup", x \notin early \cup disturbed,
                        <<dn[d].prior, dn[d].provider>> \notin overlapped,
                        sessions[dn[d].prior].first # dn[d].provider, Alone(x)
                 PROVE  /\ sessions[dn[d].prior].amr[dn[d].provider] = 1
                        /\ \A s \in SessionIds :
                              /\ sessions[s].origin = x
                              /\ sessions[s].identity = sessions[dn[d].prior].identity
                              => ~Active(s)
                        /\ x \notin ctxs
      BY DEF StepUpLeavesOneSession
    <2>1. x \in completed /\ dn[d].prior = st[x].prior /\ dn[d].provider = st[x].provider
      BY DEF StepUpInv, CoreInv, DoneInv
    <2>2. Finds(d, x)
      BY <2>1 DEF StepUpInv, FindInv, Clean
    <2>3. Merged(x) /\ x \notin ctxs
      BY <2>2 DEF Finds
    <2>4. dn[d].prior \in SessionIds /\ dn[d].provider \in Providers
          /\ sessions[dn[d].prior].amr[dn[d].provider] \in Nat
      BY DEF TypeOK, DoneRequest, Session
    <2>5. sessions[dn[d].prior].amr[dn[d].provider] <= 1
      BY <2>4 DEF StepUpInv, CoreInv, NoDuplicateUnlessOverlapped
    <2>6. sessions[dn[d].prior].amr[dn[d].provider] > 0
      BY <2>1, <2>3 DEF Merged, HasAuthMethod
    <2>7. sessions[dn[d].prior].amr[dn[d].provider] = 1
      BY <2>4, <2>5, <2>6
    <2>8. \A s \in SessionIds :
             sessions[s].origin = x /\ sessions[s].identity = sessions[dn[d].prior].identity => ~Active(s)
      BY <2>1, <2>3 DEF Merged, Extra
    <2> QED BY <2>3, <2>7, <2>8
  <1> QED BY <1>1, TypeCorrect, StepUpInvariant, PTL
-----------------------------------------------------------------------------
(* Step-up implements SessionAssurance.                                    *)

\* A done request that works for a context goes on to work for it.
LEMMA NamesStay ==
  ASSUME TypeOK, [Next]_vars, NEW d \in Dones, dn[d].pc \notin {"idle", "ctx_missing"}
  PROVE  dn'[d].prior = dn[d].prior /\ dn'[d].provider = dn[d].provider
  <1>1. ASSUME NEW x \in Contexts, DoneReads(d, x) \/ DoneMisses(d, x) PROVE FALSE
    BY <1>1 DEF DoneReads, DoneMisses
  <1>2. CASE Restart
    BY <1>2 DEF Restart, TypeOK, DoneRequest
  <1> QED BY <1>1, <1>2, OwnStep, DoneStepGoes

\* What a session asked for changes when a step-up is started only.
LEMMA AskedStays ==
  ASSUME TypeOK, [Next]_vars, \A x \in Contexts : st[x].pc = "idle" => st'[x].pc = "idle"
  PROVE  \A s \in SessionIds : AskedFor(s)' = AskedFor(s)
  <1>1. \A x \in Contexts : /\ st'[x].pc # "idle" <=> st[x].pc # "idle"
                            /\ st[x].pc # "idle" => /\ st'[x].prior = st[x].prior
                                                   /\ st'[x].provider = st[x].provider
    BY NextKeeps DEF Keeps
  <1> QED BY <1>1 DEF AskedFor, StepUpsOf

\* As long as no session is revoked, none is merged.
LEMMA MergedStays ==
  ASSUME TypeOK, CoreInv, [Next]_vars, ended' = ended
  PROVE  \A s \in SessionIds : MergedInto(s)' = MergedInto(s)
  <1> SUFFICES ASSUME NEW s \in SessionIds, ended[s] # None
               PROVE  dn'[ended[s]].prior = dn[ended[s]].prior
    BY DEF MergedInto
  <1>1. ended[s] \in Dones /\ dn[ended[s]].pc \notin {"idle", "ctx_missing"}
    BY DEF TypeOK, CoreInv, DoneInv
  <1> QED BY <1>1, NamesStay

\* Where the mapped values of every session stay, the step is a stutter.
LEMMA AssuranceStutters ==
  ASSUME \A s \in SessionIds : /\ sessions'[s].state = sessions[s].state
                               /\ sessions'[s].identity = sessions[s].identity
                               /\ AskedFor(s)' = AskedFor(s)
                               /\ NamedBy(s)' = NamedBy(s)
                               /\ MergedInto(s)' = MergedInto(s)
  PROVE  UNCHANGED Assurance!vars
  BY DEF Assurance!vars

\* A new session names the provider of its login, if there is one.
LEMMA NewNames ==
  ASSUME TypeOK, NEW s \in SessionIds, NEW i \in Identities, NEW p \in Providers \cup {None},
         NEW x \in Contexts \cup {None},
         sessions' = [sessions EXCEPT ![s] = NewSession(i, p, x)]
  PROVE  /\ sessions'[s].state = "active" /\ sessions'[s].identity = i
         /\ NamedBy(s)' = IF p = None THEN {} ELSE {p}
         /\ \A t \in SessionIds : t # s => sessions'[t] = sessions[t] /\ NamedBy(t)' = NamedBy(t)
  <1>1. sessions'[s] = NewSession(i, p, x) /\ \A t \in SessionIds : t # s => sessions'[t] = sessions[t]
    BY DEF TypeOK
  <1>2. \A q \in Providers : sessions'[s].amr[q] = IF q = p THEN 1 ELSE 0
    BY <1>1 DEF NewSession
  <1>3. NamedBy(s)' = IF p = None THEN {} ELSE {p}
    BY <1>2, NoneAssumption DEF NamedBy, HasAuthMethod
  <1>4. sessions'[s].state = "active" /\ sessions'[s].identity = i
    BY <1>1 DEF NewSession
  <1> QED BY <1>1, <1>3, <1>4 DEF NamedBy, HasAuthMethod

LEMMA LoginBegins ==
  ASSUME TypeOK, CoreInv, [Next]_vars, NEW s \in SessionIds, NEW i \in Identities,
         NEW p \in Providers \cup {None}, Login(s, i, p)
  PROVE  Assurance!Next
  <1>1. /\ sessions[s].state = "none"
        /\ sessions' = [sessions EXCEPT ![s] = NewSession(i, p, None)]
        /\ UNCHANGED <<st, ended>>
    BY DEF Login, history
  <1>2. /\ sessions'[s].state = "active" /\ sessions'[s].identity = i
        /\ NamedBy(s)' = IF p = None THEN {} ELSE {p}
        /\ \A t \in SessionIds : t # s => sessions'[t] = sessions[t] /\ NamedBy(t)' = NamedBy(t)
    BY <1>1, NewNames
  <1>3. \A t \in SessionIds : AskedFor(t)' = AskedFor(t) /\ MergedInto(t)' = MergedInto(t)
    BY <1>1, AskedStays, MergedStays
  <1>4. Assurance!Begins(s, i, IF p = None THEN {} ELSE {p})
    <2>1. [t \in SessionIds |-> sessions[t].state]' =
             [[t \in SessionIds |-> sessions[t].state] EXCEPT ![s] = "active"]
      BY <1>2
    <2>2. [t \in SessionIds |-> sessions[t].identity]' =
             [[t \in SessionIds |-> sessions[t].identity] EXCEPT ![s] = i]
      BY <1>2
    <2>3. [t \in SessionIds |-> NamedBy(t)]' =
             [[t \in SessionIds |-> NamedBy(t)] EXCEPT ![s] = IF p = None THEN {} ELSE {p}]
      BY <1>2
    <2>4. UNCHANGED [t \in SessionIds |-> MergedInto(t)]
      BY <1>3
    <2> QED BY <1>1, <2>1, <2>2, <2>3, <2>4 DEF Assurance!Begins
  <1>5. UNCHANGED [t \in SessionIds |-> AskedFor(t)]
    BY <1>3
  <1>6. Assurance!Login(s, i)
    BY <1>4, <1>5 DEF Assurance!Login
  <1> QED BY <1>6 DEF Assurance!Next

\* Kratos' completion of a step-up begins a session like any other login.
LEMMA CompletionBegins ==
  ASSUME TypeOK, CoreInv, [Next]_vars, NEW n \in SessionIds, NEW x \in Contexts, NEW i \in Identities,
         KratosCompletes(x, n, i)
  PROVE  Assurance!Next
  <1>0. PICK p \in Providers : p = st[x].provider /\ p # None
    BY NoneAssumption DEF KratosCompletes, TypeOK, StartRequest
  <1>1. /\ sessions[n].state = "none" /\ UNCHANGED <<st, ended>>
        /\ sessions' = [sessions EXCEPT ![n] = NewSession(i, p, x)]
    BY <1>0 DEF KratosCompletes, history
  <1>3. /\ sessions'[n].state = "active" /\ sessions'[n].identity = i
        /\ NamedBy(n)' = {p}
        /\ \A t \in SessionIds : t # n => sessions'[t] = sessions[t] /\ NamedBy(t)' = NamedBy(t)
    BY <1>1, <1>0, NewNames
  <1>4. \A t \in SessionIds : AskedFor(t)' = AskedFor(t) /\ MergedInto(t)' = MergedInto(t)
    BY <1>1, AskedStays, MergedStays
  <1>5. Assurance!Begins(n, i, {p})
    <2>1. [t \in SessionIds |-> sessions[t].state]' =
             [[t \in SessionIds |-> sessions[t].state] EXCEPT ![n] = "active"]
      BY <1>3
    <2>2. [t \in SessionIds |-> sessions[t].identity]' =
             [[t \in SessionIds |-> sessions[t].identity] EXCEPT ![n] = i]
      BY <1>3
    <2>3. [t \in SessionIds |-> NamedBy(t)]' =
             [[t \in SessionIds |-> NamedBy(t)] EXCEPT ![n] = {p}]
      BY <1>3
    <2>4. UNCHANGED [t \in SessionIds |-> MergedInto(t)]
      BY <1>4
    <2> QED BY <1>1, <2>1, <2>2, <2>3, <2>4 DEF Assurance!Begins
  <1>6. UNCHANGED [t \in SessionIds |-> AskedFor(t)]
    BY <1>4
  <1>7. Assurance!Login(n, i)
    BY <1>5, <1>6 DEF Assurance!Login
  <1> QED BY <1>7 DEF Assurance!Next

\* The start of a step-up asks for its provider.
LEMMA StartAsks ==
  ASSUME TypeOK, CoreInv, [Next]_vars, NEW s \in SessionIds, NEW x \in Contexts, NEW p \in Providers,
         StartWhoAmI(x, s, p)
  PROVE  Assurance!Next
  <1>1. /\ st[x].pc = "idle" /\ sessions[s].state = "active" /\ UNCHANGED <<sessions, ended>>
        /\ st'[x].pc # "idle" /\ st'[x].prior = s /\ st'[x].provider = p
        /\ \A y \in Contexts : y # x => st'[y] = st[y]
    BY DEF StartWhoAmI, Active, history, TypeOK
  <1>2. \A t \in SessionIds : AskedFor(t)' = IF t = s THEN AskedFor(t) \cup {p} ELSE AskedFor(t)
    BY <1>1 DEF AskedFor, StepUpsOf
  <1>3. \A t \in SessionIds : MergedInto(t)' = MergedInto(t) /\ NamedBy(t)' = NamedBy(t)
    BY <1>1, MergedStays DEF NamedBy, HasAuthMethod
  <1>4. [t \in SessionIds |-> AskedFor(t)]' =
          [[t \in SessionIds |-> AskedFor(t)] EXCEPT ![s] = @ \cup {p}]
    BY <1>2
  <1>5. Assurance!Ask(s, p)
    BY <1>1, <1>3, <1>4 DEF Assurance!Ask
  <1> QED BY <1>5 DEF Assurance!Next

LEMMA LogoutEnds ==
  ASSUME TypeOK, CoreInv, [Next]_vars, NEW s \in SessionIds, Logout(s)
  PROVE  Assurance!Next
  <1>1. /\ sessions[s].state = "active" /\ UNCHANGED <<st, ended>>
        /\ sessions' = [sessions EXCEPT ![s].state = "ended"]
    BY DEF Logout, Active, history
  <1>2. \A t \in SessionIds : /\ sessions'[t].state = IF t = s THEN "ended" ELSE sessions[t].state
                              /\ sessions'[t].identity = sessions[t].identity
                              /\ NamedBy(t)' = NamedBy(t)
    BY <1>1, EndedEffect DEF TypeOK, NamedBy, HasAuthMethod
  <1>3. \A t \in SessionIds : AskedFor(t)' = AskedFor(t) /\ MergedInto(t)' = MergedInto(t)
    BY <1>1, AskedStays, MergedStays
  <1>4. Assurance!Logout(s)
    BY <1>1, <1>2, <1>3 DEF Assurance!Logout
  <1> QED BY <1>4 DEF Assurance!Next

\* A done request appends a method that the very session asked for.
LEMMA AppendNames ==
  ASSUME TypeOK, CoreInv, [Next]_vars, NEW d \in Dones, DoneAppends(d) \/ DoneAppendFails(d)
  PROVE  Assurance!Next \/ UNCHANGED Assurance!vars
  <1> DEFINE s == dn[d].prior
             p == dn[d].provider
  <1>1. /\ dn[d].pc = "append" /\ UNCHANGED <<st, ended>>
        /\ sessions' = sessions \/ sessions' = Appended(s, p)
    BY DEF DoneAppends, DoneAppendFails, history
  <1>2. s \in SessionIds /\ p \in AskedFor(s)
    BY <1>1 DEF TypeOK, DoneRequest, CoreInv, DoneInv, AskedFor, StepUpsOf
  <1>3. \A t \in SessionIds : AskedFor(t)' = AskedFor(t) /\ MergedInto(t)' = MergedInto(t)
    BY <1>1, AskedStays, MergedStays
  <1>4. CASE sessions' = sessions
    <2>1. \A t \in SessionIds : NamedBy(t)' = NamedBy(t)
      BY <1>4 DEF NamedBy, HasAuthMethod
    <2> QED BY <1>3, <1>4, <2>1, AssuranceStutters
  <1>5. CASE sessions' = Appended(s, p)
    <2>1. p \in Providers
      BY <1>2 DEF AskedFor
    <2> HIDE DEF s, p
    <2>2. \A t \in SessionIds :
             /\ sessions'[t].state = sessions[t].state /\ sessions'[t].identity = sessions[t].identity
             /\ \A q \in Providers : sessions'[t].amr[q] = IF t = s /\ q = p THEN sessions[t].amr[q] + 1
                                                                           ELSE sessions[t].amr[q]
      BY <1>2, <1>5, <2>1, AppendedEffect DEF TypeOK
    <2>3. \A t \in SessionIds : \A q \in Providers : sessions[t].amr[q] \in Nat
      BY DEF TypeOK, Session
    <2>4. \A t \in SessionIds : NamedBy(t)' = IF t = s THEN NamedBy(t) \cup {p} ELSE NamedBy(t)
      BY <1>2, <2>1, <2>2, <2>3 DEF NamedBy, HasAuthMethod
    <2>5. Assurance!Name(s, p)
      BY <1>2, <1>3, <2>2, <2>4 DEF Assurance!Name
    <2> QED BY <1>2, <2>1, <2>5 DEF Assurance!Next
  <1> QED BY <1>1, <1>4, <1>5

\* A done request gives a session up for the prior one, which asked for the method
\* that both name.
LEMMA RevokeMerges ==
  ASSUME TypeOK, CoreInv, OrphanInv, [Next]_vars, NEW d \in Dones, DoneRevokes(d) \/ DoneRevokeFails(d)
  PROVE  Assurance!Next \/ UNCHANGED Assurance!vars
  <1> DEFINE n == dn[d].orphan
             s == dn[d].prior
             p == dn[d].provider
  <1>1. /\ dn[d].pc = "revoke" /\ UNCHANGED st
        /\ Revoked(n, d) \/ UNCHANGED <<sessions, ended>>
    BY DEF DoneRevokes, DoneRevokeFails
  <1>2. /\ n \in SessionIds /\ s \in SessionIds /\ p \in Providers /\ n # s
        /\ sessions[n].state # "none" /\ sessions[n].identity = sessions[s].identity
        /\ p \in AskedFor(s) \cap NamedBy(s) \cap NamedBy(n)
    BY <1>1 DEF TypeOK, DoneRequest, CoreInv, DoneInv, OrphanInv, AskedFor, NamedBy, StepUpsOf
  <1>3. \A t \in SessionIds : AskedFor(t)' = AskedFor(t)
    BY <1>1, AskedStays
  <1>4. CASE UNCHANGED <<sessions, ended>>
    <2>1. \A t \in SessionIds : MergedInto(t)' = MergedInto(t) /\ NamedBy(t)' = NamedBy(t)
      BY <1>4, MergedStays DEF NamedBy, HasAuthMethod
    <2> QED BY <1>3, <1>4, <2>1, AssuranceStutters
  <1>5. CASE Revoked(n, d)
    <2>1. \A t \in SessionIds : /\ sessions'[t].state = IF t = n THEN "ended" ELSE sessions[t].state
                                /\ sessions'[t].identity = sessions[t].identity
                                /\ NamedBy(t)' = NamedBy(t)
      BY <1>2, <1>5, EndedEffect DEF Revoked, TypeOK, NamedBy, HasAuthMethod
    <2>2. dn'[d].prior = s /\ d # None
      <3>1. dn'[d].prior = s
        BY <1>1, NamesStay
      <3>2. d # None
        BY NoneAssumption
      <3> QED BY <3>1, <3>2
    <2>3. \A t \in SessionIds : MergedInto(t)' = IF t = n THEN s ELSE MergedInto(t)
      <3> SUFFICES ASSUME NEW t \in SessionIds
                   PROVE  MergedInto(t)' = IF t = n THEN s ELSE MergedInto(t)
        OBVIOUS
      <3>1. ended'[n] = d /\ (t # n => ended'[t] = ended[t])
        BY <1>2, <1>5 DEF Revoked, TypeOK
      <3>2. CASE t = n
        BY <2>2, <3>1, <3>2 DEF MergedInto
      <3>3. CASE t # n /\ ended[t] = None
        BY <3>1, <3>3 DEF MergedInto
      <3>4. CASE t # n /\ ended[t] # None
        <4>1. ended[t] \in Dones /\ dn[ended[t]].pc \notin {"idle", "ctx_missing"}
          BY <3>4 DEF TypeOK, CoreInv, DoneInv
        <4>2. dn'[ended[t]].prior = dn[ended[t]].prior
          BY <4>1, NamesStay
        <4> QED BY <3>1, <3>4, <4>2 DEF MergedInto
      <3> QED BY <3>2, <3>3, <3>4
    <2>4. ASSUME NEW a \in SessionIds, NEW b \in SessionIds, a = s, b = n
          PROVE  Assurance!Merge(b, a)
      BY <1>2, <1>3, <2>1, <2>3, <2>4 DEF Assurance!Merge
    <2>5. PICK a \in SessionIds, b \in SessionIds : a = s /\ b = n
      BY <1>2
    <2>6. Assurance!Merge(b, a)
      BY <2>4, <2>5
    <2> QED BY <2>6 DEF Assurance!Next
  <1> QED BY <1>1, <1>4, <1>5

\* Every other step leaves the sessions alone and starts no step-up.
LEMMA QuietStutters ==
  ASSUME TypeOK, CoreInv, [Next]_vars, UNCHANGED <<sessions, ended>>,
         \A x \in Contexts : st[x].pc = "idle" => st'[x].pc = "idle"
  PROVE  UNCHANGED Assurance!vars
  <1>1. \A s \in SessionIds : AskedFor(s)' = AskedFor(s) /\ MergedInto(s)' = MergedInto(s)
    BY AskedStays, MergedStays
  <1>2. \A s \in SessionIds : NamedBy(s)' = NamedBy(s)
    BY DEF NamedBy, HasAuthMethod
  <1> QED BY <1>1, <1>2, AssuranceStutters

LEMMA InitAssurance == Init => Assurance!Init
  <1> SUFFICES ASSUME Init PROVE Assurance!Init
    OBVIOUS
  <1>1. \A s \in SessionIds : AskedFor(s) = {} /\ NamedBy(s) = {} /\ MergedInto(s) = None
    BY DEF Init, AskedFor, StepUpsOf, NamedBy, HasAuthMethod, MergedInto
  <1>2. \A s \in SessionIds : sessions[s].state = "none" /\ sessions[s].identity = None
    BY DEF Init
  <1> QED BY <1>1, <1>2 DEF Assurance!Init

LEMMA NextAssurance ==
  ASSUME TypeOK, CoreInv, OrphanInv, [Next]_vars
  PROVE  Assurance!Next \/ UNCHANGED Assurance!vars
  <1> USE DEF history
  <1>1. ASSUME NEW s \in SessionIds, NEW i \in Identities, NEW p \in Providers \cup {None},
               Login(s, i, p)
        PROVE  Assurance!Next
    BY <1>1, LoginBegins
  <1>2. ASSUME NEW s \in SessionIds, Logout(s) PROVE Assurance!Next
    BY <1>2, LogoutEnds
  <1>3. ASSUME NEW s \in SessionIds, NEW x \in Contexts, NEW i \in Identities, KratosCompletes(x, s, i)
        PROVE  Assurance!Next
    BY <1>3, CompletionBegins
  <1>4. ASSUME NEW d \in Dones, DoneAppends(d) \/ DoneAppendFails(d)
        PROVE  Assurance!Next \/ UNCHANGED Assurance!vars
    BY <1>4, AppendNames
  <1>5. ASSUME NEW d \in Dones, DoneRevokes(d) \/ DoneRevokeFails(d)
        PROVE  Assurance!Next \/ UNCHANGED Assurance!vars
    BY <1>5, RevokeMerges
  <1>6. ASSUME NEW d \in Dones, DoneStep(d) PROVE Assurance!Next \/ UNCHANGED Assurance!vars
    <2>1. CASE UNCHANGED <<sessions, st, ended>>
      BY <2>1, QuietStutters
    <2>2. \/ DoneAppends(d) \/ DoneAppendFails(d) \/ DoneRevokes(d) \/ DoneRevokeFails(d)
          \/ UNCHANGED <<sessions, st, ended>>
      <3>1. CASE DonePrior(d) \/ DonePriorFails(d)
        BY <3>1 DEF DonePrior, DonePriorFails
      <3>2. CASE DoneLists(d) \/ DoneListFails(d)
        BY <3>2 DEF DoneLists, DoneListFails
      <3>3. CASE DoneSelects(d) \/ DoneSelectFails(d)
        BY <3>3 DEF DoneSelects, DoneSelectFails
      <3>4. CASE DoneForgets(d) \/ DoneForgetFails(d)
        BY <3>4 DEF DoneForgets, DoneForgetFails
      <3>5. CASE DoneAnswers(d) \/ DoneWhoAmIFails(d)
        BY <3>5 DEF DoneAnswers, DoneWhoAmIFails
      <3> QED BY <1>6, <3>1, <3>2, <3>3, <3>4, <3>5 DEF DoneStep
    <2>3. CASE DoneAppends(d) \/ DoneAppendFails(d)
      BY <1>4, <2>3
    <2>4. CASE DoneRevokes(d) \/ DoneRevokeFails(d)
      BY <1>5, <2>4
    <2> QED BY <2>1, <2>2, <2>3, <2>4
  <1>7. ASSUME NEW s \in SessionIds, NEW x \in Contexts, NEW p \in Providers, StartWhoAmI(x, s, p)
        PROVE  Assurance!Next
    BY <1>7, StartAsks
  <1>8. ASSUME NEW x \in Contexts, StartStep(x) PROVE UNCHANGED Assurance!vars
    <2>1. /\ UNCHANGED <<sessions, ended>> /\ st[x].pc # "idle"
          /\ \A y \in Contexts : y # x => st'[y] = st[y]
      BY SMTT(40), <1>8 DEF StartStep, StartSaves, StartSaveFails, StartRedirects, StartFails,
         StartGoto, TypeOK
    <2> QED BY <2>1, QuietStutters
  <1>9. ASSUME NEW x \in Contexts, NEW d \in Dones, DoneReads(d, x) \/ DoneMisses(d, x)
        PROVE  UNCHANGED Assurance!vars
    BY <1>9, QuietStutters DEF DoneReads, DoneMisses
  <1>10. CASE Restart
    <2>1. /\ UNCHANGED <<sessions, ended>>
          /\ \A x \in Contexts : st[x].pc = "idle" => st'[x].pc = "idle"
      BY <1>10 DEF Restart, StartRunning, TypeOK
    <2> QED BY <2>1, QuietStutters
  <1>11. CASE UNCHANGED vars
    BY <1>11, QuietStutters DEF vars
  <1> QED BY <1>1, <1>2, <1>3, <1>6, <1>7, <1>8, <1>9, <1>10, <1>11 DEF Next

\* Step-up, with its tabs, failures, repeated pages and restarts, implements the
\* sessions of SessionAssurance: a session names what it began with or asked for, and it
\* ends by logout or for a session of the same person in which such a method has landed.
THEOREM Refinement == Spec => ImplementsSessionAssurance
  <1>1. TypeOK /\ StepUpInv /\ [Next]_vars => [Assurance!Next]_(Assurance!vars)
    BY NextAssurance DEF StepUpInv
  <1> QED BY <1>1, InitAssurance, TypeCorrect, StepUpInvariant, PTL
          DEF Spec, ImplementsSessionAssurance, Assurance!Spec
=============================================================================
