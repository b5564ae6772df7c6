-------------------------- MODULE TelegramLoginProofs --------------------------
(***************************************************************************)
(* Proofs about TelegramLogin, for every number of start requests, grants, *)
(* users and page loads.                                                   *)
(***************************************************************************)
EXTENDS TelegramLogin, TLAPS

LEMMA InitType == Init => TypeOK
  BY NoneAssumption DEF Init, Grant!Init, TypeOK, StartPc, ProxyRequest, ReturnRequest

\* A redeemed code gives an ID token of its own grant.
LEMMA RedeemsEffect ==
  ASSUME TypeOK, NEW q \in Proxies, px[q].grant \in Grants, Redeems(q)
  PROVE  /\ tokens' \in [Grants -> SUBSET Grant!IDToken]
         /\ tokens[px[q].grant] = {} /\ coded[px[q].grant] # {}
         /\ \A h \in Grants : tokens[h] # {} => tokens'[h] = tokens[h]
         /\ tokens'[px[q].grant] # {}
         /\ \A tok \in tokens'[px[q].grant] :
               tok.subject \in coded[px[q].grant] /\ tok.nonce = flowOf[px[q].grant]
         /\ UNCHANGED <<flowOf, asserted, coded, denied>>
  <1> DEFINE g == px[q].grant
  <1>1. tokens[g] = {} /\ UNCHANGED <<flowOf, asserted, coded, denied>>
    BY DEF Redeems, Grant!Redeem
  <1>2. PICK u \in coded[g] :
          tokens' = [tokens EXCEPT ![g] = {[request |-> q, nonce |-> flowOf[g], subject |-> u]}]
    BY DEF Redeems, Grant!Redeem
  <1> DEFINE tok == [request |-> q, nonce |-> flowOf[g], subject |-> u]
  <1>3. u \in Users /\ flowOf[g] \in Flows /\ g \in Grants
    BY DEF TypeOK
  <1>4. tok \in Grant!IDToken /\ tok.subject = u /\ tok.nonce = flowOf[g]
    BY <1>3 DEF Grant!IDToken
  <1>5. tokens' = [tokens EXCEPT ![g] = {tok}] /\ u \in coded[g]
    BY <1>2
  <1> HIDE DEF tok
  <1> QED BY <1>1, <1>3, <1>4, <1>5 DEF TypeOK

LEMMA NextType == TypeOK /\ [Next]_vars => TypeOK'
  <1> SUFFICES ASSUME TypeOK, [Next]_vars PROVE TypeOK'
    OBVIOUS
  <1> USE NoneAssumption DEF broker, history
  <1>1. ASSUME NEW f \in Flows, StartStep(f) PROVE TypeOK'
    BY <1>1 DEF TypeOK, StartStep, StartFlow, StartSavesContext, StartSubmits, StartShortens,
                StartFails, StartGoto, StartPc
  <1>2. ASSUME NEW f \in Flows, DynamoExpires(f) PROVE TypeOK'
    BY <1>2 DEF TypeOK, DynamoExpires
  <1>3. ASSUME NEW f \in Flows, NEW g \in Grants, Authorize(g, f) PROVE TypeOK'
    BY <1>3 DEF TypeOK, Authorize, Grant!Open
  <1>4. ASSUME NEW g \in Grants, NEW u \in Users, SignInAndReturn(g, u) PROVE TypeOK'
    BY <1>4 DEF TypeOK, SignInAndReturn, Grant!SignIn, Grant!HandCode
  <1>5. ASSUME NEW g \in Grants, Deny(g) PROVE TypeOK'
    BY <1>5 DEF TypeOK, Deny
  <1>6. ASSUME NEW q \in Proxies, NEW g \in Grants, ProxyReads(q, g) \/ ProxyMisses(q, g)
        PROVE  TypeOK'
    <2>1. flowOf[g] \in Flows
      BY <1>6 DEF ProxyReads, ProxyMisses, TypeOK
    <2>2. PICK pc \in {"delete", "kratos"}, fl \in {flowOf[g], None} :
             /\ px' = [px EXCEPT ![q] = [pc |-> pc, grant |-> g, flow |-> fl]]
             /\ pc = "delete" => fl = flowOf[g]
      BY <1>6 DEF ProxyReads, ProxyMisses
    <2>3. /\ UNCHANGED <<start, ctxs, states, flowOf, asserted, coded, tokens, denied, rt, sessions,
                         exchanger, expired>>
          /\ kept' \subseteq Flows /\ faulted' \subseteq Flows
      BY <1>6, <2>1 DEF ProxyReads, ProxyMisses, TypeOK
    <2>4. px' \in [Proxies -> ProxyRequest] /\ px'[q].pc = pc /\ px'[q].grant = g /\ px'[q].flow = fl
      BY <2>1, <2>2 DEF TypeOK, ProxyRequest
    <2>5. \A o \in Proxies : o # q => px'[o] = px[o]
      BY <2>2 DEF TypeOK
    <2> QED BY <2>1, <2>2, <2>3, <2>4, <2>5 DEF TypeOK
  <1>7. ASSUME NEW q \in Proxies, ProxyDeletes(q) \/ ProxyDeleteFails(q) PROVE TypeOK'
    <2>1. px[q] \in ProxyRequest /\ px[q].flow \in Flows
      BY <1>7 DEF ProxyDeletes, ProxyDeleteFails, TypeOK, ProxyRequest
    <2>2. px' = [px EXCEPT ![q].pc = "kratos"] /\ px[q].pc = "delete"
      BY <1>7 DEF ProxyDeletes, ProxyDeleteFails
    <2>3. /\ UNCHANGED <<start, ctxs, flowOf, asserted, coded, tokens, denied, rt, sessions,
                         exchanger, expired, faulted>>
          /\ states' \subseteq Flows /\ kept' \subseteq Flows
      BY <1>7, <2>1 DEF ProxyDeletes, ProxyDeleteFails, TypeOK
    <2> QED BY <2>1, <2>2, <2>3 DEF TypeOK, ProxyRequest
  <1>8. ASSUME NEW q \in Proxies, NEW s \in SessionIds, KratosCompletes(q, s) PROVE TypeOK'
    <2>1. px[q] \in ProxyRequest /\ px[q].flow \in Flows /\ px[q].grant \in Grants
      BY <1>8 DEF KratosCompletes, TypeOK, ProxyRequest
    <2>2. /\ tokens' \in [Grants -> SUBSET Grant!IDToken]
          /\ UNCHANGED <<flowOf, asserted, coded, denied>>
          /\ \A tok \in tokens'[px[q].grant] : tok.subject \in Users
      BY <1>8, <2>1, RedeemsEffect DEF KratosCompletes, TypeOK
    <2>3. sessions' \in [SessionIds -> Session \cup {None}]
      <3>1. PICK tok \in tokens'[px[q].grant] :
               sessions' = [sessions EXCEPT ![s] =
                              [flow |-> px[q].flow, grant |-> px[q].grant, user |-> tok.subject]]
        BY <1>8 DEF KratosCompletes
      <3> QED BY <2>1, <2>2, <3>1 DEF TypeOK, Session
    <2>4. PICK pc \in {"answered", "failed"} : px' = [px EXCEPT ![q].pc = pc]
      BY <1>8 DEF KratosCompletes
    <2>5. UNCHANGED <<start, ctxs, states, rt, kept, expired, faulted>>
          /\ exchanger' = [exchanger EXCEPT ![px[q].flow] = s]
      BY <1>8 DEF KratosCompletes
    <2> QED BY <2>1, <2>2, <2>3, <2>4, <2>5 DEF TypeOK, ProxyRequest
  <1>9. ASSUME NEW q \in Proxies, KratosRefuses(q) PROVE TypeOK'
    <2>1. px[q] \in ProxyRequest /\ px[q].grant \in Grants
      BY <1>9 DEF KratosRefuses, TypeOK, ProxyRequest
    <2>2. /\ tokens' \in [Grants -> SUBSET Grant!IDToken]
          /\ UNCHANGED <<flowOf, asserted, coded, denied>>
      <3>1. CASE UNCHANGED <<flowOf, asserted, coded, tokens, denied>>
        BY <3>1 DEF TypeOK
      <3>2. CASE Redeems(q)
        BY <2>1, <3>2, RedeemsEffect
      <3> QED BY <1>9, <3>1, <3>2 DEF KratosRefuses
    <2>3. /\ px' = [px EXCEPT ![q].pc = "failed"]
          /\ faulted' \subseteq Flows
          /\ UNCHANGED <<start, ctxs, states, rt, sessions, exchanger, kept, expired>>
      BY <1>9, <2>1 DEF KratosRefuses, Redeemable, TypeOK, ProxyRequest
    <2> QED BY <2>1, <2>2, <2>3 DEF TypeOK, ProxyRequest
  <1>10. ASSUME NEW r \in Returns, NEW f \in Flows, ReturnReads(r, f) \/ ReturnMisses(r, f)
         PROVE  TypeOK'
    <2>1. PICK pc \in {"exchange", "ctx_missing"} :
             rt' = [rt EXCEPT ![r].pc = pc, ![r].flow = f]
      BY <1>10 DEF ReturnReads, ReturnMisses
    <2>2. UNCHANGED <<start, ctxs, states, flowOf, asserted, coded, tokens, denied, px, sessions,
                      exchanger, kept, expired, faulted>>
      BY <1>10 DEF ReturnReads, ReturnMisses
    <2>3. rt' \in [Returns -> ReturnRequest] /\ rt'[r].flow = f /\ rt'[r].pc = pc
      <3> DEFINE rec == [rt[r] EXCEPT !.pc = pc, !.flow = f]
      <3>7. rt[r] \in ReturnRequest /\ pc \in {"exchange", "ctx_missing"}
        BY DEF TypeOK
      <3>1. rec \in ReturnRequest /\ rec.flow = f /\ rec.pc = pc
        BY <3>7 DEF ReturnRequest
      <3>2. rt' = [rt EXCEPT ![r] = rec]
        BY <2>1
      <3> HIDE DEF rec
      <3> QED BY <3>1, <3>2 DEF TypeOK
    <2>4. \A o \in Returns : o # r => rt'[o] = rt[o]
      BY <2>1 DEF TypeOK
    <2> QED BY <2>2, <2>3, <2>4 DEF TypeOK
  <1>11. ASSUME NEW r \in Returns, ReturnExchanges(r) \/ ReturnAnswers(r) \/ ReturnFails(r)
         PROVE  TypeOK'
    <2>1. rt[r] \in ReturnRequest /\ rt[r].flow \in Flows
      BY <1>11 DEF ReturnExchanges, ReturnAnswers, ReturnFails, ReturnRunning, TypeOK, ReturnRequest
    <2>2. CASE ReturnExchanges(r)
      <3>1. exchanger[rt[r].flow] \in SessionIds
        BY <2>1, <2>2 DEF ReturnExchanges, TypeOK
      <3> DEFINE rec == [rt[r] EXCEPT !.pc = "whoami", !.session = exchanger[rt[r].flow]]
      <3>2. rec \in ReturnRequest /\ rec.session # None /\ rec.flow = rt[r].flow
        BY <2>1, <3>1 DEF ReturnRequest
      <3>3. rt' = [rt EXCEPT ![r] = rec]
        BY <2>2 DEF ReturnExchanges
      <3> HIDE DEF rec
      <3>4. /\ rt' \in [Returns -> ReturnRequest]
            /\ rt'[r].session # None /\ rt'[r].flow # None
            /\ \A o \in Returns : o # r => rt'[o] = rt[o]
        BY <2>1, <3>2, <3>3 DEF TypeOK
      <3>5. UNCHANGED <<start, ctxs, states, flowOf, asserted, coded, tokens, denied, px, sessions,
                        exchanger, kept, expired, faulted>>
        BY <2>2 DEF ReturnExchanges
      <3> QED BY <3>4, <3>5 DEF TypeOK
    <2>3. CASE ReturnAnswers(r) \/ ReturnFails(r)
      <3>1. PICK pc \in {"ok", "failed"} :
               rt' = [rt EXCEPT ![r].pc = pc] /\ (pc = "ok" => rt[r].session # None)
        BY <2>3 DEF ReturnAnswers, ReturnFails, TypeOK
      <3>2. UNCHANGED <<start, ctxs, states, flowOf, asserted, coded, tokens, denied, px, sessions,
                        exchanger, kept, expired, faulted>>
        BY <2>3 DEF ReturnAnswers, ReturnFails
      <3>3. rt' \in [Returns -> ReturnRequest] /\ rt'[r].flow # None
            /\ (rt'[r].pc = "ok" => rt'[r].session # None) /\ rt'[r].pc # "whoami"
            /\ \A o \in Returns : o # r => rt'[o] = rt[o]
        BY <2>1, <3>1 DEF TypeOK, ReturnRequest
      <3> QED BY <3>2, <3>3 DEF TypeOK
    <2> QED BY <1>11, <2>2, <2>3
  <1>12. CASE Restart
    <2>1. ASSUME NEW q \in Proxies
          PROVE  /\ px'[q] \in ProxyRequest
                 /\ px'[q] = px[q] \/ (px[q].pc # "idle" /\ px'[q].pc = "dropped"
                                       /\ px'[q].grant = px[q].grant)
      BY SMTT(40), <1>12 DEF Restart, ProxyRunning, TypeOK, ProxyRequest
    <2>2. ASSUME NEW r \in Returns
          PROVE  /\ rt'[r] \in ReturnRequest
                 /\ rt'[r] = rt[r] \/ (rt[r].pc # "idle" /\ rt'[r].pc = "dropped"
                                       /\ rt'[r].flow = rt[r].flow)
      BY SMTT(40), <1>12 DEF Restart, ReturnRunning, TypeOK, ReturnRequest
    <2>3. px' \in [Proxies -> ProxyRequest] /\ rt' \in [Returns -> ReturnRequest]
      BY <1>12, <2>1, <2>2 DEF Restart
    <2>4. /\ UNCHANGED <<ctxs, states, flowOf, asserted, coded, tokens, denied, sessions, exchanger,
                         kept, expired>>
          /\ start' \in [Flows -> StartPc]
          /\ faulted' \subseteq Flows
      BY <1>12 DEF Restart, TypeOK, ProxyRequest, StartPc
    <2>5. ASSUME NEW q \in Proxies
          PROVE  /\ px'[q].pc # "idle" => px'[q].grant # None
                 /\ px'[q].pc \in {"delete", "answered"} => px'[q].flow # None
      BY <2>1 DEF TypeOK
    <2>6. ASSUME NEW r \in Returns
          PROVE  /\ rt'[r].pc # "idle" => rt'[r].flow # None
                 /\ rt'[r].pc \in {"whoami", "ok"} => rt'[r].session # None
      BY <2>2 DEF TypeOK
    <2> QED BY <2>3, <2>4, <2>5, <2>6 DEF TypeOK
  <1>13. CASE UNCHANGED vars
    BY <1>13 DEF vars, TypeOK
  <1> QED BY <1>1, <1>2, <1>3, <1>4, <1>5, <1>6, <1>7, <1>8, <1>9, <1>10, <1>11, <1>12, <1>13
          DEF Next, ProxyStarts, ProxyContinues, ReturnStep

\* Every variable of the login keeps its type.
THEOREM TypeCorrect == Spec => []TypeOK
  BY InitType, NextType, PTL DEF Spec

-----------------------------------------------------------------------------
LEMMA InitCore == Init => CoreInv
  BY NoneAssumption DEF Init, Grant!Init, CoreInv, StartInv, GrantInv, ProxyInv, SessionInv, StateInv,
     Holds, HasSession, ProxyRunning, OneSessionPerSignIn, OneSessionPerStart

\* The start requests, the broker and DynamoDB's cleanup: no load and no session
\* is touched, and a state row is new only for a flow that no grant was opened for.
LEMMA FrontStep ==
  ASSUME TypeOK, TypeOK', CoreInv,
         UNCHANGED <<px, rt, sessions, exchanger, tokens, kept>>,
         \A g \in Grants : flowOf[g] # None => flowOf'[g] = flowOf[g],
         \A g \in Grants : asserted[g] \subseteq asserted'[g],
         \A f \in Flows : f \in states' /\ f \notin states => \A g \in Grants : flowOf[g] # f,
         StartInv', GrantInv'
  PROVE  CoreInv'
  <1>1. \A q \in Proxies : px[q].pc # "idle" =>
           /\ px[q].grant \in Grants
           /\ flowOf[px[q].grant] # None /\ flowOf'[px[q].grant] = flowOf[px[q].grant]
           /\ px[q].flow \in {flowOf[px[q].grant], None}
    BY DEF TypeOK, ProxyRequest, CoreInv, ProxyInv
  <1>2. \A s \in SessionIds : sessions[s] # None =>
           /\ sessions[s].grant \in Grants /\ sessions[s].flow \in Flows
           /\ flowOf[sessions[s].grant] = sessions[s].flow
           /\ flowOf'[sessions[s].grant] = sessions[s].flow
    BY NoneAssumption DEF TypeOK, Session, CoreInv, SessionInv
  <1>3. ProxyInv'
    BY <1>1 DEF ProxyInv
  <1>4. SessionInv'
    BY <1>2 DEF CoreInv, SessionInv
  <1>5. StateInv'
    <2>1. \A q \in Proxies, f \in Flows : Holds(q, f) =>
             px[q].grant \in Grants /\ flowOf[px[q].grant] = f
      BY <1>1, NoneAssumption DEF Holds, ProxyRunning
    <2>2. \A f \in Flows : HasSession(f) => \E g \in Grants : flowOf[g] = f
      BY <1>2 DEF HasSession
    <2> QED BY <2>1, <2>2 DEF CoreInv, StateInv, Holds, HasSession, ProxyRunning
  <1> QED BY <1>3, <1>4, <1>5 DEF CoreInv, OneSessionPerSignIn, OneSessionPerStart

\* The steps of a return page.
LEMMA ReturnStepInv ==
  ASSUME TypeOK, TypeOK', CoreInv, NEW r \in Returns, ReturnStep(r)
  PROVE  CoreInv'
  <1>1. UNCHANGED <<start, ctxs, states, flowOf, asserted, coded, tokens, denied, px, sessions,
                    exchanger, kept, expired, faulted>>
    BY DEF ReturnStep, ReturnReads, ReturnMisses, ReturnExchanges, ReturnAnswers, ReturnFails,
           broker, history
  <1>2. SessionInv'
    <2>1. ASSUME NEW o \in Returns, rt'[o].pc \in {"whoami", "ok"}
          PROVE  sessions[rt'[o].session] # None /\ sessions[rt'[o].session].flow = rt'[o].flow
      <3>1. CASE rt'[o] = rt[o]
        BY <2>1, <3>1 DEF CoreInv, SessionInv
      <3>2. CASE o = r /\ ReturnExchanges(r)
        <4>1. rt[r].flow \in Flows
          BY <3>2 DEF ReturnExchanges, TypeOK, ReturnRequest
        <4>2. rt'[r].session = exchanger[rt[r].flow] /\ rt'[r].flow = rt[r].flow
              /\ exchanger[rt[r].flow] # None
          BY <3>2 DEF ReturnExchanges, TypeOK, ReturnRequest
        <4> QED BY <3>2, <4>1, <4>2 DEF CoreInv, SessionInv
      <3>3. CASE o = r /\ ReturnAnswers(r)
        <4>1. rt[r].pc = "whoami" /\ rt'[r].session = rt[r].session /\ rt'[r].flow = rt[r].flow
          BY <3>3 DEF ReturnAnswers, TypeOK, ReturnRequest
        <4> QED BY <3>3, <4>1 DEF CoreInv, SessionInv
      <3>4. CASE o = r /\ ReturnFails(r)
        BY <2>1, <3>4 DEF ReturnFails, TypeOK, ReturnRequest
      <3>5. CASE o = r /\ \E f \in Flows : ReturnReads(r, f) \/ ReturnMisses(r, f)
        <4>1. PICK f \in Flows, pc \in {"exchange", "ctx_missing"} :
                 rt' = [rt EXCEPT ![r].pc = pc, ![r].flow = f]
          BY <3>5 DEF ReturnReads, ReturnMisses
        <4>2. rt'[r].pc = pc
          <5> DEFINE rec == [rt[r] EXCEPT !.pc = pc, !.flow = f]
          <5>1. rec.pc = pc
            BY DEF TypeOK, ReturnRequest
          <5>2. rt' = [rt EXCEPT ![r] = rec]
            BY <4>1
          <5> HIDE DEF rec
          <5> QED BY <5>1, <5>2 DEF TypeOK
        <4> QED BY <2>1, <3>5, <4>2
      <3>6. o = r \/ rt'[o] = rt[o]
        BY DEF ReturnStep, ReturnReads, ReturnMisses, ReturnExchanges, ReturnAnswers, ReturnFails, TypeOK
      <3> QED BY <3>1, <3>2, <3>3, <3>4, <3>5, <3>6 DEF ReturnStep
    <2> QED BY <1>1, <2>1 DEF CoreInv, SessionInv
  <1> QED BY <1>1, <1>2 DEF CoreInv, StartInv, GrantInv, ProxyInv, StateInv, Holds, HasSession,
             ProxyRunning, OneSessionPerSignIn, OneSessionPerStart

\* A load of the callback begins.
LEMMA ProxyStartsInv ==
  ASSUME TypeOK, TypeOK', CoreInv, NEW q \in Proxies, NEW g \in Grants,
         ProxyReads(q, g) \/ ProxyMisses(q, g)
  PROVE  CoreInv'
  <1>1. /\ UNCHANGED <<start, ctxs, states, flowOf, asserted, coded, tokens, denied, rt, sessions,
                       exchanger, expired>>
        /\ kept \subseteq kept'
        /\ \A o \in Proxies : o # q => px'[o] = px[o]
        /\ px[q].pc = "idle" /\ px'[q].grant = g /\ flowOf[g] \in Flows
    BY DEF ProxyReads, ProxyMisses, broker, TypeOK
  <1>2. \/ /\ px'[q].pc = "delete" /\ px'[q].flow = flowOf[g] /\ flowOf[g] \in states
           /\ \A o \in Proxies : px[o].pc = "delete" /\ px[o].flow = flowOf[g] => flowOf[g] \in kept'
        \/ px'[q].pc = "kratos" /\ px'[q].flow = None
        \/ px'[q].pc = "kratos" /\ px'[q].flow = flowOf[g] /\ flowOf[g] \in Whole
    BY DEF ProxyReads, ProxyMisses, TypeOK
  <1>3. ProxyInv'
    BY <1>1, <1>2, NoneAssumption DEF CoreInv, ProxyInv
  <1>4. StateInv'
    <2> SUFFICES ASSUME NEW f \in Flows, f \notin kept', f \notin Whole
                 PROVE  /\ \A o, p \in Proxies : Holds(o, f)' /\ Holds(p, f)' => o = p
                        /\ \A o \in Proxies : Holds(o, f)' => ~HasSession(f)
                        /\ f \in states => ~HasSession(f) /\ \A o \in Proxies : Holds(o, f)' => px'[o].pc = "delete"
      BY <1>1 DEF StateInv, HasSession
    <2>1. \A o \in Proxies : o # q /\ Holds(o, f)' => Holds(o, f)
      BY <1>1 DEF Holds, ProxyRunning
    <2>2. /\ \A o, p \in Proxies : Holds(o, f) /\ Holds(p, f) => o = p
          /\ \A o \in Proxies : Holds(o, f) => ~HasSession(f)
          /\ f \in states => ~HasSession(f) /\ \A o \in Proxies : Holds(o, f) => px[o].pc = "delete"
      BY <1>1 DEF CoreInv, StateInv
    <2>3. Holds(q, f)' => /\ f \in states /\ px'[q].pc = "delete"
                          /\ \A o \in Proxies : ~(px[o].pc = "delete" /\ px[o].flow = f)
      BY <1>2, NoneAssumption DEF Holds
    <2>4. Holds(q, f)' => \A o \in Proxies : ~Holds(o, f)
      BY <2>2, <2>3 DEF Holds
    <2> QED BY <1>1, <2>1, <2>2, <2>3, <2>4
  <1> QED BY <1>1, <1>3, <1>4 DEF CoreInv, StartInv, GrantInv, SessionInv, OneSessionPerSignIn,
             OneSessionPerStart

\* A load of the callback deletes the state row, or fails to.
LEMMA ProxyDeletesInv ==
  ASSUME TypeOK, TypeOK', CoreInv, NEW q \in Proxies, ProxyDeletes(q) \/ ProxyDeleteFails(q)
  PROVE  CoreInv'
  <1>1. /\ UNCHANGED <<start, ctxs, flowOf, asserted, coded, tokens, denied, rt, sessions,
                       exchanger, expired>>
        /\ kept \subseteq kept' /\ states' \subseteq states
        /\ \A o \in Proxies : o # q => px'[o] = px[o]
        /\ px[q].pc = "delete" /\ px'[q].pc = "kratos"
        /\ px'[q].grant = px[q].grant /\ px'[q].flow = px[q].flow
        /\ px[q].flow \in kept' \/ px[q].flow \notin states'
    BY DEF ProxyDeletes, ProxyDeleteFails, broker, history, TypeOK, ProxyRequest
  <1>2. ProxyInv'
    BY <1>1 DEF CoreInv, ProxyInv
  <1>3. StateInv'
    <2>1. \A o \in Proxies, f \in Flows : Holds(o, f)' => Holds(o, f)
      BY <1>1 DEF Holds, ProxyRunning
    <2>2. \A o \in Proxies, f \in Flows \ kept' :
             Holds(o, f)' /\ f \in states' /\ px[o].pc = "delete" => px'[o].pc = "delete"
      BY <1>1 DEF Holds
    <2>3. \A f \in Flows : HasSession(f)' => HasSession(f)
      BY <1>1 DEF HasSession
    <2> QED BY <1>1, <2>1, <2>2, <2>3 DEF CoreInv, StateInv
  <1> QED BY <1>1, <1>2, <1>3 DEF CoreInv, StartInv, GrantInv, SessionInv, OneSessionPerSignIn,
             OneSessionPerStart

\* Kratos makes a session for a load of the callback.
LEMMA KratosCompletesInv ==
  ASSUME TypeOK, TypeOK', CoreInv, NEW q \in Proxies, NEW s \in SessionIds, KratosCompletes(q, s)
  PROVE  CoreInv'
  <1> DEFINE f == px[q].flow
             g == px[q].grant
  <1>1. /\ UNCHANGED <<start, ctxs, states, flowOf, asserted, coded, denied, rt, kept, expired>>
        /\ \A o \in Proxies : o # q => px'[o] = px[o]
        /\ px[q].pc = "kratos" /\ px'[q].pc \in {"answered", "failed"}
        /\ px'[q].grant = g /\ px'[q].flow = f /\ f \in Flows /\ g \in Grants
        /\ sessions[s] = None
        /\ exchanger' = [exchanger EXCEPT ![f] = s]
    BY DEF KratosCompletes, Redeems, Grant!Redeem, history, TypeOK, ProxyRequest
  <1>2. /\ tokens[g] = {} /\ tokens'[g] # {}
        /\ \A h \in Grants : tokens[h] # {} => tokens'[h] = tokens[h]
        /\ \A tok \in tokens'[g] : tok.subject \in coded[g]
    BY <1>1, RedeemsEffect DEF KratosCompletes
  <1>3. /\ sessions'[s].flow = f /\ sessions'[s].grant = g /\ sessions'[s].user \in coded[g]
        /\ sessions'[s] # None
        /\ \A o \in SessionIds : o # s => sessions'[o] = sessions[o]
    <2>1. PICK tok \in tokens'[g] :
             sessions' = [sessions EXCEPT ![s] = [flow |-> f, grant |-> g, user |-> tok.subject]]
      BY DEF KratosCompletes
    <2>2. sessions'[s] = [flow |-> f, grant |-> g, user |-> tok.subject]
      BY <2>1 DEF TypeOK
    <2>3. sessions'[s] # None
      <3>1. sessions'[s] \in Session
        BY <1>1, <1>2, <2>1, <2>2 DEF TypeOK, Session
      <3> QED BY <3>1, NoneAssumption
    <2> QED BY <1>2, <2>1, <2>2, <2>3 DEF TypeOK
  <1> HIDE DEF f, g
  <1>4. flowOf[g] = f
    BY <1>1, NoneAssumption DEF CoreInv, ProxyInv, f, g
  <1>5. \A o \in SessionIds : sessions[o] # None =>
           sessions[o].grant \in Grants /\ sessions[o].flow \in Flows /\ sessions[o].grant # g
    BY <1>2, NoneAssumption DEF CoreInv, SessionInv, TypeOK, Session
  <1>6. ProxyInv'
    BY <1>1 DEF CoreInv, ProxyInv, f, g
  <1>7. SessionInv'
    <2>1. \A o \in SessionIds : sessions'[o] # None =>
             /\ tokens'[sessions'[o].grant] # {}
             /\ flowOf[sessions'[o].grant] = sessions'[o].flow
             /\ sessions'[o].user \in asserted[sessions'[o].grant]
      BY <1>1, <1>2, <1>3, <1>4, <1>5 DEF CoreInv, SessionInv, GrantInv
    <2>2. \A h \in Flows : exchanger'[h] # None =>
             sessions'[exchanger'[h]] # None /\ sessions'[exchanger'[h]].flow = h
      BY <1>1, <1>3 DEF CoreInv, SessionInv, TypeOK
    <2>3. \A r \in Returns : rt[r].pc \in {"whoami", "ok"} =>
             sessions'[rt[r].session] # None /\ sessions'[rt[r].session].flow = rt[r].flow
      BY <1>1, <1>3 DEF CoreInv, SessionInv, TypeOK, ReturnRequest
    <2> QED BY <1>1, <2>1, <2>2, <2>3 DEF SessionInv
  <1>8. f \notin kept \cup Whole => ~HasSession(f) /\ f \notin states
        /\ \A o \in Proxies : Holds(o, f) => o = q
    <2>1. Holds(q, f)
      BY <1>1 DEF Holds, ProxyRunning, f
    <2> QED BY <1>1, <2>1 DEF CoreInv, StateInv
  <1>9. StateInv'
    <2>1. \A h \in Flows : HasSession(h)' => HasSession(h) \/ h = f
      BY <1>3 DEF HasSession
    <2>2. \A o \in Proxies, h \in Flows : Holds(o, h)' => Holds(o, h) /\ o # q /\ px'[o] = px[o]
      BY <1>1 DEF Holds, ProxyRunning
    <2> QED BY <1>1, <1>8, <2>1, <2>2 DEF CoreInv, StateInv
  <1>10. OneSessionPerSignIn'
    BY <1>3, <1>5 DEF CoreInv, OneSessionPerSignIn
  <1>11. OneSessionPerStart'
    BY <1>1, <1>3, <1>8 DEF CoreInv, OneSessionPerStart, HasSession
  <1> QED BY <1>1, <1>6, <1>7, <1>9, <1>10, <1>11 DEF CoreInv, StartInv, GrantInv

\* Kratos makes no session.
LEMMA KratosRefusesInv ==
  ASSUME TypeOK, TypeOK', CoreInv, NEW q \in Proxies, KratosRefuses(q)
  PROVE  CoreInv'
  <1>1. /\ UNCHANGED <<start, ctxs, states, rt, sessions, exchanger, kept, expired>>
        /\ \A o \in Proxies : o # q => px'[o] = px[o]
        /\ px[q].pc = "kratos" /\ px'[q].pc = "failed"
        /\ px'[q].grant = px[q].grant /\ px'[q].flow = px[q].flow /\ px[q].grant \in Grants
    BY DEF KratosRefuses, TypeOK, ProxyRequest
  <1>2. /\ UNCHANGED <<flowOf, asserted, coded, denied>>
        /\ \A h \in Grants : tokens[h] # {} => tokens'[h] = tokens[h]
    BY <1>1, RedeemsEffect DEF KratosRefuses, broker
  <1>3. ProxyInv'
    BY <1>1, <1>2 DEF CoreInv, ProxyInv
  <1>4. SessionInv'
    BY <1>1, <1>2 DEF CoreInv, SessionInv, TypeOK, Session
  <1>5. StateInv'
    <2>1. \A o \in Proxies, h \in Flows : Holds(o, h)' => Holds(o, h) /\ px'[o] = px[o]
      BY <1>1 DEF Holds, ProxyRunning
    <2>2. \A h \in Flows : HasSession(h)' => HasSession(h)
      BY <1>1 DEF HasSession
    <2> QED BY <1>1, <2>1, <2>2 DEF CoreInv, StateInv
  <1> QED BY <1>1, <1>2, <1>3, <1>4, <1>5 DEF CoreInv, StartInv, GrantInv, OneSessionPerSignIn,
             OneSessionPerStart

\* A restart only drops requests.
LEMMA RestartInv ==
  ASSUME TypeOK, TypeOK', CoreInv, Restart
  PROVE  CoreInv'
  <1>1. UNCHANGED <<ctxs, states, flowOf, asserted, coded, tokens, denied, sessions, exchanger,
                    kept, expired>>
    BY DEF Restart, broker
  <1>2. \A q \in Proxies : /\ px'[q].pc # "idle" => px[q].pc # "idle"
                          /\ px'[q].pc \notin {"delete", "kratos"}
                          /\ px'[q].grant = px[q].grant /\ px'[q].flow = px[q].flow
    BY DEF Restart, ProxyRunning, TypeOK, ProxyRequest
  <1>3. \A r \in Returns : rt'[r].pc \in {"whoami", "ok"} => rt'[r] = rt[r]
    BY DEF Restart, ReturnRunning, TypeOK, ReturnRequest
  <1>4. \A f \in Flows : start'[f] = start[f] \/ (start'[f] = "failed" /\ start[f] # "sent")
    BY DEF Restart, StartRunning
  <1>5. StartInv'
    BY <1>1, <1>4 DEF CoreInv, StartInv, TypeOK
  <1>6. ProxyInv' /\ SessionInv'
    BY <1>1, <1>2, <1>3 DEF CoreInv, ProxyInv, SessionInv
  <1>7. StateInv'
    <2>1. \A q \in Proxies, h \in Flows : ~Holds(q, h)'
      BY <1>2 DEF Holds, ProxyRunning
    <2>2. \A h \in Flows : HasSession(h)' => HasSession(h)
      BY <1>1 DEF HasSession
    <2> QED BY <1>1, <2>1, <2>2 DEF CoreInv, StateInv
  <1> QED BY <1>1, <1>5, <1>6, <1>7 DEF CoreInv, GrantInv, OneSessionPerSignIn, OneSessionPerStart

LEMMA NextCore == TypeOK /\ TypeOK' /\ CoreInv /\ [Next]_vars => CoreInv'
  <1> SUFFICES ASSUME TypeOK, TypeOK', CoreInv, [Next]_vars PROVE CoreInv'
    OBVIOUS
  <1>0. StartInv /\ GrantInv
    BY DEF CoreInv
  <1> USE DEF broker, history
  <1>1. ASSUME NEW f \in Flows, StartStep(f) PROVE CoreInv'
    <2>1. UNCHANGED <<px, rt, sessions, exchanger, tokens, kept, flowOf, asserted, coded, expired>>
          /\ ctxs \subseteq ctxs' /\ (\A h \in Flows : h # f => start'[h] = start[h])
      BY <1>1 DEF StartStep, StartFlow, StartSavesContext, StartSubmits, StartShortens, StartFails,
                  StartGoto, TypeOK
    <2>2. start[f] # "sent"
      BY <1>1 DEF StartStep, StartFlow, StartSavesContext, StartSubmits, StartShortens, StartFails
    <2>3. start'[f] \in {"submit", "shorten", "sent"} => f \in ctxs' \cup expired
      BY <1>0, <1>1 DEF StartStep, StartFlow, StartSavesContext, StartSubmits, StartShortens, StartFails,
                  StartGoto, TypeOK, StartInv
    <2>4. \A g \in Grants : flowOf[g] # f
      BY <1>0, <2>2, NoneAssumption DEF StartInv
    <2>5. states' \subseteq states \cup {f}
      BY <1>1 DEF StartStep, StartFlow, StartSavesContext, StartSubmits, StartShortens, StartFails
    <2>6. StartInv' /\ GrantInv'
      BY <1>0, <2>1, <2>3, <2>4 DEF StartInv, GrantInv, TypeOK
    <2> QED BY <2>1, <2>4, <2>5, <2>6, FrontStep
  <1>2. ASSUME NEW f \in Flows, DynamoExpires(f) PROVE CoreInv'
    <2>1. StartInv' /\ GrantInv'
      BY <1>0, <1>2 DEF DynamoExpires, StartInv, GrantInv
    <2> QED BY <1>2, <2>1, FrontStep DEF DynamoExpires
  <1>3. ASSUME NEW f \in Flows, NEW g \in Grants, Authorize(g, f) PROVE CoreInv'
    <2>1. StartInv' /\ GrantInv'
      BY <1>0, <1>3 DEF Authorize, Grant!Open, StartInv, GrantInv, TypeOK
    <2> QED BY <1>3, <2>1, FrontStep DEF Authorize, Grant!Open, TypeOK
  <1>4. ASSUME NEW g \in Grants, NEW u \in Users, SignInAndReturn(g, u) PROVE CoreInv'
    <2>1. StartInv' /\ GrantInv'
      BY <1>0, <1>4 DEF SignInAndReturn, Grant!SignIn, Grant!HandCode, StartInv, GrantInv, TypeOK
    <2>2. \A h \in Grants : asserted[h] \subseteq asserted'[h]
      BY <1>4 DEF SignInAndReturn, Grant!SignIn, Grant!HandCode, TypeOK
    <2> QED BY <1>4, <2>1, <2>2, FrontStep DEF SignInAndReturn, Grant!SignIn, Grant!HandCode
  <1>5. ASSUME NEW g \in Grants, Deny(g) PROVE CoreInv'
    <2>1. StartInv' /\ GrantInv'
      BY <1>0, <1>5 DEF Deny, StartInv, GrantInv
    <2> QED BY <1>5, <2>1, FrontStep DEF Deny
  <1>6. ASSUME NEW q \in Proxies, ProxyStarts(q) \/ ProxyContinues(q) PROVE CoreInv'
    BY <1>6, ProxyStartsInv, ProxyDeletesInv, KratosCompletesInv, KratosRefusesInv
       DEF ProxyStarts, ProxyContinues
  <1>7. ASSUME NEW r \in Returns, ReturnStep(r) PROVE CoreInv'
    BY <1>7, ReturnStepInv
  <1>8. CASE Restart
    BY <1>8, RestartInv
  <1>9. CASE UNCHANGED vars
    <2>1. StartInv' /\ GrantInv'
      BY <1>0, <1>9 DEF vars, StartInv, GrantInv
    <2> QED BY <1>9, <2>1, FrontStep DEF vars
  <1> QED BY <1>1, <1>2, <1>3, <1>4, <1>5, <1>6, <1>7, <1>8, <1>9 DEF Next

-----------------------------------------------------------------------------
(* No sign-in gets lost between the loads of the callback.                 *)

LEMMA InitCallback == Init => CallbackInv /\ CallbackNotLost
  BY DEF Init, CallbackInv, CallbackNotLost

\* What is known of a sign-in stays known.
LEMMA Grows ==
  ASSUME TypeOK, [Next]_vars
  PROVE  /\ \A h \in Grants : flowOf[h] # None => flowOf'[h] = flowOf[h]
         /\ \A h \in Grants : coded[h] # {} => coded'[h] # {}
         /\ \A h \in Grants : tokens[h] # {} => tokens'[h] # {}
         /\ denied \subseteq denied' /\ faulted \subseteq faulted' /\ expired \subseteq expired'
  <1> USE DEF broker, history
  <1> DEFINE Goal == /\ \A h \in Grants : flowOf[h] # None => flowOf'[h] = flowOf[h]
                     /\ \A h \in Grants : coded[h] # {} => coded'[h] # {}
                     /\ \A h \in Grants : tokens[h] # {} => tokens'[h] # {}
                     /\ denied \subseteq denied' /\ faulted \subseteq faulted'
                     /\ expired \subseteq expired'
  <1>1. ASSUME NEW f \in Flows, StartStep(f) \/ DynamoExpires(f) PROVE Goal
    BY <1>1 DEF StartStep, StartFlow, StartSavesContext, StartSubmits, StartShortens, StartFails,
                DynamoExpires
  <1>2. ASSUME NEW f \in Flows, NEW g \in Grants, Authorize(g, f) PROVE Goal
    BY <1>2 DEF Authorize, Grant!Open, TypeOK
  <1>3. ASSUME NEW g \in Grants, NEW u \in Users, SignInAndReturn(g, u) PROVE Goal
    BY <1>3 DEF SignInAndReturn, Grant!SignIn, Grant!HandCode, TypeOK
  <1>4. ASSUME NEW g \in Grants, Deny(g) PROVE Goal
    BY <1>4 DEF Deny
  <1>5. ASSUME NEW q \in Proxies, ProxyStarts(q) \/ ProxyDeletes(q) \/ ProxyDeleteFails(q) PROVE Goal
    BY <1>5 DEF ProxyStarts, ProxyReads, ProxyMisses, ProxyDeletes, ProxyDeleteFails
  <1>6. ASSUME NEW q \in Proxies, NEW s \in SessionIds, KratosCompletes(q, s) PROVE Goal
    <2>1. px[q].grant \in Grants /\ Redeems(q)
      BY <1>6, NoneAssumption DEF KratosCompletes, TypeOK, ProxyRequest
    <2> QED BY <1>6, <2>1, RedeemsEffect DEF KratosCompletes
  <1>7. ASSUME NEW q \in Proxies, KratosRefuses(q) PROVE Goal
    <2>1. px[q].grant \in Grants
      BY <1>7, NoneAssumption DEF KratosRefuses, TypeOK, ProxyRequest
    <2>2. /\ UNCHANGED <<flowOf, coded, denied>>
          /\ \A h \in Grants : tokens[h] # {} => tokens'[h] # {}
      BY <1>7, <2>1, RedeemsEffect DEF KratosRefuses
    <2> QED BY <1>7, <2>2 DEF KratosRefuses
  <1>8. ASSUME NEW r \in Returns, ReturnStep(r) PROVE Goal
    BY <1>8 DEF ReturnStep, ReturnReads, ReturnMisses, ReturnExchanges, ReturnAnswers, ReturnFails
  <1>9. CASE Restart
    BY <1>9 DEF Restart
  <1>10. CASE UNCHANGED vars
    BY <1>10 DEF vars
  <1> HIDE DEF Goal
  <1>11. ASSUME NEW q \in Proxies, ProxyStarts(q) \/ ProxyContinues(q) PROVE Goal
    BY <1>5, <1>6, <1>7, <1>11 DEF ProxyContinues
  <1>12. ASSUME NEW f \in Flows, StartStep(f) \/ DynamoExpires(f) \/ \E g \in Grants : Authorize(g, f)
         PROVE  Goal
    BY <1>1, <1>2, <1>12
  <1>13. ASSUME NEW g \in Grants, Deny(g) \/ \E u \in Users : SignInAndReturn(g, u) PROVE Goal
    BY <1>3, <1>4, <1>13
  <1> QED BY <1>8, <1>9, <1>10, <1>11, <1>12, <1>13 DEF Next, Goal

\* Only its own steps and a restart change a load.
LEMMA LoadSteps ==
  ASSUME TypeOK, [Next]_vars, NEW p \in Proxies
  PROVE  px'[p] = px[p] \/ ProxyStarts(p) \/ ProxyContinues(p) \/ Restart
  <1>1. ASSUME NEW q \in Proxies, ProxyStarts(q) \/ ProxyContinues(q), q # p PROVE px'[p] = px[p]
    BY <1>1 DEF TypeOK, ProxyStarts, ProxyContinues, ProxyReads, ProxyMisses, ProxyDeletes,
                ProxyDeleteFails, KratosCompletes, KratosRefuses
  <1>2. ASSUME NEW f \in Flows, StartStep(f) \/ DynamoExpires(f) \/ \E g \in Grants : Authorize(g, f)
        PROVE  px' = px
    BY <1>2 DEF StartStep, StartFlow, StartSavesContext, StartSubmits, StartShortens, StartFails,
                DynamoExpires, Authorize
  <1>3. ASSUME NEW g \in Grants, Deny(g) \/ \E u \in Users : SignInAndReturn(g, u) PROVE px' = px
    BY <1>3 DEF Deny, SignInAndReturn
  <1>4. ASSUME NEW r \in Returns, ReturnStep(r) PROVE px' = px
    BY <1>4 DEF ReturnStep, ReturnReads, ReturnMisses, ReturnExchanges, ReturnAnswers, ReturnFails
  <1>5. CASE UNCHANGED vars
    BY <1>5 DEF vars
  <1> QED BY <1>1, <1>2, <1>3, <1>4, <1>5 DEF Next

\* A load at work with the state of a flow keeps at it, settles the flow, or
\* leaves a fault behind.
LEMMA LoadGoesOn ==
  ASSUME TypeOK, CoreInv, CallbackInv, [Next]_vars, NEW p \in Proxies, NEW f \in Flows, Holds(p, f)
  PROVE  Accounted(f)'
  <1> DEFINE g == px[p].grant
  <1>1. /\ px[p].pc \in {"delete", "kratos"} /\ px[p].flow = f /\ f # None
        /\ g \in Grants /\ flowOf[g] = f /\ flowOf'[g] = f
        /\ coded[g] # {} \/ g \in denied'
    BY NoneAssumption, Grows DEF Holds, ProxyRunning, TypeOK, ProxyRequest, CoreInv, ProxyInv, CallbackInv
  <1>2. CASE px'[p] = px[p]
    BY <1>2 DEF Accounted, Holds, ProxyRunning
  <1>3. CASE ProxyStarts(p)
    BY <1>1, <1>3 DEF ProxyStarts, ProxyReads, ProxyMisses
  <1>4. CASE ProxyDeletes(p) \/ ProxyDeleteFails(p)
    <2>1. px'[p].pc = "kratos" /\ px'[p].flow = f
      BY <1>1, <1>4 DEF ProxyDeletes, ProxyDeleteFails, TypeOK, ProxyRequest
    <2> QED BY <2>1 DEF Accounted, Holds, ProxyRunning
  <1>5. ASSUME NEW s \in SessionIds, KratosCompletes(p, s) PROVE Accounted(f)'
    <2>1. tokens'[g] # {}
      BY <1>1, <1>5, RedeemsEffect DEF KratosCompletes
    <2> QED BY <1>1, <2>1 DEF Accounted, Settled
  <1>6. CASE KratosRefuses(p)
    <2>1. CASE Redeemable(p)
      BY <1>1, <1>6, <2>1 DEF KratosRefuses, Accounted
    <2>2. CASE ~Redeemable(p)
      <3>1. tokens'[g] # {} \/ g \in denied'
        BY <1>1, <2>2, Grows DEF Redeemable
      <3> QED BY <1>1, <3>1 DEF Accounted, Settled
    <2> QED BY <2>1, <2>2
  <1>7. CASE Restart
    <2>1. f \in faulted'
      BY <1>1, <1>7 DEF Restart, ProxyRunning
    <2> QED BY <2>1 DEF Accounted
  <1> QED BY <1>2, <1>3, <1>4, <1>5, <1>6, <1>7, LoadSteps DEF ProxyContinues

\* What is accounted for stays so.
LEMMA AccountedStays ==
  ASSUME TypeOK, CoreInv, CallbackInv, [Next]_vars, NEW f \in Flows, Accounted(f)
  PROVE  Accounted(f)'
  <1>1. CASE Settled(f)
    <2>1. PICK h \in Grants : flowOf[h] = f /\ (tokens[h] # {} \/ h \in denied)
      BY <1>1 DEF Settled
    <2>2. flowOf'[h] = f /\ (tokens'[h] # {} \/ h \in denied')
      BY <2>1, Grows, NoneAssumption
    <2> QED BY <2>2 DEF Accounted, Settled
  <1>2. CASE \E p \in Proxies : Holds(p, f)
    BY <1>2, LoadGoesOn
  <1>3. CASE f \in faulted \cup expired
    BY <1>3, Grows DEF Accounted
  <1> QED BY <1>1, <1>2, <1>3 DEF Accounted

\* A load that begins finds the state, or finds that another load had it.
LEMMA LoadBegins ==
  ASSUME TypeOK, CoreInv, CallbackInv, [Next]_vars, NEW q \in Proxies, NEW g \in Grants,
         ProxyReads(q, g) \/ ProxyMisses(q, g)
  PROVE  /\ px'[q].grant = g /\ flowOf'[g] = flowOf[g]
         /\ coded'[g] # {} \/ g \in denied'
         /\ \E f \in Flows : f = flowOf[g] /\ Accounted(f)'
  <1> USE DEF broker, history
  <1>1. flowOf[g] \in Flows
    BY DEF ProxyReads, ProxyMisses, TypeOK, CoreInv, StartInv
  <1>2. PICK f \in Flows : f = flowOf[g]
    BY <1>1
  <1>3. /\ px'[q].grant = g /\ UNCHANGED <<flowOf, coded, denied>>
        /\ coded[g] # {} \/ g \in denied
        /\ f = flowOf[g] /\ start[f] = "sent"
    BY <1>1, <1>2, NoneAssumption DEF ProxyReads, ProxyMisses, TypeOK, CoreInv, StartInv
  <1>4. CASE ProxyReads(q, g)
    <2>1. px'[q].pc = "delete" /\ px'[q].flow = f
      BY <1>2, <1>4 DEF ProxyReads, TypeOK
    <2> QED BY <1>3, <2>1 DEF Accounted, Holds, ProxyRunning
  <1>5. CASE ProxyMisses(q, g) /\ f \in Whole
    <2>1. px'[q].pc = "kratos" /\ px'[q].flow = f
      BY <1>2, <1>5 DEF ProxyMisses, TypeOK
    <2> QED BY <1>3, <2>1 DEF Accounted, Holds, ProxyRunning
  <1>6. CASE ProxyMisses(q, g) /\ f \in states
    BY <1>3, <1>6 DEF ProxyMisses, Accounted
  <1>7. CASE f \notin Whole \cup states
    <2>1. Accounted(f)
      BY <1>3, <1>7 DEF CallbackInv
    <2>2. Accounted(f)'
      BY <1>3, <2>1, AccountedStays
    <2> QED BY <1>3, <2>2
  <1> QED BY <1>4, <1>5, <1>6, <1>7

\* The state row of a flow goes away only into a load, or by a fault.
LEMMA RowStays ==
  ASSUME TypeOK, CoreInv, CallbackInv, [Next]_vars, NEW f \in Flows, f \in states
  PROVE  f \in states' \/ Accounted(f)'
  <1> USE DEF broker, history
  <1>1. ASSUME NEW h \in Flows, StartStep(h) \/ \E g \in Grants : Authorize(g, h) PROVE f \in states'
    BY <1>1 DEF StartStep, StartFlow, StartSavesContext, StartSubmits, StartShortens, StartFails, Authorize
  <1>2. ASSUME NEW h \in Flows, DynamoExpires(h) PROVE f \in states' \/ Accounted(f)'
    BY <1>2 DEF DynamoExpires, Accounted
  <1>3. ASSUME NEW g \in Grants, Deny(g) \/ \E u \in Users : SignInAndReturn(g, u) PROVE f \in states'
    BY <1>3 DEF Deny, SignInAndReturn
  <1>4. ASSUME NEW q \in Proxies, ProxyDeletes(q) PROVE f \in states' \/ Accounted(f)'
    <2>1. CASE px[q].flow = f
      <3>1. px'[q].pc = "kratos" /\ px'[q].flow = f
        BY <1>4, <2>1 DEF ProxyDeletes, TypeOK, ProxyRequest
      <3> QED BY <3>1 DEF Accounted, Holds, ProxyRunning
    <2>2. CASE px[q].flow # f
      BY <1>4, <2>2 DEF ProxyDeletes
    <2> QED BY <2>1, <2>2
  <1>5. ASSUME NEW q \in Proxies,
               \/ ProxyStarts(q) \/ ProxyDeleteFails(q) \/ KratosRefuses(q)
               \/ \E s \in SessionIds : KratosCompletes(q, s)
        PROVE  f \in states'
    BY <1>5 DEF ProxyStarts, ProxyReads, ProxyMisses, ProxyDeleteFails, KratosRefuses, KratosCompletes
  <1>6. ASSUME NEW r \in Returns, ReturnStep(r) PROVE f \in states'
    BY <1>6 DEF ReturnStep, ReturnReads, ReturnMisses, ReturnExchanges, ReturnAnswers, ReturnFails
  <1>7. CASE Restart \/ UNCHANGED vars
    BY <1>7 DEF Restart, vars
  <1> QED BY <1>1, <1>2, <1>3, <1>4, <1>5, <1>6, <1>7 DEF Next, ProxyContinues

\* A redirect is given away only after its state was saved.
LEMMA SentWasSaved ==
  ASSUME TypeOK, [Next]_vars, NEW f \in Flows \ Whole, start'[f] = "sent"
  PROVE  start[f] = "sent" \/ f \in states'
  <1> USE DEF broker, history
  <1>1. ASSUME NEW h \in Flows, StartStep(h) PROVE start[f] = "sent" \/ f \in states'
    BY <1>1 DEF StartStep, StartFlow, StartSavesContext, StartSubmits, StartShortens, StartFails,
                StartGoto, TypeOK
  <1>2. ASSUME NEW h \in Flows, DynamoExpires(h) \/ \E g \in Grants : Authorize(g, h)
        PROVE  start' = start
    BY <1>2 DEF DynamoExpires, Authorize
  <1>3. ASSUME NEW g \in Grants, Deny(g) \/ \E u \in Users : SignInAndReturn(g, u) PROVE start' = start
    BY <1>3 DEF Deny, SignInAndReturn
  <1>4. ASSUME NEW q \in Proxies, ProxyStarts(q) \/ ProxyContinues(q) PROVE start' = start
    BY <1>4 DEF ProxyStarts, ProxyReads, ProxyMisses, ProxyContinues, ProxyDeletes, ProxyDeleteFails,
                KratosRefuses, KratosCompletes
  <1>5. ASSUME NEW r \in Returns, ReturnStep(r) PROVE start' = start
    BY <1>5 DEF ReturnStep, ReturnReads, ReturnMisses, ReturnExchanges, ReturnAnswers, ReturnFails
  <1>6. CASE Restart
    BY <1>6 DEF Restart, StartRunning
  <1>7. CASE UNCHANGED vars
    BY <1>7 DEF vars
  <1> QED BY <1>1, <1>2, <1>3, <1>4, <1>5, <1>6, <1>7 DEF Next

LEMMA NextCallback ==
  ASSUME TypeOK, TypeOK', CoreInv, CallbackInv, CallbackNotLost, [Next]_vars
  PROVE  CallbackInv' /\ CallbackNotLost'
  <1>1. ASSUME NEW q \in Proxies, px'[q].pc # "idle"
        PROVE  /\ coded'[px'[q].grant] # {} \/ px'[q].grant \in denied'
               /\ Accounted(flowOf[px[q].grant])'
    <2> SUFFICES \E g \in Grants : /\ px'[q].grant = g /\ (coded'[g] # {} \/ g \in denied')
                                  /\ \E f \in Flows : f = flowOf'[g] /\ Accounted(f)'
      BY DEF Accounted, Settled, Holds, ProxyRunning
    <2>1. CASE ProxyStarts(q)
      <3>1. PICK g \in Grants : ProxyReads(q, g) \/ ProxyMisses(q, g)
        BY <2>1 DEF ProxyStarts
      <3> QED BY <3>1, LoadBegins
    <2>2. CASE ~ProxyStarts(q)
      <3>1. px[q].pc # "idle" /\ px'[q].grant = px[q].grant
        <4>1. CASE ProxyDeletes(q) \/ ProxyDeleteFails(q)
          BY <4>1 DEF ProxyDeletes, ProxyDeleteFails, TypeOK, ProxyRequest
        <4>2. CASE KratosRefuses(q) \/ \E s \in SessionIds : KratosCompletes(q, s)
          BY <4>2 DEF KratosRefuses, KratosCompletes, TypeOK, ProxyRequest
        <4>3. CASE Restart
          BY <1>1, <4>3 DEF Restart, ProxyRunning, TypeOK, ProxyRequest
        <4>4. CASE px'[q] = px[q]
          BY <1>1, <4>4
        <4> QED BY <2>2, <4>1, <4>2, <4>3, <4>4, LoadSteps DEF ProxyContinues
      <3>2. px[q].grant \in Grants /\ flowOf[px[q].grant] \in Flows
        BY <3>1, NoneAssumption DEF TypeOK, ProxyRequest, CoreInv, ProxyInv
      <3>7. PICK g \in Grants, f \in Flows : g = px[q].grant /\ f = flowOf[g]
        BY <3>2
      <3>6. flowOf'[g] = f
        BY <3>7, Grows, NoneAssumption
      <3>3. coded[g] # {} \/ g \in denied
        BY <3>1, <3>7 DEF CallbackInv
      <3>4. Accounted(f)
        BY <3>1, <3>7 DEF CallbackNotLost
      <3>5. Accounted(f)'
        BY <3>4, AccountedStays
      <3> QED BY <3>1, <3>7, <3>6, <3>3, <3>5, Grows
    <2> QED BY <2>1, <2>2
  <1>2. ASSUME NEW f \in Flows \ Whole, start'[f] = "sent" PROVE f \in states' \/ Accounted(f)'
    <2>1. start[f] = "sent" => f \in states \/ Accounted(f)
      BY DEF CallbackInv
    <2> QED BY <1>2, <2>1, SentWasSaved, RowStays, AccountedStays
  <1> QED BY <1>1, <1>2 DEF CallbackInv, CallbackNotLost

LEMMA InitInv == Init => LoginInv
  BY InitCore, InitCallback DEF LoginInv

LEMMA NextInv == TypeOK /\ TypeOK' /\ LoginInv /\ [Next]_vars => LoginInv'
  BY NextCore, NextCallback DEF LoginInv

-----------------------------------------------------------------------------
\* The inductive invariant of the login: state row, loads and sessions of a start
\* request exclude each other, and sessions stand on redeemed grants.
THEOREM LoginInvariant == Spec => []LoginInv
  BY InitType, InitInv, NextType, NextInv, PTL DEF Spec

\* The token handed over is for a user who signed in from the same start request.
THEOREM TokenOfItsStart == Spec => []TokenOfOwnStart
  <1>1. TypeOK /\ LoginInv => TokenOfOwnStart
    BY DEF LoginInv, CoreInv, SessionInv, TokenOfOwnStart, TypeOK, ReturnRequest
  <1> QED BY <1>1, TypeCorrect, LoginInvariant, PTL

\* One sign-in makes at most one session, whatever is loaded twice.
THEOREM SignInOnce == Spec => []OneSessionPerSignIn
  <1>1. LoginInv => OneSessionPerSignIn
    BY DEF LoginInv, CoreInv
  <1> QED BY <1>1, LoginInvariant, PTL

\* One start request makes at most one session, outside the stated race.
THEOREM StartOnce == Spec => []OneSessionPerStart
  <1>1. LoginInv => OneSessionPerStart
    BY DEF LoginInv, CoreInv
  <1> QED BY <1>1, LoginInvariant, PTL

\* No return page is reached before its context was saved.
THEOREM ContextBeforeReturn == Spec => []ContextAwaitsReturn
  <1>1. TypeOK /\ LoginInv => ContextAwaitsReturn
    BY NoneAssumption DEF LoginInv, CoreInv, StartInv, ProxyInv, ContextAwaitsReturn, Redirected, TypeOK, ProxyRequest
  <1> QED BY <1>1, TypeCorrect, LoginInvariant, PTL

\* No load of the callback spoils another: what a load came for is settled, or
\* another load is at work with it, or a fault was met.
THEOREM NoCallbackLost == Spec => []CallbackNotLost
  <1>1. LoginInv => CallbackNotLost
    BY DEF LoginInv
  <1> QED BY <1>1, LoginInvariant, PTL
=============================================================================
