------------------------ MODULE TelegramBrokerProofs ------------------------
(***************************************************************************)
(* Proofs about TelegramBroker, for every number of flows, states, codes,  *)
(* accounts and concurrent requests: type correctness, the inductive       *)
(* invariant BrokerInv, the safety properties that follow from it, and the *)
(* refinement of OneShotGrant.                                             *)
(***************************************************************************)
EXTENDS TelegramBroker, TLAPS

LEMMA InitType == Init => TypeOK
  BY NoneAssumption, BoundAssumption
  DEF Init, TypeOK, CallbackRequest, CallbackPc, TokenRequest, TokenPc

\* What a step preserves: each variable keeps its type.
LEMMA NextType == TypeOK /\ [Next]_vars => TypeOK'
  <1> SUFFICES ASSUME TypeOK, [Next]_vars PROVE TypeOK'
    OBVIOUS
  <1> USE NoneAssumption, BoundAssumption
  <1>1. ASSUME NEW f \in Flows, NEW s \in States, Authorize(f, s) PROVE TypeOK'
    BY <1>1 DEF TypeOK, Authorize, BrokerAuthorization
  <1>2. ASSUME NEW s \in States, NEW u \in Users \cup {None}, TelegramReplies(s, u) PROVE TypeOK'
    BY <1>2 DEF TypeOK, TelegramReplies, Reply
  <1>3. ASSUME NEW c \in Callbacks, CallbackStarts(c) PROVE TypeOK'
    BY <1>3 DEF TypeOK, CallbackStarts, CallbackUnknown, CallbackLoses, CallbackTakes,
                CallbackRequest, CallbackPc
  <1>4. ASSUME NEW c \in Callbacks, CallbackContinues(c) PROVE TypeOK'
    <2>1. cb[c] \in CallbackRequest
      BY DEF TypeOK
    <2>2. CASE CallbackExchanges(c)
      <3>1. cb[c].reply \in Reply
        BY <2>1, <2>2 DEF CallbackExchanges, CallbackRequest, TypeOK
      <3>2. cb[c].reply.state \in States /\ cb[c].reply.user \in Users \cup {None}
        BY <3>1 DEF Reply
      <3>3. PICK nonce \in States \cup {None}, sub \in Users \cup {None} :
              cb' = [cb EXCEPT ![c].pc = "validate", ![c].idNonce = nonce, ![c].sub = sub]
        BY <2>2, <3>2 DEF CallbackExchanges
      <3>4. cb' \in [Callbacks -> CallbackRequest]
        <4>1. [cb[c] EXCEPT !.pc = "validate", !.idNonce = nonce, !.sub = sub] \in CallbackRequest
          BY <2>1 DEF CallbackRequest, CallbackPc
        <4> QED BY <3>3, <4>1 DEF TypeOK
      <3>5. /\ \A d \in Callbacks : d # c => cb'[d] = cb[d]
            /\ cb'[c].pc = "validate" /\ cb'[c].reply # None /\ cb'[c].rec # None
        BY <2>1, <2>2, <3>3 DEF TypeOK, CallbackExchanges, CallbackRequest
      <3>6. spent' \subseteq Reply /\ UNCHANGED <<now, flowOf, redirected, auths, replies, drawn, codes, tk>>
        BY <2>2, <3>1 DEF TypeOK, CallbackExchanges
      <3> QED BY <3>4, <3>5, <3>6 DEF TypeOK
    <2>3. CASE CallbackExchangeFails(c)
      <3>1. cb[c].reply \in Reply
        BY <2>1, <2>3 DEF CallbackExchangeFails, CallbackRequest, TypeOK
      <3> QED BY <2>1, <2>3, <3>1 DEF TypeOK, CallbackExchangeFails, Goto, CallbackRequest, CallbackPc
    <2>4. CASE CallbackValidates(c) \/ CallbackInvalid(c)
      <3>1. PICK pc \in {"save", "error"} : Goto(c, pc) /\ (pc = "save" => cb[c].sub # None)
        BY <2>4 DEF CallbackValidates, CallbackInvalid
      <3>2. cb[c].reply # None /\ cb[c].rec # None
        BY <2>4 DEF TypeOK, CallbackValidates, CallbackInvalid
      <3>3. UNCHANGED <<now, flowOf, redirected, auths, replies, spent, drawn, codes, tk>>
        BY <2>4 DEF CallbackValidates, CallbackInvalid
      <3> QED BY <2>1, <3>1, <3>2, <3>3 DEF TypeOK, Goto, CallbackRequest, CallbackPc
    <2>5. ASSUME NEW k \in Codes, CallbackSaves(c, k) \/ CallbackSaveFails(c, k) PROVE TypeOK'
      <3>1. cb[c].rec \in BrokerAuthorization /\ cb[c].sub \in Users
        BY <2>1, <2>5 DEF CallbackSaves, CallbackSaveFails, CallbackRequest, TypeOK
      <3>2. NewBrokerCode(c, k) \in BrokerCode
        BY <3>1 DEF NewBrokerCode, BrokerAuthorization, BrokerCode, TypeOK
      <3>3. cb' \in [Callbacks -> CallbackRequest]
        BY <2>1, <2>5 DEF TypeOK, CallbackSaves, CallbackSaveFails, Goto, CallbackRequest, CallbackPc
      <3>4. \A d \in Callbacks : d # c => cb'[d] = cb[d]
        BY <2>5 DEF TypeOK, CallbackSaves, CallbackSaveFails, Goto
      <3>5. cb'[c].reply # None /\ cb'[c].rec # None /\ cb'[c].sub # None
        BY <2>1, <2>5, <3>1 DEF TypeOK, CallbackSaves, CallbackSaveFails, Goto, CallbackRequest
      <3> QED BY <2>5, <3>2, <3>3, <3>4, <3>5 DEF TypeOK, CallbackSaves, CallbackSaveFails
    <2> QED BY <1>4, <2>2, <2>3, <2>4, <2>5 DEF CallbackContinues
  <1>5. ASSUME NEW t \in Tokens, TokenStarts(t) PROVE TypeOK'
    <2>1. PICK k \in Handed, f \in Flows : TokenReads(t, k, f) \/ TokenMisses(t, k, f)
      BY <1>5 DEF TokenStarts
    <2>2. tk[t] \in TokenRequest /\ k \in Codes \cup {None}
      BY DEF TypeOK, Handed, CallbackRequest
    <2>3. CASE TokenReads(t, k, f)
      <3>1. PICK rec \in codes :
              tk' = [tk EXCEPT ![t] = [pc |-> "delete", code |-> k, verifier |-> f, rec |-> rec]]
        BY <2>3 DEF TokenReads
      <3>2. [pc |-> "delete", code |-> k, verifier |-> f, rec |-> rec] \in TokenRequest /\ rec # None
        BY <2>2 DEF TypeOK, TokenRequest, TokenPc
      <3> QED BY <2>3, <3>1, <3>2 DEF TokenReads, TypeOK
    <2>4. CASE TokenMisses(t, k, f)
      BY <2>2, <2>4 DEF TokenMisses, TypeOK, TokenRequest, TokenPc
    <2> QED BY <2>1, <2>3, <2>4
  <1>6. ASSUME NEW t \in Tokens, TokenContinues(t) PROVE TypeOK'
    BY SMTT(40), <1>6 DEF TypeOK, TokenContinues, TokenDeletes, TokenDeleteFails, TokenIssues,
                TokenRefuses, TokenRequest, TokenPc
  <1>7. CASE Tick \/ DynamoExpires
    BY <1>7 DEF TypeOK, Tick, DynamoExpires
  <1>8. CASE Restart
    <2>1. ASSUME NEW c \in Callbacks
          PROVE  /\ cb'[c] \in CallbackRequest
                 /\ cb'[c] = cb[c] \/ (cb'[c].pc = "dropped" /\ cb'[c].reply # None)
      BY SMTT(40), <1>8 DEF TypeOK, Restart, CallbackRunning, CallbackRequest, CallbackPc
    <2>2. ASSUME NEW t \in Tokens
          PROVE  tk'[t] \in TokenRequest /\ (tk'[t] = tk[t] \/ tk'[t].pc = "dropped")
      BY SMTT(40), <1>8 DEF TypeOK, Restart, TokenRunning, TokenRequest, TokenPc
    <2>3. cb' \in [Callbacks -> CallbackRequest] /\ tk' \in [Tokens -> TokenRequest]
      BY <1>8, <2>1, <2>2 DEF Restart
    <2>4. UNCHANGED <<now, flowOf, redirected, auths, replies, spent, drawn, codes>>
      BY <1>8 DEF Restart
    <2>5. ASSUME NEW t \in Tokens, tk'[t].pc \in {"delete", "verify", "issued"}
          PROVE  tk'[t].rec # None
      BY <2>2, <2>5 DEF TypeOK
    <2>6. ASSUME NEW c \in Callbacks
          PROVE  /\ cb'[c].pc # "idle" => cb'[c].reply # None
                 /\ cb'[c].pc \in {"exchange", "validate", "save", "code", "error"} => cb'[c].rec # None
                 /\ cb'[c].pc \in {"save", "code"} => cb'[c].sub # None
      BY <2>1 DEF TypeOK
    <2> QED BY <2>3, <2>4, <2>5, <2>6 DEF TypeOK
  <1>9. CASE UNCHANGED vars
    BY <1>9 DEF vars, TypeOK
  <1> QED BY <1>1, <1>2, <1>3, <1>4, <1>5, <1>6, <1>7, <1>8, <1>9 DEF Next

\* Every variable of the broker, its tables and its requests keeps its type.
THEOREM TypeCorrect == Spec => []TypeOK
  BY InitType, NextType, PTL DEF Spec

-----------------------------------------------------------------------------
LEMMA InitInv == Init => BrokerInv
  BY DEF Init, BrokerInv, AuthInv, CallbackInv, CodeInv, TokenInv, AuthorizationConsumedOnce,
         Took, HandedBy, From, Redeemed, Issued

\* The table of authorizations grows only by a record for a state just drawn.
LEMMA NextAuthInv == TypeOK /\ BrokerInv /\ [Next]_vars => AuthInv'
  <1> SUFFICES ASSUME TypeOK, BrokerInv, [Next]_vars PROVE AuthInv'
    OBVIOUS
  <1>1. ASSUME NEW f \in Flows, NEW s \in States, Authorize(f, s) PROVE AuthInv'
    <2>1. \A rec \in auths : rec.upstreamState \in States /\ rec.clientState \in Flows
      BY DEF TypeOK, BrokerAuthorization
    <2>2. \A rec \in auths : rec.upstreamState # s
      BY <1>1, <2>1, NoneAssumption DEF BrokerInv, AuthInv, Authorize
    <2>3. \A r \in redirected' : flowOf'[r] # None
      BY <1>1, NoneAssumption DEF BrokerInv, AuthInv, Authorize, TypeOK
    <2> QED BY <1>1, <2>1, <2>2, <2>3 DEF BrokerInv, AuthInv, Authorize, TypeOK
  <1>2. CASE auths' \subseteq auths /\ UNCHANGED <<flowOf, redirected>>
    BY <1>2 DEF BrokerInv, AuthInv
  <1>3. CASE \E s \in States, u \in Users \cup {None} : TelegramReplies(s, u)
    BY <1>2, <1>3 DEF TelegramReplies
  <1>4. CASE \E c \in Callbacks : CallbackStarts(c)
    BY <1>2, <1>4 DEF CallbackStarts, CallbackUnknown, CallbackLoses, CallbackTakes
  <1>5. CASE \E c \in Callbacks : CallbackContinues(c)
    BY <1>2, <1>5 DEF CallbackContinues, CallbackExchanges, CallbackExchangeFails, CallbackValidates,
                      CallbackInvalid, CallbackSaves, CallbackSaveFails
  <1>6. CASE \E t \in Tokens : TokenStarts(t) \/ TokenContinues(t)
    BY <1>2, <1>6 DEF TokenStarts, TokenReads, TokenMisses, TokenContinues, TokenDeletes,
                      TokenDeleteFails, TokenIssues, TokenRefuses
  <1>7. CASE Tick \/ DynamoExpires \/ Restart \/ UNCHANGED vars
    BY <1>2, <1>7 DEF Tick, DynamoExpires, Restart, vars
  <1> QED BY <1>1, <1>3, <1>4, <1>5, <1>6, <1>7 DEF Next

\* A callback's record is the one it took out of the table, and it stays out.
LEMMA NextCallbackInv == TypeOK /\ BrokerInv /\ [Next]_vars => CallbackInv'
  <1> SUFFICES ASSUME TypeOK, BrokerInv, [Next]_vars PROVE CallbackInv'
    OBVIOUS
  <1> USE DEF AuthorizationConsumedOnce, Took
  <1>1. ASSUME NEW f \in Flows, NEW s \in States, Authorize(f, s) PROVE CallbackInv'
    <2>1. ASSUME NEW c \in Callbacks, Took(c)
          PROVE  cb[c].reply.state \in States /\ cb[c].reply.state # s
      <3>1. cb[c].rec \in BrokerAuthorization /\ cb[c].reply \in Reply
        BY <2>1 DEF TypeOK, CallbackRequest, BrokerInv, CallbackInv
      <3> QED BY <1>1, <2>1, <3>1, NoneAssumption
              DEF BrokerInv, CallbackInv, Authorize, BrokerAuthorization, Reply
    <2>2. \A rec \in auths' : rec \in auths \/ rec.upstreamState = s
      BY <1>1 DEF Authorize
    <2> QED BY <1>1, <2>1, <2>2 DEF BrokerInv, CallbackInv, Authorize, TypeOK
  <1>2. CASE cb' = cb /\ auths' \subseteq auths /\ replies \subseteq replies' /\ UNCHANGED flowOf
    BY <1>2 DEF BrokerInv, CallbackInv
  <1>3. ASSUME NEW c \in Callbacks, NEW r \in replies, CallbackUnknown(c, r) \/ CallbackLoses(c, r)
        PROVE  CallbackInv'
    <2>1. /\ auths' \subseteq auths
          /\ UNCHANGED <<flowOf, replies>>
          /\ ~Took(c)
          /\ cb' = [cb EXCEPT ![c].pc = "bad_request", ![c].reply = r]
      BY <1>3 DEF CallbackUnknown, CallbackLoses, BrokerInv, CallbackInv
    <2> QED BY <2>1 DEF BrokerInv, CallbackInv, TypeOK, CallbackRequest
  <1>4. ASSUME NEW c \in Callbacks, NEW r \in replies, CallbackTakes(c, r)
        PROVE  CallbackInv'
    <2>1. PICK rec \in auths :
            /\ rec.upstreamState = r.state
            /\ auths' = auths \ {rec}
            /\ cb' = [cb EXCEPT ![c].pc = IF r.user = None THEN "error" ELSE "exchange",
                                ![c].reply = r, ![c].rec = rec]
            /\ UNCHANGED <<flowOf, replies>>
            /\ ~Took(c)
      BY <1>4 DEF CallbackTakes, BrokerInv, CallbackInv
    <2>2. /\ cb'[c].reply = r /\ cb'[c].rec = rec
          /\ cb'[c].pc \in {"error", "exchange"}
          /\ \A d \in Callbacks : d # c => cb'[d] = cb[d]
      BY <2>1 DEF TypeOK, CallbackRequest
    <2>3. \A d \in Callbacks : Took(d) => cb[d].reply.state # r.state
      BY <2>1 DEF BrokerInv, CallbackInv
    <2>4. \A other \in auths' : other.upstreamState # r.state
      BY <2>1 DEF BrokerInv, AuthInv
    <2>5. /\ flowOf[r.state] = rec.clientState
          /\ rec.nonce = rec.clientState
          /\ rec.codeChallenge = rec.clientState
      BY <2>1 DEF BrokerInv, AuthInv
    <2>6. AuthorizationConsumedOnce'
      BY <2>2, <2>3 DEF BrokerInv, CallbackInv
    <2>7. \A d \in Callbacks : d # c /\ cb'[d].rec # None =>
             \A other \in auths' : other.upstreamState # cb'[d].reply.state
      <3>1. \A d \in Callbacks : cb[d].rec # None =>
               \A other \in auths : other.upstreamState # cb[d].reply.state
        BY DEF BrokerInv, CallbackInv, Took
      <3> QED BY <2>1, <2>2, <3>1
    <2>8. cb'[c].reply \in replies' /\ flowOf'[r.state] = rec.clientState
      BY <2>1, <2>2, <2>5
    <2>9. ASSUME NEW d \in Callbacks, d # c
          PROVE  /\ cb'[d].pc = "idle" => cb'[d].rec = None
                 /\ cb'[d].rec # None =>
                      /\ cb'[d].reply \in replies'
                      /\ flowOf'[cb'[d].reply.state] = cb'[d].rec.clientState
                      /\ cb'[d].rec.nonce = cb'[d].rec.clientState
                      /\ cb'[d].rec.codeChallenge = cb'[d].rec.clientState
                 /\ cb'[d].pc = "validate" => cb'[d].sub \in {cb'[d].reply.user, None}
                 /\ cb'[d].pc \in {"save", "code"} => cb'[d].sub = cb'[d].reply.user
      <3>1. cb'[d] = cb[d] /\ flowOf' = flowOf /\ replies' = replies
        BY <2>1, <2>2, <2>9
      <3> QED BY <3>1 DEF BrokerInv, CallbackInv
    <2>10. \A other \in auths' : other.upstreamState # cb'[c].reply.state
      BY <2>2, <2>4
    <2> QED BY <2>2, <2>5, <2>6, <2>7, <2>8, <2>9, <2>10 DEF CallbackInv
  <1>5. ASSUME NEW c \in Callbacks, CallbackContinues(c) PROVE CallbackInv'
    <2>1. /\ UNCHANGED <<flowOf, replies, auths>>
          /\ \A d \in Callbacks : d # c => cb'[d] = cb[d]
          /\ cb'[c].reply = cb[c].reply /\ cb'[c].rec = cb[c].rec
          /\ cb'[c].pc # "idle"
      BY <1>5 DEF CallbackContinues, CallbackExchanges, CallbackExchangeFails, CallbackValidates,
                  CallbackInvalid, CallbackSaves, CallbackSaveFails, Goto, TypeOK, CallbackRequest
    <2>2. /\ cb'[c].pc = "validate" => cb'[c].sub \in {cb[c].reply.user, None}
          /\ cb'[c].pc \in {"save", "code"} => cb'[c].sub = cb[c].reply.user
      BY <1>5 DEF CallbackContinues, CallbackExchanges, CallbackExchangeFails, CallbackValidates,
                  CallbackInvalid, CallbackSaves, CallbackSaveFails, Goto, TypeOK, CallbackRequest,
                  BrokerInv, CallbackInv
    <2> QED BY <2>1, <2>2 DEF BrokerInv, CallbackInv
  <1>6. CASE Restart
    <2>1. \A c \in Callbacks : /\ cb'[c].reply = cb[c].reply /\ cb'[c].rec = cb[c].rec
                               /\ cb'[c] = cb[c] \/ cb'[c].pc = "dropped"
      BY <1>6 DEF Restart, CallbackRunning, TypeOK, CallbackRequest
    <2>2. UNCHANGED <<flowOf, replies, auths>>
      BY <1>6 DEF Restart
    <2> QED BY <2>1, <2>2 DEF BrokerInv, CallbackInv
  <1> QED
    BY <1>1, <1>2, <1>3, <1>4, <1>5, <1>6
    DEF Next, vars, TelegramReplies, CallbackStarts, TokenStarts, TokenReads, TokenMisses, TokenContinues,
        TokenDeletes, TokenDeleteFails, TokenIssues, TokenRefuses, Tick, DynamoExpires

\* What a callback step does, seen from codes: it hands out or stores at most
\* one code, which was never drawn before.
LEMMA SaveStep ==
  ASSUME TypeOK, NEW c \in Callbacks, NEW k \in Codes,
         CallbackSaves(c, k) \/ CallbackSaveFails(c, k)
  PROVE  /\ k \notin drawn /\ drawn' = drawn \cup {k}
         /\ codes' \in {codes, codes \cup {NewBrokerCode(c, k)}}
         /\ \A d \in Callbacks : d # c => cb'[d] = cb[d]
         /\ ~HandedBy(c)
         /\ HandedBy(c)' => cb'[c].code = k /\ cb'[c].rec = cb[c].rec /\ cb'[c].sub = cb[c].sub
         /\ UNCHANGED tk
  BY DEF CallbackSaves, CallbackSaveFails, Goto, HandedBy, TypeOK, CallbackRequest

\* Any other step leaves the codes drawn and handed out as they are, and takes
\* records out of the table only.
LEMMA OtherStep ==
  ASSUME TypeOK, [Next]_vars,
         \A c \in Callbacks, k \in Codes : ~CallbackSaves(c, k) /\ ~CallbackSaveFails(c, k)
  PROVE  /\ drawn' = drawn
         /\ codes' \subseteq codes
         /\ \A c \in Callbacks : HandedBy(c)' = HandedBy(c) /\ (HandedBy(c) => cb'[c] = cb[c])
  <1> USE DEF HandedBy
  <1>1. CASE \/ \E f \in Flows, s \in States : Authorize(f, s)
             \/ \E s \in States, u \in Users \cup {None} : TelegramReplies(s, u)
    BY <1>1 DEF Authorize, TelegramReplies
  <1>2. ASSUME NEW c \in Callbacks, CallbackStarts(c)
        PROVE  /\ drawn' = drawn /\ codes' = codes
               /\ \A d \in Callbacks : HandedBy(d)' = HandedBy(d) /\ (HandedBy(d) => cb'[d] = cb[d])
    BY <1>2 DEF CallbackStarts, CallbackUnknown, CallbackLoses, CallbackTakes, TypeOK, CallbackRequest
  <1>3. ASSUME NEW c \in Callbacks, CallbackContinues(c)
        PROVE  /\ drawn' = drawn /\ codes' = codes
               /\ \A d \in Callbacks : HandedBy(d)' = HandedBy(d) /\ (HandedBy(d) => cb'[d] = cb[d])
    BY <1>3 DEF CallbackContinues, CallbackExchanges, CallbackExchangeFails, CallbackValidates,
                CallbackInvalid, Goto, TypeOK, CallbackRequest
  <1>4. CASE \E t \in Tokens : TokenStarts(t) \/ TokenContinues(t)
    BY <1>4 DEF TokenStarts, TokenReads, TokenMisses, TokenContinues, TokenDeletes,
                TokenDeleteFails, TokenIssues, TokenRefuses
  <1>5. CASE Tick \/ DynamoExpires \/ UNCHANGED vars
    BY <1>5 DEF Tick, DynamoExpires, vars
  <1>6. CASE Restart
    BY <1>6 DEF Restart, CallbackRunning, TypeOK, CallbackRequest
  <1> QED BY <1>1, <1>2, <1>3, <1>4, <1>5, <1>6 DEF Next

\* Codes are stored and handed out once, fresh, with the login of one callback.
LEMMA NextCodeInv == TypeOK /\ BrokerInv /\ [Next]_vars => CodeInv'
  <1> SUFFICES ASSUME TypeOK, BrokerInv, [Next]_vars PROVE CodeInv'
    OBVIOUS
  <1>1. ASSUME NEW c \in Callbacks, NEW k \in Codes, CallbackSaves(c, k) \/ CallbackSaveFails(c, k)
        PROVE  CodeInv'
    <2> DEFINE new == NewBrokerCode(c, k)
    <2>1. /\ new.code = k /\ new.nonce = cb[c].rec.nonce
          /\ new.codeChallenge = cb[c].rec.codeChallenge /\ new.subject = cb[c].sub
      BY DEF NewBrokerCode
    <2>2. \A rec \in codes : rec.code # k
      BY <1>1, SaveStep DEF BrokerInv, CodeInv
    <2>3. \A d \in Callbacks : HandedBy(d) => cb[d].code # k /\ d # c
      BY <1>1, SaveStep DEF BrokerInv, CodeInv
    <2> HIDE DEF new
    <2>4. codes' \subseteq codes \cup {new}
      BY <1>1, SaveStep DEF new
    <2>5. /\ drawn' = drawn \cup {k}
          /\ \A d \in Callbacks : d # c => cb'[d] = cb[d]
          /\ HandedBy(c)' => cb'[c].code = k /\ cb'[c].rec = cb[c].rec /\ cb'[c].sub = cb[c].sub
      BY <1>1, SaveStep
    <2>6. ASSUME NEW d \in Callbacks, HandedBy(d)'
          PROVE  /\ cb'[d].code \in drawn'
                 /\ \A rec \in codes' : rec.code = cb'[d].code =>
                       /\ rec.nonce = cb'[d].rec.nonce
                       /\ rec.codeChallenge = cb'[d].rec.codeChallenge
                       /\ rec.subject = cb'[d].sub
      <3>1. CASE d = c
        BY <2>1, <2>2, <2>4, <2>5, <2>6, <3>1
      <3>2. CASE d # c
        BY <2>1, <2>3, <2>4, <2>5, <2>6, <3>2 DEF BrokerInv, CodeInv, HandedBy
      <3> QED BY <3>1, <3>2
    <2>7. \A d, e \in Callbacks : HandedBy(d)' /\ HandedBy(e)' /\ cb'[d].code = cb'[e].code => d = e
      BY <2>3, <2>5 DEF BrokerInv, CodeInv, HandedBy
    <2>8. /\ \A rec \in codes' : rec.code \in drawn'
          /\ \A rec, other \in codes' : rec.code = other.code => rec = other
      BY <2>1, <2>2, <2>4, <2>5 DEF BrokerInv, CodeInv
    <2> QED BY <2>6, <2>7, <2>8 DEF CodeInv, HandedBy
  <1>2. CASE \A c \in Callbacks, k \in Codes : ~CallbackSaves(c, k) /\ ~CallbackSaveFails(c, k)
    <2>1. /\ drawn' = drawn
          /\ codes' \subseteq codes
          /\ \A c \in Callbacks : HandedBy(c)' = HandedBy(c) /\ (HandedBy(c) => cb'[c] = cb[c])
      BY <1>2, OtherStep
    <2> QED BY <2>1 DEF BrokerInv, CodeInv
  <1> QED BY <1>1, <1>2

\* A token request works on the record of the login its code was handed out
\* for, and only one request gets to take a record out of the table.
LEMMA NextTokenInv == TypeOK /\ BrokerInv /\ [Next]_vars => TokenInv'
  <1> SUFFICES ASSUME TypeOK, BrokerInv, [Next]_vars PROVE TokenInv'
    OBVIOUS
  <1>1. ASSUME NEW c \in Callbacks, NEW k \in Codes, CallbackSaves(c, k) \/ CallbackSaveFails(c, k)
        PROVE  TokenInv'
    <2>1. /\ k \notin drawn
          /\ tk' = tk
          /\ \A d \in Callbacks : d # c => cb'[d] = cb[d]
          /\ ~HandedBy(c)
          /\ HandedBy(c)' => cb'[c].code = k
          /\ \A rec \in codes' : rec \in codes \/ rec.code = k
      BY <1>1, SaveStep DEF NewBrokerCode
    <2>2. \A t \in Tokens : tk[t].pc # "idle" => tk[t].code # k
      BY <2>1 DEF BrokerInv, TokenInv, CodeInv, From
    <2>3. \A t \in Tokens, d \in Callbacks : tk[t].pc # "idle" => From(t, d)' = From(t, d)
      BY <2>1, <2>2 DEF From, HandedBy
    <2>4. ASSUME NEW t \in Tokens, tk[t].pc \in {"delete", "verify", "issued"},
                 NEW d \in Callbacks, From(t, d)'
          PROVE  cb'[d] = cb[d] /\ From(t, d)
      BY <2>1, <2>3, <2>4 DEF From, HandedBy
    <2>5. ASSUME NEW t \in Tokens PROVE tk'[t].pc # "idle" => \E d \in Callbacks : From(t, d)'
      BY <2>1, <2>3 DEF BrokerInv, TokenInv
    <2>6. \A t \in Tokens : Redeemed(t)' => \A rec \in codes' : rec.code # tk'[t].code
      BY SMTT(40), <2>1, <2>2 DEF BrokerInv, TokenInv, Redeemed
    <2> QED BY <2>1, <2>4, <2>5, <2>6 DEF BrokerInv, TokenInv, Redeemed, Issued
  <1>2. ASSUME \A c \in Callbacks, k \in Codes : ~CallbackSaves(c, k) /\ ~CallbackSaveFails(c, k)
        PROVE  TokenInv'
    <2>1. /\ codes' \subseteq codes
          /\ \A c \in Callbacks : HandedBy(c)' = HandedBy(c) /\ (HandedBy(c) => cb'[c] = cb[c])
      BY <1>2, OtherStep
    <2>2. CASE tk' = tk
      BY <2>1, <2>2 DEF BrokerInv, TokenInv, From, Redeemed, Issued
    <2>3. ASSUME NEW t \in Tokens, TokenStarts(t) PROVE TokenInv'
      <3>1. PICK k \in Handed, f \in Flows : TokenReads(t, k, f) \/ TokenMisses(t, k, f)
        BY <2>3 DEF TokenStarts
      <3>2. /\ cb' = cb /\ codes' = codes
            /\ \A u \in Tokens : u # t => tk'[u] = tk[u]
            /\ tk'[t].code = k /\ tk'[t].pc \in {"delete", "invalid_grant"}
            /\ tk'[t].pc = "delete" => tk'[t].rec \in codes /\ tk'[t].rec.code = k
        BY <3>1 DEF TokenReads, TokenMisses, TypeOK, TokenRequest
      <3>3. PICK c \in Callbacks : HandedBy(c) /\ cb[c].code = k
        BY <3>1 DEF Handed, HandedBy
      <3>4. From(t, c)'
        BY <3>2, <3>3 DEF From, HandedBy
      <3>5. tk'[t].pc = "delete" =>
               \A d \in Callbacks : From(t, d)' =>
                  /\ tk'[t].rec.nonce = cb'[d].rec.nonce
                  /\ tk'[t].rec.codeChallenge = cb'[d].rec.codeChallenge
                  /\ tk'[t].rec.subject = cb'[d].sub
        BY <3>2 DEF BrokerInv, CodeInv, From, HandedBy
      <3> QED BY <3>2, <3>4, <3>5 DEF BrokerInv, TokenInv, From, HandedBy, Redeemed, Issued
    <2>4. ASSUME NEW t \in Tokens, TokenContinues(t) PROVE TokenInv'
      <3>1. /\ cb' = cb
            /\ \A u \in Tokens : u # t => tk'[u] = tk[u]
            /\ tk'[t].code = tk[t].code /\ tk'[t].rec = tk[t].rec
            /\ tk'[t].verifier = tk[t].verifier
            /\ tk[t].pc \in {"delete", "verify"}
            /\ tk'[t].pc \in {"verify", "issued", "invalid_grant", "server_error"}
            /\ tk'[t].pc = "issued" => tk[t].pc = "verify" /\ tk[t].verifier = tk[t].rec.codeChallenge
            /\ tk'[t].pc = "verify" => TokenDeletes(t)
        BY <2>4 DEF TokenContinues, TokenDeletes, TokenDeleteFails, TokenIssues, TokenRefuses,
                    TypeOK, TokenRequest
      <3>2. CASE TokenDeletes(t)
        <4>1. PICK rec \in codes : rec.code = tk[t].code /\ codes' = codes \ {rec}
          BY <3>2 DEF TokenDeletes
        <4>2. \A other \in codes' : other.code # tk[t].code
          BY <4>1 DEF BrokerInv, CodeInv
        <4>3. \A u \in Tokens : Redeemed(u) => tk[u].code # tk[t].code
          BY <4>1 DEF BrokerInv, TokenInv
        <4> QED BY <2>1, <3>1, <4>2, <4>3 DEF BrokerInv, TokenInv, From, HandedBy, Redeemed, Issued
      <3>3. CASE ~TokenDeletes(t)
        <4>1. /\ tk'[t].pc # "verify"
              /\ Redeemed(t)' => Redeemed(t)
          BY <3>1, <3>3 DEF Redeemed
        <4> QED BY <2>1, <3>1, <4>1 DEF BrokerInv, TokenInv, From, HandedBy, Redeemed, Issued
      <3> QED BY <3>2, <3>3
    <2>5. CASE Restart
      <3>1. \A t \in Tokens :
               tk'[t] = tk[t] \/ (tk'[t].pc = "dropped" /\ tk'[t].code = tk[t].code /\ tk[t].pc # "idle")
        BY <2>5 DEF Restart, TokenRunning, TypeOK, TokenRequest
      <3> QED BY <2>1, <3>1 DEF BrokerInv, TokenInv, From, Redeemed, Issued
    <2> QED
      BY <1>2, <2>2, <2>3, <2>4, <2>5
      DEF Next, vars, Authorize, TelegramReplies, CallbackStarts, CallbackUnknown, CallbackLoses,
          CallbackTakes, CallbackContinues, CallbackExchanges, CallbackExchangeFails,
          CallbackValidates, CallbackInvalid, Tick, DynamoExpires
  <1> QED BY <1>1, <1>2

\* The inductive invariant holds in every reachable state.
THEOREM BrokerInvariant == Spec => []BrokerInv
  <1>1. TypeOK /\ BrokerInv /\ [Next]_vars => BrokerInv'
    BY NextAuthInv, NextCallbackInv, NextCodeInv, NextTokenInv DEF BrokerInv
  <1> QED BY InitInv, TypeCorrect, <1>1, PTL DEF Spec

-----------------------------------------------------------------------------
\* No authorization is ever consumed by two callbacks.
THEOREM ConsumedOnce == Spec => []AuthorizationConsumedOnce
  BY BrokerInvariant, PTL DEF BrokerInv, CallbackInv

LEMMA LoginOfToken ==
  ASSUME TypeOK, BrokerInv, NEW t \in Tokens, Issued(t)
  PROVE  \E c \in Callbacks : From(t, c) /\ Took(c)
  BY DEF BrokerInv, TokenInv, Issued, From, HandedBy, Took, TypeOK

\* One Telegram login yields at most one ID token, whatever is repeated and
\* however the requests interleave.
THEOREM OneToken == Spec => []OneIDTokenPerLogin
  <1>1. TypeOK /\ BrokerInv => OneIDTokenPerLogin
    <2> SUFFICES ASSUME TypeOK, BrokerInv,
                        NEW t \in Tokens, NEW u \in Tokens,
                        NEW c \in Callbacks, NEW d \in Callbacks,
                        Issued(t), From(t, c), Issued(u), From(u, d),
                        cb[c].reply.state = cb[d].reply.state
                 PROVE  t = u
      BY DEF OneIDTokenPerLogin
    <2>1. c = d
      BY DEF TypeOK, BrokerInv, CallbackInv, AuthorizationConsumedOnce, Took, From, HandedBy
    <2>2. tk[t].code = tk[u].code
      BY <2>1 DEF From
    <2> QED BY <2>2 DEF BrokerInv, TokenInv, Redeemed, Issued
  <1> QED BY <1>1, TypeCorrect, BrokerInvariant, PTL

\* The flow, the nonce, the client state and the Telegram user of an ID token
\* all belong to one login.
THEOREM TokenOfItsLogin == Spec => []TokenMatchesLogin
  <1>1. TypeOK /\ BrokerInv => TokenMatchesLogin
    <2> SUFFICES ASSUME TypeOK, BrokerInv, NEW t \in Tokens, Issued(t)
                 PROVE  \E c \in Callbacks :
                          /\ From(t, c)
                          /\ tk[t].rec.nonce = tk[t].verifier
                          /\ cb[c].rec.clientState = tk[t].verifier
                          /\ flowOf[cb[c].reply.state] = tk[t].verifier
                          /\ tk[t].rec.subject = cb[c].reply.user
                          /\ [state |-> cb[c].reply.state, user |-> tk[t].rec.subject] \in replies
      BY DEF TokenMatchesLogin
    <2>1. PICK c \in Callbacks : From(t, c) /\ Took(c)
      BY LoginOfToken
    <2>2. /\ tk[t].rec.nonce = cb[c].rec.nonce
          /\ tk[t].rec.codeChallenge = cb[c].rec.codeChallenge
          /\ tk[t].rec.subject = cb[c].sub
          /\ tk[t].verifier = tk[t].rec.codeChallenge
      BY <2>1 DEF BrokerInv, TokenInv, Issued
    <2>3. /\ cb[c].reply \in replies
          /\ flowOf[cb[c].reply.state] = cb[c].rec.clientState
          /\ cb[c].rec.nonce = cb[c].rec.clientState
          /\ cb[c].rec.codeChallenge = cb[c].rec.clientState
          /\ cb[c].sub = cb[c].reply.user
      BY <2>1 DEF BrokerInv, CallbackInv, From, HandedBy
    <2>4. cb[c].reply = [state |-> cb[c].reply.state, user |-> cb[c].reply.user]
      BY <2>3 DEF TypeOK, Reply
    <2> QED BY <2>1, <2>2, <2>3, <2>4
  <1> QED BY <1>1, TypeCorrect, BrokerInvariant, PTL

\* A login reported to Kratos as failed never yields an ID token.
THEOREM ErrorIsFinal == Spec => []ErrorEndsLogin
  <1>1. TypeOK /\ BrokerInv => ErrorEndsLogin
    BY DEF ErrorEndsLogin, TypeOK, BrokerInv, CallbackInv, AuthorizationConsumedOnce, Took,
           From, HandedBy
  <1> QED BY <1>1, TypeCorrect, BrokerInvariant, PTL

-----------------------------------------------------------------------------
(* What is used up or out of date stays so.                                *)

LEMMA LaterExpired ==
  ASSUME TypeOK, TypeOK', [Next]_vars
  PROVE  \A rec \in auths \cup codes : Expired(rec) => Expired(rec)'
  <1>1. now' = now \/ now' = now + 1
    BY ZenonT(40) DEF Next, vars, Authorize, TelegramReplies, CallbackStarts, CallbackUnknown, CallbackLoses,
       CallbackTakes, CallbackContinues, CallbackExchanges, CallbackExchangeFails, CallbackValidates,
       CallbackInvalid, CallbackSaves, CallbackSaveFails, TokenStarts, TokenReads, TokenMisses,
       TokenContinues, TokenDeletes, TokenDeleteFails, TokenIssues, TokenRefuses, Tick,
       DynamoExpires, Restart
  <1>2. \A rec \in auths \cup codes : rec.ttl \in Nat
    BY DEF TypeOK, BrokerAuthorization, BrokerCode
  <1> QED BY <1>1, <1>2 DEF Expired, TypeOK

LEMMA DeadAuthorizationStays ==
  ASSUME TypeOK, BrokerInv, TypeOK', [Next]_vars, NEW s \in States, DeadAuthorization(s)
  PROVE  DeadAuthorization(s)'
  <1> USE DEF DeadAuthorization, CallbackRunning
  <1>1. ASSUME NEW f \in Flows, NEW r \in States, Authorize(f, r) PROVE DeadAuthorization(s)'
    <2>1. r # s
      BY <1>1 DEF Authorize
    <2> QED BY <1>1, <2>1, LaterExpired DEF Authorize, TypeOK
  <1>2. ASSUME auths' \subseteq auths, flowOf' = flowOf,
               \A c \in Callbacks : CallbackRunning(c)' =>
                  CallbackRunning(c) /\ cb'[c].reply = cb[c].reply
        PROVE  DeadAuthorization(s)'
    BY <1>2, LaterExpired
  <1>3. ASSUME NEW c \in Callbacks, CallbackStarts(c) PROVE DeadAuthorization(s)'
    <2>1. PICK r \in replies : CallbackUnknown(c, r) \/ CallbackLoses(c, r) \/ CallbackTakes(c, r)
      BY <1>3 DEF CallbackStarts
    <2>2. /\ auths' \subseteq auths /\ flowOf' = flowOf
          /\ \A d \in Callbacks : d # c => cb'[d] = cb[d]
          /\ cb'[c].reply = r
      BY <2>1 DEF CallbackUnknown, CallbackLoses, CallbackTakes, TypeOK, CallbackRequest
    <2>3. cb'[c].pc \in {"exchange", "validate", "save"} => r.state # s
      BY <2>1 DEF CallbackUnknown, CallbackLoses, CallbackTakes, TypeOK, CallbackRequest
    <2> QED BY <2>2, <2>3, LaterExpired
  <1>4. ASSUME NEW c \in Callbacks, CallbackContinues(c) PROVE DeadAuthorization(s)'
    <2>1. /\ auths' = auths /\ flowOf' = flowOf
          /\ \A d \in Callbacks : CallbackRunning(d)' => CallbackRunning(d) /\ cb'[d].reply = cb[d].reply
      BY <1>4 DEF CallbackContinues, CallbackExchanges, CallbackExchangeFails, CallbackValidates,
                  CallbackInvalid, CallbackSaves, CallbackSaveFails, Goto, TypeOK, CallbackRequest
    <2> QED BY <1>2, <2>1
  <1>5. CASE Restart
    BY <1>2, <1>5 DEF Restart, TypeOK, CallbackRequest
  <1>6. CASE cb' = cb /\ flowOf' = flowOf /\ auths' \subseteq auths
    BY <1>2, <1>6
  <1> QED
    BY <1>1, <1>3, <1>4, <1>5, <1>6
    DEF Next, vars, TelegramReplies, TokenStarts, TokenReads, TokenMisses, TokenContinues,
        TokenDeletes, TokenDeleteFails, TokenIssues, TokenRefuses, Tick, DynamoExpires

LEMMA DeadCodeStays ==
  ASSUME TypeOK, BrokerInv, TypeOK', [Next]_vars, NEW k \in Codes, DeadCode(k)
  PROVE  DeadCode(k)'
  <1> USE DEF DeadCode, TokenRunning
  <1>1. ASSUME NEW c \in Callbacks, NEW j \in Codes, CallbackSaves(c, j) \/ CallbackSaveFails(c, j)
        PROVE  DeadCode(k)'
    <2>1. j # k /\ \A rec \in codes' : rec \in codes \/ rec.code = j
      BY SMTT(40), <1>1, SaveStep DEF NewBrokerCode
    <2> QED BY <1>1, <2>1, SaveStep, LaterExpired
  <1>2. ASSUME \A c \in Callbacks, j \in Codes : ~CallbackSaves(c, j) /\ ~CallbackSaveFails(c, j)
        PROVE  DeadCode(k)'
    <2>1. drawn' = drawn /\ codes' \subseteq codes
      BY <1>2, OtherStep
    <2>2. ASSUME NEW t \in Tokens, TokenStarts(t) PROVE DeadCode(k)'
      <3>1. /\ \A u \in Tokens : u # t => tk'[u] = tk[u]
            /\ tk'[t].pc \in {"delete", "verify"} => tk'[t].code # k
        BY <2>2 DEF TokenStarts, TokenReads, TokenMisses, TypeOK, TokenRequest
      <3> QED BY <2>1, <3>1, LaterExpired
    <2>3. ASSUME \A t \in Tokens : TokenRunning(t)' => TokenRunning(t) /\ tk'[t].code = tk[t].code
          PROVE  DeadCode(k)'
      BY <2>1, <2>3, LaterExpired
    <2>4. ASSUME NEW t \in Tokens, TokenContinues(t) PROVE DeadCode(k)'
      BY <2>3, <2>4 DEF TokenContinues, TokenDeletes, TokenDeleteFails, TokenIssues, TokenRefuses,
                        TypeOK, TokenRequest
    <2>5. CASE Restart
      BY <2>3, <2>5 DEF Restart, TypeOK, TokenRequest
    <2>6. CASE tk' = tk
      BY <2>3, <2>6
    <2> QED
      BY <1>2, <2>2, <2>4, <2>5, <2>6
      DEF Next, vars, Authorize, TelegramReplies, CallbackStarts, CallbackUnknown, CallbackLoses,
          CallbackTakes, CallbackContinues, CallbackExchanges, CallbackExchangeFails,
          CallbackValidates, CallbackInvalid, Tick, DynamoExpires
  <1> QED BY <1>1, <1>2

\* An authorization or a code that is used up or out of date is never worked on
\* again.
THEOREM DeadForever == Spec => DeadStaysDead
  <1>1. TypeOK /\ BrokerInv /\ TypeOK' /\ [Next]_vars =>
          [/\ \A s \in States : DeadAuthorization(s) => DeadAuthorization(s)'
           /\ \A k \in Codes : DeadCode(k) => DeadCode(k)']_vars
    BY DeadAuthorizationStays, DeadCodeStays
  <1> QED BY <1>1, TypeCorrect, BrokerInvariant, PTL DEF Spec, DeadStaysDead

-----------------------------------------------------------------------------
(* The broker implements OneShotGrant.                                     *)

LEMMA InitGrant == Init => Grant!Init
  BY DEF Init, Grant!Init, AssertedFor, CodedFor, TokensFor, HandedBy, Issued

\* Steps that sign nobody in, hand out no code and issue no token stutter.
LEMMA GrantUnchanged ==
  ASSUME replies' = replies, flowOf' = flowOf,
         \A c \in Callbacks : HandedBy(c)' = HandedBy(c) /\ (HandedBy(c) => cb'[c] = cb[c]),
         \A t \in Tokens : Issued(t)' = Issued(t) /\ (Issued(t) => tk'[t] = tk[t])
  PROVE  UNCHANGED Grant!vars
  <1>1. ASSUME NEW s \in States PROVE AssertedFor(s)' = AssertedFor(s)
    BY DEF AssertedFor
  <1>2. ASSUME NEW s \in States PROVE CodedFor(s)' = CodedFor(s)
    BY DEF CodedFor
  <1>3. ASSUME NEW s \in States PROVE TokensFor(s)' = TokensFor(s)
    <2>1. ASSUME NEW t \in Tokens
          PROVE  (Issued(t) /\ \E c \in Callbacks : From(t, c) /\ cb[c].reply.state = s)' =
                 (Issued(t) /\ \E c \in Callbacks : From(t, c) /\ cb[c].reply.state = s)
      BY DEF From
    <2>2. {u \in Tokens : Issued(u) /\ \E c \in Callbacks : From(u, c) /\ cb[c].reply.state = s}' =
          {u \in Tokens : Issued(u) /\ \E c \in Callbacks : From(u, c) /\ cb[c].reply.state = s}
      BY <2>1
    <2>3. \A t \in Tokens : Issued(t) => tk'[t] = tk[t]
      OBVIOUS
    <2> QED BY <2>2, <2>3 DEF TokensFor
  <1> QED BY <1>1, <1>2, <1>3 DEF Grant!vars

\* Handing out a code is HandCode of its state and user.
LEMMA SaveHandsCode ==
  ASSUME TypeOK, BrokerInv, TypeOK', BrokerInv', NEW c \in Callbacks, NEW k \in Codes, CallbackSaves(c, k)
  PROVE  \E s \in States, u \in Users : Grant!HandCode(s, u)
  <1>1. PICK st \in States, u \in Users :
          /\ [state |-> st, user |-> u] \in replies
          /\ cb[c].reply = [state |-> st, user |-> u]
          /\ cb[c].sub = u
    BY DEF CallbackSaves, TypeOK, CallbackRequest, Reply, BrokerInv, CallbackInv, Took
  <1>2. /\ replies' = replies /\ flowOf' = flowOf /\ tk' = tk
        /\ k \notin drawn
        /\ \A d \in Callbacks : d # c => cb'[d] = cb[d]
        /\ ~HandedBy(c) /\ HandedBy(c)'
        /\ cb'[c].code = k /\ cb'[c].reply.state = st /\ cb'[c].sub = u
    BY <1>1 DEF CallbackSaves, HandedBy, TypeOK, CallbackRequest
  <1>3. ASSUME NEW d \in Callbacks, HandedBy(d)' PROVE d = c \/ cb[d].reply.state # st
    <2>1. Took(c)' /\ Took(d)'
      BY <1>2, <1>3 DEF Took, TypeOK, HandedBy
    <2> QED BY <1>2, <2>1 DEF BrokerInv, CallbackInv, AuthorizationConsumedOnce
  <1>4. \A s \in States : AssertedFor(s)' = AssertedFor(s)
    BY <1>2 DEF AssertedFor
  <1>5. u \in AssertedFor(st)
    BY <1>1 DEF AssertedFor
  <1>6. CodedFor(st) = {}
    BY <1>2, <1>3 DEF CodedFor, HandedBy
  <1>7. CodedFor(st)' = {u}
    <2>1. ASSUME NEW v \in Users
          PROVE  (\E d \in Callbacks : HandedBy(d)' /\ cb'[d].reply.state = st /\ cb'[d].sub = v)
                    <=> v = u
      BY <1>2, <1>3 DEF HandedBy
    <2> QED BY <2>1 DEF CodedFor
  <1>8. ASSUME NEW s \in States, s # st PROVE CodedFor(s)' = CodedFor(s)
    <2>1. ASSUME NEW v \in Users
          PROVE  (\E d \in Callbacks : HandedBy(d)' /\ cb'[d].reply.state = s /\ cb'[d].sub = v)
                    <=> (\E d \in Callbacks : HandedBy(d) /\ cb[d].reply.state = s /\ cb[d].sub = v)
      BY <1>2, <1>8 DEF HandedBy
    <2> QED BY <2>1 DEF CodedFor
  <1>9. ASSUME NEW s \in States PROVE TokensFor(s)' = TokensFor(s)
    <2>1. \A t \in Tokens : Issued(t) => tk[t].code # k
      BY <1>2 DEF BrokerInv, TokenInv, CodeInv, From, Issued
    <2>2. ASSUME NEW t \in Tokens, Issued(t), NEW d \in Callbacks
          PROVE  (From(t, d) /\ cb[d].reply.state = s)' <=> (From(t, d) /\ cb[d].reply.state = s)
      BY <1>2, <2>1, <2>2 DEF From, HandedBy
    <2>3. ASSUME NEW t \in Tokens
          PROVE  (Issued(t) /\ \E d \in Callbacks : From(t, d) /\ cb[d].reply.state = s)' <=>
                 (Issued(t) /\ \E d \in Callbacks : From(t, d) /\ cb[d].reply.state = s)
      BY <1>2, <2>2 DEF Issued
    <2>4. {t \in Tokens : Issued(t) /\ \E d \in Callbacks : From(t, d) /\ cb[d].reply.state = s}' =
          {t \in Tokens : Issued(t) /\ \E d \in Callbacks : From(t, d) /\ cb[d].reply.state = s}
      BY <2>3
    <2> QED BY <1>2, <2>4 DEF TokensFor
  <1>10. [s \in States |-> CodedFor(s)]' = [[s \in States |-> CodedFor(s)] EXCEPT ![st] = {u}]
    BY <1>7, <1>8
  <1>11. /\ [s \in States |-> AssertedFor(s)]' = [s \in States |-> AssertedFor(s)]
         /\ [s \in States |-> TokensFor(s)]' = [s \in States |-> TokensFor(s)]
    BY <1>4, <1>9
  <1>12. Grant!HandCode(st, u)
    BY <1>2, <1>5, <1>6, <1>10, <1>11 DEF Grant!HandCode
  <1> QED BY <1>12

\* Issuing an ID token is Redeem of the state its code came from.
LEMMA IssueRedeems ==
  ASSUME TypeOK, BrokerInv, TypeOK', BrokerInv', NEW t \in Tokens, TokenIssues(t)
  PROVE  \E s \in States : Grant!Redeem(s, t)
  <1>1. /\ replies' = replies /\ flowOf' = flowOf /\ cb' = cb
        /\ \A u \in Tokens : u # t => tk'[u] = tk[u]
        /\ ~Issued(t) /\ Issued(t)'
        /\ tk'[t].code = tk[t].code /\ tk'[t].rec = tk[t].rec
        /\ tk[t].verifier = tk[t].rec.codeChallenge
    BY DEF TokenIssues, Issued, TypeOK, TokenRequest
  <1>2. PICK c \in Callbacks : From(t, c)
    BY DEF TokenIssues, BrokerInv, TokenInv
  <1>3. cb[c].reply \in Reply /\ Took(c) /\ HandedBy(c) /\ cb[c].sub \in Users
    BY <1>2 DEF From, HandedBy, TypeOK, CallbackRequest, Took
  <1>4. PICK s \in States : cb[c].reply.state = s
    BY <1>3 DEF Reply
  <1>5. PICK f \in Flows, v \in Users :
          /\ flowOf[s] = f
          /\ tk[t].rec.nonce = f
          /\ tk[t].rec.subject = v
          /\ cb[c].sub = v
    <2>1. tk[t].rec.subject = cb[c].sub /\ tk[t].rec.nonce = cb[c].rec.nonce
      BY <1>2 DEF TokenIssues, BrokerInv, TokenInv
    <2>2. cb[c].rec.nonce \in Flows /\ flowOf[s] = cb[c].rec.nonce
      BY <1>3, <1>4 DEF Took, TypeOK, CallbackRequest, BrokerAuthorization, BrokerInv, CallbackInv
    <2> QED BY <1>3, <2>1, <2>2
  <1>6. v \in CodedFor(s)
    BY <1>3, <1>4, <1>5 DEF CodedFor
  <1>7. ASSUME NEW d \in Callbacks, HandedBy(d), cb[d].reply.state = s PROVE d = c
    BY <1>2, <1>4, <1>7 DEF TypeOK, BrokerInv, CallbackInv, AuthorizationConsumedOnce, Took, From, HandedBy
  <1>8. ASSUME NEW u \in Tokens, NEW d \in Callbacks, Issued(u)', From(u, d), cb[d].reply.state = s
        PROVE  u = t
    <2>1. tk[u].code = tk[t].code
      BY <1>2, <1>7, <1>8 DEF From
    <2> QED BY <1>1, <1>8, <2>1 DEF BrokerInv, TokenInv, Redeemed, Issued, TokenIssues
  <1>9. TokensFor(s) = {}
    BY <1>1, <1>8 DEF TokensFor, Issued
  <1>10. TokensFor(s)' = {[request |-> t, nonce |-> f, subject |-> v]}
    <2>1. {u \in Tokens : Issued(u) /\ \E d \in Callbacks : From(u, d) /\ cb[d].reply.state = s}' = {t}
      BY <1>1, <1>2, <1>4, <1>8 DEF From, HandedBy
    <2> QED BY <1>1, <1>5, <2>1 DEF TokensFor
  <1>11. ASSUME NEW r \in States, r # s PROVE TokensFor(r)' = TokensFor(r)
    <2>1. ASSUME NEW d \in Callbacks, From(t, d) PROVE cb[d].reply.state = s
      BY <1>2, <1>4, <2>1 DEF From, BrokerInv, CodeInv
    <2>2. ASSUME NEW u \in Tokens
          PROVE  (Issued(u) /\ \E d \in Callbacks : From(u, d) /\ cb[d].reply.state = r)' <=>
                 (Issued(u) /\ \E d \in Callbacks : From(u, d) /\ cb[d].reply.state = r)
      BY <1>1, <1>11, <2>1 DEF From, HandedBy, Issued
    <2>3. {u \in Tokens : Issued(u) /\ \E d \in Callbacks : From(u, d) /\ cb[d].reply.state = r}' =
          {u \in Tokens : Issued(u) /\ \E d \in Callbacks : From(u, d) /\ cb[d].reply.state = r}
      BY <2>2
    <2>4. \A u \in Tokens : tk'[u].rec = tk[u].rec
      BY <1>1
    <2> QED BY <2>3, <2>4 DEF TokensFor
  <1>12. [r \in States |-> TokensFor(r)]' =
         [[r \in States |-> TokensFor(r)] EXCEPT ![s] = {[request |-> t, nonce |-> flowOf[s], subject |-> v]}]
    BY <1>5, <1>10, <1>11
  <1>13. /\ [r \in States |-> AssertedFor(r)]' = [r \in States |-> AssertedFor(r)]
         /\ [r \in States |-> CodedFor(r)]' = [r \in States |-> CodedFor(r)]
    BY <1>1 DEF AssertedFor, CodedFor, HandedBy
  <1>14. Grant!Redeem(s, t)
    BY <1>1, <1>6, <1>9, <1>12, <1>13 DEF Grant!Redeem
  <1> QED BY <1>14

\* Every step of the broker is a step of OneShotGrant or leaves it unchanged.
LEMMA NextGrant ==
  TypeOK /\ BrokerInv /\ TypeOK' /\ BrokerInv' /\ [Next]_vars => [Grant!Next]_(Grant!vars)
  <1> SUFFICES ASSUME TypeOK, BrokerInv, TypeOK', BrokerInv', [Next]_vars
               PROVE  [Grant!Next]_(Grant!vars)
    OBVIOUS
  <1>1. ASSUME NEW f \in Flows, NEW s \in States, Authorize(f, s) PROVE [Grant!Next]_(Grant!vars)
    <2>1. /\ [r \in States |-> AssertedFor(r)]' = [r \in States |-> AssertedFor(r)]
          /\ [r \in States |-> CodedFor(r)]' = [r \in States |-> CodedFor(r)]
          /\ [r \in States |-> TokensFor(r)]' = [r \in States |-> TokensFor(r)]
      BY <1>1 DEF Authorize, AssertedFor, CodedFor, TokensFor, HandedBy, Issued, From
    <2>2. Grant!Open(s, f)
      BY <1>1, <2>1 DEF Authorize, Grant!Open
    <2> QED BY <2>2 DEF Grant!Next
  <1>2. ASSUME NEW s \in States, NEW u \in Users \cup {None}, TelegramReplies(s, u)
        PROVE  [Grant!Next]_(Grant!vars)
    <2>1. /\ flowOf' = flowOf
          /\ [r \in States |-> CodedFor(r)]' = [r \in States |-> CodedFor(r)]
          /\ [r \in States |-> TokensFor(r)]' = [r \in States |-> TokensFor(r)]
      BY <1>2 DEF TelegramReplies, CodedFor, TokensFor, HandedBy, Issued, From
    <2>2. CASE u = None
      <3>1. ASSUME NEW r \in States PROVE AssertedFor(r)' = AssertedFor(r)
        BY <1>2, <2>2, NoneAssumption DEF TelegramReplies, AssertedFor
      <3> QED BY <2>1, <3>1 DEF Grant!vars
    <2>3. CASE u \in Users
      <3>1. AssertedFor(s)' = AssertedFor(s) \cup {u}
        BY <1>2, <2>3 DEF TelegramReplies, AssertedFor
      <3>2. ASSUME NEW r \in States, r # s PROVE AssertedFor(r)' = AssertedFor(r)
        BY <1>2, <3>2 DEF TelegramReplies, AssertedFor
      <3>3. [r \in States |-> AssertedFor(r)]' =
            [[r \in States |-> AssertedFor(r)] EXCEPT ![s] = @ \cup {u}]
        BY <3>1, <3>2
      <3>4. Grant!SignIn(s, u)
        BY <1>2, <2>1, <3>3 DEF TelegramReplies, BrokerInv, AuthInv, Grant!SignIn
      <3> QED BY <2>3, <3>4 DEF Grant!Next
    <2> QED BY <2>2, <2>3
  <1>3. ASSUME NEW c \in Callbacks, CallbackStarts(c) PROVE [Grant!Next]_(Grant!vars)
    BY <1>3, GrantUnchanged
    DEF CallbackStarts, CallbackUnknown, CallbackLoses, CallbackTakes, HandedBy, Issued, TypeOK, CallbackRequest
  <1>4. ASSUME NEW c \in Callbacks, NEW k \in Codes, CallbackSaves(c, k) PROVE [Grant!Next]_(Grant!vars)
    BY <1>4, SaveHandsCode DEF Grant!Next
  <1>5. ASSUME NEW c \in Callbacks, CallbackContinues(c), \A k \in Codes : ~CallbackSaves(c, k)
        PROVE  [Grant!Next]_(Grant!vars)
    <2>1. /\ replies' = replies /\ flowOf' = flowOf /\ tk' = tk
          /\ \A d \in Callbacks : HandedBy(d)' = HandedBy(d) /\ (HandedBy(d) => cb'[d] = cb[d])
      BY <1>5 DEF CallbackContinues, CallbackExchanges, CallbackExchangeFails, CallbackValidates,
                  CallbackInvalid, CallbackSaveFails, Goto, HandedBy, TypeOK, CallbackRequest
    <2> QED BY <2>1, GrantUnchanged DEF Issued
  <1>6. ASSUME NEW t \in Tokens, TokenIssues(t) PROVE [Grant!Next]_(Grant!vars)
    BY <1>6, IssueRedeems DEF Grant!Next
  <1>7. ASSUME NEW t \in Tokens, TokenStarts(t) \/ TokenContinues(t), ~TokenIssues(t)
        PROVE  [Grant!Next]_(Grant!vars)
    <2>1. /\ replies' = replies /\ flowOf' = flowOf /\ cb' = cb
          /\ \A u \in Tokens : Issued(u)' = Issued(u) /\ (Issued(u) => tk'[u] = tk[u])
      <3>1. CASE TokenStarts(t)
        BY <3>1 DEF TokenStarts, TokenReads, TokenMisses, Issued, TypeOK, TokenRequest
      <3>2. CASE TokenDeletes(t) \/ TokenDeleteFails(t)
        BY <3>2 DEF TokenDeletes, TokenDeleteFails, Issued, TypeOK, TokenRequest
      <3>3. CASE TokenRefuses(t)
        BY <3>3 DEF TokenRefuses, Issued, TypeOK, TokenRequest
      <3> QED BY <1>7, <3>1, <3>2, <3>3 DEF TokenContinues
    <2> QED BY <2>1, GrantUnchanged DEF HandedBy
  <1>8. CASE Tick \/ DynamoExpires \/ UNCHANGED vars
    BY <1>8, GrantUnchanged DEF Tick, DynamoExpires, vars, HandedBy, Issued
  <1>9. CASE Restart
    <2>1. /\ replies' = replies /\ flowOf' = flowOf
          /\ \A c \in Callbacks : HandedBy(c)' = HandedBy(c) /\ (HandedBy(c) => cb'[c] = cb[c])
          /\ \A t \in Tokens : Issued(t)' = Issued(t) /\ (Issued(t) => tk'[t] = tk[t])
      BY <1>9 DEF Restart, CallbackRunning, TokenRunning, HandedBy, Issued, TypeOK,
                  CallbackRequest, TokenRequest
    <2> QED BY <2>1, GrantUnchanged
  <1> QED BY <1>1, <1>2, <1>3, <1>4, <1>5, <1>6, <1>7, <1>8, <1>9 DEF Next

\* At most one code and one token per login, of its own flow and user.
THEOREM Refinement == Spec => ImplementsOneShotGrant
  BY InitGrant, NextGrant, TypeCorrect, BrokerInvariant, PTL
  DEF Spec, ImplementsOneShotGrant, Grant!Spec
=============================================================================
