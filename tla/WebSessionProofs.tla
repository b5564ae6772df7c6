--------------------------- MODULE WebSessionProofs ---------------------------
(***************************************************************************)
(* Proofs about WebSession, for every number of tabs, scripts and sessions. *)
(***************************************************************************)
EXTENDS WebSession, TLAPS

-----------------------------------------------------------------------------
(* Types.                                                                  *)

LEMMA KratosTokenType ==
  ASSUME TypeOK, NEW header \in Token PROVE KratosToken(cookie, header) \in Token
  BY DEF TypeOK, KratosToken

LEMMA AnswersType ==
  ASSUME TypeOK, NEW r \in Scripts, NEW t \in Token, Answers(r, t) PROVE script' \in [Scripts -> Script]
  <1>1. [script[r] EXCEPT !.pc = "answered", !.got = t] \in Script
    BY DEF TypeOK, Script
  <1> QED BY <1>1 DEF Answers, TypeOK, Script

LEMMA GotoType ==
  ASSUME TypeOK, NEW r \in Scripts,
         NEW pc \in {"idle", "sent", "disable", "answered", "arrived", "done"}, Goto(r, pc)
  PROVE  script' \in [Scripts -> Script]
  <1>1. [script[r] EXCEPT !.pc = pc] \in Script
    BY DEF TypeOK, Script
  <1> QED BY <1>1 DEF Goto, TypeOK, Script

LEMMA FailsType ==
  ASSUME TypeOK, NEW r \in Scripts, Fails(r)
  PROVE  script' \in [Scripts -> Script] /\ quiet' \in BOOLEAN
  <1>1. CASE script[r].op = "logout"
    <2>1. [script[r] EXCEPT !.pc = "answered", !.failed = TRUE] \in Script
      BY DEF TypeOK, Script
    <2> QED BY <1>1, <2>1 DEF Fails, TypeOK, Script
  <1>2. CASE script[r].op # "logout"
    BY <1>2, GotoType DEF Fails, TypeOK
  <1> QED BY <1>1, <1>2

\* A failed call changes neither the token nor the answer a script holds.
LEMMA FailsKeeps ==
  ASSUME TypeOK, NEW r \in Scripts, Fails(r), NEW q \in Scripts
  PROVE  script'[q].token = script[q].token /\ script'[q].got = script[q].got
  <1>1. CASE script[r].op = "logout"
    BY <1>1 DEF Fails, TypeOK, Script
  <1>2. CASE script[r].op # "logout"
    BY <1>2 DEF Fails, Goto, TypeOK, Script
  <1> QED BY <1>1, <1>2

LEMMA EndedType ==
  ASSUME TypeOK, NEW s PROVE Ended(s) \in [SessionIds -> {"none", "active", "ended"}]
  BY DEF TypeOK, Ended

LEMMA MakesType ==
  ASSUME TypeOK, NEW r \in Scripts, NEW s \in SessionIds, Makes(r, s)
  PROVE  sessions' \in [SessionIds -> {"none", "active", "ended"}]
  BY DEF TypeOK, Makes

\* A session that is made was none before, and the others stay as they were.
LEMMA MakesOne ==
  ASSUME TypeOK, NEW r \in Scripts, NEW s \in SessionIds, Makes(r, s)
  PROVE  /\ sessions[s] = "none" /\ sessions'[s] = "active" /\ s # None
         /\ \A x \in SessionIds : x # s => sessions'[x] = sessions[x]
         /\ \A x \in SessionIds : sessions[x] # "none" => sessions'[x] = sessions[x]
         /\ script[r].op = "login" => ~Active(script[r].token)
  BY NoneAssumption DEF TypeOK, Makes

LEMMA ScriptType ==
  ASSUME TypeOK, NEW r \in Scripts
  PROVE  script[r].tab \in Tabs /\ script[r].token \in Token /\ script[r].got \in Token
  BY DEF TypeOK, Script

LEMMA StepType ==
  ASSUME TypeOK, [Next]_vars
  PROVE  TypeOK'
  <1> USE DEF TypeOK, browser
  <1>1. CASE UNCHANGED vars
    BY <1>1 DEF vars
  <1>2. ASSUME NEW s \in SessionIds, SessionEnds(s) PROVE TypeOK'
    BY <1>2, EndedType DEF SessionEnds
  <1>3. ASSUME NEW r \in Scripts, NEW op \in Writers \cup {"refresh"}, Clicks(r, op) PROVE TypeOK'
    <2> DEFINE token == KratosToken(cookie, stored[script[r].tab])
    <2>1. token \in Token
      BY KratosTokenType, ScriptType
    <2>2. [script[r] EXCEPT !.pc = "sent", !.op = op, !.token = token] \in Script
      BY <2>1 DEF Script, Token
    <2> QED BY <1>3, <2>2 DEF Clicks, Script
  <1>4. ASSUME NEW r \in Scripts, ScriptStep(r) PROVE TypeOK'
    <2>1. CASE Arrives(r)
      <3>1. cookie' \in Token
        BY <2>1, ScriptType DEF Arrives, Token
      <3>2. script' \in [Scripts -> Script]
        BY <2>1, GotoType DEF Arrives
      <3> QED BY <2>1, <3>1, <3>2 DEF Arrives
    <2>2. CASE Loses(r)
      BY <2>2, GotoType DEF Loses
    <2>3. CASE KeepsToken(r)
      BY <2>3, GotoType, ScriptType DEF KeepsToken
    <2>4. CASE Resumes(r)
      <3> DEFINE kept == CASE script[r].op = "logout" -> None
                           [] script[r].op \in {"oidc", "stepup"} -> script[r].got
                           [] OTHER -> stored[script[r].tab]
      <3>1. kept \in Token
        BY ScriptType DEF Token
      <3>2. KratosToken(cookie, kept) \in Token
        BY <3>1, KratosTokenType
      <3>3. [script[r] EXCEPT !.pc = "sent", !.op = "refresh", !.got = None,
                              !.token = KratosToken(cookie, kept), !.failed = FALSE] \in Script
        BY <3>2 DEF Script, Token
      <3>4. stored' \in [Tabs -> Token]
        BY <2>4, <3>1 DEF Resumes, Token
      <3> HIDE DEF kept
      <3> QED BY <2>4, <3>3, <3>4 DEF Resumes, kept, Script
    <2>5. CASE AnswersSession(r)
      <3>1. (IF Active(script[r].token) THEN script[r].token ELSE None) \in Token
        BY ScriptType DEF Token
      <3> QED BY <2>5, <3>1, AnswersType DEF AnswersSession
    <2>6. CASE SessionFails(r)
      BY <2>6, AnswersType, GotoType DEF SessionFails, Token
    <2>7. ASSUME NEW s \in SessionIds, SignsIn(r, s) PROVE TypeOK'
      BY <2>7, AnswersType, MakesType DEF SignsIn, Token
    <2>8. CASE SignInFails(r)
      <3>1. script' \in [Scripts -> Script] /\ UNCHANGED browser
        BY <2>8, GotoType DEF SignInFails
      <3>2. CASE UNCHANGED <<sessions, quiet>>
        BY <3>1, <3>2
      <3>3. ASSUME NEW s \in SessionIds, Makes(r, s), quiet' = FALSE PROVE TypeOK'
        BY <3>1, <3>3, MakesType
      <3> QED BY <2>8, <3>2, <3>3 DEF SignInFails
    <2>13. CASE Stops(r)
      BY <2>13, GotoType DEF Stops
    <2>14. CASE Refreshes(r)
      BY <2>14, AnswersType, ScriptType DEF Refreshes
    <2>15. CASE StepsUp(r)
      BY <2>15, AnswersType, ScriptType DEF StepsUp
    <2>16. CASE StepUpFails(r)
      BY <2>16, GotoType DEF StepUpFails
    <2>9. CASE LooksUp(r)
      BY <2>9, AnswersType, GotoType DEF LooksUp, Token
    <2>10. CASE LookUpFails(r)
      BY <2>10, FailsType DEF LookUpFails
    <2>11. CASE Disables(r)
      BY <2>11, AnswersType, EndedType DEF Disables, Token
    <2>12. CASE DisableFails(r)
      BY <2>12, FailsType, EndedType DEF DisableFails
    <2> QED BY <1>4, <2>1, <2>2, <2>3, <2>4, <2>5, <2>6, <2>7, <2>8, <2>9, <2>10, <2>11, <2>12,
             <2>13, <2>14, <2>15, <2>16 DEF ScriptStep
  <1> QED BY <1>1, <1>2, <1>3, <1>4 DEF Next

-----------------------------------------------------------------------------
(* The parts of the inductive invariant, one lemma each.                   *)

\* DisableSession is called by sign-outs only.
LEMMA StepDisables ==
  ASSUME TypeOK, SignOutDisables, [Next]_vars
  PROVE  SignOutDisables'
  <1> USE DEF browser, Handles, Answers, Goto, Fails, Ended, SignOutDisables, TypeOK,
              Script, SignOuts
  <1>1. CASE UNCHANGED vars
    BY <1>1 DEF vars
  <1>2. ASSUME NEW s \in SessionIds, SessionEnds(s) PROVE SignOutDisables'
    BY <1>2 DEF SessionEnds
  <1>3. ASSUME NEW r \in Scripts, NEW op \in Writers \cup {"refresh"}, Clicks(r, op) PROVE SignOutDisables'
    BY <1>3 DEF Clicks
  <1>4. ASSUME NEW r \in Scripts, ScriptStep(r) PROVE SignOutDisables'
    <2>1. CASE Arrives(r)
      BY <2>1 DEF Arrives
    <2>2. CASE Loses(r)
      BY <2>2 DEF Loses
    <2>3. CASE KeepsToken(r)
      BY <2>3 DEF KeepsToken
    <2>4. CASE Resumes(r)
      BY <2>4 DEF Resumes
    <2>5. CASE AnswersSession(r)
      BY <2>5 DEF AnswersSession
    <2>6. CASE SessionFails(r)
      BY <2>6 DEF SessionFails
    <2>7. ASSUME NEW s \in SessionIds, SignsIn(r, s) PROVE SignOutDisables'
      BY <2>7 DEF SignsIn, Makes
    <2>8. CASE SignInFails(r)
      BY <2>8 DEF SignInFails
    <2>13. CASE Stops(r)
      BY <2>13 DEF Stops
    <2>14. CASE Refreshes(r)
      BY <2>14 DEF Refreshes
    <2>15. CASE StepsUp(r)
      BY <2>15 DEF StepsUp
    <2>16. CASE StepUpFails(r)
      BY <2>16 DEF StepUpFails
    <2>9. CASE LooksUp(r)
      BY <2>9 DEF LooksUp
    <2>10. CASE LookUpFails(r)
      BY <2>10 DEF LookUpFails
    <2>11. CASE Disables(r)
      BY <2>11 DEF Disables
    <2>12. CASE DisableFails(r)
      BY <2>12 DEF DisableFails
    <2> QED BY <1>4, <2>1, <2>2, <2>3, <2>4, <2>5, <2>6, <2>7, <2>8, <2>9, <2>10, <2>11, <2>12,
             <2>13, <2>14, <2>15, <2>16 DEF ScriptStep
  <1> QED BY <1>1, <1>2, <1>3, <1>4 DEF Next

\* The done page of a step-up answers with the token it asked WhoAmI about.
LEMMA StepKeeps ==
  ASSUME TypeOK, SignOutDisables, StepUpKeepsToken, [Next]_vars
  PROVE  StepUpKeepsToken'
  <1> USE DEF browser, Handles, Answers, Goto, Fails, Ended, SignOutDisables, StepUpKeepsToken, TypeOK,
              Script, SignIns, SignOuts
  <1>1. CASE UNCHANGED vars
    BY <1>1 DEF vars
  <1>2. ASSUME NEW s \in SessionIds, SessionEnds(s) PROVE StepUpKeepsToken'
    BY <1>2 DEF SessionEnds
  <1>3. ASSUME NEW r \in Scripts, NEW op \in Writers \cup {"refresh"}, Clicks(r, op) PROVE StepUpKeepsToken'
    BY <1>3 DEF Clicks
  <1>4. ASSUME NEW r \in Scripts, ScriptStep(r) PROVE StepUpKeepsToken'
    <2>1. CASE Arrives(r)
      BY <2>1 DEF Arrives
    <2>2. CASE Loses(r)
      BY <2>2 DEF Loses
    <2>3. CASE KeepsToken(r)
      BY <2>3 DEF KeepsToken
    <2>4. CASE Resumes(r)
      BY <2>4 DEF Resumes
    <2>5. CASE AnswersSession(r)
      BY <2>5 DEF AnswersSession
    <2>6. CASE SessionFails(r)
      BY <2>6 DEF SessionFails
    <2>7. ASSUME NEW s \in SessionIds, SignsIn(r, s) PROVE StepUpKeepsToken'
      BY <2>7 DEF SignsIn, Makes
    <2>8. CASE SignInFails(r)
      BY <2>8 DEF SignInFails
    <2>13. CASE Stops(r)
      BY <2>13 DEF Stops
    <2>14. CASE Refreshes(r)
      BY <2>14 DEF Refreshes
    <2>15. CASE StepsUp(r)
      BY <2>15 DEF StepsUp
    <2>16. CASE StepUpFails(r)
      BY <2>16 DEF StepUpFails
    <2>9. CASE LooksUp(r)
      BY <2>9 DEF LooksUp
    <2>10. CASE LookUpFails(r)
      <3>1. CASE script[r].op = "logout"
        BY <2>10, <3>1 DEF LookUpFails
      <3>2. CASE script[r].op # "logout"
        BY <2>10, <3>2 DEF LookUpFails
      <3> QED BY <3>1, <3>2
    <2>11. CASE Disables(r)
      BY <2>11 DEF Disables
    <2>12. CASE DisableFails(r)
      <3>1. CASE script[r].op = "logout"
        BY <2>12, <3>1 DEF DisableFails
      <3>2. CASE script[r].op # "logout"
        BY <2>12, <3>2 DEF DisableFails
      <3> QED BY <3>1, <3>2
    <2> QED BY <1>4, <2>1, <2>2, <2>3, <2>4, <2>5, <2>6, <2>7, <2>8, <2>9, <2>10, <2>11, <2>12,
             <2>13, <2>14, <2>15, <2>16 DEF ScriptStep
  <1> QED BY <1>1, <1>2, <1>3, <1>4 DEF Next

\* A token that is named belongs to a session that was made.
LEMMA StepMade ==
  ASSUME TypeOK, TokensMade, [Next]_vars
  PROVE  TokensMade'
  <1> USE DEF browser, Handles, Answers, Goto, Fails, Ended, TokensMade, TypeOK, Token,
              Script, KratosToken, Active
  <1>1. CASE UNCHANGED vars
    BY <1>1 DEF vars
  <1>2. ASSUME NEW s \in SessionIds, SessionEnds(s) PROVE TokensMade'
    BY <1>2 DEF SessionEnds
  <1>3. ASSUME NEW r \in Scripts, NEW op \in Writers \cup {"refresh"}, Clicks(r, op) PROVE TokensMade'
    BY <1>3 DEF Clicks
  <1>4. ASSUME NEW r \in Scripts, ScriptStep(r) PROVE TokensMade'
    <2>1. CASE Arrives(r)
      BY <2>1 DEF Arrives
    <2>2. CASE Loses(r)
      BY <2>2 DEF Loses
    <2>3. CASE KeepsToken(r)
      BY <2>3 DEF KeepsToken
    <2>4. CASE Resumes(r)
      BY <2>4 DEF Resumes
    <2>5. CASE AnswersSession(r)
      BY <2>5 DEF AnswersSession
    <2>6. CASE SessionFails(r)
      BY <2>6 DEF SessionFails
    <2>7. ASSUME NEW s \in SessionIds, SignsIn(r, s) PROVE TokensMade'
      BY <2>7 DEF SignsIn, Makes
    <2>8. CASE SignInFails(r)
      <3>1. cookie' = cookie /\ stored' = stored
        BY <2>8 DEF SignInFails
      <3>2. \A q \in Scripts : script'[q].token = script[q].token /\ script'[q].got = script[q].got
        BY <2>8 DEF SignInFails
      <3>3. \A x \in SessionIds : sessions[x] # "none" => sessions'[x] # "none"
        <4>1. CASE UNCHANGED <<sessions, quiet>>
          BY <4>1
        <4>2. CASE \E s \in SessionIds : Makes(r, s)
          BY <4>2, MakesOne
        <4> QED BY <2>8, <4>1, <4>2 DEF SignInFails
      <3> QED BY <3>1, <3>2, <3>3
    <2>13. CASE Stops(r)
      BY <2>13 DEF Stops
    <2>14. CASE Refreshes(r)
      BY <2>14 DEF Refreshes
    <2>15. CASE StepsUp(r)
      BY <2>15 DEF StepsUp
    <2>16. CASE StepUpFails(r)
      BY <2>16 DEF StepUpFails
    <2>9. CASE LooksUp(r)
      BY <2>9 DEF LooksUp
    <2>10. CASE LookUpFails(r)
      <3>1. sessions' = sessions /\ cookie' = cookie /\ stored' = stored
        BY <2>10 DEF LookUpFails
      <3>2. \A q \in Scripts : script'[q].token = script[q].token /\ script'[q].got = script[q].got
        BY <2>10, FailsKeeps DEF LookUpFails
      <3> QED BY <3>1, <3>2 DEF TokensMade
    <2>11. CASE Disables(r)
      BY <2>11 DEF Disables
    <2>12. CASE DisableFails(r)
      <3>1. cookie' = cookie /\ stored' = stored
        BY <2>12 DEF DisableFails
      <3>2. \A q \in Scripts : script'[q].token = script[q].token /\ script'[q].got = script[q].got
        BY <2>12, FailsKeeps DEF DisableFails
      <3>3. \A s \in SessionIds : sessions[s] # "none" => sessions'[s] # "none"
        BY <2>12 DEF DisableFails
      <3> QED BY <3>1, <3>2, <3>3
    <2> QED BY <1>4, <2>1, <2>2, <2>3, <2>4, <2>5, <2>6, <2>7, <2>8, <2>9, <2>10, <2>11, <2>12,
             <2>13, <2>14, <2>15, <2>16 DEF ScriptStep
  <1> QED BY <1>1, <1>2, <1>3, <1>4 DEF Next

\* A session ended by a logout stays over; a new one has a token nobody names yet.
LEMMA StepLogout ==
  ASSUME WebInv, [Next]_vars
  PROVE  LogoutEndsSession'
  <1> USE DEF browser, Handles, Answers, Goto, Fails, Ended, WebInv, LogoutEndsSession,
              Active, TokensMade, TypeOK, Token, Script, KratosToken
  <1>1. CASE UNCHANGED vars
    BY <1>1 DEF vars
  <1>2. ASSUME NEW s \in SessionIds, SessionEnds(s) PROVE LogoutEndsSession'
    BY <1>2 DEF SessionEnds
  <1>3. ASSUME NEW r \in Scripts, NEW op \in Writers \cup {"refresh"}, Clicks(r, op) PROVE LogoutEndsSession'
    BY <1>3 DEF Clicks
  <1>4. ASSUME NEW r \in Scripts, ScriptStep(r) PROVE LogoutEndsSession'
    <2>1. CASE Arrives(r)
      BY <2>1 DEF Arrives
    <2>2. CASE Loses(r)
      BY <2>2 DEF Loses
    <2>3. CASE KeepsToken(r)
      BY <2>3 DEF KeepsToken
    <2>4. CASE Resumes(r)
      BY <2>4 DEF Resumes
    <2>5. CASE AnswersSession(r)
      BY <2>5 DEF AnswersSession
    <2>6. CASE SessionFails(r)
      BY <2>6 DEF SessionFails
    <2>7. ASSUME NEW s \in SessionIds, SignsIn(r, s) PROVE LogoutEndsSession'
      <3>1. script'[r].op \in SignIns
        BY <2>7 DEF SignsIn, Makes
      <3>2. \A q \in Scripts : q # r => script'[q] = script[q]
        BY <2>7 DEF SignsIn, Makes
      <3>3. \A q \in Scripts : script[q].token # s
        BY <2>7, NoneAssumption DEF SignsIn, Makes
      <3>4. \A q \in Scripts : sessions'[script[q].token] = "active"
                                => Active(script[q].token) \/ script[q].token = None
        BY <2>7, <3>3 DEF SignsIn, Makes
      <3> QED BY <3>1, <3>2, <3>4 DEF SignIns
    <2>8. CASE SignInFails(r)
      <3>1. script'[r].pc = "done" /\ \A q \in Scripts : q # r => script'[q] = script[q]
        BY <2>8 DEF SignInFails
      <3>2. \A q \in Scripts : script[q].token # None => sessions'[script[q].token] = sessions[script[q].token]
        <4>1. CASE UNCHANGED <<sessions, quiet>>
          BY <4>1
        <4>2. CASE \E s \in SessionIds : Makes(r, s)
          BY <4>2, MakesOne
        <4> QED BY <2>8, <4>1, <4>2 DEF SignInFails
      <3> QED BY <3>1, <3>2
    <2>13. CASE Stops(r)
      BY <2>13 DEF Stops
    <2>14. CASE Refreshes(r)
      BY <2>14 DEF Refreshes
    <2>15. CASE StepsUp(r)
      BY <2>15 DEF StepsUp
    <2>16. CASE StepUpFails(r)
      BY <2>16 DEF StepUpFails
    <2>9. CASE LooksUp(r)
      BY <2>9 DEF LooksUp
    <2>10. CASE LookUpFails(r)
      BY <2>10 DEF LookUpFails
    <2>11. CASE Disables(r)
      BY <2>11 DEF Disables
    <2>12. CASE DisableFails(r)
      BY <2>12 DEF DisableFails
    <2> QED BY <1>4, <2>1, <2>2, <2>3, <2>4, <2>5, <2>6, <2>7, <2>8, <2>9, <2>10, <2>11, <2>12,
             <2>13, <2>14, <2>15, <2>16 DEF ScriptStep
  <1> QED BY <1>1, <1>2, <1>3, <1>4 DEF Next

\* A sign-in or sign-out without another beside it speaks for the cookie.
LEMMA StepWriter ==
  ASSUME WebInv, [Next]_vars
  PROVE  WriterAlone'
  <1> USE DEF browser, Handles, Answers, Goto, Fails, Ended, WebInv, WriterAlone,
              SpeaksForCookie, Writing, Active, SignIns, SignOuts, Sets, Writers, TokensMade,
              SignOutDisables, StepUpKeepsToken, LiveSessionIsHeld, Bringing, TypeOK, Token, Script, KratosToken
  <1>1. CASE UNCHANGED vars
    BY <1>1 DEF vars
  <1>2. ASSUME NEW s \in SessionIds, SessionEnds(s) PROVE WriterAlone'
    BY <1>2 DEF SessionEnds
  <1>3. ASSUME NEW r \in Scripts, NEW op \in Writers \cup {"refresh"}, Clicks(r, op) PROVE WriterAlone'
    <2> SUFFICES ASSUME quiet', NEW q \in Scripts, Writing(q)'
                 PROVE  SpeaksForCookie(q)' /\ \A p \in Scripts : Writing(p)' => p = q
      BY Zenon DEF WriterAlone
    <2>1. quiet /\ (op \in SignIns \cup SignOuts => \A p \in Scripts : ~Writing(p))
      BY <1>3 DEF Clicks
    <2>2. \A p \in Scripts : p # r => script'[p] = script[p]
      BY <1>3 DEF Clicks
    <2>3. cookie' = cookie /\ sessions' = sessions
      BY <1>3 DEF Clicks
    <2>4. /\ script'[r].pc = "sent" /\ script'[r].op = op
          /\ script'[r].token = KratosToken(cookie, stored[script[r].tab])
      BY <1>3 DEF Clicks
    <2>5. op = "oidc" => ~Active(script'[r].token)
      BY <1>3, <2>4 DEF Clicks
    <2> QED BY <2>1, <2>2, <2>3, <2>4, <2>5
  <1>4. ASSUME NEW r \in Scripts, ScriptStep(r) PROVE WriterAlone'
    <2>1. CASE Arrives(r)
      BY <2>1 DEF Arrives
    <2>2. CASE Loses(r)
      BY <2>2 DEF Loses
    <2>3. CASE KeepsToken(r)
      BY <2>3 DEF KeepsToken
    <2>4. CASE Resumes(r)
      BY <2>4 DEF Resumes
    <2>5. CASE AnswersSession(r)
      BY <2>5 DEF AnswersSession
    <2>6. CASE SessionFails(r)
      BY <2>6 DEF SessionFails
    <2>7. ASSUME NEW s \in SessionIds, SignsIn(r, s) PROVE WriterAlone'
      <3>1. \A p \in Scripts : p # r => script'[p] = script[p]
        BY <2>7 DEF SignsIn, Makes
      <3>2. /\ script[r].pc = "sent" /\ script[r].op \in SignIns
            /\ script'[r].pc = "answered" /\ script'[r].op = script[r].op /\ script'[r].got = s
        BY <2>7 DEF SignsIn, Makes
      <3>3. quiet => ~Active(cookie)
        BY <2>7 DEF SignsIn, Makes
      <3>4. cookie' = cookie /\ cookie # s
        BY <2>7, NoneAssumption DEF SignsIn, Makes
      <3>5. s # None /\ quiet' = quiet
        BY <2>7, NoneAssumption DEF SignsIn, Makes
      <3>6. Active(cookie)' => Active(cookie)
        BY <2>7, <3>4 DEF SignsIn, Makes
      <3>7. script'[r].token # s
        BY <2>7, NoneAssumption DEF SignsIn, Makes
      <3> QED BY <3>1, <3>2, <3>3, <3>4, <3>5, <3>6, <3>7
    <2>8. CASE SignInFails(r)
      <3>1. CASE UNCHANGED <<sessions, quiet>>
        BY <2>8, <3>1 DEF SignInFails
      <3>2. CASE quiet' = FALSE
        BY <3>2
      <3> QED BY <2>8, <3>1, <3>2 DEF SignInFails
    <2>13. CASE Stops(r)
      BY <2>13 DEF Stops
    <2>14. CASE Refreshes(r)
      BY <2>14 DEF Refreshes
    <2>15. CASE StepsUp(r)
      <3> SUFFICES ASSUME quiet' PROVE WriterAlone'
        BY DEF WriterAlone
      <3>1. quiet /\ \A q \in Scripts : ~Writing(q)
        BY <2>15 DEF StepsUp
      <3>2. script[r].token \in SessionIds /\ sessions[script[r].token] = "active"
        BY <2>15 DEF StepsUp
      <3>3. \A q \in Scripts : ~Bringing(q, script[r].token)
        BY <3>1
      <3>4. cookie = script[r].token
        BY <3>1, <3>2, <3>3
      <3>5. /\ \A q \in Scripts : q # r => script'[q] = script[q]
            /\ script'[r].op = "stepup" /\ script'[r].pc = "answered"
            /\ script'[r].token = script[r].token /\ script'[r].got = script[r].token
            /\ cookie' = cookie /\ sessions' = sessions
        BY <2>15 DEF StepsUp
      <3>6. \A q \in Scripts : Writing(q)' => q = r
        BY <3>1, <3>5
      <3>7. SpeaksForCookie(r)'
        BY <3>2, <3>4, <3>5, NoneAssumption
      <3> QED BY <3>6, <3>7, Zenon DEF WriterAlone
    <2>16. CASE StepUpFails(r)
      BY <2>16 DEF StepUpFails
    <2>9. CASE LooksUp(r)
      BY <2>9 DEF LooksUp
    <2>10. CASE LookUpFails(r)
      <3>1. CASE script[r].op = "logout"
        BY <2>10, <3>1 DEF LookUpFails
      <3>2. CASE script[r].op # "logout"
        BY <2>10, <3>2 DEF LookUpFails
      <3> QED BY <3>1, <3>2
    <2>11. CASE Disables(r)
      BY <2>11 DEF Disables
    <2>12. CASE DisableFails(r)
      <3>1. CASE script[r].op = "logout"
        BY <2>12, <3>1 DEF DisableFails
      <3>2. CASE script[r].op # "logout"
        BY <2>12, <3>2 DEF DisableFails
      <3> QED BY <3>1, <3>2
    <2> QED BY <1>4, <2>1, <2>2, <2>3, <2>4, <2>5, <2>6, <2>7, <2>8, <2>9, <2>10, <2>11, <2>12,
             <2>13, <2>14, <2>15, <2>16 DEF ScriptStep
  <1> QED BY <1>1, <1>2, <1>3, <1>4 DEF Next

\* So no answer takes a session that is signed in out of the browser's hands.
LEMMA StepHeld ==
  ASSUME WebInv, [Next]_vars
  PROVE  LiveSessionIsHeld'
  <1> USE DEF browser, Handles, Answers, Goto, Fails, Ended, LiveSessionIsHeld, Bringing,
              WebInv, WriterAlone, SpeaksForCookie, Writing, Active, SignIns, SignOuts,
              Sets, Writers, TokensMade, SignOutDisables, StepUpKeepsToken, TypeOK, Token, Script, KratosToken
  <1>1. CASE UNCHANGED vars
    BY <1>1 DEF vars
  <1>2. ASSUME NEW s \in SessionIds, SessionEnds(s) PROVE LiveSessionIsHeld'
    BY <1>2 DEF SessionEnds
  <1>3. ASSUME NEW r \in Scripts, NEW op \in Writers \cup {"refresh"}, Clicks(r, op) PROVE LiveSessionIsHeld'
    BY <1>3 DEF Clicks
  <1>4. ASSUME NEW r \in Scripts, ScriptStep(r) PROVE LiveSessionIsHeld'
    <2>1. CASE Arrives(r)
      <3> SUFFICES ASSUME quiet, NEW s \in SessionIds, sessions[s] = "active"
                   PROVE  cookie' = s \/ \E q \in Scripts : Bringing(q, s)'
        BY <2>1 DEF Arrives
      <3>1. \A q \in Scripts : q # r => script'[q] = script[q]
        BY <2>1 DEF Arrives
      <3>2. CASE Bringing(r, s)
        BY <2>1, <3>2 DEF Arrives
      <3>3. CASE \E q \in Scripts : q # r /\ Bringing(q, s)
        BY <2>1, <3>1, <3>3 DEF Arrives
      <3>4. CASE cookie = s
        BY <2>1, <3>4, NoneAssumption DEF Arrives
      <3> QED BY <3>2, <3>3, <3>4
    <2>2. CASE Loses(r)
      <3> SUFFICES ASSUME quiet', NEW s \in SessionIds, sessions[s] = "active"
                   PROVE  cookie = s \/ \E q \in Scripts : Bringing(q, s)'
        BY <2>2 DEF Loses
      <3>1. quiet /\ \A q \in Scripts : q # r => script'[q] = script[q]
        BY <2>2 DEF Loses
      <3>2. Bringing(r, s) => cookie = s
        BY <2>2, <3>1 DEF Loses
      <3> QED BY <3>1, <3>2
    <2>3. CASE KeepsToken(r)
      BY <2>3 DEF KeepsToken
    <2>4. CASE Resumes(r)
      BY <2>4 DEF Resumes
    <2>5. CASE AnswersSession(r)
      BY <2>5 DEF AnswersSession
    <2>6. CASE SessionFails(r)
      BY <2>6 DEF SessionFails
    <2>7. ASSUME NEW s \in SessionIds, SignsIn(r, s) PROVE LiveSessionIsHeld'
      BY <2>7 DEF SignsIn, Makes
    <2>8. CASE SignInFails(r)
      <3>1. CASE UNCHANGED <<sessions, quiet>>
        BY <2>8, <3>1 DEF SignInFails
      <3>2. CASE quiet' = FALSE
        BY <3>2
      <3> QED BY <2>8, <3>1, <3>2 DEF SignInFails
    <2>13. CASE Stops(r)
      BY <2>13 DEF Stops
    <2>14. CASE Refreshes(r)
      BY <2>14 DEF Refreshes
    <2>15. CASE StepsUp(r)
      BY <2>15 DEF StepsUp
    <2>16. CASE StepUpFails(r)
      BY <2>16 DEF StepUpFails
    <2>9. CASE LooksUp(r)
      BY <2>9 DEF LooksUp
    <2>10. CASE LookUpFails(r)
      BY <2>10 DEF LookUpFails
    <2>11. CASE Disables(r)
      BY <2>11 DEF Disables
    <2>12. CASE DisableFails(r)
      BY <2>12 DEF DisableFails
    <2> QED BY <1>4, <2>1, <2>2, <2>3, <2>4, <2>5, <2>6, <2>7, <2>8, <2>9, <2>10, <2>11, <2>12,
             <2>13, <2>14, <2>15, <2>16 DEF ScriptStep
  <1> QED BY <1>1, <1>2, <1>3, <1>4 DEF Next
-----------------------------------------------------------------------------
(* The theorems.                                                           *)

LEMMA InitInv == Init => WebInv
  <1> SUFFICES ASSUME Init PROVE WebInv
    OBVIOUS
  <1>1. TypeOK
    BY DEF Init, TypeOK, Token, Script
  <1>2. \A r \in Scripts : script[r].pc = "idle" /\ script[r].op = "refresh"
                            /\ script[r].token = None /\ script[r].got = None
    BY DEF Init
  <1> QED
    BY <1>1, <1>2 DEF Init, WebInv, SignOutDisables, StepUpKeepsToken, Handles, TokensMade, WriterAlone, Writing,
       LiveSessionIsHeld, LogoutEndsSession

LEMMA StepInv == WebInv /\ [Next]_vars => WebInv'
  BY StepType, StepDisables, StepKeeps, StepMade, StepWriter, StepHeld, StepLogout DEF WebInv

\* The inductive invariant holds: sign-ins and sign-outs that do not overlap speak for
\* the cookie their answer replaces (cookies.go, kratosToken).
THEOREM InvCorrect == Spec => []WebInv
  BY InitInv, StepInv, PTL DEF Spec

\* Every variable keeps its type, whatever answers arrive when.
THEOREM TypeCorrect == Spec => []TypeOK
  <1>1. WebInv => TypeOK
    BY DEF WebInv
  <1> QED BY <1>1, InvCorrect, PTL

\* The browser keeps hold of the session that is signed in: no late answer of
\* refreshSession and no stale token of a tab takes it away.
THEOREM HeldCorrect == Spec => []LiveSessionIsHeld
  <1>1. WebInv => LiveSessionIsHeld
    BY DEF WebInv
  <1> QED BY <1>1, InvCorrect, PTL

\* A logout whose calls succeeded has ended the session it spoke for (handleLogout),
\* whatever else runs beside it.
THEOREM LogoutCorrect == Spec => []LogoutEndsSession
  <1>1. WebInv => LogoutEndsSession
    BY DEF WebInv
  <1> QED BY <1>1, InvCorrect, PTL
=============================================================================
