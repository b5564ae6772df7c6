------------------------- MODULE UserDirectoryProofs -------------------------
(***************************************************************************)
(* Proofs about UserDirectory, for every number of identities, user ids,   *)
(* identifiers and concurrent requests.                                    *)
(***************************************************************************)
EXTENDS UserDirectory, TLAPS

LEMMA InitType == Init => TypeOK
  BY NoneAssumption DEF Init, TypeOK, SessionRequest, SessionPc, DeleteRequest, DeletePc

LEMMA SessionStepType ==
  ASSUME TypeOK, NEW w \in Sessions, SessionStep(w)
  PROVE  TypeOK'
  <1>1. sr[w] \in SessionRequest /\ (sr[w].pc # "idle" => sr[w].identity \in Identities)
    BY DEF TypeOK, SessionRequest
  <1> USE NoneAssumption, <1>1 DEF SessionGoto, SessionFault, kratos, tables, history
  <1>2. CASE SessionReadsIndex(w)
    BY <1>2 DEF SessionReadsIndex, TypeOK, SessionRequest, SessionPc
  <1>13. CASE SessionMissesIndex(w)
    BY <1>13 DEF SessionMissesIndex, TypeOK, SessionRequest, SessionPc
  <1>3. CASE SessionReadsUser(w)
    BY <1>3 DEF SessionReadsUser, TypeOK, SessionRequest, SessionPc
  <1>14. CASE SessionMissesUser(w)
    BY <1>14 DEF SessionMissesUser, TypeOK, SessionRequest, SessionPc
  <1>4. CASE SessionReadFails(w)
    BY <1>4 DEF SessionReadFails, TypeOK, SessionRequest, SessionPc
  <1>5. ASSUME NEW u \in UserIds, SessionPutsUser(w, u) PROVE TypeOK'
    <2>1. users' \subseteq User /\ owner' \in [UserIds -> Identities \cup {None}]
      BY <1>5 DEF SessionPutsUser, TypeOK, User
    <2>2. sr' \in [Sessions -> SessionRequest]
      <3>1. [sr[w] EXCEPT !.pc = "putIndex", !.user = u] \in SessionRequest
        BY DEF SessionRequest, SessionPc
      <3> QED BY <1>5, <3>1 DEF SessionPutsUser, TypeOK
    <2> QED BY <1>5, <2>1, <2>2 DEF SessionPutsUser, TypeOK
  <1>6. ASSUME NEW u \in UserIds, SessionPutUserFails(w, u) PROVE TypeOK'
    <2>1. users' \subseteq User /\ owner' \in [UserIds -> Identities \cup {None}]
      BY <1>6 DEF SessionPutUserFails, TypeOK, User
    <2> QED BY <1>6, <2>1 DEF SessionPutUserFails, TypeOK, SessionRequest, SessionPc
  <1>7. CASE SessionPutsIndex(w)
    BY <1>7 DEF SessionPutsIndex, TypeOK, SessionRequest, SessionPc
  <1>8. CASE SessionPutIndexFails(w)
    BY SMTT(40), <1>8 DEF SessionPutIndexFails, TypeOK, SessionRequest, SessionPc
  <1>9. CASE SessionReadsAdmin(w)
    <2>1. PICK X \in SUBSET Identifiers :
            sr' = [sr EXCEPT ![w].pc = "putIdentifiers", ![w].todo = X]
      BY <1>9 DEF SessionReadsAdmin, Held, SessionRequest
    <2>2. sr'[w] = [sr[w] EXCEPT !.pc = "putIdentifiers", !.todo = X]
          /\ \A v \in Sessions : v # w => sr'[v] = sr[v]
      BY <2>1 DEF TypeOK
    <2>3. sr'[w] \in SessionRequest
      BY <2>2 DEF SessionRequest, SessionPc
    <2>4. sr' \in [Sessions -> SessionRequest]
      BY <2>1, <2>2, <2>3 DEF TypeOK
    <2>5. sr'[w].identity # None /\ sr'[w].user # None
      BY <1>9, <2>2 DEF SessionReadsAdmin, TypeOK, SessionRequest
    <2>6. UNCHANGED <<kratos, tables, dr, history>>
      BY <1>9 DEF SessionReadsAdmin
    <2> QED BY <2>2, <2>4, <2>5, <2>6 DEF TypeOK
  <1>10. CASE SessionReadAdminFails(w)
    BY <1>10 DEF SessionReadAdminFails, TypeOK, SessionRequest, SessionPc
  <1>12. CASE SessionAnswers(w)
    BY <1>12 DEF SessionAnswers, TypeOK, SessionRequest, SessionPc
  <1>11. ASSUME NEW x \in Identifiers, SessionPutsIdentifier(w, x) PROVE TypeOK'
    BY <1>11 DEF SessionPutsIdentifier, TypeOK, SessionRequest, SessionPc
  <1> QED BY <1>2, <1>3, <1>4, <1>5, <1>6, <1>7, <1>8, <1>9, <1>10, <1>11, <1>12, <1>13, <1>14 DEF SessionStep

LEMMA DeleteStepType ==
  ASSUME TypeOK, NEW d \in Deletes, DeleteStep(d)
  PROVE  TypeOK'
  <1>1. dr[d] \in DeleteRequest /\ (dr[d].pc # "idle" => dr[d].identity \in Identities)
    BY DEF TypeOK, DeleteRequest
  <1> USE NoneAssumption, <1>1 DEF DeleteGoto, DeleteFault, kratos, tables, history
  <1>2. CASE DeleteReadsIndex(d)
    BY <1>2 DEF DeleteReadsIndex, TypeOK, DeleteRequest, DeletePc
  <1>3. CASE DeleteReadsUser(d)
    BY <1>3 DEF DeleteReadsUser, TypeOK, DeleteRequest, DeletePc
  <1>4. CASE DeleteReadFails(d)
    BY <1>4 DEF DeleteReadFails, TypeOK, DeleteRequest, DeletePc
  <1>5. CASE DeleteIdentity(d)
    BY <1>5 DEF DeleteIdentity, DropIdentity, TypeOK, DeleteRequest, DeletePc
  <1>6. CASE DeleteIdentityFails(d)
    <2>1. /\ live' \subseteq Identities /\ deleted' \subseteq Identities
          /\ holder' \in [Identifiers -> Identities \cup {None}]
          /\ traits' \in [Identities -> SUBSET Identifiers]
          /\ named' = named
      <3>1. DropIdentity(dr[d].identity) \/ UNCHANGED kratos
        BY <1>6 DEF DeleteIdentityFails
      <3>2. dr[d].identity \in Identities
        BY <1>6 DEF DeleteIdentityFails
      <3>3. CASE DropIdentity(dr[d].identity)
        BY <3>2, <3>3 DEF DropIdentity, TypeOK
      <3> QED BY <3>1, <3>3 DEF TypeOK
    <2>2. /\ dr' = [dr EXCEPT ![d].pc = "failed"] /\ dr[d].pc = "deleteIdentity"
          /\ faulted' = faulted \cup {dr[d].identity}
          /\ UNCHANGED <<tables, sr, overlapped>>
      BY <1>6 DEF DeleteIdentityFails
    <2> QED BY <2>1, <2>2 DEF TypeOK, DeleteRequest, DeletePc
  <1>7. CASE DeleteUserRow(d)
    BY <1>7 DEF DeleteUserRow, TypeOK, DeleteRequest, DeletePc
  <1>9. CASE DeleteIndexRow(d)
    BY <1>9 DEF DeleteIndexRow, TypeOK, DeleteRequest, DeletePc
  <1>8. CASE DeleteRowFails(d)
    <2>1. PICK pc \in {"deleteIndex", "answered"} :
            dr' = [dr EXCEPT ![d].pc = pc] /\ (pc = "deleteIndex" => dr[d].pc = "deleteUser")
      BY <1>8 DEF DeleteRowFails
    <2>2. /\ UNCHANGED <<kratos, tables, sr, overlapped>>
          /\ faulted' \subseteq Identities
      BY <1>8 DEF DeleteRowFails, TypeOK
    <2>3. dr[d].pc # "idle"
      BY <1>8 DEF DeleteRowFails
    <2> QED BY <2>1, <2>2, <2>3 DEF TypeOK, DeleteRequest, DeletePc
  <1> QED BY <1>2, <1>3, <1>4, <1>5, <1>6, <1>7, <1>8, <1>9 DEF DeleteStep

LEMMA NextType == TypeOK /\ [Next]_vars => TypeOK'
  <1> SUFFICES ASSUME TypeOK, [Next]_vars PROVE TypeOK'
    OBVIOUS
  <1> USE NoneAssumption DEF kratos, tables, history
  <1>1. ASSUME NEW i \in Identities, NEW X \in SUBSET Identifiers, Register(i, X) PROVE TypeOK'
    <2>1. {x \in X : MethodOf[x] \in TraitMethods} \in SUBSET Identifiers
      OBVIOUS
    <2> QED BY <1>1, <2>1 DEF TypeOK, Register, Names
  <1>7. ASSUME NEW i \in Identities, NEW X \in SUBSET Identifiers, Profile(i, X) PROVE TypeOK'
    BY <1>7 DEF TypeOK, Profile, Names
  <1>8. ASSUME NEW i \in Identities, NEW x \in Identifiers, Link(x, i) PROVE TypeOK'
    BY <1>8 DEF TypeOK, Link, Names
  <1>2. ASSUME NEW x \in Identifiers, Unlink(x) PROVE TypeOK'
    BY <1>2 DEF TypeOK, Unlink
  <1>3. ASSUME NEW i \in Identities, NEW w \in Sessions, SessionWhoAmI(w, i) PROVE TypeOK'
    <2>1. traits[i] \subseteq Identifiers
      BY DEF TypeOK
    <2>2. sr'[w] = [sr[w] EXCEPT !.pc = "readIndex", !.identity = i, !.traits = traits[i]]
          /\ \A v \in Sessions : v # w => sr'[v] = sr[v]
      BY <1>3 DEF SessionWhoAmI, TypeOK
    <2>3. sr'[w] \in SessionRequest /\ sr'[w].pc = "readIndex" /\ sr'[w].identity = i
      <3>1. sr[w] \in SessionRequest
        BY DEF TypeOK
      <3> DEFINE X == traits[i]
      <3>2. X \in SUBSET Identifiers
        BY <2>1
      <3> HIDE DEF X
      <3>3. [sr[w] EXCEPT !.pc = "readIndex", !.identity = i, !.traits = X] \in SessionRequest
        BY <3>1, <3>2 DEF SessionRequest, SessionPc
      <3>4. sr'[w].pc = "readIndex" /\ sr'[w].identity = i
        BY <2>2, <3>1 DEF SessionRequest
      <3> QED BY <2>2, <3>3, <3>4 DEF X
    <2>4. sr' \in [Sessions -> SessionRequest]
      BY <1>3, <2>2, <2>3 DEF SessionWhoAmI, TypeOK
    <2>5. UNCHANGED <<kratos, tables, dr>> /\ overlapped' \subseteq Identities /\ faulted' = faulted
      BY <1>3 DEF SessionWhoAmI, TypeOK
    <2> QED BY ZenonT(40), <2>2, <2>3, <2>4, <2>5 DEF TypeOK
  <1>4. ASSUME NEW i \in Identities, NEW d \in Deletes, DeleteWhoAmI(d, i) PROVE TypeOK'
    <2>1. dr[d] \in DeleteRequest
      BY DEF TypeOK
    <2>2. [dr[d] EXCEPT !.pc = "readIndex", !.identity = i] \in DeleteRequest
      BY <2>1 DEF DeleteRequest, DeletePc
    <2>3. /\ dr' \in [Deletes -> DeleteRequest]
          /\ \A e \in Deletes : e # d => dr'[e] = dr[e]
          /\ dr'[d].pc = "readIndex" /\ dr'[d].identity = i
      BY <1>4, <2>1, <2>2 DEF DeleteWhoAmI, TypeOK, DeleteRequest
    <2>4. UNCHANGED <<kratos, tables, sr, faulted>> /\ overlapped' \subseteq Identities
      BY <1>4 DEF DeleteWhoAmI, TypeOK
    <2> QED BY <2>3, <2>4 DEF TypeOK
  <1>5. CASE Restart
    <2>1. ASSUME NEW w \in Sessions
          PROVE  sr'[w] \in SessionRequest /\ (sr'[w] = sr[w] \/ (sr'[w].pc = "failed" /\ sr'[w].identity # None))
      BY SMTT(40), <1>5 DEF TypeOK, Restart, SessionRunning, SessionRequest, SessionPc
    <2>2. ASSUME NEW d \in Deletes
          PROVE  dr'[d] \in DeleteRequest /\ (dr'[d] = dr[d] \/ (dr'[d].pc = "failed" /\ dr'[d].identity # None))
      BY <1>5 DEF TypeOK, Restart, DeleteRunning, DeleteRequest, DeletePc
    <2>3. sr' \in [Sessions -> SessionRequest] /\ dr' \in [Deletes -> DeleteRequest]
      BY <1>5, <2>1, <2>2 DEF Restart
    <2>4. UNCHANGED <<kratos, tables, overlapped>> /\ faulted' \subseteq Identities
      BY <1>5 DEF Restart, TypeOK
    <2>5. ASSUME NEW w \in Sessions
          PROVE  /\ sr'[w].pc # "idle" => sr'[w].identity # None
                 /\ sr'[w].pc \in {"readUser", "putIndex", "readAdmin", "putIdentifiers", "answered"}
                       => sr'[w].user # None
      BY <2>1 DEF TypeOK
    <2>6. ASSUME NEW d \in Deletes
          PROVE  /\ dr'[d].pc # "idle" => dr'[d].identity # None
                 /\ dr'[d].pc \in {"readUser", "deleteUser", "deleteIndex"} => dr'[d].user # None
      BY <2>2 DEF TypeOK
    <2> QED BY <2>3, <2>4, <2>5, <2>6 DEF TypeOK
  <1>6. CASE UNCHANGED vars
    BY <1>6 DEF TypeOK, vars
  <1> QED BY <1>1, <1>2, <1>3, <1>4, <1>5, <1>6, <1>7, <1>8, SessionStepType, DeleteStepType DEF Next

\* Every variable of the directory and its requests keeps its type.
THEOREM TypeCorrect == Spec => []TypeOK
  BY InitType, NextType, PTL DEF Spec

-----------------------------------------------------------------------------
LEMMA InitOwner == Init => OwnerInv
  BY DEF Init, OwnerInv

\* A user id is entered anywhere only under the identity it was drawn for.
LEMMA NextOwner == TypeOK /\ TypeOK' /\ OwnerInv /\ [Next]_vars => OwnerInv'
  <1> SUFFICES ASSUME TypeOK, TypeOK', OwnerInv, [Next]_vars PROVE OwnerInv'
    OBVIOUS
  <1> USE DEF SessionGoto, DeleteGoto, kratos, tables, history
  <1> DEFINE Holds == {"readUser", "putIndex", "readAdmin", "putIdentifiers", "answered"}
  \* Steps that draw no user id and enter none anywhere.
  <1>1. ASSUME users' \subseteq users, owner' = owner,
               \A i \in Identities : index'[i] \in {index[i], None},
               \A w \in Sessions : sr'[w].pc \in Holds =>
                  /\ sr[w].pc \in Holds \/ (sr[w].pc = "readIndex" /\ sr'[w].user = index[sr[w].identity])
                  /\ sr'[w].user # None
                  /\ sr[w].pc \in Holds => sr'[w].user = sr[w].user
                  /\ sr'[w].identity = sr[w].identity
        PROVE  OwnerInv'
    <2>1. ASSUME NEW w \in Sessions, sr'[w].pc \in Holds PROVE owner'[sr'[w].user] = sr'[w].identity
      <3>1. sr[w].pc = "readIndex" => sr[w].identity \in Identities
        BY DEF TypeOK, SessionRequest
      <3> QED BY <1>1, <2>1, <3>1 DEF OwnerInv
    <2> QED BY <1>1, <2>1 DEF OwnerInv
  <1>2. ASSUME NEW w \in Sessions, SessionStep(w) PROVE OwnerInv'
    <2>1. sr[w] \in SessionRequest /\ (sr[w].pc # "idle" => sr[w].identity \in Identities)
      BY DEF TypeOK, SessionRequest
    <2>2. ASSUME NEW u \in UserIds, SessionPutsUser(w, u) \/ SessionPutUserFails(w, u) PROVE OwnerInv'
      <3>1. /\ owner[u] = None /\ owner' = [owner EXCEPT ![u] = sr[w].identity]
            /\ \A rec \in users' : rec \in users \/ rec = [userId |-> u, identity |-> sr[w].identity]
            /\ index' = index
            /\ \A v \in Sessions : v # w => sr'[v] = sr[v]
            /\ sr'[w].identity = sr[w].identity /\ sr[w].identity \in Identities
            /\ sr'[w].pc \in Holds => sr'[w].user = u
        BY <2>1, <2>2 DEF SessionPutsUser, SessionPutUserFails, TypeOK, SessionRequest
      <3>2. owner'[u] = sr[w].identity /\ \A v \in UserIds : v # u => owner'[v] = owner[v]
        BY <3>1 DEF TypeOK
      <3>3. \A i \in Identities : index[i] # None => index[i] \in UserIds /\ index[i] # u
        BY <3>1, NoneAssumption DEF TypeOK, OwnerInv
      <3>4. \A rec \in users : rec.userId \in UserIds /\ rec.userId # u
        BY <3>1, NoneAssumption DEF TypeOK, OwnerInv, User
      <3>5. ASSUME NEW v \in Sessions, v # w, sr[v].pc \in Holds
            PROVE  owner'[sr[v].user] = sr[v].identity
        <4>1. sr[v].user \in UserIds /\ sr[v].identity \in Identities
          BY <3>5 DEF TypeOK, SessionRequest
        <4>2. owner[sr[v].user] = sr[v].identity
          BY <3>5 DEF OwnerInv
        <4> QED BY <3>1, <3>2, <4>1, <4>2, NoneAssumption
      <3>6. \A rec \in users' : owner'[rec.userId] = rec.identity
        BY <3>1, <3>2, <3>4 DEF OwnerInv
      <3>7. \A i \in Identities : index'[i] # None => owner'[index'[i]] = i
        BY <3>1, <3>2, <3>3 DEF OwnerInv
      <3>8. ASSUME NEW v \in Sessions, sr'[v].pc \in Holds PROVE owner'[sr'[v].user] = sr'[v].identity
        BY <3>1, <3>2, <3>5, <3>8
      <3> QED BY <3>6, <3>7, <3>8 DEF OwnerInv
    <2>3. CASE SessionPutsIndex(w) \/ SessionPutIndexFails(w)
      <3>1. sr[w].pc = "putIndex" /\ owner[sr[w].user] = sr[w].identity
        BY <2>3 DEF SessionPutsIndex, SessionPutIndexFails, OwnerInv
      <3>2. /\ users' = users /\ owner' = owner
            /\ \A i \in Identities : index'[i] = index[i] \/ (i = sr[w].identity /\ index'[i] = sr[w].user)
            /\ \A v \in Sessions : sr'[v].user = sr[v].user /\ sr'[v].identity = sr[v].identity
            /\ \A v \in Sessions : sr'[v].pc \in Holds => sr[v].pc \in Holds
        <4>1. PICK pc \in {"readAdmin", "failed"} : SessionGoto(w, pc)
          BY <2>3 DEF SessionPutsIndex, SessionPutIndexFails
        <4>2. \A v \in Sessions :
                /\ sr'[v].user = sr[v].user /\ sr'[v].identity = sr[v].identity
                /\ sr'[v].pc \in Holds => sr[v].pc \in Holds
          BY <2>1, <3>1, <4>1 DEF TypeOK, SessionRequest
        <4>3. /\ users' = users /\ owner' = owner
              /\ \A i \in Identities : index'[i] = index[i] \/ (i = sr[w].identity /\ index'[i] = sr[w].user)
          BY <2>1, <2>3 DEF SessionPutsIndex, SessionPutIndexFails, TypeOK
        <4> QED BY <4>2, <4>3
      <3> QED BY <3>1, <3>2 DEF OwnerInv
    <2>4. CASE SessionReadsIndex(w)
      BY <1>1, <2>1, <2>4 DEF SessionReadsIndex, TypeOK, SessionRequest
    <2>5. CASE SessionMissesIndex(w) \/ SessionReadsUser(w) \/ SessionMissesUser(w) \/ SessionReadFails(w)
      <3>1. UNCHANGED tables
        BY <2>5 DEF SessionMissesIndex, SessionReadsUser, SessionMissesUser, SessionReadFails
      <3>2. \A v \in Sessions : sr'[v].user = sr[v].user /\ sr'[v].identity = sr[v].identity
        BY SMTT(40), <2>5 DEF SessionMissesIndex, SessionReadsUser, SessionMissesUser,
                              SessionReadFails, TypeOK, SessionRequest
      <3>3. \A v \in Sessions : sr'[v].pc \in Holds => sr[v].pc \in Holds
        BY SMTT(40), <2>5 DEF SessionMissesIndex, SessionReadsUser, SessionMissesUser,
                              SessionReadFails, TypeOK, SessionRequest
      <3> QED BY <3>1, <3>2, <3>3 DEF OwnerInv
    <2>6. CASE SessionReadsAdmin(w)
      BY <1>1, <2>1, <2>6 DEF SessionReadsAdmin, TypeOK, SessionRequest
    <2>7. CASE SessionReadAdminFails(w) \/ SessionAnswers(w) \/ \E x \in Identifiers : SessionPutsIdentifier(w, x)
      <3>1. UNCHANGED <<users, index, owner>>
        BY <2>7 DEF SessionReadAdminFails, SessionAnswers, SessionPutsIdentifier
      <3>2. \A v \in Sessions :
              /\ sr'[v].user = sr[v].user /\ sr'[v].identity = sr[v].identity
              /\ sr'[v].pc \in Holds => sr[v].pc \in Holds
        BY <2>7 DEF SessionReadAdminFails, SessionAnswers, SessionPutsIdentifier, TypeOK, SessionRequest
      <3> QED BY <3>1, <3>2 DEF OwnerInv
    <2> QED BY <1>2, <2>2, <2>3, <2>4, <2>5, <2>6, <2>7 DEF SessionStep
  <1>3. ASSUME NEW d \in Deletes, DeleteStep(d) PROVE OwnerInv'
    <2>1. /\ users' \subseteq users /\ owner' = owner /\ sr' = sr
          /\ \A i \in Identities : index'[i] \in {index[i], None}
      <3>1. CASE DeleteReadsIndex(d) \/ DeleteReadsUser(d) \/ DeleteReadFails(d)
        BY <3>1 DEF DeleteReadsIndex, DeleteReadsUser, DeleteReadFails
      <3>2. CASE DeleteIdentity(d) \/ DeleteIdentityFails(d)
        BY <3>2 DEF DeleteIdentity, DeleteIdentityFails
      <3>3. CASE DeleteUserRow(d) \/ DeleteIndexRow(d) \/ DeleteRowFails(d)
        BY <3>3 DEF DeleteUserRow, DeleteIndexRow, DeleteRowFails, TypeOK
      <3> QED BY <1>3, <3>1, <3>2, <3>3 DEF DeleteStep
    <2> QED BY <2>1 DEF OwnerInv
  <1>4. ASSUME NEW i \in Identities, NEW w \in Sessions, SessionWhoAmI(w, i) PROVE OwnerInv'
    <2>1. /\ UNCHANGED tables
          /\ sr'[w].pc = "readIndex"
          /\ \A v \in Sessions : v # w => sr'[v] = sr[v]
      BY <1>4 DEF SessionWhoAmI, TypeOK, SessionRequest
    <2> QED BY <2>1 DEF OwnerInv
  <1>5. CASE Restart
    <2>1. UNCHANGED tables /\ \A w \in Sessions : sr'[w] = sr[w] \/ sr'[w].pc = "failed"
      BY <1>5 DEF Restart, TypeOK, SessionRequest
    <2> QED BY <2>1 DEF OwnerInv
  <1>6. CASE UNCHANGED tables /\ sr' = sr
    BY <1>6 DEF OwnerInv
  <1> QED BY <1>2, <1>3, <1>4, <1>5, <1>6 DEF Next, vars, Register, Profile, Link, Unlink, DeleteWhoAmI

-----------------------------------------------------------------------------
(* What a step of a request leaves alone.                                  *)

LEMMA SessionStepEffect ==
  ASSUME TypeOK, NEW w \in Sessions, SessionStep(w)
  PROVE  /\ SessionRunning(w)
         /\ UNCHANGED <<live, deleted, dr, overlapped>>
         /\ faulted \subseteq faulted'
         /\ sr'[w].identity = sr[w].identity
         /\ \A v \in Sessions : v # w => sr'[v] = sr[v]
         /\ \A j \in Identities : j # sr[w].identity =>
               index'[j] = index[j] /\ Rows(j)' = Rows(j)
  <1>1. sr[w] \in SessionRequest
    BY DEF TypeOK
  <1> USE <1>1 DEF SessionGoto, SessionFault, kratos, tables, history
  <1>2. CASE SessionReadsIndex(w) \/ SessionMissesIndex(w) \/ SessionReadsUser(w) \/ SessionMissesUser(w)
    BY <1>2 DEF SessionReadsIndex, SessionMissesIndex, SessionReadsUser, SessionMissesUser,
                SessionRunning, TypeOK, SessionRequest, Rows
  <1>3. CASE SessionReadFails(w)
    BY <1>3 DEF SessionReadFails, SessionRunning, TypeOK, SessionRequest, Rows
  <1>4. ASSUME NEW u \in UserIds, SessionPutsUser(w, u) \/ SessionPutUserFails(w, u)
        PROVE  /\ SessionRunning(w)
               /\ UNCHANGED <<live, deleted, dr, overlapped>>
               /\ faulted \subseteq faulted'
               /\ sr'[w].identity = sr[w].identity
               /\ \A v \in Sessions : v # w => sr'[v] = sr[v]
               /\ \A j \in Identities : j # sr[w].identity =>
                     index'[j] = index[j] /\ Rows(j)' = Rows(j)
    <2>1. /\ SessionRunning(w)
          /\ UNCHANGED <<live, deleted, index, dr, overlapped>>
          /\ faulted \subseteq faulted'
      BY <1>4 DEF SessionPutsUser, SessionPutUserFails, SessionRunning
    <2>2. sr'[w].identity = sr[w].identity /\ \A v \in Sessions : v # w => sr'[v] = sr[v]
      BY <1>4 DEF SessionPutsUser, SessionPutUserFails, TypeOK, SessionRequest
    <2>3. users' \in {users, users \cup {[userId |-> u, identity |-> sr[w].identity]}}
      BY <1>4 DEF SessionPutsUser, SessionPutUserFails
    <2>4. \A j \in Identities : j # sr[w].identity => Rows(j)' = Rows(j)
      BY <2>3 DEF Rows
    <2> QED BY <2>1, <2>2, <2>4
  <1>5. CASE SessionPutsIndex(w) \/ SessionPutIndexFails(w)
    <2>1. /\ SessionRunning(w)
          /\ UNCHANGED <<live, deleted, users, dr, overlapped>>
          /\ faulted \subseteq faulted'
          /\ index' \in {index, [index EXCEPT ![sr[w].identity] = sr[w].user]}
      BY <1>5 DEF SessionPutsIndex, SessionPutIndexFails, SessionRunning
    <2>2. sr'[w].identity = sr[w].identity /\ \A v \in Sessions : v # w => sr'[v] = sr[v]
      BY <1>5 DEF SessionPutsIndex, SessionPutIndexFails, TypeOK, SessionRequest
    <2> QED BY <2>1, <2>2 DEF TypeOK, Rows
  <1>6. CASE SessionReadsAdmin(w)
    BY <1>6 DEF SessionReadsAdmin, SessionRunning, TypeOK, SessionRequest, Rows
  <1>7. CASE SessionReadAdminFails(w) \/ SessionAnswers(w)
    BY <1>7 DEF SessionReadAdminFails, SessionAnswers, SessionRunning, TypeOK, SessionRequest, Rows
  <1>8. CASE \E x \in Identifiers : SessionPutsIdentifier(w, x)
    BY <1>8 DEF SessionPutsIdentifier, SessionRunning, TypeOK, SessionRequest, Rows
  <1> QED BY <1>2, <1>3, <1>4, <1>5, <1>6, <1>7, <1>8 DEF SessionStep

LEMMA DeleteStepEffect ==
  ASSUME TypeOK, NEW d \in Deletes, DeleteStep(d)
  PROVE  /\ DeleteRunning(d)
         /\ UNCHANGED <<sr, owner, overlapped>>
         /\ faulted \subseteq faulted'
         /\ dr'[d].identity = dr[d].identity
         /\ \A e \in Deletes : e # d => dr'[e] = dr[e]
         /\ live' \in {live, live \ {dr[d].identity}}
         /\ deleted' \in {deleted, deleted \cup {dr[d].identity}}
         /\ live' = live \/ deleted' = deleted \cup {dr[d].identity}
         /\ deleted' = deleted \/ live' = live \ {dr[d].identity}
         /\ \A j \in Identities : j # dr[d].identity => index'[j] = index[j]
         /\ users' \in {users, {rec \in users : rec.userId # dr[d].user}}
         /\ users' # users => dr[d].pc = "deleteUser"
         /\ dr'[d].user # dr[d].user =>
               \/ dr'[d].user = None
               \/ dr[d].pc = "readIndex" /\ dr'[d].user = index[dr[d].identity]
  <1>1. dr[d] \in DeleteRequest
    BY DEF TypeOK
  <1> USE <1>1 DEF DeleteGoto, DeleteFault, kratos, tables, history
  <1>2. CASE DeleteReadsIndex(d)
    BY <1>2 DEF DeleteReadsIndex, DeleteRunning, TypeOK, DeleteRequest
  <1>3. CASE DeleteReadsUser(d)
    BY <1>3 DEF DeleteReadsUser, DeleteRunning, TypeOK, DeleteRequest
  <1>4. CASE DeleteReadFails(d)
    BY <1>4 DEF DeleteReadFails, DeleteRunning, TypeOK, DeleteRequest
  <1>5. CASE DeleteIdentity(d)
    BY <1>5 DEF DeleteIdentity, DropIdentity, DeleteRunning, TypeOK, DeleteRequest
  <1>6. CASE DeleteIdentityFails(d)
    BY <1>6 DEF DeleteIdentityFails, DropIdentity, DeleteRunning, TypeOK, DeleteRequest
  <1>7. CASE DeleteUserRow(d)
    BY <1>7 DEF DeleteUserRow, DeleteRunning, TypeOK, DeleteRequest
  <1>8. CASE DeleteIndexRow(d)
    BY <1>8 DEF DeleteIndexRow, DeleteRunning, TypeOK, DeleteRequest
  <1>9. CASE DeleteRowFails(d)
    BY <1>9 DEF DeleteRowFails, DeleteRunning, TypeOK, DeleteRequest
  <1> QED BY <1>2, <1>3, <1>4, <1>5, <1>6, <1>7, <1>8, <1>9 DEF DeleteStep

\* A user id never changes hands.
LEMMA OwnerKept ==
  ASSUME TypeOK, [Next]_vars, NEW u \in UserIds, owner[u] # None
  PROVE  owner'[u] = owner[u]
  <1> USE DEF kratos, tables, history
  <1>1. ASSUME NEW w \in Sessions, NEW v \in UserIds, SessionPutsUser(w, v) \/ SessionPutUserFails(w, v)
        PROVE  owner'[u] = owner[u]
    BY <1>1 DEF SessionPutsUser, SessionPutUserFails, TypeOK
  <1>2. ASSUME NEW w \in Sessions, SessionStep(w) PROVE owner'[u] = owner[u]
    <2>1. CASE \E v \in UserIds : SessionPutsUser(w, v) \/ SessionPutUserFails(w, v)
      BY <1>1, <2>1
    <2>2. CASE ~\E v \in UserIds : SessionPutsUser(w, v) \/ SessionPutUserFails(w, v)
      BY <1>2, <2>2 DEF SessionStep, SessionReadsIndex, SessionMissesIndex, SessionReadsUser,
         SessionMissesUser, SessionReadFails, SessionPutsIndex, SessionPutIndexFails, SessionReadsAdmin,
         SessionReadAdminFails, SessionPutsIdentifier, SessionAnswers
    <2> QED BY <2>1, <2>2
  <1>3. ASSUME NEW d \in Deletes, DeleteStep(d) PROVE owner'[u] = owner[u]
    BY <1>3, DeleteStepEffect
  <1>4. CASE UNCHANGED owner
    BY <1>4
  <1> QED
    BY <1>2, <1>3, <1>4 DEF Next, Register, Profile, Link, Unlink, SessionWhoAmI, DeleteWhoAmI, Restart, vars

-----------------------------------------------------------------------------
(* Identifiers lead to identities that named them.                         *)

LEMMA InitNamed == Init => NamedInv /\ IdentifierWasNamed
  BY DEF Init, NamedInv, IdentifierWasNamed

\* Whoever gets an identifier, as a credential or a trait, is remembered.
LEMMA HolderEffect ==
  ASSUME TypeOK, [Next]_vars, NEW x \in Identifiers
  PROVE  /\ named[x] \subseteq named'[x]
         /\ holder'[x] # None => holder'[x] = holder[x] \/ holder'[x] \in named'[x]
         /\ \A j \in Identities : x \in traits'[j] => x \in traits[j] \/ j \in named'[x]
  <1> USE DEF kratos, tables, history
  <1> DEFINE Remembers ==
        /\ named[x] \subseteq named'[x]
        /\ holder'[x] # None => holder'[x] = holder[x] \/ holder'[x] \in named'[x]
        /\ \A j \in Identities : x \in traits'[j] => x \in traits[j] \/ j \in named'[x]
  <1>1. ASSUME NEW i \in Identities, NEW y \in Identifiers, Link(y, i) PROVE Remembers
    BY <1>1 DEF Link, Names, TypeOK
  <1>8. ASSUME NEW i \in Identities, NEW X \in SUBSET Identifiers, Register(i, X) PROVE Remembers
    <2>1. holder'[x] = (IF x \in X THEN i ELSE holder[x])
          /\ named'[x] = (IF x \in X THEN named[x] \cup {i} ELSE named[x])
      BY <1>8 DEF Register, Names
    <2>2. ASSUME NEW j \in Identities, x \in traits'[j] PROVE x \in traits[j] \/ (j = i /\ x \in X)
      BY <1>8, <2>2 DEF Register, TypeOK
    <2> QED BY <2>1, <2>2
  <1>9. ASSUME NEW i \in Identities, NEW X \in SUBSET Identifiers, Profile(i, X) PROVE Remembers
    <2>1. holder'[x] \in {holder[x], None} \/ (holder'[x] = i /\ x \in X)
      BY <1>9 DEF Profile
    <2>2. named'[x] = (IF x \in X THEN named[x] \cup {i} ELSE named[x])
      BY <1>9 DEF Profile, Names
    <2>3. ASSUME NEW j \in Identities, x \in traits'[j] PROVE x \in traits[j] \/ (j = i /\ x \in X)
      BY <1>9, <2>3 DEF Profile, TypeOK
    <2> QED BY <2>1, <2>2, <2>3
  <1>2. ASSUME named' = named, holder'[x] \in {holder[x], None},
               \A j \in Identities : traits'[j] \subseteq traits[j]
        PROVE  Remembers
    BY <1>2
  <1>3. ASSUME NEW y \in Identifiers, Unlink(y) PROVE Remembers
    BY <1>2, <1>3 DEF Unlink, TypeOK
  <1>4. ASSUME NEW d \in Deletes, DeleteStep(d) PROVE Remembers
    <2>1. CASE DeleteIdentity(d) \/ DeleteIdentityFails(d)
      <3>1. DropIdentity(dr[d].identity) \/ UNCHANGED kratos
        BY <2>1 DEF DeleteIdentity, DeleteIdentityFails
      <3> QED BY <1>2, <3>1 DEF DropIdentity, TypeOK
    <2>2. CASE ~(DeleteIdentity(d) \/ DeleteIdentityFails(d))
      <3>1. UNCHANGED kratos
        BY <1>4, <2>2 DEF DeleteStep, DeleteReadsIndex, DeleteReadsUser, DeleteReadFails, DeleteUserRow,
           DeleteIndexRow, DeleteRowFails
      <3> QED BY <1>2, <3>1
    <2> QED BY <2>1, <2>2
  <1>5. ASSUME NEW w \in Sessions, SessionStep(w) PROVE UNCHANGED <<named, traits, holder>>
    BY <1>5 DEF SessionStep, SessionReadsIndex, SessionMissesIndex, SessionReadsUser,
       SessionMissesUser, SessionReadFails, SessionPutsUser, SessionPutUserFails, SessionPutsIndex,
       SessionPutIndexFails, SessionReadsAdmin, SessionReadAdminFails, SessionPutsIdentifier,
       SessionAnswers
  <1>6. ASSUME NEW i \in Identities,
               (\E w \in Sessions : SessionWhoAmI(w, i)) \/ (\E d \in Deletes : DeleteWhoAmI(d, i))
        PROVE  UNCHANGED <<named, traits, holder>>
    BY <1>6 DEF SessionWhoAmI, DeleteWhoAmI
  <1>7. ASSUME Restart \/ UNCHANGED vars PROVE Remembers
    <2>1. UNCHANGED <<named, traits, holder>>
      BY <1>7 DEF Restart, vars
    <2> QED BY <1>2, <2>1
  <1> HIDE DEF Remembers
  <1>10. ASSUME UNCHANGED <<named, traits, holder>> PROVE Remembers
    BY <1>10 DEF Remembers
  <1>12. ASSUME NEW i \in Identities,
                \/ \E X \in SUBSET Identifiers : Register(i, X) \/ Profile(i, X)
                \/ \E y \in Identifiers : Link(y, i)
                \/ \E w \in Sessions : SessionWhoAmI(w, i)
                \/ \E d \in Deletes : DeleteWhoAmI(d, i)
         PROVE  Remembers
    BY <1>1, <1>6, <1>8, <1>9, <1>10, <1>12
  <1>13. ASSUME \E w \in Sessions : SessionStep(w) PROVE Remembers
    BY <1>5, <1>10, <1>13
  <1>11. Remembers
    BY <1>3, <1>4, <1>7, <1>12, <1>13 DEF Next
  <1> QED BY <1>11 DEF Remembers

\* Traits and rows still to be put only shrink, unless a request reads them anew.
LEMMA SessionHolds ==
  ASSUME TypeOK, NamedInv, [Next]_vars, NEW w \in Sessions, NEW x \in sr'[w].traits \cup sr'[w].todo,
         x \in Identifiers
  PROVE  sr'[w].pc # "idle" /\ sr'[w].identity \in named[x]
  <1> USE DEF kratos, tables, history
  <1>0. sr[w] \in SessionRequest
    BY DEF TypeOK
  <1>1. ASSUME sr'[w].identity = sr[w].identity, sr'[w].traits = sr[w].traits,
               sr'[w].todo \subseteq sr[w].todo, sr[w].pc # "idle" => sr'[w].pc # "idle"
        PROVE  sr'[w].pc # "idle" /\ sr'[w].identity \in named[x]
    BY <1>1 DEF NamedInv
  <1>2. ASSUME NEW v \in Sessions, v # w, SessionStep(v) PROVE sr'[w] = sr[w]
    BY <1>2, SessionStepEffect
  <1>3. CASE SessionReadsAdmin(w)
    <2>1. PICK X \in SUBSET Identifiers :
             /\ sr' = [sr EXCEPT ![w].pc = "putIdentifiers", ![w].todo = X]
             /\ X \subseteq Held(sr[w].identity) \cup sr[w].traits
      BY <1>0, <1>3 DEF SessionReadsAdmin, Held, SessionRequest
    <2>2. sr'[w].identity = sr[w].identity /\ sr'[w].traits = sr[w].traits /\ sr'[w].todo = X
          /\ sr'[w].pc # "idle" /\ sr[w].identity # None
      <3>1. sr'[w].identity = sr[w].identity /\ sr'[w].traits = sr[w].traits /\ sr'[w].todo = X
            /\ sr'[w].pc # "idle"
        <4> DEFINE rec == [sr[w] EXCEPT !.pc = "putIdentifiers", !.todo = X]
        <4>1. rec.identity = sr[w].identity /\ rec.traits = sr[w].traits /\ rec.todo = X
              /\ rec.pc # "idle"
          BY <1>0 DEF SessionRequest
        <4>2. sr'[w] = rec
          BY <2>1 DEF TypeOK
        <4> QED BY <4>1, <4>2
      <3>2. sr[w].identity # None
        BY <1>3 DEF SessionReadsAdmin, TypeOK
      <3> QED BY <3>1, <3>2
    <2>3. x \in Held(sr[w].identity) \/ x \in sr[w].traits
      BY <2>1, <2>2
    <2> QED BY <2>2, <2>3 DEF NamedInv, Held
  <1>4. CASE SessionStep(w) /\ ~SessionReadsAdmin(w)
    <2>1. sr'[w].identity = sr[w].identity /\ sr'[w].traits = sr[w].traits
          /\ sr'[w].todo \subseteq sr[w].todo /\ sr'[w].pc # "idle"
      <3>1. ASSUME NEW pc \in SessionPc \ {"idle"}, SessionGoto(w, pc)
            PROVE  /\ sr'[w].identity = sr[w].identity /\ sr'[w].traits = sr[w].traits
                   /\ sr'[w].todo \subseteq sr[w].todo /\ sr'[w].pc # "idle"
        BY <1>0, <3>1 DEF SessionGoto, TypeOK, SessionRequest
      <3>2. CASE SessionMissesIndex(w) \/ SessionReadsUser(w) \/ SessionMissesUser(w) \/ SessionReadFails(w)
        BY <3>1, <3>2 DEF SessionMissesIndex, SessionReadsUser, SessionMissesUser, SessionReadFails, SessionPc
      <3>3. CASE \/ SessionPutsIndex(w) \/ SessionPutIndexFails(w) \/ SessionReadAdminFails(w)
                 \/ SessionAnswers(w) \/ \E u \in UserIds : SessionPutUserFails(w, u)
        BY <3>1, <3>3 DEF SessionPutsIndex, SessionPutIndexFails, SessionReadAdminFails, SessionAnswers,
           SessionPutUserFails, SessionPc
      <3>4. CASE SessionReadsIndex(w) \/ \E u \in UserIds : SessionPutsUser(w, u)
        BY <1>0, <3>4 DEF SessionReadsIndex, SessionPutsUser, TypeOK, SessionRequest
      <3>5. CASE \E y \in Identifiers : SessionPutsIdentifier(w, y)
        BY <1>0, <3>5 DEF SessionPutsIdentifier, TypeOK, SessionRequest
      <3> QED BY <1>4, <3>2, <3>3, <3>4, <3>5 DEF SessionStep
    <2> QED BY <1>1, <2>1
  <1>5. ASSUME NEW i \in Identities, SessionWhoAmI(w, i)
        PROVE  sr'[w].pc # "idle" /\ sr'[w].identity \in named[x]
    <2> DEFINE X == traits[i]
    <2>1. sr' = [sr EXCEPT ![w].pc = "readIndex", ![w].identity = i, ![w].traits = X]
      BY <1>5 DEF SessionWhoAmI
    <2>2. X \subseteq Identifiers
      BY DEF TypeOK
    <2> HIDE DEF X
    <2>3. sr'[w].pc = "readIndex" /\ sr'[w].identity = i /\ sr'[w].traits = X /\ sr'[w].todo = sr[w].todo
      BY <1>0, <2>1 DEF TypeOK, SessionRequest
    <2>4. sr[w].pc = "idle"
      BY <1>5 DEF SessionWhoAmI
    <2> QED BY <2>3, <2>4, NoneAssumption DEF NamedInv, X
  <1>6. ASSUME NEW i \in Identities, NEW v \in Sessions, v # w, SessionWhoAmI(v, i) PROVE sr'[w] = sr[w]
    BY <1>6 DEF SessionWhoAmI, TypeOK
  <1>7. CASE Restart
    <2>1. /\ sr'[w].identity = sr[w].identity /\ sr'[w].traits = sr[w].traits /\ sr'[w].todo = sr[w].todo
          /\ sr[w].pc # "idle" => sr'[w].pc # "idle"
      BY <1>0, <1>7 DEF Restart, SessionRequest
    <2> QED BY <1>1, <2>1
  <1>8. CASE UNCHANGED sr
    BY <1>1, <1>8
  <1>9. ASSUME NEW d \in Deletes, DeleteStep(d) PROVE UNCHANGED sr
    BY <1>9, DeleteStepEffect
  <1> QED BY <1>1, <1>2, <1>3, <1>4, <1>5, <1>6, <1>7, <1>8, <1>9
          DEF Next, Register, Profile, Link, Unlink, DeleteWhoAmI, vars

LEMMA NextNamed ==
  ASSUME TypeOK, TypeOK', OwnerInv, NamedInv, IdentifierWasNamed, [Next]_vars
  PROVE  NamedInv' /\ IdentifierWasNamed'
  <1>1. ASSUME NEW x \in Identifiers, holder'[x] # None PROVE holder'[x] \in named'[x]
    BY <1>1, HolderEffect DEF NamedInv
  <1>4. ASSUME NEW i \in Identities, NEW x \in traits'[i] PROVE i \in named'[x]
    <2>1. x \in Identifiers
      BY DEF TypeOK
    <2> QED BY <2>1, HolderEffect DEF NamedInv
  <1>2. ASSUME NEW w \in Sessions, NEW x \in sr'[w].traits \cup sr'[w].todo
        PROVE  sr'[w].pc # "idle" /\ sr'[w].identity \in named'[x]
    <2>1. x \in Identifiers
      BY DEF TypeOK, SessionRequest
    <2> QED BY <2>1, SessionHolds, HolderEffect
  <1>3. ASSUME NEW x \in Identifiers, identifiers'[x] # None
        PROVE  owner'[identifiers'[x]] \in named'[x]
    <2>1. CASE identifiers'[x] = identifiers[x]
      <3>1. identifiers[x] \in UserIds /\ owner[identifiers[x]] \in named[x]
        BY <1>3, <2>1 DEF TypeOK, IdentifierWasNamed
      <3>2. owner[identifiers[x]] # None
        BY <3>1, NoneAssumption DEF TypeOK
      <3> QED BY <2>1, <3>1, <3>2, OwnerKept, HolderEffect
    <2>2. CASE identifiers'[x] # identifiers[x]
      <3>1. PICK w \in Sessions : SessionPutsIdentifier(w, x)
        <4> USE DEF kratos, tables, history
        <4>1. ASSUME NEW v \in Sessions, SessionStep(v) PROVE SessionPutsIdentifier(v, x)
          <5>1. \E y \in Identifiers : SessionPutsIdentifier(v, y)
            BY <2>2, <4>1 DEF SessionStep, SessionReadsIndex, SessionMissesIndex, SessionReadsUser,
               SessionMissesUser, SessionReadFails, SessionPutsUser, SessionPutUserFails,
               SessionPutsIndex, SessionPutIndexFails, SessionReadsAdmin, SessionReadAdminFails,
               SessionAnswers
          <5>2. PICK y \in Identifiers : SessionPutsIdentifier(v, y)
            BY <5>1
          <5>3. x = y
            BY <2>2, <5>2 DEF SessionPutsIdentifier, TypeOK
          <5> QED BY <5>2, <5>3
        <4>2. ASSUME NEW d \in Deletes, DeleteStep(d) PROVE UNCHANGED identifiers
          BY <4>2 DEF DeleteStep, DeleteReadsIndex, DeleteReadsUser, DeleteReadFails, DeleteIdentity,
             DeleteIdentityFails, DeleteUserRow, DeleteIndexRow, DeleteRowFails
        <4> QED BY <2>2, <4>1, <4>2
                DEF Next, Register, Profile, Link, Unlink, SessionWhoAmI, DeleteWhoAmI, Restart, vars
      <3>2. /\ sr[w].pc = "putIdentifiers" /\ x \in sr[w].todo
            /\ identifiers'[x] = sr[w].user /\ owner' = owner
        BY <2>2, <3>1 DEF SessionPutsIdentifier, TypeOK
      <3>3. owner[sr[w].user] = sr[w].identity /\ sr[w].identity \in named[x]
        BY <3>2 DEF OwnerInv, NamedInv
      <3> QED BY <3>2, <3>3, HolderEffect
    <2> QED BY <2>1, <2>2
  <1> QED BY <1>1, <1>2, <1>3, <1>4 DEF NamedInv, IdentifierWasNamed

-----------------------------------------------------------------------------
(* Requests know their identities.                                         *)

LEMMA InitKnown == Init => KnownInv
  BY DEF Init, KnownInv

\* What the deletions in progress hold, given what a step does to them.
LEMMA PurgesOwn ==
  ASSUME TypeOK, TypeOK', OwnerInv, KnownInv, [Next]_vars, NEW d \in Deletes,
         dr'[d].pc \in {"readUser", "deleteIdentity", "deleteUser", "deleteIndex"}, dr'[d].user # None
  PROVE  owner'[dr'[d].user] = dr'[d].identity
  <1> USE DEF kratos, tables, history
  <1> DEFINE Holds == {"readUser", "deleteIdentity", "deleteUser", "deleteIndex"}
  <1>1. ASSUME dr'[d] = dr[d] PROVE owner'[dr'[d].user] = dr'[d].identity
    <2>1. dr[d].user \in UserIds /\ dr[d].identity \in Identities
      BY <1>1 DEF TypeOK, DeleteRequest
    <2>2. owner[dr[d].user] = dr[d].identity
      BY <1>1 DEF KnownInv
    <2> QED BY <1>1, <2>1, <2>2, OwnerKept, NoneAssumption
  <1>2. ASSUME NEW e \in Deletes, DeleteStep(e) PROVE owner'[dr'[d].user] = dr'[d].identity
    <2>1. CASE e # d
      BY <1>1, <1>2, <2>1, DeleteStepEffect
    <2>2. CASE e = d
      <3>1. dr[d].pc \in Holds \/ dr[d].pc = "readIndex"
        BY <1>2, <2>2, DeleteStepEffect DEF DeleteRunning, TypeOK, DeleteRequest, DeletePc
      <3>2. CASE dr'[d].user # dr[d].user
        <4>1. dr[d].pc = "readIndex" /\ dr'[d].user = index[dr[d].identity]
              /\ dr'[d].identity = dr[d].identity /\ owner' = owner
          BY <1>2, <2>2, <3>2, DeleteStepEffect
        <4>2. dr[d].identity \in Identities
          BY <4>1 DEF TypeOK, DeleteRequest
        <4> QED BY <4>1, <4>2 DEF OwnerInv
      <3>3. CASE dr'[d].user = dr[d].user /\ dr[d].pc \in Holds
        <4>1. dr'[d].identity = dr[d].identity /\ owner' = owner
          BY <1>2, <2>2, DeleteStepEffect
        <4> QED BY <3>3, <4>1 DEF KnownInv
      <3>4. CASE dr'[d].user = dr[d].user /\ dr[d].pc = "readIndex"
        <4>1. /\ dr'[d].user = index[dr[d].identity] \/ dr'[d].user = None
              /\ dr'[d].identity = dr[d].identity /\ owner' = owner
          BY <1>2, <2>2, <3>4 DEF DeleteStep, DeleteReadsIndex, DeleteReadsUser, DeleteReadFails,
             DeleteIdentity, DeleteIdentityFails, DeleteUserRow, DeleteIndexRow, DeleteRowFails,
             TypeOK, DeleteRequest
        <4>2. dr[d].identity \in Identities
          BY <3>4 DEF TypeOK, DeleteRequest
        <4> QED BY <4>1, <4>2 DEF OwnerInv
      <3> QED BY <3>1, <3>2, <3>3, <3>4
    <2> QED BY <2>1, <2>2
  <1>3. ASSUME NEW w \in Sessions, SessionStep(w) PROVE owner'[dr'[d].user] = dr'[d].identity
    BY <1>1, <1>3, SessionStepEffect
  <1>4. ASSUME NEW i \in Identities, NEW e \in Deletes, DeleteWhoAmI(e, i)
        PROVE  owner'[dr'[d].user] = dr'[d].identity
    <2>1. dr'[d] = dr[d] \/ dr'[d].pc = "readIndex"
      BY <1>4 DEF DeleteWhoAmI, TypeOK, DeleteRequest
    <2> QED BY <1>1, <2>1
  <1>5. CASE Restart
    <2>1. dr'[d] = dr[d] \/ dr'[d].pc = "failed"
      BY <1>5 DEF Restart, TypeOK, DeleteRequest
    <2> QED BY <1>1, <2>1
  <1>6. CASE UNCHANGED dr
    BY <1>1, <1>6
  <1> QED BY <1>2, <1>3, <1>4, <1>5, <1>6 DEF Next, vars, Register, Profile, Link, Unlink, SessionWhoAmI

LEMMA NextKnown == TypeOK /\ TypeOK' /\ OwnerInv /\ KnownInv /\ [Next]_vars => KnownInv'
  <1> SUFFICES ASSUME TypeOK, TypeOK', OwnerInv, KnownInv, [Next]_vars
               PROVE  /\ live' \cap deleted' = {}
                      /\ \A w \in Sessions : sr'[w].pc # "idle" => sr'[w].identity \in live' \cup deleted'
                      /\ \A d \in Deletes : dr'[d].pc # "idle" => dr'[d].identity \in live' \cup deleted'
    BY PurgesOwn DEF KnownInv
  <1> USE DEF kratos, tables, history, KnownInv
  <1>1. ASSUME NEW w \in Sessions, SessionStep(w)
        PROVE  /\ UNCHANGED <<live, deleted, dr>>
               /\ \A v \in Sessions : sr'[v].identity = sr[v].identity
               /\ \A v \in Sessions : sr[v].pc = "idle" => sr'[v].pc = "idle"
    BY <1>1, SessionStepEffect DEF SessionRunning
  <1>2. ASSUME NEW d \in Deletes, DeleteStep(d)
        PROVE  /\ sr' = sr
               /\ live' \cap deleted' = {} /\ live \cup deleted \subseteq live' \cup deleted'
               /\ \A e \in Deletes : dr'[e].identity = dr[e].identity
               /\ \A e \in Deletes : dr[e].pc = "idle" => dr'[e].pc = "idle"
    <2>1. DeleteRunning(d) /\ sr' = sr /\ \A e \in Deletes : e # d => dr'[e] = dr[e]
      BY <1>2, DeleteStepEffect
    <2>2. dr'[d].identity = dr[d].identity
      BY <1>2, DeleteStepEffect
    <2>3. UNCHANGED <<live, deleted>>
          \/ (live' = live \ {dr[d].identity} /\ deleted' = deleted \cup {dr[d].identity})
      BY <1>2, DeleteStepEffect
    <2> QED BY <2>1, <2>2, <2>3 DEF DeleteRunning
  <1>3. CASE \E w \in Sessions : SessionStep(w)
    BY <1>1, <1>3
  <1>4. CASE \E d \in Deletes : DeleteStep(d)
    BY <1>2, <1>4
  <1>5. ASSUME NEW i \in Identities, NEW X \in SUBSET Identifiers, Register(i, X)
        PROVE  /\ UNCHANGED <<sr, dr>> /\ live' \cap deleted' = {} /\ live \cup deleted \subseteq live' \cup deleted'
    BY <1>5 DEF Register
  <1>6. ASSUME NEW i \in Identities, NEW w \in Sessions, SessionWhoAmI(w, i)
        PROVE  /\ i \in live /\ UNCHANGED <<live, deleted, dr>>
               /\ sr'[w].identity = i /\ \A v \in Sessions : v # w => sr'[v] = sr[v]
    BY <1>6 DEF SessionWhoAmI, TypeOK, SessionRequest
  <1>7. ASSUME NEW i \in Identities, NEW d \in Deletes, DeleteWhoAmI(d, i)
        PROVE  /\ i \in live /\ UNCHANGED <<live, deleted, sr>>
               /\ dr'[d].identity = i /\ \A e \in Deletes : e # d => dr'[e] = dr[e]
    BY <1>7 DEF DeleteWhoAmI, TypeOK, DeleteRequest
  <1>8. CASE Restart
    <2>1. \A w \in Sessions : sr'[w] = sr[w] \/ (sr[w].pc # "idle" /\ sr'[w].identity = sr[w].identity)
      BY <1>8 DEF Restart, SessionRunning, TypeOK, SessionRequest
    <2>2. \A d \in Deletes : dr'[d] = dr[d] \/ (dr[d].pc # "idle" /\ dr'[d].identity = dr[d].identity)
      BY <1>8 DEF Restart, DeleteRunning, TypeOK, DeleteRequest
    <2> QED BY <1>8, <2>1, <2>2 DEF Restart
  <1>9. CASE UNCHANGED <<live, deleted, sr, dr>>
    BY <1>9
  <1>10. CASE \E i \in Identities, X \in SUBSET Identifiers : Register(i, X)
    BY <1>5, <1>10
  <1>11. CASE \E i \in Identities, w \in Sessions : SessionWhoAmI(w, i)
    BY <1>6, <1>11
  <1>12. CASE \E i \in Identities, d \in Deletes : DeleteWhoAmI(d, i)
    BY <1>7, <1>12
  <1> QED BY <1>3, <1>4, <1>8, <1>9, <1>10, <1>11, <1>12 DEF Next, vars, Profile, Link, Unlink

-----------------------------------------------------------------------------
(* Identities whose requests do not overlap and meet no failure.           *)

LEMMA InitQuiet == Init => QuietInv
  <1> SUFFICES ASSUME Init, NEW i \in Identities PROVE QuietAt(i)
    BY DEF QuietInv
  <1>1. /\ \A w \in Sessions : sr[w].pc = "idle"
        /\ \A d \in Deletes : dr[d].pc = "idle"
        /\ users = {} /\ index[i] = None
    BY DEF Init
  <1>2. HasNone(i)
    BY <1>1 DEF HasNone, Rows
  <1> QED BY <1>1, <1>2 DEF QuietAt, OneRequest, SessionOn, DeleteOn, SessionRunning, DeleteRunning,
                           Busy, Tidy, Answered, Deleted

\* An identity keeps its invariant where no step is about it.
LEMMA Untouched ==
  ASSUME NEW i \in Identities, QuietAt(i),
         i \in live' <=> i \in live, i \in deleted' <=> i \in deleted,
         index'[i] = index[i], Rows(i)' = Rows(i),
         \A w \in Sessions :
            \/ sr'[w] = sr[w]
            \/ sr'[w].identity # i /\ (sr[w].identity # i \/ sr[w].pc = "idle"),
         \A d \in Deletes :
            \/ dr'[d] = dr[d]
            \/ dr'[d].identity # i /\ (dr[d].identity # i \/ dr[d].pc = "idle")
  PROVE  QuietAt(i)'
  <1>1. /\ \A w \in Sessions : sr'[w].identity = i /\ sr'[w].pc # "idle" => sr'[w] = sr[w]
        /\ \A d \in Deletes : dr'[d].identity = i /\ dr'[d].pc # "idle" => dr'[d] = dr[d]
    OBVIOUS
  <1>2. /\ HasNone(i)' <=> HasNone(i)
        /\ \A u : HasUser(i, u)' <=> HasUser(i, u)
        /\ Tidy(i)' <=> Tidy(i)
    BY DEF HasNone, HasUser, Tidy
  <1>3. /\ \A w \in Sessions : SessionOn(w, i)' <=> SessionOn(w, i)
        /\ \A d \in Deletes : DeleteOn(d, i)' <=> DeleteOn(d, i)
    BY <1>1 DEF SessionOn, DeleteOn, SessionRunning, DeleteRunning
  <1>4. OneRequest(i)'
    BY <1>3 DEF QuietAt, OneRequest
  <1>5. ASSUME NEW w \in Sessions, SessionOn(w, i)' PROVE SessionSees(w, i)'
    <2>1. sr'[w] = sr[w] /\ SessionSees(w, i)
      BY <1>1, <1>3, <1>5 DEF SessionOn, SessionRunning, QuietAt
    <2> QED BY <2>1, <1>2 DEF SessionSees
  <1>6. ASSUME NEW d \in Deletes, DeleteOn(d, i)' PROVE DeleteSees(d, i)'
    <2>1. dr'[d] = dr[d] /\ DeleteSees(d, i)
      BY <1>1, <1>3, <1>6 DEF DeleteOn, DeleteRunning, QuietAt
    <2> QED BY <2>1, <1>2 DEF DeleteSees
  <1>7. Busy(i)' <=> Busy(i)
    BY <1>3 DEF Busy, SessionOn, DeleteOn
  <1>8. ASSUME NEW w \in Sessions, Answered(w)', sr'[w].identity = i
        PROVE  sr'[w] = sr[w] /\ Answered(w) /\ sr[w].identity = i
    BY <1>1, <1>8 DEF Answered
  <1>9. ASSUME NEW d \in Deletes, Deleted(d)', dr'[d].identity = i
        PROVE  dr'[d] = dr[d] /\ Deleted(d) /\ dr[d].identity = i
    BY <1>1, <1>9 DEF Deleted
  <1>10. ASSUME NEW w \in Sessions, Answered(w)', sr'[w].identity = i, i \in live'
         PROVE  HasUser(i, sr[w].user)'
    BY <1>2, <1>8, <1>10 DEF QuietAt
  <1>11. ASSUME NEW v \in Sessions, NEW w \in Sessions, Answered(v)', Answered(w)',
                sr'[v].identity = i, sr'[w].identity = i
         PROVE  sr'[v].user = sr'[w].user
    BY <1>8, <1>11 DEF QuietAt
  <1>12. ASSUME NEW d \in Deletes, Deleted(d)', dr'[d].identity = i
         PROVE  i \in deleted' /\ HasNone(i)'
    BY <1>2, <1>9, <1>12 DEF QuietAt
  <1>13. ~Busy(i)' => Tidy(i)'
    BY <1>2, <1>7 DEF QuietAt
  <1> QED BY <1>4, <1>5, <1>6, <1>10, <1>11, <1>12, <1>13 DEF QuietAt

\* The only request of an identity is a session request, which takes a step.
LEMMA SoleSession ==
  ASSUME TypeOK, KnownInv, NEW i \in Identities, QuietAt(i),
         NEW w \in Sessions, SessionOn(w, i),
         UNCHANGED <<live, deleted, dr>>,
         \A v \in Sessions : v # w => sr'[v] = sr[v],
         sr'[w].identity = i,
         SessionOn(w, i)' => SessionSees(w, i)',
         ~SessionRunning(w)' => sr'[w].pc = "answered" /\ HasUser(i, sr[w].user)' /\ Tidy(i)',
         \A v \in Sessions : v # w /\ Answered(v) /\ sr[v].identity = i => HasUser(i, sr[v].user)'
  PROVE  QuietAt(i)'
  <1>1. i \in live /\ \A d \in Deletes : ~(Deleted(d) /\ dr[d].identity = i)
    BY DEF QuietAt, SessionSees, KnownInv
  <1>2. /\ \A v \in Sessions : v # w => ~SessionOn(v, i)
        /\ \A d \in Deletes : ~DeleteOn(d, i)
    BY DEF QuietAt, OneRequest
  <1>3. /\ \A v \in Sessions : v # w => ~SessionOn(v, i)'
        /\ \A d \in Deletes : ~DeleteOn(d, i)'
    BY <1>2 DEF SessionOn, DeleteOn, SessionRunning, DeleteRunning
  <1>4. OneRequest(i)'
    BY <1>3 DEF OneRequest
  <1>5. \A v \in Sessions : SessionOn(v, i)' => SessionSees(v, i)'
    BY <1>3
  <1>6. ~Busy(i)' => Tidy(i)'
    BY DEF Busy, SessionOn
  <1>7. ASSUME NEW v \in Sessions, Answered(v)', sr'[v].identity = i PROVE HasUser(i, sr[v].user)'
    BY <1>7 DEF Answered, SessionRunning
  <1>8. ASSUME NEW u \in Sessions, NEW v \in Sessions, Answered(u)', Answered(v)',
               sr'[u].identity = i, sr'[v].identity = i
        PROVE  sr'[u].user = sr'[v].user
    BY <1>7, <1>8 DEF HasUser
  <1>9. \A d \in Deletes : ~(Deleted(d)' /\ dr'[d].identity = i)
    BY <1>1 DEF Deleted
  <1> QED BY <1>3, <1>4, <1>5, <1>6, <1>7, <1>8, <1>9 DEF QuietAt

\* The only request of an identity is a deletion, which takes a step.
LEMMA SoleDelete ==
  ASSUME NEW i \in Identities, QuietAt(i), NEW d \in Deletes, DeleteOn(d, i),
         sr' = sr,
         \A e \in Deletes : e # d => dr'[e] = dr[e],
         dr'[d].identity = i,
         DeleteOn(d, i)' => DeleteSees(d, i)',
         ~DeleteRunning(d)' => dr'[d].pc = "answered" /\ i \in deleted' /\ HasNone(i)',
         i \in live' => i \in live /\ index'[i] = index[i] /\ Rows(i)' = Rows(i),
         \A e \in Deletes : e # d /\ Deleted(e) /\ dr[e].identity = i => i \in deleted' /\ HasNone(i)'
  PROVE  QuietAt(i)'
  <1>1. /\ \A e \in Deletes : e # d => ~DeleteOn(e, i)
        /\ \A w \in Sessions : ~SessionOn(w, i)
    BY DEF QuietAt, OneRequest
  <1>2. /\ \A e \in Deletes : e # d => ~DeleteOn(e, i)'
        /\ \A w \in Sessions : ~SessionOn(w, i)'
    BY <1>1 DEF SessionOn, DeleteOn, SessionRunning, DeleteRunning
  <1>3. OneRequest(i)'
    BY <1>2 DEF OneRequest
  <1>4. \A e \in Deletes : DeleteOn(e, i)' => DeleteSees(e, i)'
    BY <1>2
  <1>5. ~Busy(i)' => Tidy(i)'
    BY DEF Busy, DeleteOn, Tidy
  <1>6. ASSUME NEW w \in Sessions, Answered(w)', sr'[w].identity = i, i \in live'
        PROVE  HasUser(i, sr[w].user)'
    BY <1>6 DEF Answered, QuietAt, HasUser
  <1>7. ASSUME NEW v \in Sessions, NEW w \in Sessions, Answered(v)', Answered(w)',
               sr'[v].identity = i, sr'[w].identity = i
        PROVE  sr'[v].user = sr'[w].user
    BY <1>7 DEF Answered, QuietAt
  <1>8. ASSUME NEW e \in Deletes, Deleted(e)', dr'[e].identity = i PROVE i \in deleted' /\ HasNone(i)'
    BY <1>8 DEF Deleted, DeleteRunning
  <1> QED BY <1>2, <1>3, <1>4, <1>5, <1>6, <1>7, <1>8 DEF QuietAt

\* A session request alone on its identity keeps the tables of that identity tidy.
LEMMA SessionStepAlone ==
  ASSUME TypeOK, TypeOK', KnownInv, NEW w \in Sessions, SessionStep(w),
         NEW i \in Identities, i = sr[w].identity, QuietAt(i), i \notin faulted'
  PROVE  QuietAt(i)'
  <1> USE DEF kratos, tables, history
  <1>1. /\ sr[w] \in SessionRequest
        /\ SessionRunning(w) /\ UNCHANGED <<live, deleted, dr>>
        /\ sr'[w].identity = i
        /\ \A v \in Sessions : v # w => sr'[v] = sr[v]
    BY SessionStepEffect DEF TypeOK
  <1>2. SessionOn(w, i) /\ SessionSees(w, i) /\ i \in live
    BY <1>1 DEF SessionOn, QuietAt, SessionSees
  <1>3. \A v \in Sessions : Answered(v) /\ sr[v].identity = i => HasUser(i, sr[v].user) /\ index[i] # None
    BY <1>2 DEF QuietAt, HasUser, Answered, TypeOK
  <1>4. ASSUME SessionFault(w) PROVE FALSE
    BY <1>4 DEF SessionFault
  \* Steps that change no table.
  <1>5. ASSUME UNCHANGED <<users, index>>, SessionOn(w, i)' => SessionSees(w, i)',
               ~SessionRunning(w)' => sr'[w].pc = "answered" /\ HasUser(i, sr[w].user)'
        PROVE  QuietAt(i)'
    <2>1. \A u : HasUser(i, u)' <=> HasUser(i, u)
      BY <1>5 DEF HasUser, Rows
    <2>2. ~SessionRunning(w)' => Tidy(i)'
      <3>1. sr'[w].pc = "answered" => sr'[w].user \in UserIds
        BY DEF TypeOK, SessionRequest
      <3> QED BY <1>5, <3>1 DEF Tidy
    <2>3. \A v \in Sessions : v # w /\ Answered(v) /\ sr[v].identity = i => HasUser(i, sr[v].user)'
      BY <1>1, <1>3, <2>1
    <2> QED BY <1>1, <1>2, <1>5, <2>2, <2>3, SoleSession
  <1>6. CASE SessionReadsIndex(w)
    <2>1. /\ sr'[w].pc = "readUser" /\ sr'[w].user = index[i] /\ index[i] # None
          /\ UNCHANGED <<users, index>> /\ sr[w].pc = "readIndex"
      BY <1>1, <1>6 DEF SessionReadsIndex, TypeOK, SessionRequest
    <2>2. HasUser(i, index[i])
      BY <1>2, <2>1 DEF SessionSees, Tidy, HasNone, HasUser
    <2>3. HasUser(i, sr[w].user)'
      BY <2>1, <2>2 DEF HasUser, Rows
    <2>4. SessionSees(w, i)' /\ SessionRunning(w)'
      BY <1>1, <1>2, <2>1, <2>3 DEF SessionSees, SessionRunning
    <2> QED BY <1>5, <2>1, <2>4
  <1>7. CASE SessionMissesIndex(w)
    <2>1. /\ sr'[w].pc = "putUser" /\ index[i] = None
          /\ UNCHANGED <<users, index>> /\ sr[w].pc = "readIndex"
      BY <1>1, <1>7 DEF SessionMissesIndex, SessionGoto, TypeOK, SessionRequest
    <2>2. HasNone(i)
      BY <1>2, <2>1, NoneAssumption DEF SessionSees, Tidy, HasNone, HasUser
    <2>3. HasNone(i)'
      BY <2>1, <2>2 DEF HasNone, Rows
    <2>4. SessionSees(w, i)' /\ SessionRunning(w)'
      BY <1>1, <1>2, <2>1, <2>3 DEF SessionSees, SessionRunning
    <2> QED BY <1>5, <2>1, <2>4
  <1>8. CASE SessionReadsUser(w) \/ SessionReadsAdmin(w) \/ SessionReadAdminFails(w)
             \/ \E x \in Identifiers : SessionPutsIdentifier(w, x)
    <2>1. /\ sr[w].pc \in {"readUser", "readAdmin", "putIdentifiers"}
          /\ UNCHANGED <<users, index>>
      BY <1>8 DEF SessionReadsUser, SessionReadsAdmin, SessionReadAdminFails, SessionPutsIdentifier
    <2>2. sr'[w].pc \in {"readAdmin", "putIdentifiers"} /\ sr'[w].user = sr[w].user
      <3>1. CASE SessionReadsUser(w) \/ SessionReadAdminFails(w)
        BY <1>1, <3>1 DEF SessionReadsUser, SessionReadAdminFails, SessionGoto, TypeOK, SessionRequest
      <3>2. CASE SessionReadsAdmin(w)
        BY <1>1, <3>2 DEF SessionReadsAdmin, TypeOK, SessionRequest
      <3>3. CASE \E x \in Identifiers : SessionPutsIdentifier(w, x)
        BY <1>1, <3>3 DEF SessionPutsIdentifier, TypeOK, SessionRequest
      <3> QED BY <1>8, <3>1, <3>2, <3>3
    <2>3. HasUser(i, sr[w].user)
      BY <1>2, <2>1 DEF SessionSees
    <2>4. HasUser(i, sr[w].user)'
      BY <2>1, <2>2, <2>3 DEF HasUser, Rows
    <2>5. SessionSees(w, i)' /\ SessionRunning(w)'
      BY <1>1, <1>2, <2>2, <2>4 DEF SessionSees, SessionRunning
    <2> QED BY <1>5, <2>1, <2>5
  <1>9. CASE SessionMissesUser(w)
    <2>1. sr[w].pc = "readUser" /\ \A rec \in users : rec.userId # sr[w].user
      BY <1>9 DEF SessionMissesUser
    <2>2. Row(i, sr[w].user) \in users
      BY <1>2, <2>1 DEF SessionSees, HasUser, Rows
    <2> QED BY <2>1, <2>2 DEF Row
  <1>10. CASE SessionReadFails(w)
    BY <1>4, <1>10 DEF SessionReadFails
  <1>11. ASSUME NEW u \in UserIds, SessionPutsUser(w, u) PROVE QuietAt(i)'
    <2>1. /\ sr[w].pc = "putUser" /\ sr'[w].pc = "putIndex" /\ sr'[w].user = u
          /\ users' = users \cup {Row(i, u)} /\ index' = index
      BY <1>1, <1>11 DEF SessionPutsUser, TypeOK, SessionRequest, Row
    <2>2. index[i] = None /\ Rows(i) = {}
      BY <1>2, <2>1 DEF SessionSees, HasNone
    <2>3. index'[i] = None /\ Rows(i)' = {Row(i, u)}
      BY <2>1, <2>2 DEF Rows, Row
    <2>4. SessionSees(w, i)' /\ SessionRunning(w)'
      BY <1>1, <1>2, <2>1, <2>3 DEF SessionSees, SessionRunning
    <2> QED BY <1>1, <1>2, <1>3, <2>2, <2>4, SoleSession
  <1>12. CASE SessionPutsIndex(w)
    <2>1. /\ sr[w].pc = "putIndex" /\ sr'[w].pc = "readAdmin" /\ sr'[w].user = sr[w].user
          /\ users' = users /\ index'[i] = sr[w].user
      BY <1>1, <1>12 DEF SessionPutsIndex, SessionGoto, TypeOK, SessionRequest
    <2>2. index[i] = None /\ Rows(i) = {Row(i, sr[w].user)}
      BY <1>2, <2>1 DEF SessionSees
    <2>3. HasUser(i, sr[w].user)'
      BY <2>1, <2>2 DEF HasUser, Rows
    <2>4. SessionSees(w, i)' /\ SessionRunning(w)'
      BY <1>1, <1>2, <2>1, <2>3 DEF SessionSees, SessionRunning
    <2> QED BY <1>1, <1>2, <1>3, <2>2, <2>4, SoleSession
  <1>13. CASE SessionPutIndexFails(w)
    BY <1>4, <1>13 DEF SessionPutIndexFails
  <1>14. CASE SessionAnswers(w)
    <2>1. /\ sr[w].pc = "putIdentifiers" /\ sr'[w].pc = "answered" /\ sr'[w].user = sr[w].user
          /\ UNCHANGED <<users, index>>
      BY <1>1, <1>14 DEF SessionAnswers, SessionGoto, TypeOK, SessionRequest
    <2>2. HasUser(i, sr[w].user)
      BY <1>2, <2>1 DEF SessionSees
    <2>3. HasUser(i, sr[w].user)'
      BY <2>1, <2>2 DEF HasUser, Rows
    <2>4. ~SessionRunning(w)'
      BY <2>1 DEF SessionRunning
    <2> QED BY <1>5, <2>1, <2>3, <2>4 DEF SessionOn
  <1>15. ASSUME NEW u \in UserIds, SessionPutUserFails(w, u) PROVE FALSE
    BY <1>4, <1>15 DEF SessionPutUserFails
  <1> QED
    BY <1>6, <1>7, <1>8, <1>9, <1>10, <1>11, <1>12, <1>13, <1>14, <1>15 DEF SessionStep

\* So does a deletion, which leaves none of them.
LEMMA DeleteStepAlone ==
  ASSUME TypeOK, TypeOK', KnownInv, NEW d \in Deletes, DeleteStep(d),
         NEW i \in Identities, i = dr[d].identity, QuietAt(i), i \notin faulted'
  PROVE  QuietAt(i)'
  <1> USE DEF kratos, tables, history
  <1>1. /\ dr[d] \in DeleteRequest
        /\ DeleteRunning(d) /\ sr' = sr
        /\ dr'[d].identity = i
        /\ \A e \in Deletes : e # d => dr'[e] = dr[e]
    BY DeleteStepEffect DEF TypeOK
  <1>2. DeleteOn(d, i) /\ DeleteSees(d, i)
    BY <1>1 DEF DeleteOn, QuietAt
  <1>3. \A e \in Deletes : Deleted(e) /\ dr[e].identity = i => i \in deleted /\ HasNone(i)
    BY DEF QuietAt
  <1>4. ASSUME DeleteFault(d) PROVE FALSE
    BY <1>4 DEF DeleteFault
  \* Steps that change no table and leave the identity with Kratos.
  <1>5. ASSUME UNCHANGED <<live, deleted, users, index>>, DeleteRunning(d)', DeleteSees(d, i)'
        PROVE  QuietAt(i)'
    <2>1. Rows(i)' = Rows(i) /\ (HasNone(i)' <=> HasNone(i))
      BY <1>5 DEF HasNone, Rows
    <2> QED BY <1>1, <1>2, <1>3, <1>5, <2>1, SoleDelete
  <1>6. CASE DeleteReadsIndex(d)
    <2>1. /\ dr[d].pc = "readIndex" /\ UNCHANGED <<live, deleted, users, index>>
          /\ dr'[d].user = index[i]
          /\ dr'[d].pc = IF index[i] = None THEN "deleteIdentity" ELSE "readUser"
      BY <1>1, <1>6 DEF DeleteReadsIndex, TypeOK, DeleteRequest
    <2>2. i \in live /\ Tidy(i)
      BY <1>2, <2>1 DEF DeleteSees
    <2>3. IF index[i] = None THEN HasNone(i) ELSE HasUser(i, index[i])
      BY <2>2, NoneAssumption DEF Tidy, HasNone, HasUser
    <2>4. IF dr'[d].user = None THEN HasNone(i)' ELSE HasUser(i, dr[d].user)'
      BY <2>1, <2>3 DEF HasNone, HasUser, Rows
    <2>5. DeleteSees(d, i)' /\ DeleteRunning(d)'
      BY <2>1, <2>2, <2>4 DEF DeleteSees, DeleteRunning
    <2> QED BY <1>5, <2>1, <2>5
  <1>7. CASE DeleteReadsUser(d)
    <2>1. /\ dr[d].pc = "readUser" /\ UNCHANGED <<live, deleted, users, index>>
          /\ dr'[d].pc = "deleteIdentity"
          /\ dr'[d].user = IF \E rec \in users : rec.userId = dr[d].user THEN dr[d].user ELSE None
      BY <1>1, <1>7 DEF DeleteReadsUser, TypeOK, DeleteRequest
    <2>2. i \in live /\ HasUser(i, dr[d].user) /\ dr[d].user # None
      BY <1>2, <2>1 DEF DeleteSees, TypeOK
    <2>3. Row(i, dr[d].user) \in users
      BY <2>2 DEF HasUser, Rows
    <2>4. dr'[d].user = dr[d].user
      BY <2>1, <2>3 DEF Row
    <2>5. HasUser(i, dr[d].user)' /\ dr'[d].user # None
      BY <2>1, <2>2, <2>4 DEF HasUser, Rows
    <2>6. DeleteSees(d, i)' /\ DeleteRunning(d)'
      BY <2>1, <2>2, <2>5 DEF DeleteSees, DeleteRunning
    <2> QED BY <1>5, <2>1, <2>6
  <1>8. CASE DeleteReadFails(d) \/ DeleteIdentityFails(d) \/ DeleteRowFails(d)
    BY <1>4, <1>8 DEF DeleteReadFails, DeleteIdentityFails, DeleteRowFails
  <1>9. CASE DeleteIdentity(d)
    <2>1. /\ dr[d].pc = "deleteIdentity" /\ dr'[d].user = dr[d].user
          /\ UNCHANGED <<users, index>> /\ i \notin live' /\ i \in deleted'
          /\ dr'[d].pc = IF dr[d].user = None THEN "answered" ELSE "deleteUser"
      BY <1>1, <1>9 DEF DeleteIdentity, DropIdentity, DeleteGoto, TypeOK, DeleteRequest
    <2>2. IF dr[d].user = None THEN HasNone(i) ELSE HasUser(i, dr[d].user)
      BY <1>2, <2>1 DEF DeleteSees
    <2>3. IF dr'[d].user = None THEN HasNone(i)' ELSE HasUser(i, dr[d].user)'
      BY <2>1, <2>2 DEF HasNone, HasUser, Rows
    <2>4. /\ dr[d].user # None => DeleteSees(d, i)' /\ DeleteRunning(d)'
          /\ dr[d].user = None => ~DeleteRunning(d)'
      BY <2>1, <2>3 DEF DeleteSees, DeleteRunning
    <2>5. \A e \in Deletes : e # d /\ Deleted(e) /\ dr[e].identity = i => FALSE
      <3>1. i \in live
        BY <1>2, <2>1 DEF DeleteSees
      <3> QED BY <1>3, <3>1 DEF KnownInv
    <2> QED BY <1>1, <1>2, <2>1, <2>3, <2>4, <2>5, SoleDelete DEF DeleteOn
  <1>10. CASE DeleteUserRow(d)
    <2>1. /\ dr[d].pc = "deleteUser" /\ dr'[d].pc = "deleteIndex"
          /\ users' = {rec \in users : rec.userId # dr[d].user}
          /\ UNCHANGED <<live, deleted, index>>
      BY <1>1, <1>10 DEF DeleteUserRow, DeleteGoto, TypeOK, DeleteRequest
    <2>2. i \in deleted /\ HasUser(i, dr[d].user) /\ dr[d].user # None
      BY <1>2, <2>1 DEF DeleteSees, TypeOK
    <2>3. Rows(i)' = {}
      BY <2>1, <2>2 DEF HasUser, Rows, Row
    <2>4. DeleteSees(d, i)' /\ DeleteRunning(d)'
      BY <2>1, <2>2, <2>3 DEF DeleteSees, DeleteRunning
    <2>5. i \notin live' /\ \A e \in Deletes : ~(Deleted(e) /\ dr[e].identity = i)
      BY <1>3, <2>1, <2>2 DEF HasNone, HasUser, KnownInv
    <2> QED BY <1>1, <1>2, <2>4, <2>5, SoleDelete
  <1>11. CASE DeleteIndexRow(d)
    <2>1. /\ dr[d].pc = "deleteIndex" /\ dr'[d].pc = "answered"
          /\ index'[i] = None /\ users' = users
          /\ UNCHANGED <<live, deleted>>
      BY <1>1, <1>11 DEF DeleteIndexRow, DeleteGoto, TypeOK, DeleteRequest
    <2>2. i \in deleted /\ Rows(i) = {}
      BY <1>2, <2>1 DEF DeleteSees
    <2>3. HasNone(i)' /\ i \notin live' /\ i \in deleted'
      BY <2>1, <2>2 DEF HasNone, Rows, KnownInv
    <2>4. ~DeleteRunning(d)'
      BY <2>1 DEF DeleteRunning
    <2> QED BY <1>1, <1>2, <2>1, <2>3, <2>4, SoleDelete DEF DeleteOn
  <1> QED BY <1>6, <1>7, <1>8, <1>9, <1>10, <1>11 DEF DeleteStep

\* A deletion purges no row of another identity.
LEMMA OthersRows ==
  ASSUME TypeOK, OwnerInv, KnownInv, NEW d \in Deletes, DeleteStep(d),
         NEW i \in Identities, i # dr[d].identity
  PROVE  Rows(i)' = Rows(i)
  <1>1. CASE users' = users
    BY <1>1 DEF Rows
  <1>2. CASE users' # users
    <2>1. dr[d].pc = "deleteUser" /\ users' = {rec \in users : rec.userId # dr[d].user}
      BY <1>2, DeleteStepEffect
    <2>2. dr[d].user # None /\ owner[dr[d].user] = dr[d].identity
      BY <2>1 DEF TypeOK, KnownInv
    <2>3. \A rec \in users : rec.userId = dr[d].user => rec.identity = dr[d].identity
      BY <2>2 DEF OwnerInv
    <2> QED BY <2>1, <2>3 DEF Rows
  <1> QED BY <1>1, <1>2

\* A request that arrives without overlap finds the tables tidy.
LEMMA SessionArrives ==
  ASSUME TypeOK, KnownInv, NEW i \in Identities, QuietAt(i), ~Busy(i),
         NEW w \in Sessions, SessionWhoAmI(w, i)
  PROVE  QuietAt(i)'
  <1>1. /\ i \in live /\ sr'[w].pc = "readIndex" /\ sr'[w].identity = i
        /\ \A v \in Sessions : v # w => sr'[v] = sr[v]
        /\ UNCHANGED <<live, deleted, users, index, dr>>
    BY DEF SessionWhoAmI, TypeOK, SessionRequest, kratos, tables
  <1>2. /\ \A v \in Sessions : ~SessionOn(v, i)
        /\ \A d \in Deletes : ~DeleteOn(d, i)
    BY DEF Busy, SessionOn, DeleteOn
  <1>3. /\ \A v \in Sessions : SessionOn(v, i)' => v = w
        /\ \A d \in Deletes : ~DeleteOn(d, i)'
    BY <1>1, <1>2 DEF SessionOn, DeleteOn, SessionRunning, DeleteRunning
  <1>4. OneRequest(i)'
    BY <1>3 DEF OneRequest
  <1>5. Rows(i)' = Rows(i) /\ Tidy(i)'
    BY <1>1 DEF QuietAt, Tidy, HasNone, HasUser, Rows
  <1>6. SessionSees(w, i)' /\ Busy(i)'
    BY <1>1, <1>5 DEF SessionSees, Busy, SessionRunning
  <1>7. \A v \in Sessions : Answered(v)' => v # w /\ Answered(v)
    BY <1>1 DEF Answered
  <1>8. \A v \in Sessions : Answered(v)' /\ sr'[v].identity = i => HasUser(i, sr[v].user)'
    BY <1>1, <1>5, <1>7 DEF QuietAt, HasUser
  <1>9. ASSUME NEW u \in Sessions, NEW v \in Sessions, Answered(u)', Answered(v)',
               sr'[u].identity = i, sr'[v].identity = i
        PROVE  sr'[u].user = sr'[v].user
    BY <1>8, <1>9 DEF HasUser
  <1>10. \A d \in Deletes : ~(Deleted(d)' /\ dr'[d].identity = i)
    BY <1>1 DEF QuietAt, Deleted, KnownInv
  <1> QED BY <1>3, <1>4, <1>6, <1>8, <1>9, <1>10 DEF QuietAt

LEMMA DeleteArrives ==
  ASSUME TypeOK, KnownInv, NEW i \in Identities, QuietAt(i), ~Busy(i),
         NEW d \in Deletes, DeleteWhoAmI(d, i)
  PROVE  QuietAt(i)'
  <1>1. /\ i \in live /\ dr'[d].pc = "readIndex" /\ dr'[d].identity = i
        /\ \A e \in Deletes : e # d => dr'[e] = dr[e]
        /\ UNCHANGED <<live, deleted, users, index, sr>>
    BY DEF DeleteWhoAmI, TypeOK, DeleteRequest, kratos, tables
  <1>2. /\ \A v \in Sessions : ~SessionOn(v, i)
        /\ \A e \in Deletes : ~DeleteOn(e, i)
    BY DEF Busy, SessionOn, DeleteOn
  <1>3. /\ \A v \in Sessions : ~SessionOn(v, i)'
        /\ \A e \in Deletes : DeleteOn(e, i)' => e = d
    BY <1>1, <1>2 DEF SessionOn, DeleteOn, SessionRunning, DeleteRunning
  <1>4. OneRequest(i)'
    BY <1>3 DEF OneRequest
  <1>5. Rows(i)' = Rows(i) /\ Tidy(i)'
    BY <1>1 DEF QuietAt, Tidy, HasNone, HasUser, Rows
  <1>6. DeleteSees(d, i)' /\ Busy(i)'
    BY <1>1, <1>5 DEF DeleteSees, Busy, DeleteRunning
  <1>7. \A v \in Sessions : Answered(v)' /\ sr'[v].identity = i => HasUser(i, sr[v].user)'
    BY <1>1, <1>5 DEF QuietAt, HasUser, Answered
  <1>8. ASSUME NEW u \in Sessions, NEW v \in Sessions, Answered(u)', Answered(v)',
               sr'[u].identity = i, sr'[v].identity = i
        PROVE  sr'[u].user = sr'[v].user
    BY <1>7, <1>8 DEF HasUser
  <1>9. \A e \in Deletes : ~(Deleted(e)' /\ dr'[e].identity = i)
    BY <1>1 DEF QuietAt, Deleted, KnownInv
  <1> QED BY <1>3, <1>4, <1>6, <1>7, <1>8, <1>9 DEF QuietAt

\* Registration finds an identity of which no request was ever made.
LEMMA Registers ==
  ASSUME TypeOK, KnownInv, NEW i \in Identities, NEW X \in SUBSET Identifiers, QuietAt(i),
         Register(i, X)
  PROVE  QuietAt(i)'
  <1>1. /\ \A w \in Sessions : sr'[w].pc = "idle" \/ sr'[w].identity # i
        /\ \A d \in Deletes : dr'[d].pc = "idle" \/ dr'[d].identity # i
        /\ UNCHANGED <<users, index, sr, dr>>
    BY DEF Register, KnownInv, tables
  <1>2. Tidy(i)'
    BY <1>1 DEF QuietAt, Busy, SessionRunning, DeleteRunning, Tidy, HasNone, HasUser, Rows
  <1> QED
    BY <1>1, <1>2 DEF QuietAt, OneRequest, SessionOn, DeleteOn, SessionRunning, DeleteRunning, Answered, Deleted

LEMMA NextQuiet ==
  TypeOK /\ TypeOK' /\ OwnerInv /\ KnownInv /\ QuietInv /\ [Next]_vars => QuietInv'
  <1> SUFFICES ASSUME TypeOK, TypeOK', OwnerInv, KnownInv, QuietInv, [Next]_vars,
                      NEW i \in Identities, Quiet(i)'
               PROVE  QuietAt(i)'
    BY DEF QuietInv
  <1> USE DEF kratos, tables, history
  <1>1. i \notin faulted' /\ i \notin overlapped'
    BY DEF Quiet
  <1>2. ASSUME faulted \subseteq faulted', overlapped \subseteq overlapped' PROVE QuietAt(i)
    BY <1>1, <1>2 DEF QuietInv, Quiet
  <1>3. ASSUME NEW w \in Sessions, SessionStep(w) PROVE QuietAt(i)'
    <2>1. QuietAt(i)
      BY <1>2, <1>3, SessionStepEffect
    <2>2. CASE i = sr[w].identity
      BY <1>1, <1>3, <2>1, <2>2, SessionStepAlone
    <2>3. CASE i # sr[w].identity
      <3>1. /\ UNCHANGED <<live, deleted, dr>>
            /\ index'[i] = index[i] /\ Rows(i)' = Rows(i)
            /\ \A v \in Sessions : sr'[v] = sr[v] \/ (sr'[v].identity # i /\ sr[v].identity # i)
        BY <1>3, <2>3, SessionStepEffect
      <3> QED BY <2>1, <3>1, Untouched
    <2> QED BY <2>2, <2>3
  <1>4. ASSUME NEW d \in Deletes, DeleteStep(d) PROVE QuietAt(i)'
    <2>1. QuietAt(i)
      BY <1>2, <1>4, DeleteStepEffect
    <2>2. CASE i = dr[d].identity
      BY <1>1, <1>4, <2>1, <2>2, DeleteStepAlone
    <2>3. CASE i # dr[d].identity
      <3>1. /\ sr' = sr
            /\ i \in live' <=> i \in live
            /\ i \in deleted' <=> i \in deleted
            /\ index'[i] = index[i]
            /\ \A e \in Deletes : dr'[e] = dr[e] \/ (dr'[e].identity # i /\ dr[e].identity # i)
        BY <1>4, <2>3, DeleteStepEffect
      <3>2. Rows(i)' = Rows(i)
        BY <1>4, <2>3, OthersRows
      <3> QED BY <2>1, <3>1, <3>2, Untouched
    <2> QED BY <2>2, <2>3
  <1>5. ASSUME NEW j \in Identities, NEW w \in Sessions, SessionWhoAmI(w, j) PROVE QuietAt(i)'
    <2>1. QuietAt(i)
      BY <1>2, <1>5 DEF SessionWhoAmI
    <2>2. CASE i = j
      <3>1. ~Busy(i)
        BY <1>1, <1>5, <2>2 DEF SessionWhoAmI
      <3> QED BY <1>5, <2>1, <2>2, <3>1, SessionArrives
    <2>3. CASE i # j
      <3>1. /\ UNCHANGED <<live, deleted, index, dr>>
            /\ Rows(i)' = Rows(i)
            /\ sr[w].pc = "idle" /\ sr'[w].identity = j
            /\ \A v \in Sessions : v # w => sr'[v] = sr[v]
        BY <1>5 DEF SessionWhoAmI, TypeOK, SessionRequest, Rows
      <3> QED BY <2>1, <2>3, <3>1, Untouched
    <2> QED BY <2>2, <2>3
  <1>6. ASSUME NEW j \in Identities, NEW d \in Deletes, DeleteWhoAmI(d, j) PROVE QuietAt(i)'
    <2>1. QuietAt(i)
      BY <1>2, <1>6 DEF DeleteWhoAmI
    <2>2. CASE i = j
      <3>1. ~Busy(i)
        BY <1>1, <1>6, <2>2 DEF DeleteWhoAmI
      <3> QED BY <1>6, <2>1, <2>2, <3>1, DeleteArrives
    <2>3. CASE i # j
      <3>1. /\ UNCHANGED <<live, deleted, index, sr>>
            /\ Rows(i)' = Rows(i)
            /\ dr[d].pc = "idle" /\ dr'[d].identity = j
            /\ \A e \in Deletes : e # d => dr'[e] = dr[e]
        BY <1>6 DEF DeleteWhoAmI, TypeOK, DeleteRequest, Rows
      <3> QED BY <2>1, <2>3, <3>1, Untouched
    <2> QED BY <2>2, <2>3
  <1>7. CASE Restart
    <2>1. QuietAt(i) /\ ~Busy(i)
      BY <1>1, <1>2, <1>7 DEF Restart
    <2>2. /\ UNCHANGED <<live, deleted, index>>
          /\ Rows(i)' = Rows(i)
      BY <1>7 DEF Restart, Rows
    <2>3. \A w \in Sessions : sr'[w] = sr[w] \/ (SessionRunning(w) /\ sr'[w].identity = sr[w].identity)
      BY <1>7 DEF Restart, TypeOK, SessionRequest
    <2>4. \A d \in Deletes : dr'[d] = dr[d] \/ (DeleteRunning(d) /\ dr'[d].identity = dr[d].identity)
      BY <1>7 DEF Restart, TypeOK, DeleteRequest
    <2> QED BY <2>1, <2>2, <2>3, <2>4, Untouched DEF Busy
  <1>8. ASSUME NEW j \in Identities, NEW X \in SUBSET Identifiers, Register(j, X) PROVE QuietAt(i)'
    <2>1. QuietAt(i)
      BY <1>2, <1>8 DEF Register
    <2>2. CASE i = j
      BY <1>8, <2>1, <2>2, Registers
    <2>3. CASE i # j
      <3>1. /\ UNCHANGED <<deleted, index, sr, dr>> /\ (i \in live' <=> i \in live)
            /\ Rows(i)' = Rows(i)
        BY <1>8, <2>3 DEF Register, Rows
      <3> QED BY <2>1, <3>1, Untouched
    <2> QED BY <2>2, <2>3
  <1>9. CASE UNCHANGED <<live, deleted, users, index, sr, dr, faulted, overlapped>>
    <2>1. QuietAt(i) /\ Rows(i)' = Rows(i)
      BY <1>2, <1>9 DEF Rows
    <2> QED BY <1>9, <2>1, Untouched
  <1> QED
    BY <1>3, <1>4, <1>5, <1>6, <1>7, <1>8, <1>9 DEF Next, vars, Profile, Link, Unlink

-----------------------------------------------------------------------------
(* The theorems.                                                           *)

\* Every state of the directory satisfies the inductive invariant.
THEOREM DirectoryInvariant == Spec => []DirectoryInv
  <1>1. Init => DirectoryInv
    BY InitOwner, InitKnown, InitNamed, InitQuiet DEF DirectoryInv
  <1>2. TypeOK /\ TypeOK' /\ DirectoryInv /\ [Next]_vars => DirectoryInv'
    BY NextOwner, NextKnown, NextNamed, NextQuiet DEF DirectoryInv
  <1> QED BY <1>1, <1>2, TypeCorrect, PTL DEF Spec

\* The subject of a JWT is a user made for the identity the JWT names, and no
\* user id serves two identities, whatever fails or overlaps.
THEOREM JwtOfItsIdentity == Spec => []JwtMatchesIdentity
  <1>1. DirectoryInv => JwtMatchesIdentity
    BY DEF DirectoryInv, OwnerInv, JwtMatchesIdentity, Answered
  <1> QED BY <1>1, DirectoryInvariant, PTL

\* A row of an identifier leads to a user of an identity that once named the
\* identifier, as a credential or a trait, whatever moves, fails or overlaps.
THEOREM IdentifierOfPastName == Spec => []IdentifierWasNamed
  <1>1. DirectoryInv => IdentifierWasNamed
    BY DEF DirectoryInv
  <1> QED BY <1>1, DirectoryInvariant, PTL

\* Where nothing failed and nothing overlapped, all sessions of an identity are
\* answered with one user id.
THEOREM UserIDStable == Spec => []StableUserIDWhenQuiet
  <1>1. TypeOK /\ DirectoryInv => StableUserIDWhenQuiet
    <2> SUFFICES ASSUME TypeOK, DirectoryInv, NEW v \in Sessions, NEW w \in Sessions,
                        Answered(v), Answered(w), sr[v].identity = sr[w].identity,
                        Quiet(sr[v].identity)
                 PROVE  sr[v].user = sr[w].user
      BY DEF StableUserIDWhenQuiet
    <2>1. sr[v].identity \in Identities
      BY DEF TypeOK, SessionRequest, Answered
    <2> QED BY <2>1 DEF DirectoryInv, QuietInv, QuietAt
  <1> QED BY <1>1, TypeCorrect, DirectoryInvariant, PTL

\* Where nothing failed and nothing overlapped, a deleted account leaves no row
\* of its user and no entry in the index.
THEOREM DeletionPurgesUser == Spec => []QuietDeletePurgesUser
  <1>1. TypeOK /\ DirectoryInv => QuietDeletePurgesUser
    <2> SUFFICES ASSUME TypeOK, DirectoryInv, NEW d \in Deletes, Deleted(d), Quiet(dr[d].identity)
                 PROVE  index[dr[d].identity] = None /\ \A rec \in users : rec.identity # dr[d].identity
      BY DEF QuietDeletePurgesUser
    <2>1. dr[d].identity \in Identities
      BY DEF TypeOK, DeleteRequest, Deleted
    <2>2. HasNone(dr[d].identity)
      BY <2>1 DEF DirectoryInv, QuietInv, QuietAt
    <2> QED BY <2>2 DEF HasNone, Rows
  <1> QED BY <1>1, TypeCorrect, DirectoryInvariant, PTL
=============================================================================
