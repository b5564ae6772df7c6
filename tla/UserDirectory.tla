---------------------------- MODULE UserDirectory ----------------------------
(***************************************************************************)
(* The application's user directory: the DynamoDB tables poc_users,        *)
(* poc_identity_index and poc_identifiers (store.go), filled on the way by *)
(* every session answer (sessionResponse) and emptied by the deletion of   *)
(* an account (handleDeleteAccount) in server.go.  Kratos owns identities, *)
(* their credentials and their traits; it is the environment here.         *)
(*                                                                         *)
(* Requests run concurrently.  Every store call and every call to Kratos   *)
(* is a step; a store call may fail, and a failed write may have been      *)
(* applied.  A new user id is one that was never drawn before.             *)
(***************************************************************************)
EXTENDS Naturals

CONSTANTS
    Identities,    \* Kratos identities, each registered at most once
    UserIds,       \* user ids uuid.NewString may draw
    Identifiers,   \* Google subjects, Telegram ids, e-mail addresses
    MethodOf,      \* MethodOf[x]: "google", "telegram" or "email_otp"
    Sessions,      \* requests answered by sessionResponse
    Deletes,       \* requests to DELETE /api/v1/auth/account
    None           \* absence of a value

ASSUME NoneAssumption == None \notin Identities \cup UserIds

VARIABLES
    live,          \* Kratos: identities that exist
    deleted,       \* Kratos: identities that were deleted
    holder,        \* Kratos: holder[x] is the identity x is linked to
    traits,        \* Kratos: identifiers among the traits of an identity
    named,         \* named[x]: identities that ever had x as a credential or a
                   \* trait (history)
    users,         \* table poc_users
    index,         \* table poc_identity_index: user id of an identity
    identifiers,   \* table poc_identifiers: user id of an identifier
    owner,         \* identity for which a user id was drawn (history)
    sr,            \* the session requests
    dr,            \* the delete requests
    faulted,       \* identities for which a call failed or the service was
                   \* restarted (history)
    overlapped     \* identities for which two requests overlapped (history)

kratos == <<live, deleted, holder, traits, named>>
tables == <<users, index, identifiers, owner>>
history == <<faulted, overlapped>>
vars == <<live, deleted, holder, traits, named, users, index, identifiers, owner, sr, dr, faulted, overlapped>>

-----------------------------------------------------------------------------
User == [userId : UserIds, identity : Identities]

SessionPc == {"idle", "readIndex", "readUser", "putUser", "putIndex",
              "readAdmin", "putIdentifiers", "answered", "failed"}

SessionRequest ==
    [pc : SessionPc,
     identity : Identities \cup {None},   \* session.Identity.ID of WhoAmI
     traits : SUBSET Identifiers,         \* session.Identity.Traits
     user : UserIds \cup {None},          \* user.UserID
     todo : SUBSET Identifiers]           \* identifiers still to be put

DeletePc == {"idle", "readIndex", "readUser", "deleteIdentity",
             "deleteUser", "deleteIndex", "answered", "failed"}

DeleteRequest ==
    [pc : DeletePc,
     identity : Identities \cup {None},
     user : UserIds \cup {None}]

TypeOK ==
    /\ live \subseteq Identities
    /\ deleted \subseteq Identities
    /\ holder \in [Identifiers -> Identities \cup {None}]
    /\ traits \in [Identities -> SUBSET Identifiers]
    /\ named \in [Identifiers -> SUBSET Identities]
    /\ users \subseteq User
    /\ index \in [Identities -> UserIds \cup {None}]
    /\ identifiers \in [Identifiers -> UserIds \cup {None}]
    /\ owner \in [UserIds -> Identities \cup {None}]
    /\ sr \in [Sessions -> SessionRequest]
    /\ dr \in [Deletes -> DeleteRequest]
    /\ faulted \subseteq Identities
    /\ overlapped \subseteq Identities
    \* what a request holds at each point of its handler
    /\ \A w \in Sessions :
          /\ sr[w].pc # "idle" => sr[w].identity # None
          /\ sr[w].pc \in {"readUser", "putIndex", "readAdmin", "putIdentifiers", "answered"}
                => sr[w].user # None
    /\ \A d \in Deletes :
          /\ dr[d].pc # "idle" => dr[d].identity # None
          /\ dr[d].pc \in {"readUser", "deleteUser", "deleteIndex"} => dr[d].user # None

Init ==
    /\ live = {}
    /\ deleted = {}
    /\ holder = [x \in Identifiers |-> None]
    /\ traits = [i \in Identities |-> {}]
    /\ named = [x \in Identifiers |-> {}]
    /\ users = {}
    /\ index = [i \in Identities |-> None]
    /\ identifiers = [x \in Identifiers |-> None]
    /\ owner = [u \in UserIds |-> None]
    /\ sr = [w \in Sessions |-> [pc |-> "idle", identity |-> None, traits |-> {},
                                 user |-> None, todo |-> {}]]
    /\ dr = [d \in Deletes |-> [pc |-> "idle", identity |-> None, user |-> None]]
    /\ faulted = {}
    /\ overlapped = {}

SessionRunning(w) == sr[w].pc \notin {"idle", "answered", "failed"}
DeleteRunning(d) == dr[d].pc \notin {"idle", "answered", "failed"}

\* Some request works on identity i.
Busy(i) ==
    \/ \E w \in Sessions : SessionRunning(w) /\ sr[w].identity = i
    \/ \E d \in Deletes : DeleteRunning(d) /\ dr[d].identity = i

Held(i) == {x \in Identifiers : holder[x] = i}
MethodsOf(X) == {MethodOf[x] : x \in X}
OnePerMethod(X) == \A x, y \in X : MethodOf[x] = MethodOf[y] => x = y

\* Methods whose identifier sessionResponse reads from the traits.
TraitMethods == {"telegram", "email_otp"}

-----------------------------------------------------------------------------
(* Kratos, the environment.                                                *)

\* Identity i names the identifiers X from now on.
Names(i, X) == named' = [x \in Identifiers |-> IF x \in X THEN named[x] \cup {i} ELSE named[x]]

\* A registration by Google, which may come with an address, by Telegram, by e-mail
\* or by passkey.  The mappers fill the traits now and never again.
Register(i, X) ==
    /\ i \notin live \cup deleted
    /\ OnePerMethod(X)
    /\ "telegram" \in MethodsOf(X) => MethodsOf(X) = {"telegram"}
    /\ \A x \in X : holder[x] = None
    /\ live' = live \cup {i}
    /\ holder' = [x \in Identifiers |-> IF x \in X THEN i ELSE holder[x]]
    /\ traits' = [traits EXCEPT ![i] = {x \in X : MethodOf[x] \in TraitMethods}]
    /\ Names(i, X)
    /\ UNCHANGED <<deleted, tables, sr, dr, history>>

\* An OIDC subject is linked to one identity at a time, one for each provider.
Link(x, i) ==
    /\ i \in live
    /\ MethodOf[x] \notin {"email_otp"} \cup MethodsOf(Held(i))
    /\ holder[x] = None
    /\ holder' = [holder EXCEPT ![x] = i]
    /\ Names(i, {x})
    /\ UNCHANGED <<live, deleted, traits, tables, sr, dr, history>>

\* Its traits stay.
Unlink(x) ==
    /\ holder[x] # None
    /\ MethodOf[x] # "email_otp"
    /\ holder' = [holder EXCEPT ![x] = None]
    /\ UNCHANGED <<live, deleted, traits, named, tables, sr, dr, history>>

\* A profile update gives i the traits X: email_link_start sends the user name and
\* the address only, and the settings of Kratos are open to the user, too.  An
\* address is the identifier of a credential; telegram_id is a trait like any other.
Profile(i, X) ==
    /\ i \in live
    /\ OnePerMethod(X) /\ MethodsOf(X) \subseteq TraitMethods
    /\ \A x \in X : MethodOf[x] = "email_otp" => holder[x] \in {None, i}
    /\ holder' = [x \in Identifiers |->
                      IF MethodOf[x] # "email_otp" THEN holder[x]
                      ELSE IF x \in X THEN i ELSE IF holder[x] = i THEN None ELSE holder[x]]
    /\ traits' = [traits EXCEPT ![i] = X]
    /\ Names(i, X)
    /\ UNCHANGED <<live, deleted, tables, sr, dr, history>>

-----------------------------------------------------------------------------
(* sessionResponse.                                                        *)

SessionGoto(w, pc) == sr' = [sr EXCEPT ![w].pc = pc]

\* A store call of request w failed.
SessionFault(w) == faulted' = faulted \cup {sr[w].identity}

\* WhoAmI answers for a session of a live identity.
SessionWhoAmI(w, i) ==
    /\ sr[w].pc = "idle"
    /\ i \in live
    /\ sr' = [sr EXCEPT ![w].pc = "readIndex", ![w].identity = i, ![w].traits = traits[i]]
    /\ overlapped' = IF Busy(i) THEN overlapped \cup {i} ELSE overlapped
    /\ UNCHANGED <<kratos, tables, dr, faulted>>

\* Mutant: the index is scanned, not read by key.
SessionScansIndex(w) ==
    /\ sr[w].pc = "readIndex"
    /\ \E i \in Identities :
          /\ index[i] # None
          /\ sr' = [sr EXCEPT ![w].pc = "readUser", ![w].user = index[i]]
    /\ UNCHANGED <<kratos, tables, dr, history>>

\* GetUserByKratosID: an index entry leads to the users table.
SessionReadsIndex(w) ==
    /\ sr[w].pc = "readIndex"
    /\ index[sr[w].identity] # None
    /\ sr' = [sr EXCEPT ![w].pc = "readUser", ![w].user = index[sr[w].identity]]
    /\ UNCHANGED <<kratos, tables, dr, history>>

\* Mutant: a missing index entry is put without a user.
SessionForgetsUser(w) ==
    /\ sr[w].pc = "readIndex"
    /\ index[sr[w].identity] = None
    /\ SessionGoto(w, "putIndex")
    /\ UNCHANGED <<kratos, tables, dr, history>>

SessionMissesIndex(w) ==
    /\ sr[w].pc = "readIndex"
    /\ index[sr[w].identity] = None
    /\ SessionGoto(w, "putUser")
    /\ UNCHANGED <<kratos, tables, dr, history>>

SessionReadsUser(w) ==
    /\ sr[w].pc = "readUser"
    /\ \E rec \in users : rec.userId = sr[w].user
    /\ SessionGoto(w, "readAdmin")
    /\ UNCHANGED <<kratos, tables, dr, history>>

SessionMissesUser(w) ==
    /\ sr[w].pc = "readUser"
    /\ \A rec \in users : rec.userId # sr[w].user
    /\ SessionGoto(w, "putUser")
    /\ UNCHANGED <<kratos, tables, dr, history>>

\* GetOrCreateUser takes a failed read for an absent user.
SessionReadFails(w) ==
    /\ sr[w].pc \in {"readIndex", "readUser"}
    /\ SessionGoto(w, "putUser")
    /\ SessionFault(w)
    /\ UNCHANGED <<kratos, tables, dr, overlapped>>

\* A new user under a fresh id; the two puts are unconditional.
SessionPutsUser(w, u) ==
    /\ sr[w].pc = "putUser"
    /\ owner[u] = None
    /\ owner' = [owner EXCEPT ![u] = sr[w].identity]
    /\ users' = users \cup {[userId |-> u, identity |-> sr[w].identity]}
    /\ sr' = [sr EXCEPT ![w].pc = "putIndex", ![w].user = u]
    /\ UNCHANGED <<kratos, index, identifiers, dr, history>>

SessionPutUserFails(w, u) ==
    /\ sr[w].pc = "putUser"
    /\ owner[u] = None
    /\ owner' = [owner EXCEPT ![u] = sr[w].identity]
    /\ users' \in {users, users \cup {[userId |-> u, identity |-> sr[w].identity]}}
    /\ SessionGoto(w, "failed")
    /\ SessionFault(w)
    /\ UNCHANGED <<kratos, index, identifiers, dr, overlapped>>

\* Mutant: a new user is not entered in the index.
SessionForgetsIndex(w) ==
    /\ sr[w].pc = "putIndex"
    /\ SessionGoto(w, "readAdmin")
    /\ UNCHANGED <<kratos, tables, dr, history>>

SessionPutsIndex(w) ==
    /\ sr[w].pc = "putIndex"
    /\ index' = [index EXCEPT ![sr[w].identity] = sr[w].user]
    /\ SessionGoto(w, "readAdmin")
    /\ UNCHANGED <<kratos, users, identifiers, owner, dr, history>>

SessionPutIndexFails(w) ==
    /\ sr[w].pc = "putIndex"
    /\ index' \in {index, [index EXCEPT ![sr[w].identity] = sr[w].user]}
    /\ SessionGoto(w, "failed")
    /\ SessionFault(w)
    /\ UNCHANGED <<kratos, users, identifiers, owner, dr, overlapped>>

\* Mutant: the identity is looked up by an identifier that may have moved.
SessionReadsOtherAdmin(w) ==
    /\ sr[w].pc = "readAdmin"
    /\ \E i \in live : sr' = [sr EXCEPT ![w].pc = "putIdentifiers", ![w].todo = Held(i)]
    /\ UNCHANGED <<kratos, tables, dr, history>>

\* GetAdminIdentity gives the linked methods.  The Google subject comes from the
\* credentials; for each other method that is linked the trait WhoAmI returned is
\* taken, whether or not it is the identifier of that credential.
SessionReadsAdmin(w) ==
    /\ sr[w].pc = "readAdmin"
    /\ sr[w].identity \in live
    /\ LET linked == Held(sr[w].identity)
           fromTraits == {x \in sr[w].traits : MethodOf[x] \in MethodsOf(linked) \cap TraitMethods}
           fromCredentials == {x \in linked : MethodOf[x] \notin TraitMethods}
       IN  sr' = [sr EXCEPT ![w].pc = "putIdentifiers", ![w].todo = fromTraits \cup fromCredentials]
    /\ UNCHANGED <<kratos, tables, dr, history>>

\* Its error is ignored: no linked methods.  So is a deleted identity's 404.
SessionReadAdminFails(w) ==
    /\ sr[w].pc = "readAdmin"
    /\ SessionGoto(w, "putIdentifiers")
    /\ UNCHANGED <<kratos, tables, dr, history>>

\* PutIdentifier overwrites; its error is ignored.
SessionPutsIdentifier(w, x) ==
    /\ sr[w].pc = "putIdentifiers"
    /\ x \in sr[w].todo
    /\ sr' = [sr EXCEPT ![w].todo = @ \ {x}]
    /\ identifiers' \in {identifiers, [identifiers EXCEPT ![x] = sr[w].user]}
    /\ UNCHANGED <<kratos, users, index, owner, dr, history>>

\* The answer: a JWT for the user and the identity of the session.
SessionAnswers(w) ==
    /\ sr[w].pc = "putIdentifiers"
    /\ sr[w].todo = {}
    /\ SessionGoto(w, "answered")
    /\ UNCHANGED <<kratos, tables, dr, history>>

-----------------------------------------------------------------------------
(* handleDeleteAccount.                                                    *)

DeleteGoto(d, pc) == dr' = [dr EXCEPT ![d].pc = pc]
DeleteFault(d) == faulted' = faulted \cup {dr[d].identity}

DeleteWhoAmI(d, i) ==
    /\ dr[d].pc = "idle"
    /\ i \in live
    /\ dr' = [dr EXCEPT ![d].pc = "readIndex", ![d].identity = i]
    /\ overlapped' = IF Busy(i) THEN overlapped \cup {i} ELSE overlapped
    /\ UNCHANGED <<kratos, tables, sr, faulted>>

\* GetUserByKratosID, two reads; without a row there is no user to purge.
DeleteReadsIndex(d) ==
    /\ dr[d].pc = "readIndex"
    /\ dr' = [dr EXCEPT ![d].pc = IF index[dr[d].identity] = None
                                  THEN "deleteIdentity" ELSE "readUser",
                        ![d].user = index[dr[d].identity]]
    /\ UNCHANGED <<kratos, tables, sr, history>>

DeleteReadsUser(d) ==
    /\ dr[d].pc = "readUser"
    /\ dr' = [dr EXCEPT ![d].pc = "deleteIdentity",
                        ![d].user = IF \E rec \in users : rec.userId = @ THEN @ ELSE None]
    /\ UNCHANGED <<kratos, tables, sr, history>>

\* A failed read is ignored: there is no user to purge either.
DeleteReadFails(d) ==
    /\ dr[d].pc \in {"readIndex", "readUser"}
    /\ dr' = [dr EXCEPT ![d].pc = "deleteIdentity", ![d].user = None]
    /\ DeleteFault(d)
    /\ UNCHANGED <<kratos, tables, sr, overlapped>>

\* Kratos deletes the identity, its sessions and its credentials.
DropIdentity(i) ==
    /\ live' = live \ {i}
    /\ deleted' = deleted \cup {i}
    /\ holder' = [x \in Identifiers |-> IF holder[x] = i THEN None ELSE holder[x]]
    /\ traits' = [traits EXCEPT ![i] = {}]
    /\ UNCHANGED named

DeleteIdentity(d) ==
    /\ dr[d].pc = "deleteIdentity"
    /\ dr[d].identity \in live
    /\ DropIdentity(dr[d].identity)
    /\ DeleteGoto(d, IF dr[d].user = None THEN "answered" ELSE "deleteUser")
    /\ UNCHANGED <<tables, sr, history>>

\* Kratos fails, before or after deleting, or the identity is already gone.
DeleteIdentityFails(d) ==
    /\ dr[d].pc = "deleteIdentity"
    /\ DropIdentity(dr[d].identity) \/ UNCHANGED kratos
    /\ DeleteGoto(d, "failed")
    /\ DeleteFault(d)
    /\ UNCHANGED <<tables, sr, overlapped>>

\* DeleteUserData, two deletes whose errors are ignored.
DeleteUserRow(d) ==
    /\ dr[d].pc = "deleteUser"
    /\ users' = {rec \in users : rec.userId # dr[d].user}
    /\ DeleteGoto(d, "deleteIndex")
    /\ UNCHANGED <<kratos, index, identifiers, owner, sr, history>>

\* Mutant: the index row is forgotten.
DeleteKeepsIndex(d) ==
    /\ dr[d].pc = "deleteIndex"
    /\ DeleteGoto(d, "answered")
    /\ UNCHANGED <<kratos, tables, sr, history>>

DeleteIndexRow(d) ==
    /\ dr[d].pc = "deleteIndex"
    /\ index' = [index EXCEPT ![dr[d].identity] = None]
    /\ DeleteGoto(d, "answered")
    /\ UNCHANGED <<kratos, users, identifiers, owner, sr, history>>

DeleteRowFails(d) ==
    /\ \/ dr[d].pc = "deleteUser" /\ DeleteGoto(d, "deleteIndex")
       \/ dr[d].pc = "deleteIndex" /\ DeleteGoto(d, "answered")
    /\ DeleteFault(d)
    /\ UNCHANGED <<kratos, tables, sr, overlapped>>

-----------------------------------------------------------------------------
\* The service ends and starts again; requests in progress are not answered.
Restart ==
    /\ \E i \in Identities : Busy(i)
    /\ sr' = [w \in Sessions |-> IF SessionRunning(w) THEN [sr[w] EXCEPT !.pc = "failed"] ELSE sr[w]]
    /\ dr' = [d \in Deletes |-> IF DeleteRunning(d) THEN [dr[d] EXCEPT !.pc = "failed"] ELSE dr[d]]
    /\ faulted' = faulted \cup {i \in Identities : Busy(i)}
    /\ UNCHANGED <<kratos, tables, overlapped>>

SessionStep(w) ==
    \/ SessionReadsIndex(w) \/ SessionMissesIndex(w) \/ SessionReadsUser(w) \/ SessionMissesUser(w)
    \/ SessionReadFails(w)
    \/ \E u \in UserIds : SessionPutsUser(w, u) \/ SessionPutUserFails(w, u)
    \/ SessionPutsIndex(w) \/ SessionPutIndexFails(w)
    \/ SessionReadsAdmin(w) \/ SessionReadAdminFails(w)
    \/ \E x \in Identifiers : SessionPutsIdentifier(w, x)
    \/ SessionAnswers(w)

DeleteStep(d) ==
    \/ DeleteReadsIndex(d) \/ DeleteReadsUser(d) \/ DeleteReadFails(d)
    \/ DeleteIdentity(d) \/ DeleteIdentityFails(d)
    \/ DeleteUserRow(d) \/ DeleteIndexRow(d) \/ DeleteRowFails(d)

Next ==
    \/ \E i \in Identities :
          \/ \E X \in SUBSET Identifiers : Register(i, X) \/ Profile(i, X)
          \/ \E x \in Identifiers : Link(x, i)
          \/ \E w \in Sessions : SessionWhoAmI(w, i)
          \/ \E d \in Deletes : DeleteWhoAmI(d, i)
    \/ \E x \in Identifiers : Unlink(x)
    \/ \E w \in Sessions : SessionStep(w)
    \/ \E d \in Deletes : DeleteStep(d)
    \/ Restart

Spec == Init /\ [][Next]_vars

-----------------------------------------------------------------------------
(* Properties                                                              *)

Answered(w) == sr[w].pc = "answered"
Deleted(d) == dr[d].pc = "answered"
Quiet(i) == i \notin faulted \cup overlapped

\* The subject of a JWT is a user made for the very identity the JWT names, and
\* no user id ever serves two identities, whatever fails or overlaps.
JwtMatchesIdentity ==
    /\ \A w \in Sessions : Answered(w) => owner[sr[w].user] = sr[w].identity
    /\ \A i, j \in Identities : index[i] = index[j] /\ index[i] # None => i = j

\* A row of poc_identifiers leads to a user made for an identity that once named
\* the identifier, as a credential or a trait, although traits and linked methods
\* are read at two times and the rows are put one by one while identifiers move.
\* That the identity holds the identifier, or ever held it, is not promised: the
\* row of a telegram_id follows the trait.
IdentifierWasNamed ==
    \A x \in Identifiers : identifiers[x] # None => owner[identifiers[x]] \in named[x]

\* Where no call failed and requests came one after the other, every session of
\* an identity is answered with the same user id.
StableUserIDWhenQuiet ==
    \A v, w \in Sessions :
        /\ Answered(v) /\ Answered(w)
        /\ sr[v].identity = sr[w].identity
        /\ Quiet(sr[v].identity)
        => sr[v].user = sr[w].user

\* Where no call failed and requests came one after the other, a deleted account
\* leaves no row in the users table and none in the index.
QuietDeletePurgesUser ==
    \A d \in Deletes : Deleted(d) /\ Quiet(dr[d].identity) =>
        /\ index[dr[d].identity] = None
        /\ \A rec \in users : rec.identity # dr[d].identity

\* "a google+passkey user resolves to one stable user_id": read here for
\* identities for which no call ever failed.
StableUserID ==
    \A v, w \in Sessions :
        /\ Answered(v) /\ Answered(w)
        /\ sr[v].identity = sr[w].identity
        /\ sr[v].identity \notin faulted
        => sr[v].user = sr[w].user

\* "Identity gone, DynamoDB rows purged": read here for accounts for which no
\* call failed and no request overlapped another.
AccountPurged ==
    \A d \in Deletes : Deleted(d) /\ Quiet(dr[d].identity) =>
        \A x \in Identifiers :
            identifiers[x] # None => owner[identifiers[x]] # dr[d].identity
-----------------------------------------------------------------------------
(* The inductive invariant behind the safety properties.                   *)

\* A user id found in the index, in the users table or in a request was drawn for
\* the identity it is found under.
OwnerInv ==
    /\ \A i \in Identities : index[i] # None => owner[index[i]] = i
    /\ \A rec \in users : owner[rec.userId] = rec.identity
    /\ \A w \in Sessions :
          sr[w].pc \in {"readUser", "putIndex", "readAdmin", "putIdentifiers", "answered"}
             => owner[sr[w].user] = sr[w].identity

\* A request names an identity that Kratos has or had, and the user that a
\* deletion is about to purge was drawn for the identity it deletes.
KnownInv ==
    /\ live \cap deleted = {}
    /\ \A w \in Sessions : sr[w].pc # "idle" => sr[w].identity \in live \cup deleted
    /\ \A d \in Deletes : dr[d].pc # "idle" => dr[d].identity \in live \cup deleted
    /\ \A d \in Deletes :
          dr[d].pc \in {"readUser", "deleteIdentity", "deleteUser", "deleteIndex"} /\ dr[d].user # None
             => owner[dr[d].user] = dr[d].identity

\* What a session request is about to put was named by its identity.
NamedInv ==
    /\ \A x \in Identifiers : holder[x] # None => holder[x] \in named[x]
    /\ \A i \in Identities : \A x \in traits[i] : i \in named[x]
    /\ \A w \in Sessions : \A x \in sr[w].traits \cup sr[w].todo :
          sr[w].pc # "idle" /\ sr[w].identity \in named[x]

Row(i, u) == [userId |-> u, identity |-> i]
Rows(i) == {rec \in users : rec.identity = i}
HasUser(i, u) == index[i] = u /\ Rows(i) = {Row(i, u)}
HasNone(i) == index[i] = None /\ Rows(i) = {}

\* The two tables agree on identity i.
Tidy(i) == HasNone(i) \/ \E u \in UserIds : HasUser(i, u)

SessionOn(w, i) == SessionRunning(w) /\ sr[w].identity = i
DeleteOn(d, i) == DeleteRunning(d) /\ dr[d].identity = i

\* What the tables hold of identity i while session request w works on it alone.
SessionSees(w, i) ==
    /\ i \in live
    /\ sr[w].pc = "readIndex" => Tidy(i)
    /\ sr[w].pc \in {"readUser", "readAdmin", "putIdentifiers"} => HasUser(i, sr[w].user)
    /\ sr[w].pc = "putUser" => HasNone(i)
    /\ sr[w].pc = "putIndex" => index[i] = None /\ Rows(i) = {Row(i, sr[w].user)}

\* The same for deletion d.
DeleteSees(d, i) ==
    /\ i \in (IF dr[d].pc \in {"deleteUser", "deleteIndex"} THEN deleted ELSE live)
    /\ dr[d].pc = "readIndex" => Tidy(i)
    /\ dr[d].pc \in {"readUser", "deleteUser"} => HasUser(i, dr[d].user)
    /\ dr[d].pc = "deleteIdentity" =>
          IF dr[d].user = None THEN HasNone(i) ELSE HasUser(i, dr[d].user)
    /\ dr[d].pc = "deleteIndex" => Rows(i) = {}

\* One request at a time works on identity i.
OneRequest(i) ==
    /\ \A v, w \in Sessions : SessionOn(v, i) /\ SessionOn(w, i) => v = w
    /\ \A d, e \in Deletes : DeleteOn(d, i) /\ DeleteOn(e, i) => d = e
    /\ \A w \in Sessions, d \in Deletes : ~(SessionOn(w, i) /\ DeleteOn(d, i))

\* Between requests the tables agree; what was answered stays true of them until
\* the identity is deleted, and the users answered never differ.
QuietAt(i) ==
    /\ OneRequest(i)
    /\ \A w \in Sessions : SessionOn(w, i) => SessionSees(w, i)
    /\ \A d \in Deletes : DeleteOn(d, i) => DeleteSees(d, i)
    /\ ~Busy(i) => Tidy(i)
    /\ \A w \in Sessions :
          Answered(w) /\ sr[w].identity = i /\ i \in live => HasUser(i, sr[w].user)
    /\ \A v, w \in Sessions :
          Answered(v) /\ Answered(w) /\ sr[v].identity = i /\ sr[w].identity = i
             => sr[v].user = sr[w].user
    /\ \A d \in Deletes :
          Deleted(d) /\ dr[d].identity = i => i \in deleted /\ HasNone(i)

QuietInv == \A i \in Identities : Quiet(i) => QuietAt(i)

DirectoryInv == OwnerInv /\ KnownInv /\ NamedInv /\ IdentifierWasNamed /\ QuietInv
=============================================================================
