---------------------------- MODULE UserSessions ----------------------------
(***************************************************************************)
(* The sessions of one user: logins, the requests made under a session,    *)
(* changes of the password and an administrator who suspends and restores  *)
(* (auth-repository.js under application/auth/service.js).                 *)
(*                                                                         *)
(* A request checks the credential, then runs a transaction on a snapshot: *)
(* it conflicts with what was written since only where it writes itself.   *)
(* The fences of accounts write the user and the session they check; those *)
(* of questions and of administrators' commands on sources and jobs only   *)
(* read them, as a login does.  The expiry of sessions, rate limits and    *)
(* audit rows are left out.                                                *)
(***************************************************************************)
EXTENDS Naturals

CONSTANTS
    Request, Session, Password, None,
    SignedIn,       \* the sessions there are at the start
    MaxVersion      \* bound: the versions a run goes through

VARIABLES
    user,           \* its password, sessionVersion and status
    suspensions,    \* how often it was suspended (ghost)
    session,        \* of a session: its document, or None
    req             \* of a request: where it is, and what it has read

vars == <<user, suspensions, session, req>>

\* What opened a session: the password that was checked, and when (ghost).
Opening == [password : Password, suspensions : 0..MaxVersion]

Writing == {"touch", "logout", "password"}
Acting == Writing \cup {"command"}
Status == {"suspend", "restore"}

NoRequest ==
    [pc |-> "idle", op |-> "none", by |-> None, version |-> 0, opens |-> None,
     clean |-> TRUE, sees |-> {}]

NewSession(version, opens) == [version |-> version, status |-> "active", opens |-> opens]

Init ==
    /\ user \in [password : Password, version : {0}, status : {"active"}]
    /\ suspensions = 0
    /\ session = [s \in Session |->
         IF s \in SignedIn THEN NewSession(0, [password |-> user.password, suspensions |-> 0])
                          ELSE None]
    /\ req = [r \in Request |-> NoRequest]

-----------------------------------------------------------------------------
Opened == {s \in Session : session[s] # None}

\* authenticate: what any request under the session needs.
Usable(s) ==
    /\ s \in Opened /\ session[s].status = "active"
    /\ user.status = "active" /\ session[s].version = user.version

Reads(r, op, by) ==
    req' = [req EXCEPT ![r] =
              [pc |-> "checked", op |-> op, by |-> by, version |-> user.version,
               opens |-> [password |-> user.password, suspensions |-> suspensions],
               clean |-> TRUE, sees |-> {}]]

\* login: the password is that of the user it found.
Login(r) ==
    /\ req[r].pc = "idle" /\ user.status = "active"
    /\ Reads(r, "login", None)
    /\ UNCHANGED <<user, suspensions, session>>

\* A change of the password also checks the current one here.
Authenticate(r, s, op) ==
    /\ req[r].pc = "idle" /\ Usable(s)
    /\ Reads(r, op, s)
    /\ UNCHANGED <<user, suspensions, session>>

AdminAsks(r, op) ==
    /\ req[r].pc = "idle"
    /\ Reads(r, op, None)
    /\ UNCHANGED <<user, suspensions, session>>

-----------------------------------------------------------------------------
\* The fences a transaction reads in its snapshot: createSession,
\* assertActiveSessionForUser or assertActorFence, and updateUserStatus.
Fence(r) ==
    CASE req[r].op = "login" -> user.status = "active" /\ user.version = req[r].version
      [] req[r].op \in Acting -> Usable(req[r].by) /\ user.version = req[r].version
      [] req[r].op = "suspend" -> user.status = "active"
      [] req[r].op = "restore" -> user.status = "suspended"

Begin(r) ==
    /\ req[r].pc = "checked"
    /\ req' = [req EXCEPT ![r].pc = IF Fence(r) THEN "open" ELSE "refused",
                          ![r].clean = TRUE,
                          ![r].sees = {s \in Opened : session[s].status = "active"}]
    /\ UNCHANGED <<user, suspensions, session>>

\* The user has been written since the snapshot: the callback runs again.
Retry(r) ==
    /\ req[r].pc = "open" /\ req[r].op \in Writing \cup Status /\ ~req[r].clean
    /\ req' = [req EXCEPT ![r].pc = "checked"]
    /\ UNCHANGED <<user, suspensions, session>>

\* Mutant: the fence of a transaction only reads the user.
ReadsUser(r) ==
    /\ req[r].pc = "open"
    /\ req' = [req EXCEPT ![r].pc = "acted"]

\* A transaction that writes the user, and what it does to the others.
WritesUser(r) ==
    /\ req[r].pc = "open" /\ req[r].clean
    /\ req' = [q \in Request |->
                 CASE q = r -> [req[q] EXCEPT !.pc = "acted"]
                   [] q # r /\ req[q].pc = "open" -> [req[q] EXCEPT !.clean = FALSE]
                   [] OTHER -> req[q]]

\* revokeSessionsByUserId, in the snapshot.
Revoked(r) ==
    [s \in Session |-> IF s \in req[r].sees THEN [session[s] EXCEPT !.status = "revoked"]
                                            ELSE session[s]]

\* The commit of a login: its read of the user conflicts with nothing.
CommitLogin(r) ==
    /\ req[r].pc = "open" /\ req[r].op = "login"
    /\ \E s \in Session \ Opened :
         session' = [session EXCEPT ![s] = NewSession(req[r].version, req[r].opens)]
    /\ req' = [req EXCEPT ![r].pc = "acted"]
    /\ UNCHANGED <<user, suspensions>>

\* currentUser, updatePreferences, the append of an answer and the decision on a
\* takedown: what writes the user and nothing else that is kept here.
CommitTouch(r) ==
    /\ req[r].op = "touch" /\ WritesUser(r)
    /\ UNCHANGED <<user, suspensions, session>>

\* reserveAnswerAttempt, the deletion of conversations, the commands on sources, the
\* creation and cancellation of jobs: a read of user and session conflicts with nothing.
CommitCommand(r) ==
    /\ req[r].pc = "open" /\ req[r].op = "command"
    /\ req' = [req EXCEPT ![r].pc = "acted"]
    /\ UNCHANGED <<user, suspensions, session>>

CommitLogout(r) ==
    /\ req[r].op = "logout" /\ WritesUser(r)
    /\ session' = [session EXCEPT ![req[r].by].status = "revoked"]
    /\ UNCHANGED <<user, suspensions>>

\* Mutant: the new password comes with the old version.
CommitPasswordUnversioned(r) ==
    /\ req[r].op = "password" /\ WritesUser(r)
    /\ \E p \in Password, s \in Session \ Opened :
         /\ user' = [user EXCEPT !.password = p]
         /\ session' = [Revoked(r) EXCEPT ![s] =
              NewSession(user'.version, [password |-> p, suspensions |-> suspensions])]
    /\ UNCHANGED suspensions

\* updatePassword, revokeSessionsByUserId, createSession of the updated user.
CommitPassword(r) ==
    /\ req[r].op = "password" /\ WritesUser(r) /\ user.version < MaxVersion
    /\ \E p \in Password, s \in Session \ Opened :
         /\ user' = [user EXCEPT !.password = p, !.version = @ + 1]
         /\ session' = [Revoked(r) EXCEPT ![s] =
              NewSession(user'.version, [password |-> p, suspensions |-> suspensions])]
    /\ UNCHANGED suspensions

\* updateUserStatus and revokeSessionsByUserId.
CommitStatus(r) ==
    /\ req[r].op \in Status /\ WritesUser(r) /\ user.version < MaxVersion
    /\ user' = [user EXCEPT !.version = @ + 1,
                            !.status = IF req[r].op = "suspend" THEN "suspended" ELSE "active"]
    /\ suspensions' = IF req[r].op = "suspend" THEN suspensions + 1 ELSE suspensions
    /\ session' = Revoked(r)

\* The client leaves, the database refuses or the invocation ends.
Abort(r) ==
    /\ req[r].pc \in {"checked", "open"}
    /\ req' = [req EXCEPT ![r].pc = "refused"]
    /\ UNCHANGED <<user, suspensions, session>>

Commit(r) ==
    \/ CommitLogin(r) \/ CommitCommand(r)
    \/ CommitTouch(r) \/ CommitLogout(r) \/ CommitPassword(r) \/ CommitStatus(r)

Next ==
    \E r \in Request :
      \/ Login(r) \/ (\E s \in Session, op \in Acting : Authenticate(r, s, op))
      \/ (\E op \in Status : AdminAsks(r, op))
      \/ Begin(r) \/ Retry(r) \/ Commit(r) \/ Abort(r)

Spec == Init /\ [][Next]_vars

-----------------------------------------------------------------------------
TypeOK ==
    /\ user \in [password : Password, version : 0..MaxVersion, status : {"active", "suspended"}]
    /\ suspensions \in 0..MaxVersion
    /\ session \in [Session -> {None} \cup
         [version : 0..MaxVersion, status : {"active", "revoked"}, opens : Opening]]
    /\ req \in [Request ->
         [pc : {"idle", "checked", "open", "acted", "refused"},
          op : Acting \cup Status \cup {"none", "login"}, by : Session \cup {None},
          version : 0..MaxVersion, opens : Opening \cup {None},
          clean : BOOLEAN, sees : SUBSET Session]]

(***************************************************************************)
(* A session that authenticates was opened with the password of now, and   *)
(* after the last suspension.  A login only reads the user, so its session *)
(* can be inserted behind a revocation that did not see it: what keeps it  *)
(* out is the version it carries.                                          *)
(***************************************************************************)
SessionsAreCurrent ==
    \A s \in Session : Usable(s) =>
        session[s].opens = [password |-> user.password, suspensions |-> suspensions]

(***************************************************************************)
(* No account is changed under a session that was revoked or whose user    *)
(* was suspended or has another password by then, however early the        *)
(* request was authenticated: assertActiveSessionForUser writes what it    *)
(* checks.  A command only reads it (assertActorFence): it may outlive its *)
(* session, but only by a revocation that committed after its snapshot.    *)
(***************************************************************************)
ActStep ==
    \A r \in Request :
        req[r].pc = "open" /\ req'[r].pc = "acted" /\ req[r].op \in Acting =>
            \/ Usable(req[r].by)
            \/ req[r].op = "command" /\ ~req[r].clean
OnlyLiveSessionsAct == [][ActStep]_vars

(***************************************************************************)
(* Who changes the password stays signed in, on the new session alone      *)
(* (the comment of changePassword, auth/service.js:443).                   *)
(***************************************************************************)
ChangeStep ==
    \A r \in Request :
        req[r].pc = "open" /\ req'[r].pc = "acted" /\ req[r].op = "password" =>
            \E s \in Session \ Opened : {x \in Session : Usable(x)'} = {s}
OneSessionIsLeft == [][ChangeStep]_vars
=============================================================================
