------------------------ MODULE UserSessions_proofs ------------------------
(***************************************************************************)
(* What authenticates is current, for any number of requests, sessions and *)
(* passwords.  The argument is that of versions: nothing is newer than the *)
(* user, and what carries the user's version was made for the user as it   *)
(* is.  The constants are only asked that None is no document.             *)
(***************************************************************************)
EXTENDS UserSessions, TLAPS

State == {"idle", "checked", "open", "acted", "refused"}
Operation == Acting \cup Status \cup {"none", "login"}
Version == 0..MaxVersion

User == [password : Password, version : Version, status : {"active", "suspended"}]
Document == [version : Version, status : {"active", "revoked"}, opens : Opening]

Record ==
    [pc : State, op : Operation, by : Session \cup {None}, version : Version,
     opens : Opening \cup {None}, clean : BOOLEAN, sees : SUBSET Session]

Constants == MaxVersion \in Nat /\ None \notin Document

Now == [password |-> user.password, suspensions |-> suspensions]

\* A suspension takes a version of its own.
Counted == suspensions <= user.version

\* No session is newer than the user; one of its version is of the user as it is.
SessionFits(s) ==
    session[s] \in Document =>
        /\ session[s].version <= user.version
        /\ session[s].version = user.version => session[s].opens = Now

\* The same of what a request has read that has not ended.  What it acts under
\* and what it has seen are sessions; nothing that takes a session away commits
\* beside an open transaction and leaves it clean.
Reading(r) == req[r].pc \in {"checked", "open"}

RequestFits(r) ==
    /\ Reading(r) =>
         /\ req[r].opens \in Opening
         /\ req[r].version <= user.version
         /\ req[r].version = user.version => req[r].opens = Now
         /\ req[r].op \in Acting => req[r].by \in Session /\ session[req[r].by] \in Document
    /\ \A s \in req[r].sees : session[s] \in Document
    /\ req[r].pc = "open" /\ req[r].clean /\ req[r].op \in Acting => Usable(req[r].by)

IInv ==
    /\ TypeOK
    /\ Counted
    /\ \A s \in Session : SessionFits(s)
    /\ \A r \in Request : RequestFits(r)

-----------------------------------------------------------------------------
\* The fields of a request that one step writes, and those it leaves.
LEMMA Moves ==
    ASSUME NEW q \in Record, NEW pc \in State, NEW new, new = [q EXCEPT !.pc = pc]
    PROVE  /\ new \in Record /\ new.pc = pc /\ new.op = q.op /\ new.by = q.by
           /\ new.version = q.version /\ new.opens = q.opens /\ new.sees = q.sees
           /\ new.clean = q.clean
  BY SMT DEF Record

LEMMA Soils ==
    ASSUME NEW q \in Record, NEW clean \in BOOLEAN, NEW new,
           new = [q EXCEPT !.clean = clean]
    PROVE  /\ new \in Record /\ new.pc = q.pc /\ new.op = q.op /\ new.by = q.by
           /\ new.version = q.version /\ new.opens = q.opens /\ new.sees = q.sees
           /\ new.clean <=> clean
  BY SMT DEF Record

LEMMA Sees ==
    ASSUME NEW q \in Record, NEW sees \in SUBSET Session, NEW new,
           new = [q EXCEPT !.sees = sees]
    PROVE  /\ new \in Record /\ new.pc = q.pc /\ new.op = q.op /\ new.by = q.by
           /\ new.version = q.version /\ new.opens = q.opens /\ new.sees = sees
           /\ new.clean = q.clean
  BY SMT DEF Record

\* Versions are numbers, and a document or a request is typed by TypeOK.
LEMMA Typed ==
    ASSUME Constants, TypeOK
    PROVE  /\ user.version \in Nat /\ suspensions \in Nat
           /\ user.version \in Version /\ Version \subseteq Nat
           /\ user \in User
           /\ suspensions \in Version
           /\ session \in [Session -> {None} \cup Document]
           /\ req \in [Request -> Record]
           /\ Now \in Opening
<1>1. /\ user \in User
      /\ suspensions \in Version
      /\ session \in [Session -> {None} \cup Document]
      /\ req \in [Request -> Record]
  BY Zenon DEF TypeOK, User, Document, Record, State, Operation, Version
<1>2. Version \subseteq Nat
  BY SMT DEF Version, Constants
<1>3. Now \in Opening /\ user.version \in Version
  BY <1>1, SMT DEF User, Now, Opening, Version
<1> QED
  BY <1>1, <1>2, <1>3

-----------------------------------------------------------------------------
\* At the start there are the sessions of the user as it is, and no requests.
LEMMA InitFits ==
    ASSUME Constants, Init PROVE IInv
<1>1. user \in [password : Password, version : {0}, status : {"active"}] /\ suspensions = 0
  BY DEF Init
<1>2. Now \in Opening /\ 0 \in Version
  BY <1>1, SMT DEF Now, Opening, Version, Constants
<1> DEFINE first == [version |-> 0, status |-> "active", opens |-> Now]
<1>3. session \in [Session -> {None, first}]
  BY <1>1, SMT DEF Init, NewSession, Now
<1>4. first \in Document
  BY <1>2, SMT DEF Document
<1>5. NoRequest \in Record /\ NoRequest.pc = "idle" /\ NoRequest.sees = {}
  BY <1>2, SMT DEF NoRequest, Record, State, Operation
<1>6. req = [r \in Request |-> NoRequest]
  BY DEF Init
<1>7. TypeOK
  <2>1. session \in [Session -> {None} \cup Document]
    BY <1>3, <1>4, SMT
  <2>2. req \in [Request -> Record]
    BY <1>5, <1>6, SMT
  <2>3. user \in User
    BY <1>1, <1>2, SMT DEF User
  <2> QED
    BY <1>1, <1>2, <2>1, <2>2, <2>3 DEF TypeOK, User, Document, Record, State, Operation, Version
<1>8. Counted
  BY <1>1, SMT DEF Counted
<1>9. ASSUME NEW s \in Session PROVE SessionFits(s)
  BY <1>1, <1>3, SMT DEF SessionFits, Constants
<1>10. ASSUME NEW r \in Request PROVE RequestFits(r)
  BY <1>5, <1>6, SMT DEF RequestFits, Reading
<1> QED
  BY <1>7, <1>8, <1>9, <1>10 DEF IInv

\* A step that only changes what one request has read.
LEMMA QuietKeeps ==
    ASSUME Constants, IInv, NEW r \in Request, NEW new \in Record,
           req' = [req EXCEPT ![r] = new],
           UNCHANGED <<user, suspensions, session>>,
           RequestFits(r)'
    PROVE  IInv'
<1>1. req \in [Request -> Record]
  BY Typed DEF IInv
<1>2. TypeOK'
  <2>1. req' \in [Request -> Record]
    BY <1>1, SMT
  <2> QED
    BY <2>1 DEF IInv, TypeOK, Record, State, Operation, Version
<1>3. Counted' /\ \A s \in Session : SessionFits(s)'
  BY DEF IInv, Counted, SessionFits, Now
<1>4. ASSUME NEW q \in Request PROVE RequestFits(q)'
  <2>1. CASE q = r
    BY <2>1
  <2>2. CASE q # r
    <3>1. req'[q] = req[q]
      BY <1>1, <2>2
    <3>2. RequestFits(q)
      BY DEF IInv
    <3> QED
      BY <3>1, <3>2 DEF RequestFits, Reading, Now, Usable, Opened
  <2> QED
    BY <2>1, <2>2
<1> QED
  BY <1>2, <1>3, <1>4 DEF IInv

\* A check of a credential, or of an administrator.
LEMMA CheckKeeps ==
    ASSUME Constants, IInv, NEW r \in Request,
           \/ Login(r)
           \/ \E s \in Session, op \in Acting : Authenticate(r, s, op)
           \/ \E op \in Status : AdminAsks(r, op)
    PROVE  IInv'
<1>1. PICK op \in Operation, by \in Session \cup {None} :
        /\ Reads(r, op, by)
        /\ op \in Acting => by \in Session /\ session[by] \in Document
  <2>1. CASE Login(r)
    BY <2>1, SMT DEF Login, Acting, Writing, Operation
  <2>2. CASE \E s \in Session, op \in Acting : Authenticate(r, s, op)
    <3>1. PICK s \in Session, op \in Acting : Authenticate(r, s, op)
      BY <2>2
    <3>2. session[s] \in Document
      BY <3>1, Typed, SMT DEF Authenticate, Usable, Opened, IInv
    <3> QED
      BY <3>1, <3>2 DEF Authenticate, Operation
  <2>3. CASE \E op \in Status : AdminAsks(r, op)
    BY <2>3, SMT DEF AdminAsks, Acting, Writing, Status, Operation
  <2> QED
    BY <2>1, <2>2, <2>3
<1>2. UNCHANGED <<user, suspensions, session>>
  BY DEF Login, Authenticate, AdminAsks
<1> DEFINE new == [pc |-> "checked", op |-> op, by |-> by, version |-> user.version,
                   opens |-> Now, clean |-> TRUE, sees |-> {}]
<1>3. req' = [req EXCEPT ![r] = new]
  BY <1>1, Zenon DEF Reads, Now
<1>4. /\ req \in [Request -> Record] /\ Now \in Opening /\ user.version \in Version
      /\ user.version \in Nat
  BY Typed DEF IInv
<1>6. /\ new \in Record /\ new.pc = "checked" /\ new.op = op /\ new.by = by
      /\ new.version = user.version /\ new.opens = Now /\ new.sees = {}
  BY <1>4, SMT DEF Record, State
<1> HIDE DEF new
<1>7. req'[r] = new
  BY <1>3, <1>4
<1>8. RequestFits(r)'
  BY <1>1, <1>2, <1>4, <1>6, <1>7, SMT DEF RequestFits, Reading, Now
<1> QED
  BY <1>2, <1>3, <1>6, <1>8, QuietKeeps

\* A transaction takes its snapshot, runs again, or is given up.
LEMMA OpeningKeeps ==
    ASSUME Constants, IInv, NEW r \in Request, Begin(r) \/ Retry(r) \/ Abort(r)
    PROVE  IInv'
<1>1. /\ req \in [Request -> Record] /\ session \in [Session -> {None} \cup Document]
      /\ req[r] \in Record /\ RequestFits(r)
  BY Typed DEF IInv
<1>2. UNCHANGED <<user, suspensions, session>>
  BY DEF Begin, Retry, Abort
<1>3. CASE Begin(r)
  <2> DEFINE seen == {s \in Opened : session[s].status = "active"}
             pc == IF Fence(r) THEN "open" ELSE "refused"
  <2>1. seen \in SUBSET Session /\ \A s \in seen : session[s] \in Document
    BY <1>1, SMT DEF Opened
  <2> DEFINE moved == [req[r] EXCEPT !.pc = pc]
             clean == [moved EXCEPT !.clean = TRUE]
             new == [clean EXCEPT !.sees = seen]
  <2>2. req' = [req EXCEPT ![r] = new]
    BY <1>1, <1>3, Zenon DEF Begin
  <2>3. pc \in State /\ pc \in {"open", "refused"} /\ (pc = "open" => Fence(r))
    BY DEF State
  <2>4. Fence(r) /\ req[r].op \in Acting => Usable(req[r].by)
    <3> SUFFICES ASSUME Fence(r), req[r].op \in Acting PROVE Usable(req[r].by)
      OBVIOUS
    <3>1. req[r].op # "login"
      BY SMT DEF Acting, Writing
    <3> QED
      BY <3>1 DEF Fence, Acting, Writing
  <2>5. req[r].pc = "checked"
    BY <1>3 DEF Begin
  <2> HIDE DEF seen, pc
  <2>6. /\ new \in Record /\ new.pc = pc /\ new.op = req[r].op
        /\ new.by = req[r].by /\ new.version = req[r].version /\ new.opens = req[r].opens
        /\ new.sees = seen
    <3>1. /\ moved \in Record /\ moved.pc = pc /\ moved.op = req[r].op
          /\ moved.by = req[r].by /\ moved.version = req[r].version
          /\ moved.opens = req[r].opens
      BY <1>1, <2>3, Moves
    <3> HIDE DEF moved
    <3>2. /\ clean \in Record /\ clean.pc = pc /\ clean.op = req[r].op
          /\ clean.by = req[r].by /\ clean.version = req[r].version
          /\ clean.opens = req[r].opens
      <4>1. TRUE \in BOOLEAN
        OBVIOUS
      <4> QED
        BY <3>1, <4>1, Soils
    <3> HIDE DEF clean
    <3> QED
      BY <2>1, <3>2, Sees
  <2> HIDE DEF new
  <2>7. req'[r] = new
    BY <1>1, <2>2
  <2>8. RequestFits(r)'
    BY <1>1, <1>2, <2>1, <2>3, <2>4, <2>5, <2>6, <2>7
    DEF RequestFits, Reading, Now, Usable, Opened
  <2> QED
    BY <1>2, <2>2, <2>6, <2>8, QuietKeeps
<1>4. CASE Retry(r) \/ Abort(r)
  <2>1. PICK pc \in {"checked", "refused"} : req' = [req EXCEPT ![r].pc = pc]
    BY <1>4 DEF Retry, Abort
  <2> DEFINE new == [req[r] EXCEPT !.pc = pc]
  <2>2. req' = [req EXCEPT ![r] = new]
    BY <1>1, <2>1, Zenon
  <2>3. /\ new \in Record /\ new.pc = pc /\ new.sees = req[r].sees /\ new.op = req[r].op
        /\ new.by = req[r].by /\ new.version = req[r].version /\ new.opens = req[r].opens
    BY <1>1, Moves DEF State
  <2>4. req'[r] = new
    BY <1>1, <2>2
  <2>5. Reading(r)
    BY <1>4 DEF Retry, Abort, Reading
  <2> HIDE DEF new
  <2>6. RequestFits(r)'
    BY <1>1, <1>2, <2>3, <2>4, <2>5 DEF RequestFits, Reading, Now
  <2> QED
    BY <1>2, <2>2, <2>3, <2>6, QuietKeeps
<1> QED
  BY <1>3, <1>4

-----------------------------------------------------------------------------
\* What a transaction that writes the user leaves of the requests: none that is
\* open and clean, and nothing that reads what it did not read before.
LEMMA WriterLeaves ==
    ASSUME Constants, IInv, NEW r \in Request, WritesUser(r)
    PROVE  /\ req' \in [Request -> Record]
           /\ \A q \in Request :
                /\ req'[q].op = req[q].op /\ req'[q].by = req[q].by
                /\ req'[q].version = req[q].version /\ req'[q].opens = req[q].opens
                /\ req'[q].sees = req[q].sees
                /\ Reading(q)' => Reading(q)
                /\ ~(req'[q].pc = "open" /\ req'[q].clean)
                /\ req'[q].pc = "acted" /\ req[q].pc = "open" => q = r
<1>1. req \in [Request -> Record]
  BY Typed DEF IInv
<1>2. ASSUME NEW q \in Request
      PROVE  /\ req'[q] \in Record
             /\ req'[q].op = req[q].op /\ req'[q].by = req[q].by
             /\ req'[q].version = req[q].version /\ req'[q].opens = req[q].opens
             /\ req'[q].sees = req[q].sees
             /\ Reading(q)' => Reading(q)
             /\ ~(req'[q].pc = "open" /\ req'[q].clean)
             /\ req'[q].pc = "acted" /\ req[q].pc = "open" => q = r
  <2> req[q] \in Record
    BY <1>1
  <2>1. CASE q = r
    <3>1. req'[q] = [req[q] EXCEPT !.pc = "acted"]
      BY <2>1 DEF WritesUser
    <3>2. "acted" \in State
      BY DEF State
    <3> QED
      BY <2>1, <3>1, <3>2, Moves DEF Reading
  <2>2. CASE q # r /\ req[q].pc = "open"
    <3>1. req'[q] = [req[q] EXCEPT !.clean = FALSE]
      BY <2>2 DEF WritesUser
    <3>2. FALSE \in BOOLEAN
      OBVIOUS
    <3> QED
      BY <2>2, <3>1, <3>2, Soils DEF Reading
  <2>3. CASE q # r /\ req[q].pc # "open"
    <3>1. req'[q] = req[q]
      BY <2>3 DEF WritesUser
    <3> QED
      BY <2>3, <3>1 DEF Reading
  <2> QED
    BY <2>1, <2>2, <2>3
<1>3. req' = [q \in Request |-> req'[q]]
  BY DEF WritesUser
<1> QED
  BY <1>2, <1>3

\* Its requests fit as long as no session is taken away, and a new user has a new
\* version.
LEMMA WriterKeeps ==
    ASSUME Constants, IInv, NEW r \in Request, WritesUser(r),
           \A s \in Session : session[s] \in Document => session'[s] \in Document,
           \/ user' = user /\ suspensions' = suspensions
           \/ user'.version = user.version + 1
    PROVE  \A q \in Request : RequestFits(q)'
<1> SUFFICES ASSUME NEW q \in Request PROVE RequestFits(q)'
    OBVIOUS
<1>1. /\ RequestFits(q) /\ req[q] \in Record /\ user.version \in Nat
      /\ Version \subseteq Nat
  BY Typed DEF IInv
<1>2. /\ req'[q].op = req[q].op /\ req'[q].by = req[q].by
      /\ req'[q].version = req[q].version /\ req'[q].opens = req[q].opens
      /\ req'[q].sees = req[q].sees
      /\ Reading(q)' => Reading(q)
      /\ ~(req'[q].pc = "open" /\ req'[q].clean)
  BY WriterLeaves
<1>3. Reading(q)' =>
        /\ req'[q].opens \in Opening
        /\ req'[q].version <= user'.version
        /\ req'[q].version = user'.version => req'[q].opens = Now'
  <2>1. CASE user' = user /\ suspensions' = suspensions
    BY <1>1, <1>2, <2>1 DEF RequestFits, Now
  <2>2. CASE user'.version = user.version + 1
    <3>1. req[q].version \in Version
      BY <1>1, SMT DEF Record
    <3>2. Reading(q) => req[q].opens \in Opening /\ req[q].version <= user.version
      BY <1>1 DEF RequestFits
    <3>3. req[q].version \in Nat /\ user'.version = user.version + 1
      BY <1>1, <2>2, <3>1
    <3>4. Reading(q)' => req'[q].version < user'.version
      BY <1>1, <1>2, <3>2, <3>3, SMT
    <3> QED
      BY <1>1, <1>2, <3>2, <3>3, <3>4, SMT
  <2> QED
    BY <2>1, <2>2
<1>4. Reading(q)' /\ req'[q].op \in Acting =>
        req'[q].by \in Session /\ session'[req'[q].by] \in Document
  BY <1>1, <1>2 DEF RequestFits
<1>5. \A s \in req'[q].sees : session'[s] \in Document
  BY <1>1, <1>2, SMT DEF RequestFits, Record
<1> QED
  BY <1>2, <1>3, <1>4, <1>5 DEF RequestFits

-----------------------------------------------------------------------------
\* A session that is revoked stays what it was otherwise.
LEMMA Revokes ==
    ASSUME NEW d \in Document, NEW new, new = [d EXCEPT !.status = "revoked"]
    PROVE  new \in Document /\ new.version = d.version /\ new.opens = d.opens
  BY SMT DEF Document

\* What a step may make of a session that there is.
Same(s, new) ==
    \/ new = session[s]
    \/ /\ session[s] \in Document /\ new \in Document
       /\ new.version = session[s].version /\ new.opens = session[s].opens

LEMMA RevokedSame ==
    ASSUME Constants, IInv, NEW r \in Request
    PROVE  /\ Revoked(r) \in [Session -> {None} \cup Document]
           /\ \A s \in Session : Same(s, Revoked(r)[s])
<1>1. /\ session \in [Session -> {None} \cup Document]
      /\ \A s \in req[r].sees : session[s] \in Document
  BY Typed DEF IInv, RequestFits
<1>2. ASSUME NEW s \in Session
      PROVE  Revoked(r)[s] \in {None} \cup Document /\ Same(s, Revoked(r)[s])
  <2>1. CASE s \in req[r].sees
    <3>1. session[s] \in Document /\ Revoked(r)[s] = [session[s] EXCEPT !.status = "revoked"]
      BY <1>1, <2>1 DEF Revoked
    <3> QED
      BY <3>1, Revokes DEF Same
  <2>2. CASE s \notin req[r].sees
    BY <1>1, <2>2 DEF Revoked, Same
  <2> QED
    BY <2>1, <2>2
<1>3. Revoked(r) = [s \in Session |-> Revoked(r)[s]]
  BY DEF Revoked
<1> HIDE DEF Revoked
<1> QED
  BY <1>2, <1>3

\* Sessions that a step leaves what they were fit a user that is the same or newer.
LEMMA SameFits ==
    ASSUME Constants, IInv, NEW s \in Session, Same(s, session'[s]),
           \/ user' = user /\ suspensions' = suspensions
           \/ user'.version = user.version + 1
    PROVE  SessionFits(s)'
<1>1. /\ SessionFits(s) /\ user.version \in Nat /\ Version \subseteq Nat
  BY Typed DEF IInv
<1>2. CASE session'[s] \in Document
  <2>1. /\ session[s] \in Document /\ session'[s].version = session[s].version
        /\ session'[s].opens = session[s].opens
    BY <1>2 DEF Same
  <2>2. session[s].version \in Nat
    <3>1. session[s].version \in Version
      BY <2>1, SMT DEF Document
    <3> QED
      BY <1>1, <3>1
  <2>3. /\ session[s].version <= user.version
        /\ session[s].version = user.version => session[s].opens = Now
    BY <1>1, <2>1 DEF SessionFits
  <2>4. CASE user' = user /\ suspensions' = suspensions
    BY <2>1, <2>3, <2>4 DEF SessionFits, Now
  <2>5. CASE user'.version = user.version + 1
    <3>1. session[s].version < user'.version
      BY <1>1, <2>2, <2>3, <2>5, SMT
    <3>2. session'[s].version <= user'.version /\ session'[s].version # user'.version
      BY <1>1, <2>1, <2>2, <2>5, <3>1, SMT
    <3> QED
      BY <3>2 DEF SessionFits
  <2> QED
    BY <2>4, <2>5
<1> QED
  BY <1>2 DEF SessionFits

\* A command ends, and leaves everything else as it is.
LEMMA CommandKeeps ==
    ASSUME Constants, IInv, NEW r \in Request, CommitCommand(r)
    PROVE  IInv'
<1>1. /\ req \in [Request -> Record] /\ req[r] \in Record /\ RequestFits(r)
      /\ \A s \in req[r].sees : session[s] \in Document
  BY Typed DEF IInv, RequestFits
<1>2. UNCHANGED <<user, suspensions, session>>
  BY DEF CommitCommand
<1> DEFINE done == [req[r] EXCEPT !.pc = "acted"]
<1>3. req' = [req EXCEPT ![r] = done]
  BY <1>1, Zenon DEF CommitCommand
<1>4. done \in Record /\ done.pc = "acted" /\ done.sees = req[r].sees
  BY <1>1, Moves DEF State
<1> HIDE DEF done
<1>5. req'[r] = done
  BY <1>1, <1>3
<1>6. RequestFits(r)'
  BY <1>1, <1>2, <1>4, <1>5 DEF RequestFits, Reading
<1> QED
  BY <1>2, <1>3, <1>4, <1>6, QuietKeeps

\* A login ends: its session is as old as what the login has read.
LEMMA LoginKeeps ==
    ASSUME Constants, IInv, NEW r \in Request, CommitLogin(r)
    PROVE  IInv'
<1>1. /\ req \in [Request -> Record] /\ session \in [Session -> {None} \cup Document]
      /\ req[r] \in Record /\ RequestFits(r) /\ req[r].pc = "open"
      /\ user' = user /\ suspensions' = suspensions
  BY Typed DEF IInv, CommitLogin
<1> DEFINE new == NewSession(req[r].version, req[r].opens)
           done == [req[r] EXCEPT !.pc = "acted"]
<1>2. PICK s \in Session \ Opened : session' = [session EXCEPT ![s] = new]
  BY DEF CommitLogin
<1>3. req' = [req EXCEPT ![r] = done]
  BY <1>1, Zenon DEF CommitLogin
<1>4. /\ req[r].opens \in Opening /\ req[r].version <= user.version
      /\ req[r].version = user.version => req[r].opens = Now
      /\ req[r].version \in Version
  BY <1>1, SMT DEF RequestFits, Reading, Record
<1>5. new \in Document /\ new.version = req[r].version /\ new.opens = req[r].opens
  BY <1>4, SMT DEF NewSession, Document
<1>6. done \in Record /\ done.pc = "acted" /\ done.sees = req[r].sees
  BY <1>1, Moves DEF State
<1> HIDE DEF new, done
<1>7. session[s] = None /\ session'[s] = new
  BY <1>1, <1>2 DEF Opened
<1>8. \A x \in Session : session[x] \in Document => session'[x] = session[x]
  BY <1>1, <1>2, <1>7 DEF Constants
<1>9. TypeOK'
  <2>1. session' \in [Session -> {None} \cup Document]
    BY <1>1, <1>2, <1>5, SMT
  <2>2. req' \in [Request -> Record]
    BY <1>1, <1>3, <1>6, SMT
  <2> QED
    BY <1>1, <2>1, <2>2 DEF IInv, TypeOK, User, Document, Record, State, Operation, Version
<1>10. Counted'
  BY <1>1 DEF IInv, Counted
<1>11. ASSUME NEW x \in Session PROVE SessionFits(x)'
  <2>1. CASE x = s
    BY <1>1, <1>4, <1>5, <1>7, <2>1 DEF SessionFits, Now
  <2>2. CASE x # s
    <3>1. session'[x] = session[x]
      BY <1>1, <1>2, <2>2
    <3> QED
      BY <1>1, <3>1 DEF IInv, SessionFits, Now
  <2> QED
    BY <2>1, <2>2
<1>12. ASSUME NEW q \in Request PROVE RequestFits(q)'
  <2>1. CASE q = r
    <3>1. req'[q] = done
      BY <1>1, <1>3, <2>1
    <3>2. \A x \in req[r].sees : x \in Session /\ session[x] \in Document
      BY <1>1, SMT DEF RequestFits, Record
    <3> QED
      BY <1>6, <1>8, <3>1, <3>2 DEF RequestFits, Reading
  <2>2. CASE q # r
    <3>1. req'[q] = req[q] /\ RequestFits(q) /\ req[q] \in Record
      BY <1>1, <1>3, <2>2 DEF IInv
    <3>2. \A x \in req[q].sees : x \in Session /\ session[x] \in Document
      BY <3>1, SMT DEF RequestFits, Record
    <3>3. Reading(q) /\ req[q].op \in Acting =>
            /\ req[q].by \in Session /\ session[req[q].by] \in Document
            /\ session'[req[q].by] = session[req[q].by]
      BY <1>8, <3>1 DEF RequestFits
    <3>4. req[q].pc = "open" /\ req[q].clean /\ req[q].op \in Acting =>
            Usable(req[q].by) /\ session'[req[q].by] = session[req[q].by]
      BY <3>1, <3>3 DEF RequestFits, Reading
    <3>5. req[q].pc = "open" /\ req[q].clean /\ req[q].op \in Acting => Usable(req[q].by)'
      <4> SUFFICES ASSUME req[q].pc = "open", req[q].clean, req[q].op \in Acting
                   PROVE  Usable(req[q].by)'
        OBVIOUS
      <4>1. /\ req[q].by \in Session /\ Usable(req[q].by)
            /\ session'[req[q].by] = session[req[q].by]
        BY <3>3, <3>4 DEF Reading
      <4> QED
        BY <1>1, <3>1, <4>1 DEF Usable, Opened
    <3> QED
      BY <1>1, <1>8, <3>1, <3>2, <3>3, <3>5 DEF RequestFits, Reading, Now
  <2> QED
    BY <2>1, <2>2
<1> QED
  BY <1>9, <1>10, <1>11, <1>12 DEF IInv

\* What a transaction that writes the user may do to sessions and user.
LEMMA WriterInv ==
    ASSUME Constants, IInv, NEW r \in Request, WritesUser(r),
           user' \in User,
           suspensions' \in Version, Counted',
           session' \in [Session -> {None} \cup Document],
           \A s \in Session : session[s] \in Document => session'[s] \in Document,
           \A s \in Session : SessionFits(s)',
           \/ user' = user /\ suspensions' = suspensions
           \/ user'.version = user.version + 1
    PROVE  IInv'
<1>1. TypeOK'
  <2>1. req' \in [Request -> Record]
    BY WriterLeaves
  <2> QED
    BY <2>1 DEF TypeOK, User, Document, Record, State, Operation, Version
<1>2. \A q \in Request : RequestFits(q)'
  BY WriterKeeps
<1> QED
  BY <1>1, <1>2 DEF IInv

\* currentUser and the like, and a logout.
LEMMA TouchKeeps ==
    ASSUME Constants, IInv, NEW r \in Request, CommitTouch(r) \/ CommitLogout(r)
    PROVE  IInv'
<1>1. /\ session \in [Session -> {None} \cup Document]
      /\ user \in User
      /\ suspensions \in Version
      /\ RequestFits(r)
  BY Typed DEF IInv
<1>2. WritesUser(r) /\ user' = user /\ suspensions' = suspensions
  BY DEF CommitTouch, CommitLogout
<1>3. /\ session' \in [Session -> {None} \cup Document]
      /\ \A s \in Session : Same(s, session'[s])
  <2>1. CASE CommitTouch(r)
    BY <1>1, <2>1 DEF CommitTouch, Same
  <2>2. CASE CommitLogout(r)
    <3>1. req[r].by \in Session /\ session[req[r].by] \in Document
      BY <1>1, <2>2 DEF CommitLogout, WritesUser, RequestFits, Reading, Acting, Writing
    <3> DEFINE by == req[r].by
               new == [session[by] EXCEPT !.status = "revoked"]
    <3>2. session' = [session EXCEPT ![by] = new]
      BY <2>2, Zenon DEF CommitLogout
    <3>3. new \in Document /\ new.version = session[by].version /\ new.opens = session[by].opens
      BY <3>1, Revokes
    <3> HIDE DEF new, by
    <3>4. by \in Session /\ session[by] \in Document
      BY <3>1 DEF by
    <3>5. session' \in [Session -> {None} \cup Document]
      BY <1>1, <3>2, <3>3, <3>4
    <3>6. ASSUME NEW s \in Session PROVE Same(s, session'[s])
      <4>1. CASE s = by
        BY <1>1, <3>2, <3>3, <3>4, <4>1 DEF Same
      <4>2. CASE s # by
        BY <1>1, <3>2, <4>2 DEF Same
      <4> QED
        BY <4>1, <4>2
    <3> QED
      BY <3>5, <3>6
  <2> QED
    BY <2>1, <2>2
<1>4. \A s \in Session : SessionFits(s)'
  BY <1>2, <1>3, SameFits
<1>5. \A s \in Session : session[s] \in Document => session'[s] \in Document
  BY <1>3 DEF Same
<1>6. Counted'
  BY <1>2 DEF IInv, Counted
<1> QED
  BY <1>1, <1>2, <1>3, <1>4, <1>5, <1>6, WriterInv

\* A new password takes a version, and a session of that version comes with it.
LEMMA PasswordStep ==
    ASSUME Constants, IInv, NEW r \in Request, CommitPassword(r)
    PROVE  /\ user' \in User /\ user'.version = user.version + 1
           /\ user'.status = user.status
           /\ session' \in [Session -> {None} \cup Document]
           /\ \E s \in Session \ Opened :
                /\ session'[s] \in Document /\ session'[s].status = "active"
                /\ session'[s].version = user'.version /\ session'[s].opens = Now'
                /\ \A x \in Session \ {s} : Same(x, session'[x])
<1>1. user \in User /\ user.version \in Nat /\ suspensions \in Version
  BY Typed DEF IInv
<1>2. PICK p \in Password, s \in Session \ Opened :
        /\ user' = [user EXCEPT !.password = p, !.version = @ + 1]
        /\ session' = [Revoked(r) EXCEPT ![s] =
             NewSession(user'.version, [password |-> p, suspensions |-> suspensions])]
  BY DEF CommitPassword
<1>3. suspensions' = suspensions /\ user.version < MaxVersion
  BY DEF CommitPassword
<1>4. /\ user' \in User /\ user'.version = user.version + 1 /\ user'.password = p
      /\ user'.status = user.status
  <2> DEFINE version == user.version + 1
             aged == [user EXCEPT !.version = version]
  <2>1. version \in Version
    BY <1>1, <1>3, SMT DEF Version, Constants
  <2>2. user' = [aged EXCEPT !.password = p]
    BY <1>2, Zenon
  <2> HIDE DEF version
  <2>3. aged \in User /\ aged.version = version /\ aged.status = user.status
    BY <1>1, <2>1, SMT DEF User
  <2> HIDE DEF aged
  <2>4. /\ user' \in User /\ user'.version = version /\ user'.password = p
        /\ user'.status = user.status
    BY <2>2, <2>3, SMT DEF User
  <2> QED
    BY <2>4 DEF version
<1>5. Now' = [password |-> p, suspensions |-> suspensions] /\ Now' \in Opening
  BY <1>1, <1>3, <1>4, SMT DEF Now, Opening, Version
<1> DEFINE new == NewSession(user'.version, Now')
<1>6. session' = [Revoked(r) EXCEPT ![s] = new]
  BY <1>2, <1>5
<1>7. /\ new \in Document /\ new.version = user'.version /\ new.opens = Now'
      /\ new.status = "active"
  <2>1. user'.version \in Version
    BY <1>4, SMT DEF User
  <2> QED
    BY <1>5, <2>1, SMT DEF NewSession, Document
<1> HIDE DEF new
<1>8. /\ Revoked(r) \in [Session -> {None} \cup Document]
      /\ \A x \in Session : Same(x, Revoked(r)[x])
  BY RevokedSame
<1>9. session' \in [Session -> {None} \cup Document] /\ session'[s] = new
  BY <1>6, <1>7, <1>8, SMT
<1>10. \A x \in Session \ {s} : Same(x, session'[x])
  <2> TAKE x \in Session \ {s}
  <2>1. session'[x] = Revoked(r)[x]
    BY <1>6, <1>8
  <2> QED
    BY <1>8, <2>1
<1> QED
  BY <1>4, <1>7, <1>9, <1>10

LEMMA PasswordKeeps ==
    ASSUME Constants, IInv, NEW r \in Request, CommitPassword(r)
    PROVE  IInv'
<1>1. /\ user.version \in Nat /\ suspensions \in Version /\ suspensions \in Nat
  BY Typed DEF IInv
<1>2. /\ WritesUser(r) /\ suspensions' = suspensions
      /\ user' \in User /\ user'.version = user.version + 1
      /\ session' \in [Session -> {None} \cup Document]
  BY PasswordStep DEF CommitPassword
<1>3. PICK s \in Session \ Opened :
        /\ session'[s] \in Document
        /\ session'[s].version = user'.version /\ session'[s].opens = Now'
        /\ \A x \in Session \ {s} : Same(x, session'[x])
  BY PasswordStep
<1>4. ASSUME NEW x \in Session
      PROVE  SessionFits(x)' /\ (session[x] \in Document => session'[x] \in Document)
  <2>1. CASE x = s
    BY <1>1, <1>2, <1>3, <2>1, SMT DEF SessionFits
  <2>2. CASE x # s
    BY <1>2, <1>3, <2>2, SameFits DEF Same
  <2> QED
    BY <2>1, <2>2
<1>5. Counted'
  BY <1>1, <1>2, SMT DEF IInv, Counted
<1> QED
  BY <1>1, <1>2, <1>4, <1>5, WriterInv

\* A suspension or its end takes a version, and revokes what it sees.
LEMMA StatusKeeps ==
    ASSUME Constants, IInv, NEW r \in Request, CommitStatus(r)
    PROVE  IInv'
<1>1. /\ user \in User
      /\ user.version \in Nat /\ suspensions \in Version /\ suspensions \in Nat
      /\ Version \subseteq Nat
  BY Typed DEF IInv
<1>2. /\ WritesUser(r) /\ user.version < MaxVersion /\ session' = Revoked(r)
      /\ suspensions' \in {suspensions, suspensions + 1}
  BY DEF CommitStatus
<1>3. PICK status \in {"active", "suspended"} :
        user' = [user EXCEPT !.version = @ + 1, !.status = status]
  BY Zenon DEF CommitStatus
<1>4. /\ user' \in User
      /\ user'.version = user.version + 1
  <2>1. user.version + 1 \in Version
    BY <1>1, <1>2, SMT DEF Version, Constants
  <2> DEFINE version == user.version + 1
  <2>2. user' = [user EXCEPT !.version = version, !.status = status]
    BY <1>3
  <2>3. version \in Version
    BY <2>1
  <2> HIDE DEF version
  <2> DEFINE aged == [user EXCEPT !.version = version]
  <2>4. aged \in User /\ aged.version = version
    BY <1>1, <2>3, SMT DEF User
  <2>5. user' = [aged EXCEPT !.status = status]
    BY <2>2, Zenon
  <2> HIDE DEF aged
  <2>6. /\ user' \in User
        /\ user'.version = version
    BY <2>4, <2>5, SMT DEF User
  <2> QED
    BY <2>6 DEF version
<1>5. Counted' /\ suspensions' \in Version
  BY <1>1, <1>2, <1>4, SMT DEF IInv, Counted, Version, Constants
<1>6. /\ session' \in [Session -> {None} \cup Document]
      /\ \A s \in Session : Same(s, session'[s])
  BY <1>2, RevokedSame
<1>7. \A s \in Session : SessionFits(s)'
  BY <1>4, <1>6, SameFits
<1>8. \A s \in Session : session[s] \in Document => session'[s] \in Document
  BY <1>6 DEF Same
<1> QED
  BY <1>2, <1>4, <1>5, <1>6, <1>7, <1>8, WriterInv

-----------------------------------------------------------------------------
LEMMA NextKeeps ==
    ASSUME Constants, IInv, [Next]_vars PROVE IInv'
<1>1. CASE UNCHANGED vars
  BY <1>1 DEF vars, IInv, TypeOK, Counted, SessionFits, RequestFits, Reading, Now, Usable, Opened
<1>2. CASE Next
  <2>1. PICK r \in Request :
          \/ Login(r) \/ (\E s \in Session, op \in Acting : Authenticate(r, s, op))
          \/ (\E op \in Status : AdminAsks(r, op))
          \/ Begin(r) \/ Retry(r) \/ Commit(r) \/ Abort(r)
    BY <1>2 DEF Next
  <2>2. CASE Login(r) \/ (\E s \in Session, op \in Acting : Authenticate(r, s, op))
             \/ (\E op \in Status : AdminAsks(r, op))
    BY <2>2, CheckKeeps
  <2>3. CASE Begin(r) \/ Retry(r) \/ Abort(r)
    BY <2>3, OpeningKeeps
  <2>4. CASE CommitLogin(r)
    BY <2>4, LoginKeeps
  <2>8. CASE CommitCommand(r)
    BY <2>8, CommandKeeps
  <2>5. CASE CommitTouch(r) \/ CommitLogout(r)
    BY <2>5, TouchKeeps
  <2>6. CASE CommitPassword(r)
    BY <2>6, PasswordKeeps
  <2>7. CASE CommitStatus(r)
    BY <2>7, StatusKeeps
  <2> QED
    BY <2>1, <2>2, <2>3, <2>4, <2>5, <2>6, <2>7, <2>8 DEF Commit
<1> QED
  BY <1>1, <1>2

LEMMA AlwaysFits == ASSUME Constants PROVE Spec => []IInv
<1>1. Init => IInv
  BY InitFits
<1>2. IInv /\ [Next]_vars => IInv'
  BY NextKeeps
<1> QED
  BY <1>1, <1>2, PTL DEF Spec

\* Every reachable state is well typed, for any number of requests, sessions and
\* passwords.
THEOREM TypeCorrect == ASSUME Constants PROVE Spec => []TypeOK
<1>1. IInv => TypeOK
  BY DEF IInv
<1> QED
  BY <1>1, AlwaysFits, PTL

\* What authenticates was opened with the password of now and after the last
\* suspension, although a login can insert its session behind a revocation that
\* did not see it (createSession and revokeSessionsByUserId, auth-repository.js).
THEOREM CurrentAlways == ASSUME Constants PROVE Spec => []SessionsAreCurrent
<1>1. ASSUME IInv PROVE SessionsAreCurrent
  <2> SUFFICES ASSUME NEW s \in Session, Usable(s) PROVE session[s].opens = Now
    BY DEF SessionsAreCurrent, Now
  <2>1. session[s] \in Document
    BY <1>1, Typed DEF IInv, Usable, Opened
  <2> QED
    BY <1>1, <2>1 DEF IInv, SessionFits, Usable
<1> QED
  BY <1>1, AlwaysFits, PTL

-----------------------------------------------------------------------------
\* Only the commit of an own transaction takes a request from open to acted; it
\* writes the user, or is that of a command.
LEMMA ActsByCommit ==
    ASSUME Constants, IInv, Next, NEW q \in Request,
           req[q].pc = "open", req'[q].pc = "acted", req[q].op \in Acting
    PROVE  /\ Usable(req[q].by) \/ (req[q].op = "command" /\ ~req[q].clean)
           /\ req[q].op = "password" => CommitPassword(q) /\ Usable(req[q].by)
<1>1. /\ req \in [Request -> Record] /\ RequestFits(q)
  BY Typed DEF IInv
<1>2. PICK r \in Request :
        \/ Login(r) \/ (\E s \in Session, op \in Acting : Authenticate(r, s, op))
        \/ (\E op \in Status : AdminAsks(r, op))
        \/ Begin(r) \/ Retry(r) \/ Commit(r) \/ Abort(r)
  BY DEF Next
<1>3. CASE \/ Login(r) \/ (\E s \in Session, op \in Acting : Authenticate(r, s, op))
           \/ (\E op \in Status : AdminAsks(r, op)) \/ Begin(r)
  <2>1. req[r].pc \in {"idle", "checked"} /\ \A x \in Request \ {r} : req'[x] = req[x]
    BY <1>1, <1>3, Zenon DEF Login, Authenticate, AdminAsks, Reads, Begin
  <2> QED
    BY <2>1
<1>4. CASE Retry(r) \/ Abort(r)
  <2>1. PICK pc \in {"checked", "refused"} : req' = [req EXCEPT ![r].pc = pc]
    BY <1>4 DEF Retry, Abort
  <2>2. req'[q].pc \in {"open", "checked", "refused"}
    BY <1>1, <2>1, SMT DEF Record
  <2> QED
    BY <2>2
<1>5. CASE CommitLogin(r)
  <2>1. req[r].op = "login" /\ \A x \in Request \ {r} : req'[x] = req[x]
    BY <1>1, <1>5, Zenon DEF CommitLogin
  <2>2. "login" \notin Acting
    BY SMT DEF Acting, Writing
  <2> QED
    BY <2>1, <2>2
<1>7. CASE CommitCommand(r)
  <2>1. /\ req[r].op = "command" /\ req[r].pc = "open"
        /\ \A x \in Request \ {r} : req'[x] = req[x]
    BY <1>1, <1>7, Zenon DEF CommitCommand
  <2>2. q = r /\ "command" # "password"
    BY <2>1
  <2> QED
    BY <1>1, <2>1, <2>2 DEF RequestFits
<1>6. CASE CommitTouch(r) \/ CommitLogout(r) \/ CommitPassword(r) \/ CommitStatus(r)
  <2>1. WritesUser(r)
    BY <1>6 DEF CommitTouch, CommitLogout, CommitPassword, CommitStatus
  <2>2. q = r
    BY <2>1, WriterLeaves
  <2>3. Usable(req[q].by)
    BY <1>1, <2>1, <2>2 DEF RequestFits, WritesUser
  <2>4. req[q].op = "password" => CommitPassword(q)
    BY <1>6, <2>2, SMT DEF CommitTouch, CommitLogout, CommitStatus, Status
  <2> QED
    BY <2>1, <2>2, <2>3, <2>4
<1> QED
  BY <1>2, <1>3, <1>4, <1>5, <1>6, <1>7 DEF Commit

\* No account is changed under a session that was revoked, or whose user was
\* suspended or has another password by then (assertActiveSessionForUser), and a
\* command that only reads its session (assertActorFence) outlives it only by a
\* revocation that committed after its snapshot.
THEOREM ActsWhileLive == ASSUME Constants PROVE Spec => OnlyLiveSessionsAct
<1>1. ASSUME IInv, [Next]_vars PROVE [ActStep]_vars
  BY <1>1, ActsByCommit DEF ActStep
<1> QED
  BY <1>1, AlwaysFits, PTL DEF Spec, OnlyLiveSessionsAct

\* Who changes the password is left with the new session, and nobody with another
\* (changePassword, auth/service.js).
THEOREM OnlyTheNewSession == ASSUME Constants PROVE Spec => OneSessionIsLeft
<1>1. ASSUME IInv, Next, NEW q \in Request,
             req[q].pc = "open", req'[q].pc = "acted", req[q].op = "password"
      PROVE  \E s \in Session \ Opened : {x \in Session : Usable(x)'} = {s}
  <2>1. CommitPassword(q) /\ user.status = "active"
    BY <1>1, ActsByCommit DEF Acting, Writing, Usable
  <2>2. user'.version = user.version + 1 /\ user'.status = "active" /\ user.version \in Nat
    BY <1>1, <2>1, PasswordStep, Typed DEF IInv
  <2>3. PICK s \in Session \ Opened :
          /\ session'[s] \in Document /\ session'[s].status = "active"
          /\ session'[s].version = user'.version
          /\ \A x \in Session \ {s} : Same(x, session'[x])
    BY <1>1, <2>1, PasswordStep
  <2>4. Usable(s)'
    BY <2>2, <2>3 DEF Usable, Opened, Constants
  <2>5. ASSUME NEW x \in Session, x # s, Usable(x)' PROVE FALSE
    <3>1. session'[x] \in Document /\ session'[x].version = user'.version
      BY <1>1, <2>1, <2>5, PasswordStep DEF Usable, Opened
    <3>2. session[x] \in Document /\ session[x].version = user'.version
      BY <2>3, <2>5, <3>1 DEF Same
    <3>3. session[x].version <= user.version
      BY <1>1, <3>2 DEF IInv, SessionFits
    <3> QED
      BY <2>2, <3>2, <3>3, SMT
  <2> QED
    BY <2>4, <2>5
<1>2. ASSUME IInv, [Next]_vars PROVE [ChangeStep]_vars
  BY <1>1, <1>2 DEF ChangeStep
<1> QED
  BY <1>2, AlwaysFits, PTL DEF Spec, OneSessionIsLeft
=============================================================================
