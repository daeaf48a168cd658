--------------------------- MODULE QaConversation ---------------------------
(***************************************************************************)
(* The question page of one browser: the hook useQa (use-public-           *)
(* integration.js) under QaView.jsx, with the service it talks to.         *)
(*                                                                         *)
(* Questions, deletions and clearings are calls that wait for each other   *)
(* in a queue; the list of conversations and the opening of one are calls  *)
(* beside it.  The hook believes an answer only if its epoch has not moved *)
(* since the click.  An epoch is kept as a flag of the call, `fresh`; of   *)
(* the lists and of the openings only the last can be fresh, so the others *)
(* are not kept.  The modes that propose a scope in natural language are   *)
(* left out: App.jsx never enables them.                                   *)
(***************************************************************************)
EXTENDS Naturals, Sequences, FiniteSetsExt

CONSTANTS
    MaxUser,        \* bound: the users who sign in, one after the other
    MaxSession,     \* bound: the conversations the service begins
    MaxQueue,       \* bound: the calls in the queue
    MaxClicks       \* bound: what the user does

VARIABLES
    me,         \* who is signed in
    owner,      \* of the conversations begun, in their order: whose they are
    kept,       \* those the service still has
    ui,         \* what the hook keeps
    queue,      \* the calls that wait for each other, the first one under way
    list,       \* the last listSessions, unless its epoch has moved
    get,        \* the last getSession, unless its epoch has moved
    gone,       \* deletions that were acknowledged to the hook (ghost)
    clicks      \* what the user has done so far (bounded)

vars == <<me, owner, kept, ui, queue, list, get, gone, clicks>>

User == 1..MaxUser
Session == 1..MaxSession
NoSession == 0
Nobody == 0

Idle == [at |-> "idle", of |-> NoSession, sees |-> {}]
Asked == [Idle EXCEPT !.at = "asked"]

\* by is Nobody once a call went out with the token of an earlier login; of is the
\* conversation it is about; current tells whether a deletion was of the open one.
Call(kind, of, current) ==
    [kind |-> kind, fresh |-> TRUE, by |-> me, of |-> of, current |-> current,
     outcome |-> "none"]

\* What is shown after a reset: no thread, and no conversation to continue.  split
\* tells that an opening or a clearing began over the thread on screen and has not
\* succeeded: useQa leaves the thread, and continues another conversation (ghost).
Afresh(u) ==
    [u EXCEPT !.state = "empty", !.thread = {}, !.scoped = NoSession, !.ref = NoSession,
              !.reset = TRUE, !.split = FALSE]

Init ==
    /\ me = 1 /\ owner = <<>> /\ kept = {} /\ gone = {}
    /\ ui = [here |-> FALSE, state |-> "empty", listed |-> {}, thread |-> {},
             scoped |-> NoSession, ref |-> NoSession, reset |-> FALSE, split |-> FALSE]
    /\ queue = <<>> /\ list = Idle /\ get = Idle /\ clicks = 0

-----------------------------------------------------------------------------
(* The queue.                                                              *)

\* epochRef moves: nothing asked before is believed any more.
Staled(q) == [i \in DOMAIN q |-> [q[i] EXCEPT !.fresh = FALSE]]
MoveEpoch == get' = Idle

\* The conversation a question continues, known only when it is sent.
Continues(call, u) == IF u.ref # NoSession THEN u.ref ELSE IF u.reset THEN NoSession ELSE call.of

Sent(call, u) ==
    [call EXCEPT !.of = IF call.kind = "ask" THEN Continues(call, u) ELSE @,
                 !.by = IF @ = me THEN @ ELSE Nobody]

\* Fault: a question goes out whatever has happened since it was asked.
GoesAlways(call) == TRUE

\* The next call goes out as soon as the one before has ended; a question whose
\* epoch has moved returns at once, a deletion or a clearing goes out all the same.
Goes(call) == call.kind = "ask" => call.fresh

Start(q, u) ==
    LET going == {i \in DOMAIN q : Goes(q[i])}
    IN  IF going = {} THEN <<>>
        ELSE [SubSeq(q, Min(going), Len(q)) EXCEPT ![1] = Sent(@, u)]

Enqueue(call, q, u) == IF q = <<>> THEN Start(<<call>>, u) ELSE Append(q, call)

-----------------------------------------------------------------------------
(* What the user does.                                                     *)

Ask ==
    /\ ui.here /\ ui.state # "loading" /\ Len(queue) < MaxQueue
    /\ ui' = [ui EXCEPT !.state = "loading"]
    /\ queue' = Enqueue(Call("ask", ui.scoped, FALSE), queue, ui)
    /\ UNCHANGED <<me, owner, kept, list, get, gone>>

SelectSession(s) ==
    /\ ui' = [ui EXCEPT !.state = "loading", !.ref = s, !.reset = FALSE,
                       !.split = @ \/ ui.thread # {}]
    /\ queue' = Staled(queue)
    /\ get' = [Asked EXCEPT !.of = s]
    /\ UNCHANGED <<me, owner, kept, list, gone>>

Select == ui.here /\ \E s \in ui.listed : SelectSession(s)

\* The button of the error card.
Retry ==
    /\ ui.here /\ ui.state = "error"
    /\ \/ ui.ref # NoSession /\ SelectSession(ui.ref)
       \/ /\ ui.ref = NoSession
          /\ list' = Asked
          /\ UNCHANGED <<me, owner, kept, ui, queue, get, gone>>

\* A new conversation, or a change of the scope, which may come from another page.
NewSession ==
    /\ ui' = Afresh(ui)
    /\ queue' = Staled(queue) /\ MoveEpoch
    /\ UNCHANGED <<me, owner, kept, list, gone>>

DeleteSession ==
    /\ ui.here /\ Len(queue) < MaxQueue
    /\ \E s \in ui.listed :
         queue' = Enqueue(Call("delete", s, ui.ref = s), Staled(queue), ui)
    /\ ui' = [ui EXCEPT !.reset = FALSE]
    /\ list' = Idle /\ MoveEpoch
    /\ UNCHANGED <<me, owner, kept, gone>>

ClearSessions ==
    /\ ui.here /\ Len(queue) < MaxQueue
    /\ queue' = Enqueue(Call("clear", NoSession, FALSE), Staled(queue), ui)
    /\ ui' = [ui EXCEPT !.ref = NoSession, !.reset = TRUE, !.split = @ \/ ui.thread # {}]
    /\ list' = Idle /\ MoveEpoch
    /\ UNCHANGED <<me, owner, kept, gone>>

\* To the page or away from it; the article in the address may change as well.
Navigate(article) ==
    /\ ui' \in {[(IF article THEN [Afresh(ui) EXCEPT !.listed = {}] ELSE ui)
                   EXCEPT !.here = here] : here \in BOOLEAN}
    /\ article \/ ui'.here # ui.here
    /\ IF article THEN queue' = Staled(queue) /\ MoveEpoch ELSE UNCHANGED <<queue, get>>
    /\ list' = IF ui'.here /\ ~ui.here THEN Asked ELSE IF article THEN Idle ELSE list
    /\ UNCHANGED <<me, owner, kept, gone>>

\* Another user signs in; the hook is the same instance, and its calls go on.
SwitchUser ==
    /\ me < MaxUser /\ me' = me + 1
    /\ ui' \in {[Afresh(ui) EXCEPT !.listed = {}, !.here = here] : here \in BOOLEAN}
    /\ queue' = Staled(queue) /\ MoveEpoch
    /\ list' = IF ui'.here THEN Asked ELSE Idle
    /\ UNCHANGED <<owner, kept, gone>>

-----------------------------------------------------------------------------
(* What the service does.  It may also refuse, and its answer may be lost. *)

Ends(call) == queue' = [queue EXCEPT ![1] = call]

Answer(call) ==
    \/ /\ call.of # NoSession /\ call.of \in kept /\ owner[call.of] = call.by
       /\ Ends([call EXCEPT !.outcome = "ok"])
       /\ UNCHANGED <<owner, kept>>
    \/ /\ call.of = NoSession /\ Len(owner) < MaxSession
       /\ owner' = Append(owner, call.by) /\ kept' = kept \cup {Len(owner')}
       /\ \E outcome \in {"ok", "failed"} :
            Ends([call EXCEPT !.of = Len(owner'), !.outcome = outcome])

Removes(call) ==
    {s \in kept : owner[s] = call.by /\ (call.kind = "delete" => s = call.of)}

Serve ==
    /\ queue # <<>> /\ queue[1].outcome = "none"
    /\ \/ Ends([queue[1] EXCEPT !.outcome = "failed"]) /\ UNCHANGED <<owner, kept>>
       \/ queue[1].kind = "ask" /\ queue[1].by # Nobody /\ Answer(queue[1])
       \/ /\ queue[1].kind # "ask" /\ queue[1].by # Nobody
          /\ kept' = kept \ Removes(queue[1])
          /\ \E outcome \in {"ok", "failed"} : Ends([queue[1] EXCEPT !.outcome = outcome])
          /\ UNCHANGED owner
    /\ UNCHANGED <<me, ui, list, get, gone>>

ServeList ==
    /\ list.at = "asked"
    /\ \/ list' = [list EXCEPT !.at = "answered", !.sees = {s \in kept : owner[s] = me}]
       \/ list' = [list EXCEPT !.at = "failed"]
    /\ UNCHANGED <<me, owner, kept, ui, queue, get, gone>>

ServeGet ==
    /\ get.at = "asked"
    /\ \/ /\ get.of \in kept /\ owner[get.of] = me
          /\ get' = [get EXCEPT !.at = "answered"]
       \/ get' = [get EXCEPT !.at = "failed"]
    /\ UNCHANGED <<me, owner, kept, ui, queue, list, gone>>

-----------------------------------------------------------------------------
(* What the hook makes of the answers.                                     *)

\* The queue goes on; a question that starts shows that it loads.
Continue(u) ==
    /\ queue' = Start(Tail(queue), u)
    /\ ui' = IF queue' # <<>> /\ queue'[1].kind = "ask"
             THEN [u EXCEPT !.state = "loading"] ELSE u

Failed(call) == IF call.fresh THEN [ui EXCEPT !.state = "error"] ELSE ui

LandAsk(call) ==
    /\ call.kind = "ask"
    /\ IF ~call.fresh THEN Continue(ui) /\ UNCHANGED list
       ELSE IF call.outcome = "failed" THEN Continue(Failed(call)) /\ UNCHANGED list
       ELSE /\ Continue([ui EXCEPT !.state = "ready", !.ref = call.of, !.scoped = call.of,
                                   !.thread = @ \cup {call.of}])
            /\ list' = Asked
    /\ UNCHANGED gone

LandClear(call) ==
    /\ call.kind = "clear"
    /\ Continue(IF call.outcome = "failed" THEN Failed(call)
                ELSE IF call.fresh
                THEN [Afresh(ui) EXCEPT !.listed = {}, !.reset = ui.reset]
                ELSE ui)
    /\ UNCHANGED <<list, gone>>

Deleted(call) ==
    LET shorter == [ui EXCEPT !.listed = @ \ {call.of}]
    IN  IF call.current THEN [Afresh(shorter) EXCEPT !.reset = ui.reset] ELSE shorter

LandDelete(call) ==
    /\ call.kind = "delete"
    /\ Continue(IF call.outcome = "failed" THEN Failed(call)
                ELSE IF call.fresh THEN Deleted(call) ELSE ui)
    /\ IF call.outcome = "ok" /\ call.by = me
       THEN list' = Idle /\ gone' = gone \cup {call.of}
       ELSE UNCHANGED <<list, gone>>

Land ==
    /\ queue # <<>> /\ queue[1].outcome # "none"
    /\ \/ LandAsk(queue[1])
       \/ LandClear(queue[1])
       \/ LandDelete(queue[1])
    /\ UNCHANGED <<me, owner, kept, get>>

LandList ==
    /\ list.at \in {"answered", "failed"}
    /\ ui' = IF list.at = "failed"
             THEN [ui EXCEPT !.state = "error"]
             ELSE [ui EXCEPT !.listed = list.sees]
    /\ list' = Idle
    /\ UNCHANGED <<me, owner, kept, queue, get, gone>>

LandGet ==
    /\ get.at \in {"answered", "failed"}
    /\ ui' = IF get.at = "failed" THEN [ui EXCEPT !.state = "error"]
             ELSE [ui EXCEPT !.state = "ready", !.thread = {get.of}, !.scoped = get.of,
                             !.split = FALSE]
    /\ get' = Idle
    /\ UNCHANGED <<me, owner, kept, queue, list, gone>>

Next ==
    \/ /\ clicks < MaxClicks /\ clicks' = clicks + 1
       /\ \/ Ask \/ Select \/ Retry \/ NewSession \/ DeleteSession \/ ClearSessions
          \/ Navigate(TRUE) \/ Navigate(FALSE) \/ SwitchUser
    \/ /\ UNCHANGED clicks
       /\ \/ Serve \/ ServeList \/ ServeGet
          \/ Land \/ LandList \/ LandGet

Spec == Init /\ [][Next]_vars

-----------------------------------------------------------------------------
TypeOK ==
    /\ clicks \in 0..MaxClicks
    /\ me \in User /\ owner \in Seq(User) /\ Len(owner) <= MaxSession
    /\ kept \subseteq DOMAIN owner /\ gone \subseteq DOMAIN owner
    /\ ui \in [here : BOOLEAN, state : {"empty", "loading", "ready", "error"},
               listed : SUBSET Session, thread : SUBSET Session,
               scoped : Session \cup {NoSession}, ref : Session \cup {NoSession},
               reset : BOOLEAN, split : BOOLEAN]
    /\ queue \in Seq([kind : {"ask", "delete", "clear"}, fresh : BOOLEAN,
                      by : User \cup {Nobody}, of : Session \cup {NoSession},
                      current : BOOLEAN, outcome : {"none", "ok", "failed"}])
    /\ Len(queue) <= MaxQueue
    /\ {list, get} \subseteq [at : {"idle", "asked", "answered", "failed"},
                              of : Session \cup {NoSession}, sees : SUBSET Session]

\* What the page lists, shows and would continue is of the user who is signed in,
\* although calls of an earlier user still end (useQa's identityRef and epochRef).
ShownIsMine ==
    \A s \in ui.listed \cup ui.thread \cup ({ui.ref, ui.scoped} \ {NoSession}) : owner[s] = me

\* A question is never sent under the login of another user than the one who asked
\* it (the epoch that runTask compares before it sends).
AskedByMe == \A i \in DOMAIN queue : queue[i].kind = "ask" => queue[i].by # Nobody

\* A list that will be believed never holds a conversation whose deletion was
\* acknowledged, whenever it was asked for (listEpochRef in deleteSession).
DeletedStayGone == list.sees \cap gone = {}

\* The thread is one conversation, and an answer goes to no other, unless an opening
\* or a clearing began over it and did not succeed (sessionIdRef is set at the click).
ThreadIsOne == Cardinality(ui.thread) <= 1 \/ ui.split
=============================================================================
